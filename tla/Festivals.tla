----------------------------- MODULE Festivals ------------------------------
(***************************************************************************)
(* The daily synchronisation of festivals with a public API (festivals/    *)
(* festivals.service.ts): page after page is fetched, what is not of Busan *)
(* or not usable is dropped, the rest is upserted, and at the end festivals*)
(* that are over and were not in the response are deleted.                 *)
(*                                                                         *)
(* A job that takes too long is given up but not stopped, so that its      *)
(* retry runs beside it.  The API may answer anything from one call to the *)
(* next.  Of the columns of a row two stand for all: the coordinates, and  *)
(* the district, which has codes of two systems.                           *)
(*                                                                         *)
(* The same table is first filled, and may be filled again, from a file    *)
(* (backend/scripts/seed-festivals-csv.ts), which never deletes.           *)
(***************************************************************************)
EXTENDS Integers, FiniteSets, Sequences, Functions

CONSTANTS
  Items,      \* what the API may have on a page
  Syncs,      \* runs of the synchronisation
  PageSize,   \* NUM_OF_ROWS
  MaxPages,   \* pages it may claim to have
  CsvRows,    \* rows the file of the seed may have
  MaxRows,    \* rows of one file
  LastDay

Unknown == "null"

(* The key of a row of the file is that of the API only for rows that come from it.       *)
ContentIdOf(r) == IF r.source = "kto_festival" THEN r.id ELSE r.source \o ":" \o r.id
ContentIds == {i.contentId : i \in Items} \union {ContentIdOf(r) : r \in CsvRows}

(* An item: its key, or none; whether title and dates are there, and the last day; what   *)
(* each field says of the region; what the fields say of the district.                    *)
ASSUME FestivalsAssumption ==
  /\ Items \subseteq [contentId : STRING, dated : BOOLEAN, end : Nat, coords : {Unknown, "point"},
                      regnCd : {Unknown, "26", "11"}, areacode : {Unknown, "6", "1"},
                      addr1 : {Unknown, "busan", "seoul"},
                      sigungucode : {Unknown, "kto", "ldong"}, signguCd : {Unknown, "known", "new"}]
  /\ CsvRows \subseteq [source : STRING, id : STRING, dated : BOOLEAN, end : Nat, coords : {Unknown, "point"},
                        code : {Unknown, "number", "name", "other"}]
  /\ PageSize \in Nat \ {0} /\ {MaxPages, MaxRows} \subseteq Nat \ {0} /\ LastDay \in Nat

VARIABLES
  festival,    \* rows of festivals by key; those that are not there are Missing
  sync,       \* runs; `got` is history: all keys of a run's responses that could be used
  festDay,    \* the KST day
  known,      \* history: columns of a stored row that some response has filled
  dropped     \* history: which run has deleted which key since it was last upserted

festivalsVars == <<festival, sync, festDay, known, dropped>>

NoFestival == [coords |-> Unknown, end |-> -1, areacode |-> Unknown, sigungucode |-> Unknown]
Columns == {"coords", "areacode", "sigungucode"}
Filled(r) == {f \in Columns : r[f] # Unknown}
Unstarted == [phase |-> "idle", page |-> 1, pages |-> 1, rows |-> <<>>, ids |-> {}, got |-> {}]
RowExists(c) == festival[c] # NoFestival

FestivalsInit ==
  /\ festival = [c \in ContentIds |-> NoFestival]
  /\ sync = [s \in Syncs |-> Unstarted] /\ festDay = 0
  /\ known = [c \in ContentIds |-> {}] /\ dropped = {}

-----------------------------------------------------------------------------
(* What is read from an item. *)

(* The most authoritative field that is there decides alone. *)
RegionOf(i) ==
  CASE i.regnCd # Unknown -> IF i.regnCd = "26" THEN "busan" ELSE "other"
    [] i.regnCd = Unknown /\ i.areacode # Unknown -> IF i.areacode = "6" THEN "busan" ELSE "other"
    [] i.regnCd = Unknown /\ i.areacode = Unknown /\ i.addr1 # Unknown ->
         IF i.addr1 = "busan" THEN "busan" ELSE "other"
    [] OTHER -> "unknown"

(* The district only of what is known to be in Busan: the code of the API when it is of   *)
(* the right system, else that of the legal district if the table has it, else the one in *)
(* the address.                                                                           *)
OwnCode(i) == IF i.sigungucode = "kto" THEN "kto" ELSE Unknown
District(i) ==
  CASE RegionOf(i) # "busan" -> Unknown
    [] RegionOf(i) = "busan" /\ OwnCode(i) # Unknown -> OwnCode(i)
    [] OTHER -> IF i.signguCd = "known" \/ i.addr1 = "busan" THEN "kto" ELSE Unknown

Usable(i) == i.contentId # "" /\ i.dated /\ RegionOf(i) # "other"
RowOf(i) == [coords |-> i.coords, end |-> i.end, sigungucode |-> District(i),
             areacode |-> IF RegionOf(i) = "busan" THEN "6" ELSE Unknown]

-----------------------------------------------------------------------------
(* syncFromApi. *)

(* What is left of a page when the rest is dropped: any usable items in any order, since  *)
(* the API may answer anything.                                                           *)
UsableItems == {i \in Items : Usable(i)}
Responses == UNION {[1..n -> UsableItems] : n \in 0..PageSize}
KeysOf(rows) == {rows[j].contentId : j \in DOMAIN rows}

(* The first page comes with the number of all; one that is no number counts as a page.   *)
FetchFirst(s) ==
  /\ sync[s].phase = "idle"
  /\ \E n \in 1..MaxPages, rows \in Responses :
       sync' = [sync EXCEPT ![s] = [Unstarted EXCEPT !.phase = "upsert", !.pages = n, !.rows = rows,
                                                     !.ids = KeysOf(rows), !.got = KeysOf(rows)]]
  /\ UNCHANGED <<festival, festDay, known, dropped>>

(* Keys gather over all pages: the deletion at the end spares every one of them. *)
OfThisPage(s, ids) == ids
Gathered(s, ids) == sync[s].ids \union ids
FetchNext(s) ==
  /\ sync[s].phase = "fetch"
  /\ \E rows \in Responses :
       sync' = [sync EXCEPT ![s].phase = "upsert", ![s].ids = Gathered(s, KeysOf(rows)),
                            ![s].got = @ \union KeysOf(rows), ![s].rows = rows]
  /\ UNCHANGED <<festival, festDay, known, dropped>>

(* upsertBatch: of rows with one key the last; a field that the API leaves out keeps its  *)
(* value, in every column by itself.                                                      *)
Coalesced(old, new) == IF new = Unknown THEN old ELSE new
LastOf(rows, c) == LET j == CHOOSE j \in DOMAIN rows : /\ rows[j].contentId = c
                                                       /\ \A k \in j + 1..Len(rows) : rows[k].contentId # c
                   IN  rows[j]
Filling(c, new) ==
  [coords |-> Coalesced(festival[c].coords, new.coords), end |-> new.end,
   areacode |-> Coalesced(festival[c].areacode, new.areacode),
   sigungucode |-> Coalesced(festival[c].sigungucode, new.sigungucode)]
Upserted(rows) ==
  [c \in ContentIds |-> IF c \in KeysOf(rows) THEN Filling(c, RowOf(LastOf(rows, c))) ELSE festival[c]]

UpsertBatch(s) ==
  /\ sync[s].phase = "upsert"
  /\ festival' = Upserted(sync[s].rows)
  /\ LET keys == KeysOf(sync[s].rows)
     IN  /\ known' = [c \in ContentIds |-> IF c \in keys THEN known[c] \union Filled(RowOf(LastOf(sync[s].rows, c)))
                                                         ELSE known[c]]
         /\ dropped' = dropped \ (Syncs \X keys)
  /\ sync' = [sync EXCEPT ![s].rows = <<>>, ![s].page = @ + 1,
                ![s].phase = IF sync[s].page < sync[s].pages THEN "fetch" ELSE "delete"]
  /\ UNCHANGED festDay

(* Nothing is deleted when nothing was synchronised. *)
Over(c) == RowExists(c) /\ festival[c].end < festDay
DeleteOver(s) ==
  /\ sync[s].phase = "delete"
  /\ LET gone == IF sync[s].ids = {} THEN {} ELSE {c \in ContentIds \ sync[s].ids : Over(c)}
     IN  /\ festival' = [c \in ContentIds |-> IF c \in gone THEN NoFestival ELSE festival[c]]
         /\ known' = [c \in ContentIds |-> IF c \in gone THEN {} ELSE known[c]]
         /\ dropped' = dropped \union ({s} \X gone)
  /\ sync' = [sync EXCEPT ![s].phase = "done"]
  /\ UNCHANGED festDay

(* A page or a statement fails, and the run with it: the job tries again, as another run. *)
SyncFails(s) ==
  /\ sync[s].phase \in {"fetch", "upsert", "delete"}
  /\ sync' = [sync EXCEPT ![s] = [Unstarted EXCEPT !.phase = "failed"]]
  /\ UNCHANGED <<festival, festDay, known, dropped>>

-----------------------------------------------------------------------------
(* The seed: rows without key, title or dates are skipped, so that a file is what is left *)
(* of it; two rows of one key refuse the file, as does one without a row to store; all    *)
(* rows go in with one commit.                                                            *)

Seedable(r) == r.id # "" /\ r.dated
Files == UNION {[1..n -> {r \in CsvRows : Seedable(r)}] : n \in 0..MaxRows}
NormalizedCode(r) == IF r.code \in {"number", "name"} THEN "kto" ELSE Unknown
SeedRow(r) == [coords |-> r.coords, end |-> r.end, areacode |-> "6", sigungucode |-> NormalizedCode(r)]
Distinct(rows) == \A j, k \in DOMAIN rows : ContentIdOf(rows[j]) = ContentIdOf(rows[k]) => j = k

Seed ==
  /\ \E rows \in Files :
       LET keys == {ContentIdOf(rows[j]) : j \in DOMAIN rows}
           Of(c) == SeedRow(rows[CHOOSE j \in DOMAIN rows : ContentIdOf(rows[j]) = c])
       IN  /\ rows # <<>> /\ Distinct(rows)
           /\ festival' = [c \in ContentIds |-> IF c \in keys THEN Filling(c, Of(c)) ELSE festival[c]]
           /\ known' = [c \in ContentIds |-> IF c \in keys THEN known[c] \union Filled(Of(c)) ELSE known[c]]
           /\ dropped' = dropped \ (Syncs \X keys)
  /\ UNCHANGED <<sync, festDay>>

DayPasses ==
  /\ festDay < LastDay
  /\ festDay' = festDay + 1
  /\ UNCHANGED <<festival, sync, known, dropped>>

FestivalsNext ==
  \/ \E s \in Syncs : \/ FetchFirst(s) \/ FetchNext(s) \/ UpsertBatch(s) \/ DeleteOver(s) \/ SyncFails(s)
  \/ Seed \/ DayPasses

FestivalsSpec == FestivalsInit /\ [][FestivalsNext]_festivalsVars

-----------------------------------------------------------------------------
FestivalsTypeOK ==
  /\ festDay \in 0..LastDay /\ known \in [ContentIds -> SUBSET Columns] /\ dropped \subseteq Syncs \X ContentIds
  /\ festival \in [ContentIds -> [coords : {Unknown, "point"}, end : Nat \union {-1},
                                 areacode : {Unknown, "6"}, sigungucode : {Unknown, "kto", "ldong"}]]
  /\ \A s \in Syncs :
       /\ sync[s].phase \in {"idle", "fetch", "upsert", "delete", "done", "failed"}
       /\ sync[s].page \in 1..MaxPages + 1 /\ sync[s].pages \in 1..MaxPages
       /\ Range(sync[s].rows) \subseteq UsableItems /\ (sync[s].ids \union sync[s].got) \subseteq ContentIds

(* A run that has finished has kept all it got from any page, whatever it deleted: only   *)
(* another run beside it can have deleted one of them, and only one that was over.  What  *)
(* any response or file has told of a stored festival stays known, however incomplete the *)
(* later ones are.  Districts are in one system of codes, and only festivals of Busan have one. *)
FestivalsAreKept ==
  /\ \A s \in Syncs : sync[s].phase = "done" =>
       \A c \in sync[s].got : RowExists(c) \/ \E o \in Syncs \ {s} : <<o, c>> \in dropped
  /\ \A c \in ContentIds : RowExists(c) => known[c] \subseteq Filled(festival[c])
  /\ \A c \in ContentIds : festival[c].sigungucode # Unknown
                           => festival[c].sigungucode = "kto" /\ festival[c].areacode = "6"
=============================================================================
