------------------------------ MODULE MapSheet ------------------------------
(***************************************************************************)
(* The map and the sheet of a spot (frontend/src: hooks/use-spot-claim,     *)
(* use-claim-attempt, use-review-mission, lib/visit-checkin.ts,            *)
(* components/map/SpotMarkers, SpotDetailSheet, ReviewMissionSection):     *)
(* answers arrive after the sheet they belong to was closed, the query of   *)
(* a marker is repeated without a tap, and the check-ins kept on the       *)
(* device are one map that every write loads, changes and stores again.    *)
(*                                                                         *)
(* External: the queries and mutations of the library (an answer also runs *)
(* its onSuccess when nobody watches it any more, a reset stops watching), *)
(* the storage of the device, which serves calls one at a time, and the    *)
(* server, as far as its answers go (Visits has what it does).             *)
(***************************************************************************)
EXTENDS Integers, FiniteSets

CONSTANTS
  Sites,      \* spots of the map
  MaxActs,    \* taps and other acts of the person
  MaxCalls    \* requests on their way at one time

NoSite == "no site"

ASSUME MapSheetAssumption == NoSite \notin Sites /\ {MaxActs, MaxCalls} \subseteq Nat

Owners == {"first", "second"}   \* who uses the device, one after the other
NoOwner == "nobody"
NoEntries == [s \in Sites |-> NoOwner]

VARIABLES
  holder,     \* the user of the device
  disk,       \* visit-checkin in the storage: whose check-in an entry is (the entry does not say)
  writes,     \* saves and clears of single entries under way
  windows,    \* the server's open visits
  checked,    \* history: who has checked in where
  leaked,     \* history: a check-in was still being written when its user left
  uncleared,  \* history: spots whose entry stayed when its user left, as clearing the device failed
  detail,      \* the spot of the sheet, and how often one was opened
  section,    \* the review section of the sheet
  attempt,    \* the claim mutation the sheet watches
  requests,     \* requests on their way
  query,      \* the marker's query: its spot, openSeq, whether there is something to show
  mounted,    \* markers in the viewport
  callout,    \* the marker whose callout is open
  wanted,     \* history: the marker tapped since a sheet was opened
  acts        \* acts left

mapVars == <<holder, disk, writes, windows, checked, leaked, uncleared, detail, section, attempt, requests, query,
             mounted, callout, wanted, acts>>
storage == <<disk, writes, leaked, uncleared>>
served == <<windows, checked>>
onMap == <<query, mounted, callout, wanted>>

NoSection == [loading |-> FALSE, in |-> FALSE, checkin |-> "idle", review |-> "idle"]
NoAttempt == [state |-> "idle", spot |-> NoSite, opening |-> 0]
NoQuery == [spot |-> NoSite, seq |-> 0, settled |-> FALSE, fetching |-> FALSE]

MapSheetInit ==
  /\ holder = "first" /\ disk = NoEntries /\ writes = {} /\ windows = {} /\ checked = {} /\ leaked = FALSE /\ uncleared = {}
  /\ detail = [spot |-> NoSite, opening |-> 0] /\ section = NoSection /\ attempt = NoAttempt /\ requests = {}
  /\ query = NoQuery /\ mounted = Sites /\ callout = NoSite /\ wanted = NoSite /\ acts = MaxActs

Acts == acts > 0 /\ acts' = acts - 1

-----------------------------------------------------------------------------
(* The markers.  A marker opens its callout when the openSeq it is given changes: not when *)
(* it is mounted, and not when a query nobody tapped for has ended.                        *)

OpenSeq(q, s) == IF q.spot = s /\ q.settled THEN q.seq ELSE 0
Opens(s) == s \in mounted /\ OpenSeq(query', s) \notin {0, OpenSeq(query, s)}
Draws(hidden) ==
  callout' = IF \E s \in Sites : Opens(s) THEN CHOOSE s \in Sites : Opens(s)
             ELSE IF hidden THEN NoSite ELSE callout

(* select: the same marker again is a refetch, and keeps what it has to show. *)
TapsMarker ==
  /\ Acts
  /\ \E s \in mounted :
       /\ wanted' = s
       /\ query' = [spot |-> s, seq |-> query.seq + 1, fetching |-> TRUE,
                    settled |-> query.spot = s /\ query.settled]
  /\ Draws(TRUE)
  /\ UNCHANGED <<holder, storage, served, detail, section, attempt, requests, mounted>>

SeqOfResult == query.seq + 1
SeqOfTap == query.seq
QueryEnds ==
  /\ query.fetching
  /\ query' = [query EXCEPT !.fetching = FALSE, !.settled = TRUE, !.seq = SeqOfTap]
  /\ Draws(FALSE)
  /\ UNCHANGED <<holder, storage, served, detail, section, attempt, requests, mounted, wanted, acts>>

Pans ==
  /\ Acts /\ mounted' \in SUBSET Sites /\ mounted' # mounted
  /\ callout' = IF callout \in mounted' THEN callout ELSE NoSite
  /\ UNCHANGED <<holder, storage, served, detail, section, attempt, requests, query, wanted>>

-----------------------------------------------------------------------------
(* The sheet.  Another spot resets what it watches and mounts a new review section, which   *)
(* asks the device; the same spot again changes nothing.                                   *)

Reset == NoAttempt
CalloutTapped ==
  /\ Acts /\ callout # NoSite
  /\ callout' = NoSite /\ wanted' = NoSite
  /\ IF detail.spot = callout THEN UNCHANGED <<detail, section, attempt>>
     ELSE /\ detail' = [spot |-> callout, opening |-> detail.opening + 1]
          /\ section' = [NoSection EXCEPT !.loading = TRUE]
          /\ attempt' = Reset
  /\ UNCHANGED <<holder, storage, served, requests, query, mounted>>

Dismissed == detail' = [detail EXCEPT !.spot = NoSite] /\ section' = NoSection /\ attempt' = Reset
Dismisses ==
  /\ Acts /\ detail.spot # NoSite /\ Dismissed
  /\ UNCHANGED <<holder, storage, served, requests, onMap>>

CheckinsLoaded ==
  /\ section.loading
  /\ section' = [section EXCEPT !.loading = FALSE, !.in = disk[detail.spot] # NoOwner]
  /\ UNCHANGED <<holder, storage, served, detail, attempt, requests, onMap, acts>>

Sends(kind) ==
  /\ Acts /\ detail.spot # NoSite /\ Cardinality(requests) < MaxCalls
  /\ requests' = requests \union {[kind |-> kind, spot |-> detail.spot, owner |-> holder, opening |-> detail.opening]}
  /\ UNCHANGED <<holder, storage, served, detail, onMap>>

Attempts ==
  /\ attempt.state # "pending" /\ Sends("claim")
  /\ attempt' = [state |-> "pending", spot |-> detail.spot, opening |-> detail.opening]
  /\ UNCHANGED section
ChecksIn ==
  /\ ~section.in /\ section.review # "done" /\ section.checkin # "pending" /\ Sends("checkin")
  /\ section' = [section EXCEPT !.checkin = "pending"] /\ UNCHANGED attempt
Reviews ==
  /\ section.in /\ section.review = "idle" /\ Sends("review")
  /\ section' = [section EXCEPT !.review = "pending"] /\ UNCHANGED attempt

-----------------------------------------------------------------------------
(* Answers.  Only a component that still watches shows them.                              *)

Watched(r) == detail.spot = r.spot /\ detail.opening = r.opening
Shown(r, what) == section' = IF Watched(r) THEN what ELSE section

(* A claim that succeeded has the query of its spot repeated. *)
ClaimAnswered(r, ok) ==
  /\ r.kind = "claim"
  /\ attempt' = IF attempt.state = "pending" /\ attempt.opening = r.opening
                  THEN [attempt EXCEPT !.state = IF ok THEN "succeeded" ELSE "failed"] ELSE attempt
  /\ query' = IF ok /\ query.spot = r.spot THEN [query EXCEPT !.fetching = TRUE] ELSE query
  /\ UNCHANGED <<storage, served, section>>

Writes(op, r) == writes' = writes \union {[op |-> op, spot |-> r.spot, owner |-> r.owner,
                                           loaded |-> FALSE, found |-> NoEntries]}
CheckinAnswered(r, ok) ==
  /\ r.kind = "checkin"
  /\ IF ok THEN /\ windows' = windows \union {<<r.owner, r.spot>>}
                /\ checked' = checked \union {<<r.owner, r.spot>>}
                /\ Writes("save", r) /\ leaked' = (leaked \/ r.owner # holder)
                /\ Shown(r, [section EXCEPT !.checkin = "done", !.in = TRUE])
     ELSE /\ UNCHANGED <<served, writes, leaked>>
          /\ Shown(r, [section EXCEPT !.checkin = "failed"])
  /\ UNCHANGED <<disk, uncleared, attempt, query>>

(* Without a visit the review is refused, and the device's entry was wrong. *)
ReviewAnswered(r, ok) ==
  /\ r.kind = "review"
  /\ ok => <<r.owner, r.spot>> \in windows
  /\ IF ok THEN UNCHANGED writes /\ Shown(r, [section EXCEPT !.review = "done"])
     ELSE IF <<r.owner, r.spot>> \in windows
       THEN UNCHANGED writes /\ Shown(r, [section EXCEPT !.review = "idle"])
       ELSE Writes("clear", r) /\ Shown(r, [section EXCEPT !.review = "idle", !.in = FALSE])
  /\ UNCHANGED <<disk, leaked, uncleared, served, attempt, query>>

Answered ==
  /\ \E r \in requests, ok \in BOOLEAN :
       /\ requests' = requests \ {r}
       /\ ClaimAnswered(r, ok) \/ CheckinAnswered(r, ok) \/ ReviewAnswered(r, ok)
  /\ UNCHANGED <<holder, detail, mounted, callout, wanted, acts>>

-----------------------------------------------------------------------------
(* The storage: loadAll, then saveAll of what was loaded and changed.                     *)

Loads ==
  /\ \E w \in writes : /\ ~w.loaded
                       /\ writes' = (writes \ {w}) \union {[w EXCEPT !.loaded = TRUE, !.found = disk]}
  /\ UNCHANGED <<holder, disk, leaked, uncleared, served, detail, section, attempt, requests, onMap, acts>>

Stores ==
  /\ \E w \in writes :
       /\ w.loaded /\ writes' = writes \ {w}
       /\ disk' = [w.found EXCEPT ![w.spot] = IF w.op = "save" THEN w.owner ELSE NoOwner]
  /\ UNCHANGED <<holder, leaked, uncleared, served, detail, section, attempt, requests, onMap, acts>>

(* Either call of the storage fails; nobody waits for the write.                           *)
WriteFails ==
  /\ \E w \in writes : writes' = writes \ {w}
  /\ UNCHANGED <<holder, disk, leaked, uncleared, served, detail, section, attempt, requests, onMap, acts>>

(* 24 hours, for the server and for the device. *)
Lapses ==
  /\ \/ \E v \in windows : windows' = windows \ {v} /\ UNCHANGED disk
     \/ \E s \in Sites : disk[s] # NoOwner /\ disk' = [disk EXCEPT ![s] = NoOwner] /\ UNCHANGED windows
  /\ UNCHANGED <<holder, writes, leaked, uncleared, checked, detail, section, attempt, requests, onMap, acts>>

(* Another user signs in on the device: AuthProvider has the whole map removed, and goes on *)
(* where that fails; the screens were left on the way.                                      *)
KeepAll == disk
ClearAll == NoEntries
SwitchesUser ==
  /\ holder = "first" /\ holder' = "second"
  /\ \/ disk' = ClearAll /\ UNCHANGED uncleared
     \/ uncleared' = {s \in Sites : disk[s] # NoOwner} /\ UNCHANGED disk
  /\ leaked' = (leaked \/ writes # {})
  /\ Dismissed /\ query' = NoQuery /\ callout' = NoSite /\ wanted' = NoSite
  /\ UNCHANGED <<writes, served, requests, mounted, acts>>

MapSheetNext ==
  \/ TapsMarker \/ QueryEnds \/ Pans \/ CalloutTapped \/ Dismisses \/ CheckinsLoaded
  \/ Attempts \/ ChecksIn \/ Reviews \/ Answered \/ Loads \/ Stores \/ WriteFails \/ Lapses \/ SwitchesUser

MapSheetSpec == MapSheetInit /\ [][MapSheetNext]_mapVars

-----------------------------------------------------------------------------
MapSheetTypeOK ==
  /\ holder \in Owners /\ disk \in [Sites -> Owners \union {NoOwner}] /\ windows \subseteq checked
  /\ checked \subseteq Owners \X Sites /\ mounted \union uncleared \subseteq Sites
  /\ {detail.spot, callout, wanted, query.spot, attempt.spot} \subseteq Sites \union {NoSite}
  /\ attempt.state \in {"idle", "pending", "succeeded", "failed"}
  /\ section.review \in {"idle", "pending", "done"}
  /\ {leaked, section.loading, section.in, query.settled, query.fetching} \subseteq BOOLEAN
  /\ Cardinality(requests) <= MaxCalls /\ acts \in 0..MaxActs

(* A callout opens for a tap only, and never over the sheet that a tap on it has opened:   *)
(* no query that a claim repeats opens it (the app would crash, SpotMarkers.tsx).         *)
CalloutIsWanted == callout # NoSite => callout = wanted /\ callout \in mounted

(* The result the sheet shows is of an attempt made since it was opened on this spot.      *)
FeedbackIsOfNow ==
  attempt.state \in {"succeeded", "failed"} /\ attempt.spot = detail.spot => attempt.opening = detail.opening

(* The review form is offered to who has checked in here.  Excepted are a check-in that    *)
(* was still being written when its user left, and one the device kept at the change of   *)
(* users because clearing it failed, which AuthProvider lets pass: these reach the next   *)
(* user of the device.                                                                    *)
NoInheritedVisit == section.in => <<holder, detail.spot>> \in checked \/ leaked \/ detail.spot \in uncleared

(* The three together: what the map shows is of the tap, the opening and the user it was  *)
(* asked for, in whatever order answers arrive.                                           *)
SheetIsOfThisVisit == CalloutIsWanted /\ FeedbackIsOfNow /\ NoInheritedVisit
=============================================================================
