------------------------------ MODULE Presence ------------------------------
(***************************************************************************)
(* Who is connected and where (realtime/realtime.gateway.ts up to the duel *)
(* handlers, common/ws, the geo, meta and notification keys of             *)
(* common/redis/redis.service.ts), the stored notifications, encounters,   *)
(* and account deletion as far as it touches these (account/               *)
(* account.service.ts).                                                    *)
(*                                                                         *)
(* One user is followed, on several devices; the others are only there to  *)
(* be met.  A Redis command takes effect when it is sent, since all go     *)
(* through one connection; its answer may come later or not at all.        *)
(***************************************************************************)
EXTENDS Integers, FiniteSets, Sequences, Functions

CONSTANTS
  Sockets,      \* connections of the user, each of which is made once
  Opponents,    \* users of other teams he may meet
  Notices,      \* notifications that other components send him
  QueueMax,     \* NOTIFICATION_MAX
  MaxTroubles   \* failing calls, broken networks, lapses, crashes

Nobody == "nobody"

ASSUME PresenceAssumption ==
  /\ Nobody \notin Sockets /\ QueueMax \in Nat \ {0} /\ MaxTroubles \in Nat

VARIABLES
  scene,      \* bound: whether this behaviour has notices or meetings
  account,    \* the row of users exists
  leaving,    \* how far the deletion of the account is
  sock,       \* connections, as the server sees them
  geo,        \* the position: "none", "fresh", or "stale" after GEO_STALE_TTL without a new one
  meta,       \* the socket of the meta key, or Nobody
  prune,      \* the clean-up job has found the position stale and not yet removed it
  queue,      \* stored notifications
  notice,     \* notifications on their way
  meeting,    \* update handlers that have found opponents
  cooldown,   \* opponents with whom the encounter key exists
  troubles,   \* troubles left
  newest,     \* history: the socket that was the last to send a position
  excused,    \* history: notices lost in a way that is allowed for
  met,        \* history: opponents told of the encounter the key stands for
  untold,     \* history: opponents whose key stands although the handler ended before they were
  blind,      \* history: an entry that was refreshed after a check was removed on that check
  straggler   \* history: a handshake ended after the user's sockets had been disconnected

presenceVars == <<scene, account, leaving, sock, geo, meta, prune, queue, notice, meeting, cooldown,
                  troubles, newest, excused, met, untold, blind, straggler>>

Offline == [phase |-> "away", replay |-> {}, saw |-> Nobody]

PresenceInit ==
  /\ scene \in {"notices", "meetings"} /\ account = TRUE /\ leaving = "no" /\ geo = "none" /\ meta = Nobody /\ prune = FALSE
  /\ sock = [s \in Sockets |-> Offline] /\ queue = <<>>
  /\ notice = [n \in Notices |-> [phase |-> "new", to |-> Nobody]]
  /\ meeting = [s \in Sockets |-> [phase |-> "idle", with |-> {}]]
  /\ cooldown = {} /\ troubles = MaxTroubles
  /\ newest = Nobody /\ excused = {} /\ met = {} /\ untold = {} /\ blind = FALSE /\ straggler = FALSE

Trouble == troubles > 0 /\ troubles' = troubles - 1
Moves(s, p) == sock' = [sock EXCEPT ![s].phase = p]
(* `dead` is a connection whose network is gone while the server still waits for a ping. *)
Connected(s) == sock[s].phase \in {"open", "dead"}
(* geoRemove: the position and what is known of it go in one MULTI. *)
GeoRemove == geo' = "none" /\ meta' = Nobody /\ newest' = Nobody

whereabouts == <<geo, meta, prune, newest, blind>>
notices == <<queue, notice, excused>>
encounters == <<meeting, cooldown, met, untold>>
person == <<scene, account, leaving, straggler>>

-----------------------------------------------------------------------------
(* The handshake: the row is read, then the socket joins the user's room and is connected.*)

Handshake(s) ==
  /\ sock[s].phase = "away" /\ account
  /\ Moves(s, "shaking")
  /\ UNCHANGED <<person, whereabouts, notices, encounters, troubles>>

(* handleConnection reads and empties the queue in one MULTI.  When that fails the        *)
(* connection stays; when only its answer is lost, so is what was in the queue.           *)
Connect(s) ==
  /\ sock[s].phase = "shaking"
  /\ \/ /\ sock' = [sock EXCEPT ![s].phase = "open", ![s].replay = Range(queue)]
        /\ queue' = <<>> /\ UNCHANGED <<troubles, excused>>
     \/ Trouble /\ Moves(s, "open") /\ UNCHANGED <<queue, excused>>
     \/ /\ Trouble /\ Moves(s, "open")
        /\ queue' = <<>> /\ excused' = excused \union Range(queue)
  /\ straggler' = (straggler \/ leaving \in {"purge", "done", "failed"})
  /\ UNCHANGED <<scene, account, leaving, whereabouts, notice, encounters>>

(* What was drained is sent; to a connection that is gone by then it is lost. *)
AfterReplay(q) == q
Replay(s) ==
  /\ sock[s].replay # {}
  /\ sock' = [sock EXCEPT ![s].replay = {}]
  /\ notice' = [n \in Notices |-> IF n \in sock[s].replay /\ sock[s].phase = "open"
                                    THEN [notice[n] EXCEPT !.phase = "told"] ELSE notice[n]]
  /\ excused' = IF sock[s].phase = "open" THEN excused ELSE excused \union sock[s].replay
  /\ queue' = AfterReplay(queue)
  /\ UNCHANGED <<person, whereabouts, encounters, troubles>>

NetworkBreaks(s) ==
  /\ sock[s].phase = "open" /\ Trouble
  /\ Moves(s, "dead")
  /\ UNCHANGED <<person, whereabouts, notices, encounters>>

(* The ping times out, or the client leaves.  handleDisconnect reads the meta key at once.*)
Disconnect(s) ==
  /\ Connected(s)
  /\ sock' = [sock EXCEPT ![s].phase = "left", ![s].saw = meta]
  /\ UNCHANGED <<person, whereabouts, notices, encounters, troubles>>

(* Another device that came later keeps its entry: only the socket of the meta key, or    *)
(* one that finds no meta key, removes it.                                                *)
OwnMeta(s) == sock[s].saw \in {s, Nobody}
AfterDisconnect(s) ==
  /\ sock[s].phase = "left"
  /\ Moves(s, "gone")
  /\ \/ /\ OwnMeta(s)
        /\ geo' = "none" /\ meta' = Nobody
        /\ blind' = (blind \/ (sock[s].saw # meta /\ meta # Nobody))
        /\ UNCHANGED troubles
     \/ ~OwnMeta(s) /\ UNCHANGED <<geo, meta, blind, troubles>>
     \/ Trouble /\ UNCHANGED <<geo, meta, blind>>
  /\ UNCHANGED <<person, prune, newest, notices, encounters>>

-----------------------------------------------------------------------------
(* location:update: position and meta key, opponents nearby, encounters. *)

(* The handler stores the position under the id of its socket and looks who is around. *)
UpdateLocation(s) ==
  /\ sock[s].phase = "open" /\ meeting[s].phase = "idle"
  /\ geo' = "fresh" /\ meta' = s /\ newest' = s
  /\ blind' = FALSE
  /\ \E found \in IF scene = "meetings" THEN SUBSET Opponents ELSE {{}} :
       meeting' = IF found = {} THEN meeting
                  ELSE [meeting EXCEPT ![s] = [phase |-> "claim", with |-> found]]
  /\ UNCHANGED <<person, sock, prune, notices, cooldown, met, untold, troubles>>

(* The keys of all pairs are asked for together; whoever gets a new one is encountered. *)
ClaimEncounters(s) ==
  /\ meeting[s].phase = "claim"
  /\ LET new == meeting[s].with \ cooldown
     IN  /\ cooldown' = cooldown \union new
         /\ meeting' = [meeting EXCEPT ![s] =
              IF new = {} THEN [phase |-> "idle", with |-> {}] ELSE [phase |-> "look", with |-> new]]
  /\ UNCHANGED <<person, sock, whereabouts, notices, met, untold, troubles>>

(* One of them throws: the handler ends, and the keys the others got stay. *)
ClaimFails(s) ==
  /\ meeting[s].phase = "claim" /\ Trouble
  /\ \E some \in SUBSET (meeting[s].with \ cooldown) :
       cooldown' = cooldown \union some /\ untold' = untold \union some
  /\ meeting' = [meeting EXCEPT ![s] = [phase |-> "idle", with |-> {}]]
  /\ UNCHANGED <<person, sock, whereabouts, notices, met>>

(* Names and shields are only for display: if they cannot be read the notices go without. *)
LookUp(s) ==
  /\ meeting[s].phase = "look"
  /\ meeting' = [meeting EXCEPT ![s].phase = "tell"]
  /\ UNCHANGED <<person, sock, whereabouts, notices, cooldown, met, untold, troubles>>

GivesUp(s) == [phase |-> "idle", with |-> {}]
GoesOn(s) == [phase |-> "tell", with |-> meeting[s].with]
LookUpFails(s) ==
  /\ meeting[s].phase = "look" /\ Trouble
  /\ meeting' = [meeting EXCEPT ![s] = GoesOn(s)]
  /\ UNCHANGED <<person, sock, whereabouts, notices, cooldown, met, untold>>

(* encounter:detected goes to this socket and, through notifyUser, to every opponent.     *)
(* Where that throws the handler fails after the others have had theirs; the key stays.   *)
TellEncounters(s) ==
  /\ meeting[s].phase = "tell"
  /\ \E failing \in SUBSET meeting[s].with :
       /\ IF failing = {} THEN UNCHANGED troubles ELSE Trouble
       /\ met' = met \union (meeting[s].with \ failing) /\ untold' = untold \union failing
  /\ meeting' = [meeting EXCEPT ![s] = [phase |-> "idle", with |-> {}]]
  /\ UNCHANGED <<person, sock, whereabouts, notices, cooldown>>

(* A minute outlasts the handler that took the key. *)
CooldownLapses(o) ==
  /\ o \in cooldown
  /\ \A s \in Sockets : meeting[s].phase \in {"look", "tell"} => o \notin meeting[s].with
  /\ cooldown' = cooldown \ {o} /\ met' = met \ {o} /\ untold' = untold \ {o}
  /\ UNCHANGED <<person, sock, whereabouts, notices, meeting, troubles>>

-----------------------------------------------------------------------------
(* notifyUser: to the live socket of the meta key, and otherwise into the queue. *)

Notify(n) ==
  /\ notice[n].phase = "new" /\ scene = "notices"
  /\ notice' = [notice EXCEPT ![n] = [phase |-> "looked", to |-> meta]]
  /\ UNCHANGED <<person, sock, whereabouts, queue, excused, encounters, troubles>>

Untrimmed(q) == q
Trimmed(q) == IF Len(q) > QueueMax THEN Tail(q) ELSE q
Deliver(n) ==
  /\ notice[n].phase = "looked"
  /\ LET s == notice[n].to
     IN  IF s # Nobody /\ Connected(s)
           THEN /\ notice' = [notice EXCEPT ![n].phase = IF sock[s].phase = "open" THEN "told" ELSE "sent"]
                /\ excused' = IF sock[s].phase = "open" THEN excused ELSE excused \union {n}
                /\ UNCHANGED queue
           ELSE /\ notice' = [notice EXCEPT ![n].phase = "sent"]
                /\ queue' = Trimmed(Append(queue, n))
                /\ excused' = excused \union (Range(queue) \ Range(queue'))
  /\ UNCHANGED <<person, sock, whereabouts, encounters, troubles>>

(* Redis fails in between: the caller logs it and goes on. *)
NotifyFails(n) ==
  /\ notice[n].phase \in {"new", "looked"} /\ Trouble
  /\ notice' = [notice EXCEPT ![n].phase = "sent"]
  /\ excused' = excused \union {n}
  /\ UNCHANGED <<person, sock, whereabouts, queue, encounters>>

QueueLapses ==
  /\ queue # <<>> /\ Trouble
  /\ queue' = <<>> /\ excused' = excused \union Range(queue)
  /\ UNCHANGED <<person, sock, whereabouts, notice, encounters>>

-----------------------------------------------------------------------------
(* The meta key lapses two minutes after the last position, the position itself is pruned *)
(* by a job once it is ten minutes old.                                                   *)

MetaLapses ==
  /\ meta # Nobody /\ Trouble
  /\ meta' = Nobody /\ geo' = "stale" /\ newest' = Nobody
  /\ UNCHANGED <<person, sock, prune, blind, notices, encounters>>

PruneRead ==
  /\ ~prune /\ geo = "stale"
  /\ prune' = TRUE
  /\ UNCHANGED <<person, sock, geo, meta, newest, blind, notices, encounters, troubles>>

PruneRemove ==
  /\ prune
  /\ prune' = FALSE /\ geo' = "none"
  /\ blind' = (blind \/ geo = "fresh")
  /\ UNCHANGED <<person, sock, meta, newest, notices, encounters, troubles>>

-----------------------------------------------------------------------------
(* deleteAccount. *)

(* The user is taken off the map first, which may fail quietly. *)
Hide ==
  /\ leaving = "no" /\ account
  /\ leaving' = "hidden"
  /\ \/ GeoRemove /\ UNCHANGED troubles
     \/ Trouble /\ UNCHANGED <<geo, meta, newest>>
  /\ UNCHANGED <<scene, account, straggler, sock, prune, blind, notices, encounters>>

(* The transaction, or its failure, after which the account lives on. *)
DeleteRow ==
  /\ leaving = "hidden"
  /\ \/ account' = FALSE /\ leaving' = "settle" /\ UNCHANGED troubles
     \/ Trouble /\ leaving' = "no" /\ UNCHANGED account
  /\ UNCHANGED <<scene, straggler, sock, whereabouts, notices, encounters>>

(* After the duels are settled all sockets in the user's room are disconnected, and then  *)
(* the keys are deleted, so that no update brings back what was removed.                  *)
PurgeFirst == [settle |-> "purge", disconnect |-> "done", purge |-> "disconnect"]
After == [settle |-> "disconnect", disconnect |-> "purge", purge |-> "done"]

SettleDuels ==
  /\ leaving = "settle"
  /\ leaving' = After.settle
  /\ UNCHANGED <<scene, account, straggler, sock, whereabouts, notices, encounters, troubles>>

DisconnectUser ==
  /\ leaving = "disconnect"
  /\ leaving' = After.disconnect
  /\ sock' = [s \in Sockets |-> IF Connected(s) THEN [sock[s] EXCEPT !.phase = "left", !.saw = meta]
                                ELSE sock[s]]
  /\ UNCHANGED <<scene, account, straggler, whereabouts, notices, encounters, troubles>>

PurgeKeys ==
  /\ leaving = "purge"
  /\ \/ /\ leaving' = After.purge
        /\ GeoRemove
        /\ queue' = <<>> /\ excused' = excused \union Range(queue)
        /\ cooldown' = {} /\ met' = {} /\ untold' = {}
        /\ UNCHANGED troubles
     \/ Trouble /\ leaving' = "failed"
        /\ UNCHANGED <<geo, meta, newest, queue, excused, cooldown, met, untold>>
  /\ UNCHANGED <<scene, account, straggler, sock, prune, blind, notice, meeting>>

(* The process dies: connections and handlers are gone, Redis and the database are not. *)
Restart ==
  /\ Trouble
  /\ sock' = [s \in Sockets |-> IF sock[s].phase = "away" THEN Offline
                                ELSE [Offline EXCEPT !.phase = "gone"]]
  /\ excused' = excused \union (UNION {sock[s].replay : s \in Sockets})
                        \union {n \in Notices : notice[n].phase = "looked"}
  /\ notice' = [n \in Notices |-> IF notice[n].phase = "looked" THEN [notice[n] EXCEPT !.phase = "sent"]
                                  ELSE notice[n]]
  /\ untold' = untold \union UNION {meeting[s].with : s \in {t \in Sockets : meeting[t].phase # "claim"}}
  /\ meeting' = [s \in Sockets |-> [phase |-> "idle", with |-> {}]]
  /\ prune' = FALSE
  /\ leaving' = CASE leaving = "hidden" -> "no"
                  [] leaving \in {"settle", "disconnect", "purge"} -> "failed"
                  [] OTHER -> leaving
  /\ UNCHANGED <<scene, account, straggler, geo, meta, newest, blind, queue, cooldown, met>>

PresenceNext ==
  \/ \E s \in Sockets : \/ Handshake(s) \/ Connect(s) \/ Replay(s)
                        \/ NetworkBreaks(s) \/ Disconnect(s) \/ AfterDisconnect(s)
                        \/ UpdateLocation(s) \/ ClaimEncounters(s) \/ ClaimFails(s)
                        \/ LookUp(s) \/ LookUpFails(s) \/ TellEncounters(s)
  \/ \E o \in Opponents : CooldownLapses(o)
  \/ \E n \in Notices : Notify(n) \/ Deliver(n) \/ NotifyFails(n)
  \/ QueueLapses \/ MetaLapses \/ PruneRead \/ PruneRemove
  \/ Hide \/ DeleteRow \/ SettleDuels \/ DisconnectUser \/ PurgeKeys \/ Restart

PresenceSpec == PresenceInit /\ [][PresenceNext]_presenceVars

-----------------------------------------------------------------------------
PresenceTypeOK ==
  /\ scene \in {"notices", "meetings"} /\ account \in BOOLEAN /\ {prune, blind, straggler} \subseteq BOOLEAN
  /\ leaving \in {"no", "hidden", "settle", "disconnect", "purge", "failed", "done"}
  /\ sock \in [Sockets -> [phase : {"away", "shaking", "open", "dead", "left", "gone"},
                           replay : SUBSET Notices, saw : Sockets \union {Nobody}]]
  /\ geo \in {"none", "fresh", "stale"} /\ {meta, newest} \subseteq Sockets \union {Nobody}
  /\ queue \in Seq(Notices) /\ Len(queue) <= QueueMax
  /\ notice \in [Notices -> [phase : {"new", "looked", "told", "sent"}, to : Sockets \union {Nobody}]]
  /\ meeting \in [Sockets -> [phase : {"idle", "claim", "look", "tell"}, with : SUBSET Opponents]]
  /\ cooldown \subseteq Opponents /\ met \union untold \subseteq Opponents /\ excused \subseteq Notices
  /\ troubles \in 0..MaxTroubles

(* After the deletion of the account is complete the user is on no map: no socket that    *)
(* was connected before it writes his keys again.  Excepted is a handshake that read the  *)
(* row before the deletion and ended after it.                                            *)
GoneLeavesNoTrace ==
  leaving = "done" /\ ~straggler => geo = "none" /\ meta = Nobody

(* The device that was the last to send a position stays on the map while it is           *)
(* connected, whatever other devices of the user disconnect.  Excepted is an entry that   *)
(* was refreshed between somebody's check and the removal that followed.                  *)
NewerSocketStays ==
  newest # Nobody /\ Connected(newest) /\ ~blind => meta = newest /\ geo = "fresh"

(* The map shows who is there: nobody who has gone, and everybody who still reports.      *)
MapShowsWhoIsThere == GoneLeavesNoTrace /\ NewerSocketStays

(* A notification is in one place: on its way, in the queue, drained for one connection,  *)
(* shown to the user, or lost for a known reason.  None vanishes and none comes twice.    *)
EveryNoticeAccountedFor ==
  \A n \in Notices :
    LET places == {p \in {"queue", "told", "excused", "way"} :
                     CASE p = "queue" -> n \in Range(queue)
                       [] p = "told" -> notice[n].phase = "told"
                       [] p = "excused" -> n \in excused
                       [] p = "way" -> notice[n].phase \in {"new", "looked"}}
    IN  Cardinality(places) + Cardinality({s \in Sockets : n \in sock[s].replay}) = 1

(* The key that holds back the next encounter of a pair stands for one the opponent was   *)
(* told of, or is about to be: data that is only displayed cannot cost the encounter.     *)
(* Excepted is a key the handler took and then left: it failed while the keys of others   *)
(* were asked for, telling the opponent failed, or the process died.                      *)
CooldownMeansNotice ==
  \A o \in cooldown : \/ o \in met \union untold
                      \/ \E s \in Sockets : o \in meeting[s].with /\ meeting[s].phase # "claim"

(* What the server has taken charge of is told: a stored notification and an encounter    *)
(* whose key is set, but for the failures each of the two names.                          *)
NothingLostSilently == EveryNoticeAccountedFor /\ CooldownMeansNotice
=============================================================================
