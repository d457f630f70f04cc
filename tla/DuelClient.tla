----------------------------- MODULE DuelClient -----------------------------
(***************************************************************************)
(* The duel screens of one mobile client (frontend SocketProvider,         *)
(* BattleEnemyRow, DuelRequest, useOverlayStore, useBattleStore): the      *)
(* events of a duel, the acknowledgements of the client's own calls and    *)
(* the refusals that name no duel reach it on one ordered connection,      *)
(* which may drop; every acknowledged call gives up after five seconds.    *)
(*                                                                         *)
(* The server is as the gateway shows it to this client: a player has one  *)
(* active duel at a time (Duels proves it), the acknowledgement of a       *)
(* request is written before its invitation leaves, and a refusal is an    *)
(* exception with a code and no acknowledgement.  Rounds are in Minigame.  *)
(***************************************************************************)
EXTENDS Integers, Sequences

CONSTANTS
  Foes,        \* players of other teams nearby
  MaxDuels,    \* duels of this player
  MaxChallenges,  \* requests of this player
  MaxLapses      \* drops of the connection and calls that time out

NoFoe == "no foe"

ASSUME DuelClientAssumption == NoFoe \notin Foes /\ {MaxDuels, MaxChallenges, MaxLapses} \subseteq Nat

VARIABLES
  overlay,    \* useOverlayStore: the open duel, the role in it, the enemy shown, the screens
  challenge,  \* pendingChallengeTargetId of useBattleStore
  listed,     \* enemiesById of useBattleStore
  calls,      \* emissions with a callback still armed, or not yet handled by the server
  linked,     \* whether the connection is up
  inbox,      \* what is on its way to the client, in order
  duels,      \* the server's duels of this player
  tries,      \* requests left
  lapses,    \* drops and timeouts left
  missed,     \* history: duels whose ending was lost on the way
  astray      \* history: the client has let go of a duel the server knows

clientVars == <<overlay, challenge, listed, calls, linked, inbox, duels, tries, lapses, missed, astray>>

DuelNos == 1..MaxDuels
Closed == [duel |-> 0, role |-> "none", enemy |-> NoFoe, shown |-> {}]
NoDuel == [stage |-> "none", foe |-> NoFoe, mine |-> FALSE, invite |-> FALSE]
Running(d) == duels[d].stage \in {"PENDING", "ACCEPTED"}
OverNow(r) == [NoDuel EXCEPT !.stage = "over", !.invite = r.invite]

ClientInit ==
  /\ overlay = Closed /\ challenge = NoFoe /\ listed = {}
  /\ calls = {} /\ linked = TRUE /\ inbox = <<>>
  /\ duels = [d \in DuelNos |-> NoDuel]
  /\ tries = MaxChallenges /\ lapses = MaxLapses
  /\ missed = {} /\ astray = FALSE

IsDuelBusy == overlay.shown # {} \/ overlay.duel # 0

-----------------------------------------------------------------------------
(* What the player does.  The screens are modal: the list is out of reach  *)
(* while one is shown.                                                     *)

Call(kind, f, d) == [kind |-> kind, foe |-> f, duel |-> d, armed |-> kind # "reject", due |-> TRUE]

Challenge(f) ==
  /\ challenge = NoFoe /\ f \in listed /\ overlay.shown = {}
  /\ tries > 0 /\ tries' = tries - 1
  /\ challenge' = f
  /\ calls' = calls \union {Call("request", f, 0)}
  /\ UNCHANGED <<overlay, listed, linked, inbox, duels, lapses, missed, astray>>

HandleAccept ==
  /\ "request" \in overlay.shown
  /\ overlay' = [overlay EXCEPT !.shown = (@ \ {"request"}) \union {"pending"}]
  /\ calls' = calls \union {Call("accept", NoFoe, overlay.duel)}
  /\ UNCHANGED <<challenge, listed, linked, inbox, duels, tries, lapses, missed, astray>>

HandleReject ==
  /\ "request" \in overlay.shown
  /\ calls' = calls \union {Call("reject", NoFoe, overlay.duel)}
  /\ overlay' = Closed
  /\ UNCHANGED <<challenge, listed, linked, inbox, duels, tries, lapses, missed, astray>>

\* pruneStale of the sweep, every 15 seconds; encounter:detected lists again.
PruneStale(f) ==
  /\ f \in listed /\ listed' = listed \ {f}
  /\ UNCHANGED <<overlay, challenge, calls, linked, inbox, duels, tries, lapses, missed, astray>>
HandleEncounter(f) ==
  /\ linked /\ f \notin listed /\ listed' = listed \union {f}
  /\ UNCHANGED <<overlay, challenge, calls, linked, inbox, duels, tries, lapses, missed, astray>>

\* A call that is neither awaited nor to be handled is forgotten.
Disarmed(c) == IF c.due THEN {[c EXCEPT !.armed = FALSE]} ELSE {}
Unawaited(c) == (calls \ {c}) \union Disarmed(c)

Lapse == lapses > 0 /\ lapses' = lapses - 1

(* .timeout(5000): the callback runs with an error, whatever comes later.  *)
TimesOut(c) ==
  /\ c \in calls /\ c.armed /\ Lapse
  /\ calls' = Unawaited(c)
  /\ IF c.kind = "request"
       THEN challenge' = NoFoe /\ UNCHANGED overlay
       ELSE overlay' = Closed /\ UNCHANGED challenge
  /\ astray' = TRUE
  /\ UNCHANGED <<listed, linked, inbox, duels, tries, missed>>

-----------------------------------------------------------------------------
(* The server, seen from this client.  "of" is the call a message answers, *)
(* or the player who invites.                                              *)

Event(kind, d) == [kind |-> kind, duel |-> d, code |-> "none", of |-> "none"]
Invitation(d) == [kind |-> "requested", duel |-> d, code |-> "none", of |-> duels[d].foe]
Throws(code) == [kind |-> "exception", duel |-> 0, code |-> code, of |-> "none"]
Ack(kind, d, ok) == [kind |-> IF ok THEN "ok" ELSE "error", duel |-> d, code |-> "none", of |-> kind]
Endings == {"rejected", "expired", "completed", "voided"}
EndsIn(d, ms) == \E i \in 1..Len(ms) : ms[i].duel = d /\ ms[i].kind \in Endings

(* notifyUser: to the socket, or into the queue that the next connection   *)
(* drains; a dead socket that still counts as live loses it.               *)
NotifyPlayer(ms) ==
  \/ inbox' = inbox \o ms /\ UNCHANGED missed
  \/ /\ ~linked
     /\ missed' = missed \union {d \in DuelNos : EndsIn(d, ms)}
     /\ UNCHANGED inbox

Handled(c) == (calls \ {c}) \union IF c.armed THEN {[c EXCEPT !.due = FALSE]} ELSE {}
Free == \A d \in DuelNos : ~Running(d)
Unborn(d) == duels[d].stage = "none" /\ \A e \in 1..d - 1 : duels[e].stage # "none"

(* requestDuel creates the duel and the handler's return acknowledges it,  *)
(* before setImmediate lets the invitation leave (Duels has the steps in   *)
(* between); or it throws.  DUEL_TARGET_SHIELDED is the one code of a      *)
(* request that the client's list of such codes leaves out; OTHER is none  *)
(* of a duel.                                                              *)
ServeRequest(c) ==
  /\ c \in calls /\ c.kind = "request" /\ c.due /\ linked
  /\ \/ \E d \in DuelNos :
          /\ Free /\ Unborn(d)
          /\ duels' = [duels EXCEPT ![d] = [stage |-> "PENDING", foe |-> c.foe, mine |-> TRUE, invite |-> FALSE]]
          /\ inbox' = Append(inbox, Ack("request", d, TRUE))
          /\ calls' = (calls \ {c}) \union IF c.armed THEN {[c EXCEPT !.due = FALSE, !.duel = d]} ELSE {}
     \/ \E code \in {"REQUEST", "SHIELDED", "OTHER"} :
          /\ inbox' = Append(inbox, Throws(code))
          /\ calls' = Handled(c)
          /\ UNCHANGED duels
  /\ UNCHANGED <<overlay, challenge, listed, linked, tries, lapses, missed, astray>>

(* respondToDuel: the event goes out before the acknowledgement; a game    *)
(* that cannot start voids the duel, which may fail as well, and is told   *)
(* in the acknowledgement.  A duel that is not pending is an exception.    *)
ServeAnswer(c) ==
  /\ c \in calls /\ c.kind \in {"accept", "reject"} /\ c.due /\ linked
  /\ calls' = Handled(c)
  /\ LET d == c.duel IN
     \/ /\ duels[d].stage # "PENDING"
        /\ inbox' = Append(inbox, Throws("ANSWER"))
        /\ UNCHANGED duels
     \/ /\ duels[d].stage = "PENDING" /\ c.kind = "accept"
        /\ \E end \in {"ACCEPTED", "over", "stuck"} :
             /\ duels' = [duels EXCEPT ![d] = IF end = "over" THEN OverNow(@) ELSE [@ EXCEPT !.stage = "ACCEPTED"]]
             /\ inbox' = inbox \o <<Event("accepted", d)>>
                               \o (IF end = "over" THEN <<Event("voided", d)>> ELSE <<>>)
                               \o <<Ack("accept", d, end = "ACCEPTED")>>
     \/ /\ duels[d].stage = "PENDING" /\ c.kind = "reject"
        /\ duels' = [duels EXCEPT ![d] = OverNow(@)]
        /\ inbox' = Append(inbox, Event("rejected", d))
  /\ UNCHANGED <<overlay, challenge, listed, linked, tries, lapses, missed, astray>>

FoeChallenges(f) ==
  /\ Free
  /\ \E d \in DuelNos :
       /\ Unborn(d)
       /\ duels' = [duels EXCEPT ![d] = [stage |-> "PENDING", foe |-> f, mine |-> FALSE, invite |-> TRUE]]
  /\ UNCHANGED <<overlay, challenge, listed, calls, linked, inbox, tries, lapses, missed, astray>>

(* deliverDuelInvite: a live socket, then the state of the duel, then the  *)
(* emission at once.  What the opponent is sent is not followed here.      *)
Unread(d) == duels[d].stage # "none"
Deliverable(d) == duels[d].stage = "PENDING"
DeliverInvite(d) ==
  /\ duels[d].invite
  /\ duels' = [duels EXCEPT ![d].invite = FALSE]
  /\ inbox' = IF linked /\ Deliverable(d)
                THEN Append(inbox, Invitation(d)) ELSE inbox
  /\ UNCHANGED <<overlay, challenge, listed, calls, linked, tries, lapses, missed, astray>>

FoeAnswers(d) ==
  /\ duels[d].stage = "PENDING" /\ duels[d].mine
  /\ \E accept \in BOOLEAN :
       /\ duels' = [duels EXCEPT ![d] = IF accept THEN [@ EXCEPT !.stage = "ACCEPTED"] ELSE OverNow(@)]
       /\ NotifyPlayer(<<Event(IF accept THEN "accepted" ELSE "rejected", d)>>)
  /\ UNCHANGED <<overlay, challenge, listed, calls, linked, tries, lapses, astray>>

\* The expiry timer and the sweep; the end of the game, or the loss of it.
EndDuel(d) ==
  /\ Running(d)
  /\ \E kind \in IF duels[d].stage = "PENDING" THEN {"expired"} ELSE {"completed", "voided"} :
       NotifyPlayer(<<Event(kind, d)>>)
  /\ duels' = [duels EXCEPT ![d] = OverNow(@)]
  /\ UNCHANGED <<overlay, challenge, listed, calls, linked, tries, lapses, astray>>

\* What is on its way is lost, calls the server has not seen among it.
DropLink ==
  /\ linked /\ Lapse
  /\ linked' = FALSE /\ inbox' = <<>>
  /\ missed' = missed \union {d \in DuelNos : EndsIn(d, inbox)}
  /\ \E lost \in SUBSET {c \in calls : c.due} :
       calls' = (calls \ lost) \union {[c EXCEPT !.due = FALSE] : c \in {k \in lost : k.armed}}
  /\ UNCHANGED <<overlay, challenge, listed, duels, tries, astray>>
Reconnect ==
  /\ ~linked /\ linked' = TRUE
  /\ UNCHANGED <<overlay, challenge, listed, calls, inbox, duels, tries, lapses, missed, astray>>

-----------------------------------------------------------------------------
(* The handlers of SocketProvider and the callbacks of the calls. *)

Took == /\ linked /\ inbox # <<>> /\ inbox' = Tail(inbox)
        /\ UNCHANGED <<linked, duels, tries, lapses, missed>>
Message == Head(inbox)

HandleDuelRequested ==
  /\ Took /\ Message.kind = "requested"
  /\ overlay' = IF IsDuelBusy \/ challenge # NoFoe THEN overlay
                ELSE [duel |-> Message.duel, role |-> "recipient",
                      enemy |-> Message.of, shown |-> {"request"}]
  /\ UNCHANGED <<challenge, listed, calls, astray>>

\* An acceptance that precedes the acknowledgement opens the duel all the same.
Adopts == overlay.duel = 0 /\ challenge \in listed
HandleDuelAccepted ==
  /\ Took /\ Message.kind = "accepted"
  /\ LET game == {"game"} IN
     \/ /\ overlay.duel = Message.duel
        /\ overlay' = [overlay EXCEPT !.shown = game]
        /\ UNCHANGED <<challenge, listed>>
     \/ /\ overlay.duel # Message.duel /\ Adopts
        /\ overlay' = [duel |-> Message.duel, role |-> "challenger", enemy |-> challenge, shown |-> game]
        /\ challenge' = NoFoe /\ listed' = listed \ {challenge}
     \/ /\ overlay.duel # Message.duel /\ ~Adopts
        /\ UNCHANGED <<overlay, challenge, listed>>
  /\ UNCHANGED <<calls, astray>>

\* restoreChallengedEnemy and resetDuel.
HandleEnding ==
  /\ Took /\ Message.kind \in Endings
  /\ IF overlay.duel # Message.duel THEN UNCHANGED <<overlay, listed>>
     ELSE /\ overlay' = Closed
          /\ listed' = IF Message.kind \in {"rejected", "expired"} /\ overlay.role = "challenger"
                         THEN listed \union {overlay.enemy} ELSE listed
  /\ UNCHANGED <<challenge, calls, astray>>

\* DUEL_REQUEST_ONLY_CODES, and any code that is not of a duel, leave the screens alone.
AnyDuelCode(code) == code # "OTHER"
Resets(code) == code \notin {"REQUEST", "OTHER"}
HandleException ==
  /\ Took /\ Message.kind = "exception"
  /\ IF Resets(Message.code)
       THEN overlay' = Closed /\ astray' = TRUE
       ELSE UNCHANGED <<overlay, astray>>
  /\ UNCHANGED <<challenge, listed, calls>>

\* The callback of duel:request, unless its time is over.
Awaited(kind, d) == {c \in calls : c.kind = kind /\ c.duel = d /\ c.armed /\ ~c.due}
HandleRequestAck ==
  /\ Took /\ Message.kind = "ok" /\ Message.of = "request"
  /\ LET d == Message.duel
         mine == Awaited("request", d) IN
     \/ mine = {} /\ UNCHANGED <<overlay, challenge, listed, calls, astray>>
     \/ \E c \in mine :
          /\ calls' = calls \ {c} /\ challenge' = NoFoe
          /\ IF overlay.duel \notin {0, d}
               THEN astray' = TRUE /\ UNCHANGED <<overlay, listed>>
               ELSE /\ overlay' = [duel |-> d, role |-> "challenger", enemy |-> c.foe,
                                   shown |-> IF "game" \in overlay.shown THEN overlay.shown
                                             ELSE overlay.shown \union {"pending"}]
                    /\ listed' = listed \ {c.foe} /\ UNCHANGED astray

\* The callback of duel:accept closes the screens, whichever duel they show.
HandleAcceptAck ==
  /\ Took /\ Message.kind \in {"ok", "error"} /\ Message.of = "accept"
  /\ LET mine == Awaited("accept", Message.duel) IN
     /\ calls' = calls \ mine
     /\ IF mine # {} /\ Message.kind = "error"
          THEN overlay' = Closed /\ astray' = TRUE
          ELSE UNCHANGED <<overlay, astray>>
  /\ UNCHANGED <<challenge, listed>>

ClientNext ==
  \/ \E f \in Foes : Challenge(f) \/ PruneStale(f) \/ HandleEncounter(f) \/ FoeChallenges(f)
  \/ HandleAccept \/ HandleReject
  \/ \E c \in calls : TimesOut(c) \/ ServeRequest(c) \/ ServeAnswer(c)
  \/ \E d \in DuelNos : DeliverInvite(d) \/ FoeAnswers(d) \/ EndDuel(d)
  \/ DropLink \/ Reconnect
  \/ HandleDuelRequested \/ HandleDuelAccepted \/ HandleEnding
  \/ HandleException \/ HandleRequestAck \/ HandleAcceptAck

ClientSpec == ClientInit /\ [][ClientNext]_clientVars

-----------------------------------------------------------------------------
\* Types of the client's stores and of the connection.
ClientTypeOK ==
  /\ overlay \in [duel : 0..MaxDuels, role : {"none", "challenger", "recipient"},
                  enemy : Foes \union {NoFoe}, shown : SUBSET {"request", "pending", "game"}]
  /\ challenge \in Foes \union {NoFoe} /\ listed \subseteq Foes
  /\ calls \subseteq [kind : {"request", "accept", "reject"}, foe : Foes \union {NoFoe},
                      duel : 0..MaxDuels, armed : BOOLEAN, due : BOOLEAN]
  /\ linked \in BOOLEAN /\ tries \in 0..MaxChallenges /\ lapses \in 0..MaxLapses
  /\ duels \in [DuelNos -> [stage : {"none", "PENDING", "ACCEPTED", "over"},
                            foe : Foes \union {NoFoe}, mine : BOOLEAN, invite : BOOLEAN]]
  /\ missed \subseteq DuelNos /\ astray \in BOOLEAN

\* A duel shown on the screens is over only while the event that closes it is
\* still on its way, unless a drop lost that event; and the enemy shown is the
\* opponent of that duel, unless the client had let go of a duel before (SocketProvider,
\* deliverDuelInvite: no late invitation opens a duel that has ended).
OverlayFollowsDuel ==
  overlay.duel # 0 =>
    LET d == overlay.duel IN
    /\ duels[d].stage = "over" => EndsIn(d, inbox) \/ d \in missed
    /\ Running(d) => overlay.enemy = duels[d].foe \/ astray

\* The screens of a duel that still runs close only on an answer of the player
\* or on what became of an answer; a request that fails never closes somebody
\* else's duel (handleException; the one code left out of its list is excused).
ClosedForAReason ==
  [][ \A d \in DuelNos :
        overlay.duel = d /\ overlay'.duel # d /\ Running(d) =>
          \/ \E c \in calls' \ calls : c.kind = "reject" /\ c.duel = d
          \/ inbox # <<>> /\ inbox' = Tail(inbox) /\ Message.code \in {"ANSWER", "SHIELDED"}
          \/ \E c \in calls : c.kind = "accept" /\ c.armed /\ c \notin calls' ]_clientVars

=============================================================================
