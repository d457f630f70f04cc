---------------------------- MODULE LocationWatch ----------------------------
(***************************************************************************)
(* The one GPS watcher of the app and who may start it (frontend/src:      *)
(* hooks/use-location.ts, lib/permission-notice.ts,                        *)
(* components/LocationBroadcaster.tsx, AppPermissionNotice.tsx,            *)
(* LocationStatusBanner.tsx): a start is a chain of awaits, between which  *)
(* the app goes to the background, its users come and go, and the person   *)
(* answers, or leaves open, the dialog of the operating system.            *)
(***************************************************************************)
EXTENDS Integers, FiniteSets

CONSTANTS
  MaxGenerations,   \* how often what runs may become stale
  MaxTaps           \* taps on the banner's button

ASSUME LocationAssumption == MaxGenerations \in Nat /\ MaxTaps \in Nat

Consumers == {"broadcaster", "map"}
Nothing == -1     \* no subscription, no coordinates

VARIABLES
  app,          \* AppState.currentState
  consumers,    \* who has called useLocation and is mounted (listeners)
  generation,   \* locationGeneration
  watchers,     \* generations of the native watchers that are alive
  held,         \* subscription: the generation of the watcher it is
  begun,        \* the start under way: where it awaits, and its generation
  resume,       \* resumePending
  denied,       \* permissionDenied
  explicit,     \* explicitPermissionRequest
  noticed,      \* permission-notice: loading, pending, acknowledged
  display,      \* what useLocation returns; coordinates are known by their generation
  permission,   \* of the operating system; blocked is denied without being asked again
  services,     \* location services are on
  recovery,     \* where recoverLocation awaits
  asked,        \* history: dialogs answered
  taps          \* history: calls of recoverLocation

locationVars == <<app, consumers, generation, watchers, held, begun, resume, denied, explicit, noticed,
                  display, permission, services, recovery, asked, taps>>
os == <<permission, services>>
flags == <<resume, denied, explicit>>
history == <<asked, taps>>

Resting == [at |-> "nowhere", gen |-> 0]
Loading == [coords |-> Nothing, error |-> FALSE, kind |-> "none", loading |-> TRUE]
Failed(kind) == [coords |-> Nothing, error |-> TRUE, kind |-> kind, loading |-> FALSE]

LocationInit ==
  /\ app = "active" /\ consumers = {} /\ generation = 0 /\ watchers = {} /\ held = Nothing
  /\ begun = Resting /\ resume = FALSE /\ denied = FALSE /\ explicit = FALSE
  /\ noticed = "loading" /\ display = Loading
  /\ permission \in {"undetermined", "granted"} /\ services \in BOOLEAN
  /\ recovery = "none" /\ asked = 0 /\ taps = 0

-----------------------------------------------------------------------------
(* start() begins unless one is under way, there is a watcher, or nobody needs one.       *)
MayStart(users) == held' = Nothing /\ users # {} /\ app' = "active"
Start(users) ==
  begun' = IF begun = Resting /\ MayStart(users) THEN [at |-> "notice", gen |-> generation'] ELSE begun

IsCurrent == begun.gen = generation /\ consumers # {} /\ app = "active"

(* finally: whoever came or moved meanwhile is served by a new start. *)
OnlyResumed == resume
Again == resume \/ begun.gen # generation
Ends ==
  /\ resume' = FALSE
  /\ begun' = IF Again /\ MayStart(consumers) THEN [at |-> "notice", gen |-> generation] ELSE Resting

Goes(place) == begun' = [begun EXCEPT !.at = place] /\ UNCHANGED resume
Shows(what) == display' = IF IsCurrent THEN what ELSE display

-----------------------------------------------------------------------------
(* Who uses the position, the notice, and the state of the app.                           *)

Mounts ==
  /\ \E c \in Consumers \ consumers : consumers' = consumers \union {c}
  /\ UNCHANGED <<app, generation, watchers, held>> /\ Start(consumers')
  /\ UNCHANGED <<flags, noticed, display, os, recovery, history>>

(* The last one to leave releases the watcher and takes the old position along. *)
Unmounts ==
  /\ \E c \in consumers : consumers' = consumers \ {c}
  /\ IF consumers' = {}
       THEN /\ generation < MaxGenerations /\ generation' = generation + 1
            /\ watchers' = watchers \ {held} /\ held' = Nothing /\ display' = Loading
       ELSE UNCHANGED <<generation, watchers, held, display>>
  /\ UNCHANGED <<app, begun, flags, noticed, os, recovery, history>>

LoadsNotice ==
  /\ noticed = "loading" /\ noticed' \in {"pending", "acknowledged"}
  /\ UNCHANGED <<app, held, generation>> /\ Start(consumers)
  /\ UNCHANGED <<consumers, watchers, flags, display, os, recovery, history>>

Acknowledges ==
  /\ noticed = "pending" /\ noticed' = "acknowledged"
  /\ UNCHANGED <<app, held, generation>> /\ Start(consumers)
  /\ UNCHANGED <<consumers, watchers, flags, display, os, recovery, history>>

(* The dialog of the permission sends Android to the background; nobody has left.  The    *)
(* message stays on the screen, its kind does not.                                        *)
Leaving == begun.at # "dialog"
ToBackground ==
  /\ app # "background" /\ app' = "background"
  /\ IF Leaving
       THEN /\ generation < MaxGenerations /\ generation' = generation + 1
            /\ watchers' = watchers \ {held} /\ held' = Nothing
            /\ display' = [Loading EXCEPT !.error = display.error]
       ELSE UNCHANGED <<generation, watchers, held, display>>
  /\ UNCHANGED <<consumers, begun, flags, noticed, os, recovery, history>>

ToInactive ==
  /\ app # "inactive" /\ app' = "inactive"
  /\ UNCHANGED <<consumers, generation, watchers, held, begun, flags, noticed, display, os, recovery, history>>

ToActive ==
  /\ app # "active" /\ app' = "active"
  /\ UNCHANGED <<generation, held>>
  /\ resume' = (resume \/ (consumers # {} /\ begun # Resting)) /\ Start(consumers)
  /\ UNCHANGED <<consumers, watchers, denied, explicit, noticed, display, os, recovery, history>>

(* External: the settings.  Who takes a permission back there kills the app. *)
Settings ==
  /\ app = "background"
  /\ \/ permission' = "granted" /\ permission # "granted" /\ UNCHANGED services
     \/ services' = ~services /\ UNCHANGED permission
  /\ UNCHANGED <<app, consumers, generation, watchers, held, begun, flags, noticed, display, recovery, history>>

-----------------------------------------------------------------------------
(* The awaits of start().                                                                 *)

ReadsNotice ==
  /\ begun.at = "notice" /\ noticed # "loading"
  /\ UNCHANGED <<app, held>>
  /\ IF noticed = "pending" THEN display' = Loading /\ Ends
     ELSE UNCHANGED display /\ IF IsCurrent THEN Goes("permission") ELSE Ends
  /\ UNCHANGED <<consumers, generation, watchers, denied, explicit, noticed, os, recovery, history>>

(* The answer about the permission is a fact about the app and kept in any case; who is   *)
(* not allowed ends here, shown if still current.                                         *)
OnlyIfCurrent == IF IsCurrent THEN permission' # "granted" ELSE denied
Recorded == permission' # "granted"
Concludes ==
  /\ denied' = Recorded
  /\ IF permission' # "granted" THEN Shows(Failed("permission")) /\ Ends
     ELSE UNCHANGED display /\ IF IsCurrent THEN Goes("services") ELSE Ends

(* Only who was never asked, or who has just tapped, is asked. *)
MayAsk == explicit \/ (permission = "undetermined" /\ ~denied)
ReadsPermission ==
  /\ begun.at = "permission" /\ explicit' = FALSE
  /\ UNCHANGED <<app, held, permission>>
  /\ IF permission = "granted" \/ ~MayAsk
       THEN Concludes ELSE Goes("dialog") /\ UNCHANGED <<denied, display>>
  /\ UNCHANGED <<consumers, generation, watchers, noticed, services, recovery, history>>

DialogAnswered ==
  /\ begun.at = "dialog"
  /\ \/ permission = "blocked" /\ UNCHANGED <<permission, asked>>
     \/ /\ permission # "blocked" /\ permission' \in {"granted", "denied", "blocked", permission}
        /\ asked' = asked + 1
  /\ UNCHANGED <<app, held>> /\ Concludes
  /\ UNCHANGED <<consumers, generation, watchers, explicit, noticed, services, recovery, taps>>

ReadsServices ==
  /\ begun.at = "services"
  /\ UNCHANGED <<app, held>>
  /\ IF ~services THEN Shows(Failed("services")) /\ Ends /\ UNCHANGED watchers
     ELSE IF ~IsCurrent THEN Ends /\ UNCHANGED <<display, watchers>>
     ELSE display' = Loading /\ watchers' = watchers \union {begun.gen} /\ Goes("watch")
  /\ UNCHANGED <<consumers, generation, denied, explicit, noticed, os, recovery, history>>

(* A watcher that comes after everybody has left is removed at once. *)
LeftAlive == {}
Surplus == IF IsCurrent THEN {} ELSE {begun.gen}
Watches ==
  /\ begun.at = "watch"
  /\ held' = IF IsCurrent THEN begun.gen ELSE held
  /\ watchers' = watchers \ Surplus
  /\ UNCHANGED app /\ Ends
  /\ UNCHANGED <<consumers, generation, denied, explicit, noticed, display, os, recovery, history>>

(* Any of the calls throws; a request for the permission that throws has shown no dialog, *)
(* and a tap whose reading of the permission throws is not forgotten.                     *)
StartFails ==
  /\ begun.at \in {"permission", "dialog", "services", "watch"}
  /\ UNCHANGED <<app, held>>
  /\ watchers' = IF begun.at = "watch" THEN watchers \ {begun.gen} ELSE watchers
  /\ Shows(Failed("unavailable")) /\ Ends
  /\ UNCHANGED <<consumers, generation, denied, explicit, noticed, os, recovery, history>>

(* The callback of the watcher of a generation. *)
Fix ==
  /\ \E g \in watchers :
       /\ g = generation /\ consumers # {} /\ app = "active"
       /\ display' = [coords |-> g, error |-> FALSE, kind |-> "none", loading |-> FALSE]
  /\ UNCHANGED <<app, consumers, generation, watchers, held, begun, flags, noticed, os, recovery, history>>

-----------------------------------------------------------------------------
(* recoverLocation, behind the button of the banner, which is off while it runs.          *)

Taps ==
  /\ "map" \in consumers /\ display.error /\ recovery = "none" /\ app = "active" /\ taps < MaxTaps
  /\ taps' = taps + 1
  /\ recovery' = IF begun # Resting \/ held # Nothing THEN "none" ELSE "notice"
  /\ UNCHANGED <<app, consumers, generation, watchers, held, begun, flags, noticed, display, os, asked>>

(* The kind of what is shown by now decides whether the permission is looked at. *)
RecoveryReadsNotice ==
  /\ recovery = "notice" /\ noticed # "loading"
  /\ UNCHANGED <<app, held, generation>>
  /\ IF noticed = "acknowledged" /\ display.kind = "permission"
       THEN recovery' = "permission" /\ UNCHANGED begun
       ELSE /\ recovery' = "none"
            /\ IF noticed = "acknowledged" THEN Start(consumers) ELSE UNCHANGED begun
  /\ UNCHANGED <<consumers, watchers, flags, noticed, display, os, history>>

(* Who cannot be asked any more is sent to the settings. *)
RecoveryReadsPermission ==
  /\ recovery = "permission" /\ recovery' = "none"
  /\ UNCHANGED <<app, held, generation>>
  /\ IF permission = "blocked" THEN UNCHANGED <<explicit, begun>>
     ELSE explicit' = (permission # "granted") /\ Start(consumers)
  /\ UNCHANGED <<consumers, watchers, resume, denied, noticed, display, os, history>>

LocationNext ==
  \/ Mounts \/ Unmounts \/ LoadsNotice \/ Acknowledges \/ ToBackground \/ ToInactive \/ ToActive \/ Settings
  \/ ReadsNotice \/ ReadsPermission \/ DialogAnswered \/ ReadsServices \/ Watches \/ StartFails \/ Fix
  \/ Taps \/ RecoveryReadsNotice \/ RecoveryReadsPermission

LocationSpec == LocationInit /\ [][LocationNext]_locationVars

-----------------------------------------------------------------------------
LocationTypeOK ==
  /\ app \in {"active", "inactive", "background"} /\ consumers \subseteq Consumers
  /\ generation \in 0..MaxGenerations /\ watchers \subseteq 0..generation
  /\ held \in {Nothing} \union watchers
  /\ begun \in [at : {"nowhere", "notice", "permission", "dialog", "services", "watch"}, gen : 0..generation]
  /\ {resume, denied, explicit} \subseteq BOOLEAN /\ noticed \in {"loading", "pending", "acknowledged"}
  /\ display \in [coords : {Nothing} \union 0..generation,
                  error : BOOLEAN, kind : {"none", "permission", "services", "unavailable"},
                  loading : BOOLEAN]
  /\ permission \in {"undetermined", "granted", "denied", "blocked"} /\ services \in BOOLEAN
  /\ recovery \in {"none", "notice", "permission"} /\ asked \in Nat /\ taps \in 0..MaxTaps

(* There is one watcher at most, it is the one that is held once its start is over, and   *)
(* none when nobody needs it.  The position shown is never one from before the app was    *)
(* left or another user came, and is followed further by a watcher, or by a start.        *)
OneWatcherOfOurs ==
  /\ Cardinality(watchers) <= 1
  /\ begun = Resting => watchers = {held} \ {Nothing}
  /\ begun = Resting /\ (consumers = {} \/ app = "background") => held = Nothing
  /\ display.coords # Nothing => display.coords = generation
  /\ display.coords # Nothing /\ app = "active" /\ begun = Resting => held = display.coords

(* Nobody waits for ever: with the notice acknowledged and the app in front, whoever uses *)
(* the position has a watcher, or an error to act on, or a start under way, however       *)
(* starts, mounts and the state of the app have overlapped.                               *)
NeverLoadingForever ==
  begun = Resting /\ consumers # {} /\ app = "active" /\ noticed = "acknowledged"
    => held # Nothing \/ display.error

(* The dialog of the operating system is shown once by itself, after the notice, and then *)
(* only for a tap: neither a mount nor a return to the app asks again.                    *)
AsksOnlyWhenAsked == asked <= 1 + taps /\ (asked > 0 => noticed = "acknowledged")

(* The three together: one watcher for whoever is there, an end to every wait for it, and *)
(* no dialog nobody asked for.                                                            *)
WatcherServesScreens == OneWatcherOfOurs /\ NeverLoadingForever /\ AsksOnlyWhenAsked
=============================================================================
