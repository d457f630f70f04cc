------------------------------ MODULE Realtime ------------------------------
(***************************************************************************)
(* The realtime side and the phone in one model: the server's part in      *)
(* presence and chat, the client's in chat and duels, and the screens that *)
(* sign a person up and in, follow the position, play a round, and show    *)
(* the map and the ranking.  They share no variable, so a behaviour is     *)
(* about one of them, its focus; the others stay as they began.            *)
(***************************************************************************)
EXTENDS Blocks, Presence, ChatSocket, DuelClient, SignIn, LocationWatch,
        GameScreen, MapSheet, SeasonScreen

VARIABLE focus   \* the component this behaviour is about

RealtimeInit ==
  /\ focus \in {"blocks", "presence", "chat", "client", "signin", "location", "game", "map", "season"}
  /\ BlocksInit /\ PresenceInit /\ ChatInit /\ ClientInit /\ SignInInit /\ LocationInit
  /\ GameScreenInit /\ MapSheetInit /\ SeasonInit
  /\ focus # "presence" => scene = "notices"
  /\ focus # "location" => permission = "granted" /\ services

RealtimeNext ==
  /\ UNCHANGED focus
  /\ \/ /\ focus = "blocks" /\ BlocksNext
        /\ UNCHANGED <<presenceVars, chatVars, clientVars, signInVars, locationVars, gameVars, mapVars, seasonVars>>
     \/ /\ focus = "presence" /\ PresenceNext
        /\ UNCHANGED <<blocksVars, chatVars, clientVars, signInVars, locationVars, gameVars, mapVars, seasonVars>>
     \/ /\ focus = "chat" /\ ChatNext
        /\ UNCHANGED <<blocksVars, presenceVars, clientVars, signInVars, locationVars, gameVars, mapVars, seasonVars>>
     \/ /\ focus = "client" /\ ClientNext
        /\ UNCHANGED <<blocksVars, presenceVars, chatVars, signInVars, locationVars, gameVars, mapVars, seasonVars>>
     \/ /\ focus = "signin" /\ SignInNext
        /\ UNCHANGED <<blocksVars, presenceVars, chatVars, clientVars, locationVars, gameVars, mapVars, seasonVars>>
     \/ /\ focus = "location" /\ LocationNext
        /\ UNCHANGED <<blocksVars, presenceVars, chatVars, clientVars, signInVars, gameVars, mapVars, seasonVars>>
     \/ /\ focus = "game" /\ GameScreenNext
        /\ UNCHANGED <<blocksVars, presenceVars, chatVars, clientVars, signInVars, locationVars, mapVars, seasonVars>>
     \/ /\ focus = "map" /\ MapSheetNext
        /\ UNCHANGED <<blocksVars, presenceVars, chatVars, clientVars, signInVars, locationVars, gameVars, seasonVars>>
     \/ /\ focus = "season" /\ SeasonNext
        /\ UNCHANGED <<blocksVars, presenceVars, chatVars, clientVars, signInVars, locationVars, gameVars, mapVars>>

realtimeVars == <<focus, blocksVars, presenceVars, chatVars, clientVars, signInVars, locationVars, gameVars, mapVars, seasonVars>>

RealtimeSpec == RealtimeInit /\ [][RealtimeNext]_realtimeVars

\* Types of the component that moves.
RealtimeTypeOK ==
  CASE focus = "blocks" -> BlocksTypeOK [] focus = "presence" -> PresenceTypeOK [] focus = "chat" -> ChatTypeOK
    [] focus = "client" -> ClientTypeOK [] focus = "signin" -> SignInTypeOK [] focus = "location" -> LocationTypeOK
    [] focus = "game" -> GameScreenTypeOK [] focus = "map" -> MapSheetTypeOK [] focus = "season" -> SeasonTypeOK
=============================================================================
