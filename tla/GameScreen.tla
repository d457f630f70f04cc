----------------------------- MODULE GameScreen -----------------------------
(***************************************************************************)
(* The screen of the minigame (frontend/src: components/overlay/           *)
(* MiniGame.tsx and minigames/, the game's part of store/useOverlayStore   *)
(* and of providers/SocketProvider): packets of a game arrive in order,    *)
(* several of them may go into one rendering, and the component of a game  *)
(* holds what only it knows: its phase, its timer, the signal it began at. *)
(*                                                                         *)
(* The server is as the gateway shows it to one player (Minigame has what  *)
(* happens inside): go and opponent-submitted leave some time after their  *)
(* reason, so they may follow the start of the next round.  How a duel is  *)
(* opened on the screens is in DuelClient.                                 *)
(***************************************************************************)
EXTENDS Integers, Sequences

CONSTANTS
  MaxGames,    \* duels, one after the other
  MaxRounds,   \* MAX_ROUNDS
  MaxDrops     \* drops of the connection

ASSUME GameScreenAssumption == {MaxGames, MaxRounds} \subseteq Nat \ {0} /\ MaxDrops \in Nat

Kinds == {"TAP", "REACTION", "QUIZ"}

VARIABLES
  match,     \* the server's duel and round, and what it holds of this round
  owed,      \* go and opponent-submitted whose reason is there, not sent yet
  packets,   \* on their way to the screen
  uplink,    \* game:submit on its way, or kept by the socket until it is connected again
  connected,
  board,     \* useOverlayStore
  piece,     \* the mounted component of the game
  drops,     \* drops left
  cutOff      \* history: a drop has lost packets or submissions of this duel

gameVars == <<match, owed, packets, uplink, connected, board, piece, drops, cutOff>>
serverVars == <<match, owed>>
wire == <<connected, drops, cutOff>>

NoRound == [kind |-> "none", round |-> 0, mine |-> FALSE, theirs |-> FALSE]
NoPiece == [kind |-> "none", round |-> 0, base |-> 0, phase |-> "none", timer |-> FALSE, early |-> FALSE]
Opened(n, r, k) == [no |-> n, round |-> r, kind |-> k, running |-> TRUE, go |-> FALSE,
                    mine |-> "none", tap |-> "none", theirs |-> FALSE]
Ended(m) == [Opened(m.no, 1, "TAP") EXCEPT !.running = FALSE]
Packet(type, n, r) == [type |-> type, duel |-> n, round |-> r, kind |-> "none"]
StartOf(m) == [type |-> "start", duel |-> m.no, round |-> m.round, kind |-> m.kind]

GameScreenInit ==
  /\ match = Ended(Opened(0, 1, "TAP"))
  /\ owed = {} /\ packets = <<>> /\ uplink = <<>> /\ connected = TRUE
  /\ board = [duel |-> 0, signal |-> 0, of |-> NoRound] /\ piece = NoPiece
  /\ drops = MaxDrops /\ cutOff = FALSE

-----------------------------------------------------------------------------
(* The server.  What only concerns a round is not kept for who is away.                   *)

Sent(ps) == IF connected THEN packets \o ps ELSE packets
ToldLess(ps) == cutOff' = (cutOff \/ (~connected /\ ps # <<>>))

(* The player has asked or answered from a free screen, on the same connection: what was  *)
(* on its way before is through.                                                          *)
NextMatch ==
  /\ ~match.running /\ match.no < MaxGames /\ board.duel = 0 /\ connected
  /\ owed = {} /\ packets = <<>> /\ uplink = <<>>
  /\ \E k \in Kinds : match' = Opened(match.no + 1, 1, k)
  /\ packets' = <<Packet("accepted", match'.no, 0), StartOf(match')>>
  /\ cutOff' = FALSE
  /\ UNCHANGED <<owed, uplink, connected, board, piece, drops>>

MarksGo ==
  /\ match.running /\ match.kind = "REACTION" /\ ~match.go
  /\ match' = [match EXCEPT !.go = TRUE]
  /\ owed' = owed \union {Packet("go", match.no, match.round)}
  /\ UNCHANGED <<packets, uplink, board, piece, wire>>

OpponentSubmits ==
  /\ match.running /\ ~match.theirs
  /\ match' = [match EXCEPT !.theirs = TRUE]
  /\ owed' = owed \union {Packet("opponent", match.no, match.round)}
  /\ UNCHANGED <<packets, uplink, board, piece, wire>>

EmitsOwed ==
  /\ \E p \in owed : /\ owed' = owed \ {p}
                     /\ packets' = Sent(<<p>>) /\ ToldLess(<<p>>)
  /\ UNCHANGED <<match, uplink, connected, board, piece, drops>>

(* Refused: no session, an earlier round, a score already held, a tap count nobody can    *)
(* make; and, after the score was stored, a duel that the sweep has ended meanwhile.      *)
Refusals(m) ==
  IF m.duel # match.no \/ ~match.running THEN {"NOT_ACTIVE", "DUEL"}
  ELSE IF m.round # match.round THEN {"ROUND_MISMATCH"}
  ELSE IF match.kind = "TAP" /\ m.many THEN {"INVALID_SCORE"}
  ELSE IF match.mine # "none" THEN {"ALREADY_SUBMITTED"}
  ELSE {}
Judged == IF match.kind = "REACTION" /\ ~match.go THEN "falseStart" ELSE "valid"
Arrives ==
  /\ connected /\ uplink # <<>> /\ uplink' = Tail(uplink)
  /\ LET m == Head(uplink) IN
     \/ \E code \in Refusals(m) :
          packets' = Append(packets, Packet(code, 0, 0)) /\ UNCHANGED match
     \/ /\ Refusals(m) = {}
        /\ match' = [match EXCEPT !.mine = Judged, !.tap = m.tap]
        /\ UNCHANGED packets
  /\ UNCHANGED <<owed, board, piece, wire>>

(* Both scores: a winner, or another round.  The deadline: who is absent has lost.  How a *)
(* duel ended is kept for who is away.                                                    *)
Settles ==
  /\ match.running
  /\ \/ /\ match' = Ended(match)
        /\ packets' = Append(packets, Packet("over", match.no, 0))
        /\ UNCHANGED cutOff
     \/ /\ match.mine # "none" /\ match.theirs /\ match.round < MaxRounds
        /\ \E k \in Kinds : match' = Opened(match.no, match.round + 1, k)
        /\ LET ps == <<Packet("result", match.no, match.round), StartOf(match')>> IN
           packets' = Sent(ps) /\ ToldLess(ps)
  /\ UNCHANGED <<owed, uplink, connected, board, piece, drops>>

DropsLink ==
  /\ connected /\ drops > 0 /\ drops' = drops - 1
  /\ connected' = FALSE /\ cutOff' = TRUE
  /\ packets' = IF \E i \in 1..Len(packets) : packets[i].type = "over" THEN <<Packet("over", match.no, 0)>> ELSE <<>>
  /\ uplink' \in {uplink, <<>>}
  /\ UNCHANGED <<serverVars, board, piece>>

Reconnects ==
  /\ ~connected /\ connected' = TRUE
  /\ UNCHANGED <<serverVars, packets, uplink, board, piece, drops, cutOff>>

-----------------------------------------------------------------------------
(* The handlers of SocketProvider, and the rendering after one or two of them.            *)

Cleared(b) == [b EXCEPT !.of = NoRound]
Emptied(b) == [Cleared(b) EXCEPT !.duel = 0]
Retriable == {"INVALID_SCORE"}

IsOurDuel(b, p) == b.duel = p.duel
IsOurRound(b, p) == b.duel = p.duel /\ b.of.round = p.round
Applied(b, p) ==
  CASE p.type = "accepted" -> IF b.duel = 0 THEN [b EXCEPT !.duel = p.duel] ELSE b
    [] p.type = "start"    -> IF b.duel # p.duel THEN b
                              ELSE [b EXCEPT !.of = [NoRound EXCEPT !.kind = p.kind, !.round = p.round]]
    [] p.type = "go"       -> IF IsOurRound(b, p) THEN [b EXCEPT !.signal = @ + 1] ELSE b
    [] p.type = "opponent" -> IF IsOurRound(b, p) THEN [b EXCEPT !.of.theirs = TRUE] ELSE b
    [] p.type = "result"   -> IF b.duel = p.duel THEN Cleared(b) ELSE b
    [] p.type = "over"     -> IF b.duel = p.duel THEN Emptied(b) ELSE b
    [] p.type = "DUEL"     -> Emptied(b)
    [] p.type \in Retriable -> [b EXCEPT !.of.mine = FALSE]
    [] OTHER               -> b

(* The component is keyed by its round; a reaction game takes the signal it is mounted    *)
(* with as its baseline, and goes to its signal at any other, also after a tap too soon.  *)
Mounted(b) == [NoPiece EXCEPT !.kind = b.of.kind, !.round = b.of.round, !.base = b.signal,
                              !.phase = CASE b.of.kind = "TAP" -> "ready"
                                          [] b.of.kind = "REACTION" -> "waiting"
                                          [] OTHER -> "asking"]
Rendered(b) ==
  IF b.of.kind = "none" \/ b.of.mine THEN NoPiece
  ELSE IF <<piece.kind, piece.round>> # <<b.of.kind, b.of.round>> THEN Mounted(b)
  ELSE IF piece.kind = "REACTION" /\ b.signal # piece.base THEN [piece EXCEPT !.phase = "go"]
  ELSE piece

Receives ==
  /\ connected /\ packets # <<>>
  /\ \/ packets' = Tail(packets) /\ board' = Applied(board, Head(packets))
     \/ /\ Len(packets) > 1 /\ packets' = Tail(Tail(packets))
        /\ board' = Applied(Applied(board, Head(packets)), packets[2])
  /\ piece' = Rendered(board')
  /\ UNCHANGED <<serverVars, uplink, wire>>

-----------------------------------------------------------------------------
(* The player.                                                                            *)

HandleSubmit(many) ==
  /\ board.duel # 0 /\ ~board.of.mine
  /\ board' = [board EXCEPT !.of.mine = TRUE] /\ piece' = Rendered(board')
  /\ uplink' = Append(uplink, [duel |-> board.duel, round |-> board.of.round, many |-> many,
                               tap |-> IF piece.early THEN "early"
                                       ELSE IF piece.phase = "go" THEN "shown" ELSE "other"])
  /\ UNCHANGED <<serverVars, packets, wire>>

(* A tap before the signal is announced for 600 ms, then sent. *)
TapsTooSoon ==
  /\ piece.phase = "waiting"
  /\ piece' = [piece EXCEPT !.phase = "tooSoon", !.timer = TRUE, !.early = ~match.go]
  /\ UNCHANGED <<serverVars, packets, uplink, board, wire>>
FalseStartTimer == piece.timer /\ HandleSubmit(FALSE)
TapsAtSignal == piece.phase = "go" /\ HandleSubmit(FALSE)

StartsTapping ==
  /\ piece.phase = "ready" /\ piece' = [piece EXCEPT !.phase = "playing"]
  /\ UNCHANGED <<serverVars, packets, uplink, board, wire>>
TappingEnds == piece.phase = "playing" /\ \E many \in BOOLEAN : HandleSubmit(many)

Selects == piece.phase = "asking" /\ HandleSubmit(FALSE)

GameScreenNext ==
  \/ NextMatch \/ MarksGo \/ OpponentSubmits \/ EmitsOwed \/ Arrives \/ Settles \/ DropsLink \/ Reconnects
  \/ Receives \/ TapsTooSoon \/ FalseStartTimer \/ TapsAtSignal \/ StartsTapping \/ TappingEnds \/ Selects

GameScreenSpec == GameScreenInit /\ [][GameScreenNext]_gameVars

-----------------------------------------------------------------------------
GameScreenTypeOK ==
  /\ match.no \in 0..MaxGames /\ match.round \in 1..MaxRounds /\ match.kind \in Kinds
  /\ match.mine \in {"none", "falseStart", "valid"} /\ match.tap \in {"none", "early", "shown", "other"}
  /\ \A p \in owed : p.type \in {"go", "opponent"}
  /\ board.duel \in 0..MaxGames /\ board.signal \in 0..MaxGames * MaxRounds
  /\ board.of.round \in 0..MaxRounds /\ board.of.kind \in Kinds \union {"none"}
  /\ piece.phase \in {"none", "ready", "playing", "waiting", "tooSoon", "go", "asking"}
  /\ {connected, cutOff, match.running, match.go, match.theirs, board.of.mine, board.of.theirs,
      piece.timer, piece.early} \subseteq BOOLEAN
  /\ drops \in 0..MaxDrops

InRound == match.running /\ board.duel = match.no /\ board.of.round = match.round

(* The signal is shown only when the server has stored its instant for that very round,   *)
(* so who taps at it is never judged a false start; no late signal of an earlier round.   *)
GoShownIsGo ==
  /\ InRound /\ piece.phase = "go" => match.go
  /\ match.mine = "falseStart" => match.tap # "shown"

(* Whoever is told that the opponent is done is told of this round.                       *)
NudgedInTime == InRound /\ board.of.theirs => match.theirs

(* Who waits for the opponent has handed something in: the server holds it, or it is on   *)
(* its way, or its refusal is, which lets him try again; and nothing is handed in twice.  *)
WaitsForAReason ==
  /\ InRound /\ board.of.mine /\ match.mine = "none" =>
       \/ cutOff
       \/ \E i \in 1..Len(uplink) : uplink[i].duel = match.no /\ uplink[i].round = match.round
       \/ \E i \in 1..Len(packets) : packets[i].type \in {"INVALID_SCORE", "DUEL"}
  /\ \A i \in 1..Len(packets) : packets[i].type # "ALREADY_SUBMITTED"

(* The three together: however packets of rounds and duels follow each other, the screen  *)
(* is the one of the round that is played, and lets the player play it once.              *)
ScreenPlaysTheRound == GoShownIsGo /\ NudgedInTime /\ WaitsForAReason

(* A tap before the signal is handed on to be judged a false start (ReactionGame.tsx:     *)
(* otherwise to tap early would cost nothing).                                            *)
EarlyTapIsFalseStart == match.tap = "early" => match.mine = "falseStart"
=============================================================================
