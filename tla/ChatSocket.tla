----------------------------- MODULE ChatSocket -----------------------------
(***************************************************************************)
(* The chat of the mobile client (frontend hooks/use-chat-socket.ts,       *)
(* store/useChatStore.ts): a message is shown at once as being sent, and   *)
(* the answer to its emission, or the lack of one within five seconds,     *)
(* decides what it becomes.  The server is the external part: it relays    *)
(* the message and acknowledges, or refuses with an exception that names   *)
(* no message.                                                             *)
(*                                                                         *)
(* Every emission has a callback, that runs once at most: with an answer,  *)
(* with an error after five seconds, or with one when the connection goes. *)
(***************************************************************************)
EXTENDS Integers, FiniteSets

CONSTANTS
  Messages,    \* what the user writes
  MaxEmits,    \* emissions
  MaxSwitches  \* drops of the connection, trips to the background, sign-outs

NoMessage == "none"

ASSUME ChatSocketAssumption == NoMessage \notin Messages /\ MaxEmits \in Nat /\ MaxSwitches \in Nat

VARIABLES
  line,         \* "none": there is no socket; "down": it connects; "up"
  status,       \* of each message: "new" before it is written, "gone" after a sign-out
  pendingIds,   \* pendingIdsRef
  lastSentId,   \* lastSentIdRef
  attemptOf,    \* attemptRef; 0 is no entry
  emit,         \* the emissions, in their order
  switches,     \* switches left
  relayed,      \* history: messages the server has relayed
  assumed       \* history: messages taken for sent when the socket was given up

chatVars == <<line, status, pendingIds, lastSentId, attemptOf, emit, switches, relayed, assumed>>

Emits == 1..MaxEmits
Unused == [msg |-> NoMessage, attempt |-> 0, at |-> "unused", waiting |-> FALSE]
Used(e) == emit[e].at # "unused"

ChatInit ==
  /\ line = "none" /\ status = [m \in Messages |-> "new"]
  /\ pendingIds = {} /\ lastSentId = NoMessage /\ attemptOf = [m \in Messages |-> 0]
  /\ emit = [e \in Emits |-> Unused] /\ switches = MaxSwitches
  /\ relayed = {} /\ assumed = {}

Switch == switches > 0 /\ switches' = switches - 1

-----------------------------------------------------------------------------
(* sendMessage, retryMessage and the emission they make. *)

NextEmit == CHOOSE e \in Emits : ~Used(e) /\ \A o \in 1..e - 1 : Used(o)

(* Without a socket nothing was sent, and the message has failed. *)
SilentlySent(m) == "sent"
WithoutSocket(m) == "failed"

(* An emission waits in the socket's buffer until it is connected. *)
EmitWithAck(m) ==
  IF line = "none"
    THEN /\ status' = [status EXCEPT ![m] = WithoutSocket(m)]
         /\ attemptOf' = [attemptOf EXCEPT ![m] = 0]
         /\ UNCHANGED <<pendingIds, lastSentId, emit>>
    ELSE /\ \E e \in Emits : ~Used(e)
         /\ status' = [status EXCEPT ![m] = "sending"]
         /\ attemptOf' = [attemptOf EXCEPT ![m] = @ + 1]
         /\ pendingIds' = pendingIds \union {m} /\ lastSentId' = m
         /\ emit' = [emit EXCEPT ![NextEmit] = [msg |-> m, attempt |-> attemptOf[m] + 1, waiting |-> TRUE,
                                                at |-> IF line = "up" THEN "server" ELSE "buffer"]]

SendMessage(m) ==
  /\ status[m] = "new"
  /\ EmitWithAck(m)
  /\ UNCHANGED <<line, switches, relayed, assumed>>

RetryMessage(m) ==
  /\ status[m] = "failed"
  /\ EmitWithAck(m)
  /\ UNCHANGED <<line, switches, relayed, assumed>>

-----------------------------------------------------------------------------
(* What comes of an emission. *)

(* External: the gateway relays and acknowledges, or refuses. *)
Relay(e) ==
  /\ emit[e].at = "server"
  /\ emit' = [emit EXCEPT ![e].at = "ack"]
  /\ relayed' = relayed \union {emit[e].msg}
  /\ UNCHANGED <<line, status, pendingIds, lastSentId, attemptOf, switches, assumed>>

Refuse(e) ==
  /\ emit[e].at = "server"
  /\ emit' = [emit EXCEPT ![e].at = "exception"]
  /\ UNCHANGED <<line, status, pendingIds, lastSentId, attemptOf, switches, relayed, assumed>>

(* The callback counts only while its attempt is the one noted for the message. *)
Callback(e, result) ==
  LET m == emit[e].msg
  IN  IF attemptOf[m] = emit[e].attempt
        THEN /\ status' = [status EXCEPT ![m] = IF @ = "gone" THEN @ ELSE result]
             /\ pendingIds' = pendingIds \ {m}
             /\ attemptOf' = [attemptOf EXCEPT ![m] = 0]
        ELSE UNCHANGED <<status, pendingIds, attemptOf>>

AckArrives(e) ==
  /\ emit[e].at = "ack"
  /\ IF emit[e].waiting THEN Callback(e, "sent") ELSE UNCHANGED <<status, pendingIds, attemptOf>>
  /\ emit' = [emit EXCEPT ![e].at = "over", ![e].waiting = FALSE]
  /\ UNCHANGED <<line, lastSentId, switches, relayed, assumed>>

(* Five seconds after the emission; one that is still in the buffer is taken out of it. *)
AckTimesOut(e) ==
  /\ emit[e].waiting /\ \A o \in 1..e - 1 : ~emit[o].waiting
  /\ Callback(e, "failed")
  /\ emit' = [emit EXCEPT ![e].waiting = FALSE, ![e].at = IF @ = "buffer" THEN "over" ELSE @]
  /\ UNCHANGED <<line, lastSentId, switches, relayed, assumed>>

(* An exception is taken for one of the message sent last. *)
ExceptionArrives(e) ==
  /\ emit[e].at = "exception"
  /\ IF lastSentId \in pendingIds
       THEN /\ pendingIds' = pendingIds \ {lastSentId}
            /\ attemptOf' = [attemptOf EXCEPT ![lastSentId] = 0]
            /\ status' = [status EXCEPT ![lastSentId] = IF @ = "gone" THEN @ ELSE "failed"]
       ELSE UNCHANGED <<status, pendingIds, attemptOf>>
  /\ emit' = [emit EXCEPT ![e].at = "over"]
  /\ UNCHANGED <<line, lastSentId, switches, relayed, assumed>>

-----------------------------------------------------------------------------
(* The socket: there is one while the user is signed in and the app is in front. *)

Foreground ==
  /\ line = "none"
  /\ line' = "down"
  /\ UNCHANGED <<status, pendingIds, lastSentId, attemptOf, emit, switches, relayed, assumed>>

Connects ==
  /\ line = "down"
  /\ line' = "up"
  /\ emit' = [e \in Emits |-> IF emit[e].at = "buffer" THEN [emit[e] EXCEPT !.at = "server"] ELSE emit[e]]
  /\ UNCHANGED <<status, pendingIds, lastSentId, attemptOf, switches, relayed, assumed>>

(* When a connection goes, what the server has still to handle is handled or lost, and    *)
(* its answers are lost.                                                                  *)
Travelling == {e \in Emits : emit[e].at \in {"server", "ack", "exception"}}
Lost(e) == [emit[e] EXCEPT !.at = "over", !.waiting = FALSE]

(* The network fails: the callbacks of all that had left the buffer get an error. *)
ConnectionDrops ==
  /\ line = "up" /\ Switch
  /\ line' = "down"
  /\ LET current == {emit[e].msg : e \in {t \in Travelling : emit[t].waiting
                                            /\ attemptOf[emit[t].msg] = emit[t].attempt}}
     IN  /\ status' = [m \in Messages |-> IF m \in current /\ status[m] # "gone" THEN "failed" ELSE status[m]]
         /\ pendingIds' = pendingIds \ current
         /\ attemptOf' = [m \in Messages |-> IF m \in current THEN 0 ELSE attemptOf[m]]
  /\ \E handled \in SUBSET {e \in Emits : emit[e].at = "server"} :
       relayed' = relayed \union {emit[e].msg : e \in handled}
  /\ emit' = [e \in Emits |-> IF e \in Travelling THEN Lost(e) ELSE emit[e]]
  /\ UNCHANGED <<lastSentId, assumed>>

(* The app goes to the background, or the user signs out and his feed is cleared.  What   *)
(* is pending is taken for sent and its attempt forgotten before the socket is given up,  *)
(* so that the errors of the callbacks do not count.                                      *)
GiveUpSocket(kept) ==
  /\ line # "none" /\ Switch
  /\ line' = "none"
  /\ status' = [m \in Messages |-> IF status[m] = "new" THEN "new"
                                   ELSE IF kept = {} THEN "gone"
                                   ELSE IF m \in pendingIds /\ status[m] # "gone" THEN "sent" ELSE status[m]]
  /\ assumed' = assumed \union pendingIds
  /\ pendingIds' = {}
  /\ attemptOf' = [m \in Messages |-> IF m \in pendingIds THEN 0 ELSE attemptOf[m]]
  /\ \E handled \in SUBSET {e \in Emits : emit[e].at = "server"} :
       relayed' = relayed \union {emit[e].msg : e \in handled}
  /\ emit' = [e \in Emits |-> IF Used(e) THEN Lost(e) ELSE emit[e]]
  /\ UNCHANGED lastSentId

Background == GiveUpSocket(Messages)
SignOut == GiveUpSocket({})

ChatNext ==
  \/ \E m \in Messages : SendMessage(m) \/ RetryMessage(m)
  \/ \E e \in Emits : Relay(e) \/ Refuse(e) \/ AckArrives(e) \/ AckTimesOut(e) \/ ExceptionArrives(e)
  \/ Foreground \/ Connects \/ ConnectionDrops \/ Background \/ SignOut

ChatSpec == ChatInit /\ [][ChatNext]_chatVars

-----------------------------------------------------------------------------
ChatTypeOK ==
  /\ line \in {"none", "down", "up"}
  /\ status \in [Messages -> {"new", "sending", "sent", "failed", "gone"}]
  /\ pendingIds \subseteq Messages /\ lastSentId \in Messages \union {NoMessage}
  /\ attemptOf \in [Messages -> 0..MaxEmits]
  /\ emit \in [Emits -> [msg : Messages \union {NoMessage}, attempt : 0..MaxEmits, waiting : BOOLEAN,
                         at : {"unused", "buffer", "server", "ack", "exception", "over"}]]
  /\ switches \in 0..MaxSwitches /\ relayed \subseteq Messages /\ assumed \subseteq Messages

(* No message is lost in silence: one that is shown as sent was relayed, or the socket    *)
(* was given up while its answer was awaited.  And none is shown as being sent for ever:  *)
(* there is a callback for it that will still run and count.                              *)
ShownAsItIs ==
  \A m \in Messages :
    /\ status[m] = "sent" => m \in relayed \union assumed
    /\ status[m] = "sending" => \E e \in Emits : /\ emit[e].msg = m /\ emit[e].waiting
                                                 /\ emit[e].attempt = attemptOf[m]
=============================================================================
