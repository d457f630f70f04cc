---------------------------- MODULE ClientProofs ----------------------------
(***************************************************************************)
(* Proofs about the mobile client's chat, position watcher, map, season    *)
(* ranking and signing up, each for any number of messages, spots,         *)
(* seasons, accounts, answers and taps.  The five share no state: each has *)
(* an inductive invariant of its own, which says beside the property what  *)
(* is still on its way to the screen and for whom it was asked.            *)
(* The types of each are the last theorem of its section.                  *)
(***************************************************************************)
EXTENDS ChatSocket, LocationWatch, MapSheet, SeasonScreen, SignIn, FiniteSetTheorems, TLAPS

-----------------------------------------------------------------------------
(* The chat.  What is shown as being sent is pending, and the emission of its attempt has   *)
(* a callback that waits; what was acknowledged was relayed; the emissions are used in       *)
(* their order, so a new one takes nothing away from a message that waits.                  *)
Statuses == {"new", "sending", "sent", "failed", "gone"}
Emission == [msg : Messages \union {NoMessage}, attempt : Nat, waiting : BOOLEAN,
             at : {"unused", "buffer", "server", "ack", "exception", "over"}]
ChatTyped ==
  /\ status \in [Messages -> Statuses] /\ pendingIds \subseteq Messages
  /\ attemptOf \in [Messages -> Nat] /\ emit \in [Emits -> Emission]
EmitsFit ==
  \A e \in Emits : /\ Used(e) => emit[e].msg \in Messages
                   /\ emit[e].waiting => Used(e)
                   /\ emit[e].at = "ack" => emit[e].msg \in relayed
UsedInOrder == \E k \in 0..MaxEmits : \A e \in Emits : Used(e) <=> e <= k
SendingIsPending == \A m \in Messages : status[m] = "sending" => m \in pendingIds
ChatInv == ChatTyped /\ EmitsFit /\ UsedInOrder /\ SendingIsPending /\ ShownAsItIs

LEMMA ChatInitially == ChatInit => ChatInv
<1> SUFFICES ASSUME ChatInit PROVE ChatInv
  OBVIOUS
<1>1. /\ ChatTyped
      /\ \A e \in Emits : emit[e].at = "unused" /\ ~emit[e].waiting
      /\ \A m \in Messages : status[m] = "new"
  BY DEF ChatInit, ChatTyped, Statuses, Emission, Unused
<1>2. UsedInOrder
  <2>1. MaxEmits \in Nat /\ 0 \in 0..MaxEmits /\ \A e \in Emits : ~Used(e) /\ ~(e <= 0)
    BY <1>1, ChatSocketAssumption DEF Used, Emits
  <2> QED
    BY <2>1 DEF UsedInOrder
<1> QED
  BY <1>1, <1>2 DEF ChatInv, EmitsFit, SendingIsPending, ShownAsItIs, Used

(* What every step does that writes no new emission. *)
LEMMA NothingNewSent ==
  ASSUME ChatInv,
         ChatTyped',
         relayed \subseteq relayed', assumed \subseteq assumed',
         \A e \in Emits : /\ emit'[e].msg = emit[e].msg /\ emit'[e].attempt = emit[e].attempt
                          /\ emit'[e].at = "unused" <=> emit[e].at = "unused"
                          /\ emit'[e].waiting => emit[e].waiting
                          /\ emit'[e].at = "ack" => emit[e].at = "ack" \/ emit[e].msg \in relayed',
         \A m \in Messages : status'[m] = "sent" => status[m] = "sent" \/ m \in relayed' \union assumed',
         \A m \in Messages : status'[m] = "sending" =>
           /\ status[m] = "sending" /\ m \in pendingIds' /\ attemptOf'[m] = attemptOf[m]
           /\ \A e \in Emits : emit[e].msg = m /\ emit[e].waiting /\ emit[e].attempt = attemptOf[m]
                                 => emit'[e].waiting
  PROVE  ChatInv'
<1>1. EmitsFit'
  BY DEF ChatInv, EmitsFit, Used
<1>2. UsedInOrder'
  BY DEF ChatInv, UsedInOrder, Used
<1>3. SendingIsPending'
  BY DEF SendingIsPending
<1>4. ShownAsItIs'
  <2> SUFFICES ASSUME NEW m \in Messages
               PROVE  /\ status'[m] = "sent" => m \in relayed' \union assumed'
                      /\ status'[m] = "sending" =>
                           \E e \in Emits : emit'[e].msg = m /\ emit'[e].waiting /\ emit'[e].attempt = attemptOf'[m]
    BY DEF ShownAsItIs
  <2>1. status'[m] = "sent" => m \in relayed' \union assumed'
    BY DEF ChatInv, ShownAsItIs
  <2>2. ASSUME status'[m] = "sending"
        PROVE  \E e \in Emits : emit'[e].msg = m /\ emit'[e].waiting /\ emit'[e].attempt = attemptOf'[m]
    <3>1. PICK e \in Emits : emit[e].msg = m /\ emit[e].waiting /\ emit[e].attempt = attemptOf[m]
      BY <2>2 DEF ChatInv, ShownAsItIs
    <3> QED
      BY <2>2, <3>1
  <2> QED
    BY <2>1, <2>2
<1> QED
  BY <1>1, <1>2, <1>3, <1>4 DEF ChatInv

(* sendMessage and retryMessage. *)
LEMMA SendingFits ==
  ASSUME ChatInv, NEW m \in Messages, SendMessage(m) \/ RetryMessage(m)
  PROVE  ChatInv'
<1>1. EmitWithAck(m) /\ UNCHANGED <<relayed, assumed>> /\ status[m] \in {"new", "failed"}
  BY DEF SendMessage, RetryMessage
<1> USE DEF ChatInv
<1>2. CASE line = "none"
  <2>1. /\ status' = [status EXCEPT ![m] = "failed"] /\ attemptOf' = [attemptOf EXCEPT ![m] = 0]
        /\ UNCHANGED <<pendingIds, emit>>
    BY <1>1, <1>2 DEF EmitWithAck, WithoutSocket
  <2>2. /\ ChatTyped'
        /\ \A n \in Messages : status'[n] # "failed" => status'[n] = status[n] /\ attemptOf'[n] = attemptOf[n]
    BY <2>1 DEF ChatTyped, Statuses
  <2> QED
    BY <1>1, <2>1, <2>2, NothingNewSent DEF SendingIsPending
<1>3. CASE line # "none"
  <2> DEFINE a == IF line = "up" THEN "server" ELSE "buffer"
             t == attemptOf[m] + 1
             r == [msg |-> m, attempt |-> t, waiting |-> TRUE, at |-> a]
             n == NextEmit
  <2>1. /\ \E e \in Emits : ~Used(e)
        /\ status' = [status EXCEPT ![m] = "sending"] /\ attemptOf' = [attemptOf EXCEPT ![m] = @ + 1]
        /\ pendingIds' = pendingIds \union {m} /\ emit' = [emit EXCEPT ![n] = r]
    BY <1>1, <1>3 DEF EmitWithAck
  <2>2. a \in {"server", "buffer"} /\ t \in Nat
    BY DEF ChatTyped
  <2>3. PICK k \in 0..MaxEmits : \A e \in Emits : Used(e) <=> e <= k
    BY DEF UsedInOrder
  <2>4. MaxEmits \in Nat /\ k \in Nat /\ k + 1 \in Emits
    BY <2>1, <2>3, ChatSocketAssumption DEF Emits
  <2>5. n \in Emits /\ ~Used(n) /\ \A o \in 1..n - 1 : Used(o)
    <3>1. ~Used(k + 1) /\ \A o \in 1..(k + 1) - 1 : Used(o)
      BY <2>3, <2>4 DEF Emits
    <3> QED
      BY <2>4, <3>1 DEF NextEmit
  <2>6. n = k + 1
    BY <2>3, <2>4, <2>5 DEF Emits
  <2> HIDE DEF a, t, n
  <2>7. r \in Emission /\ r.msg = m /\ r.attempt = t /\ r.waiting = TRUE /\ r.at = a
    BY <2>2 DEF Emission
  <2> HIDE DEF r
  <2>8. emit' \in [Emits -> Emission] /\ emit'[n] = r /\ \A e \in Emits : e # n => emit'[e] = emit[e]
    BY <2>1, <2>5, <2>7 DEF ChatTyped
  <2>9. /\ status' \in [Messages -> Statuses] /\ attemptOf' \in [Messages -> Nat] /\ attemptOf'[m] = t
        /\ \A o \in Messages : o # m => status'[o] = status[o] /\ attemptOf'[o] = attemptOf[o]
    BY <2>1 DEF ChatTyped, Statuses, t
  <2>10. ChatTyped' /\ SendingIsPending'
    BY <2>1, <2>8, <2>9 DEF ChatTyped, SendingIsPending
  <2>11. EmitsFit'
    BY <1>1, <2>2, <2>7, <2>8 DEF EmitsFit, Used
  <2>12. UsedInOrder'
    <3>1. \A e \in Emits : Used(e)' <=> e <= k + 1
      BY <2>2, <2>3, <2>4, <2>6, <2>7, <2>8 DEF Used, Emits
    <3>2. k + 1 \in 0..MaxEmits
      BY <2>4 DEF Emits
    <3> QED
      BY <3>1, <3>2 DEF UsedInOrder
  <2>13. ShownAsItIs'
    <3> SUFFICES ASSUME NEW o \in Messages
                 PROVE  /\ status'[o] = "sent" => o \in relayed' \union assumed'
                        /\ status'[o] = "sending" =>
                             \E e \in Emits : emit'[e].msg = o /\ emit'[e].waiting /\ emit'[e].attempt = attemptOf'[o]
      BY DEF ShownAsItIs
    <3>1. CASE o = m
      BY <2>1, <2>5, <2>7, <2>8, <2>9, <3>1 DEF ChatTyped
    <3>2. CASE o # m
      <4>1. \A e \in Emits : emit[e].waiting => e # n
        BY <2>5 DEF EmitsFit
      <4> QED
        BY <1>1, <2>8, <2>9, <3>2, <4>1 DEF ShownAsItIs
    <3> QED
      BY <3>1, <3>2
  <2> QED
    BY <2>10, <2>11, <2>12, <2>13
<1> QED
  BY <1>2, <1>3

(* What comes of an emission. *)
LEMMA AnswersFitChat ==
  ASSUME ChatInv, NEW e \in Emits,
         Relay(e) \/ Refuse(e) \/ AckArrives(e) \/ AckTimesOut(e) \/ ExceptionArrives(e)
  PROVE  ChatInv'
<1> USE DEF ChatInv
<1>t. emit[e] \in Emission
  BY DEF ChatTyped
<1>1. CASE Relay(e) \/ Refuse(e)
  <2>1. PICK a \in {"ack", "exception"} :
          /\ emit' = [emit EXCEPT ![e].at = a] /\ emit[e].at = "server"
          /\ relayed \subseteq relayed' /\ (a = "ack" => emit[e].msg \in relayed')
          /\ UNCHANGED <<status, pendingIds, attemptOf, assumed>>
    BY <1>1 DEF Relay, Refuse
  <2>2. /\ emit' \in [Emits -> Emission]
        /\ \A o \in Emits : o # e => emit'[o] = emit[o]
        /\ emit'[e].msg = emit[e].msg /\ emit'[e].attempt = emit[e].attempt
        /\ emit'[e].waiting = emit[e].waiting /\ emit'[e].at = a
    BY <1>t, <2>1 DEF ChatTyped, Emission
  <2>3. ChatTyped'
    BY <2>1, <2>2 DEF ChatTyped
  <2> QED
    BY <2>1, <2>2, <2>3, NothingNewSent DEF SendingIsPending
<1>2. CASE AckArrives(e) \/ AckTimesOut(e)
  <2> DEFINE m == emit[e].msg
  <2>1. UNCHANGED <<relayed, assumed>> /\ (emit[e].at = "ack" \/ emit[e].waiting)
    BY <1>2 DEF AckArrives, AckTimesOut
  <2>2. PICK a \in {"unused", "buffer", "server", "ack", "exception", "over"} :
          /\ (a = "over" /\ emit[e].at \in {"ack", "buffer"}) \/ a = emit[e].at
          /\ emit' = [emit EXCEPT ![e] = [emit[e] EXCEPT !.at = a, !.waiting = FALSE]]
    <3>1. CASE AckArrives(e)
      <4>1. emit' = [emit EXCEPT ![e] = [emit[e] EXCEPT !.at = "over", !.waiting = FALSE]]
        BY <3>1 DEF AckArrives
      <4> QED
        BY <3>1, <4>1 DEF AckArrives
    <3>2. CASE AckTimesOut(e)
      <4> DEFINE b == IF emit[e].at = "buffer" THEN "over" ELSE emit[e].at
      <4>1. emit' = [emit EXCEPT ![e] = [emit[e] EXCEPT !.waiting = FALSE, !.at = b]]
        BY <3>2, Zenon DEF AckTimesOut
      <4>2. b \in {"unused", "buffer", "server", "ack", "exception", "over"}
            /\ ((b = "over" /\ emit[e].at = "buffer") \/ b = emit[e].at)
        BY <1>t DEF Emission
      <4> HIDE DEF b
      <4>3. [emit[e] EXCEPT !.waiting = FALSE, !.at = b] = [emit[e] EXCEPT !.at = b, !.waiting = FALSE]
        BY <1>t DEF Emission
      <4> QED
        BY <4>1, <4>2, <4>3
    <3> QED
      BY <1>2, <3>1, <3>2
  <2> DEFINE r == [emit[e] EXCEPT !.at = a, !.waiting = FALSE]
  <2>3. m \in Messages
    BY <2>1 DEF EmitsFit, Used
  <2>4. \/ /\ emit[e].waiting /\ attemptOf[m] = emit[e].attempt
           /\ \/ status' = [status EXCEPT ![m] = IF @ = "gone" THEN @ ELSE "sent"] /\ m \in relayed
              \/ status' = [status EXCEPT ![m] = IF @ = "gone" THEN @ ELSE "failed"]
           /\ pendingIds' = pendingIds \ {m} /\ attemptOf' = [attemptOf EXCEPT ![m] = 0]
        \/ /\ emit[e].waiting => attemptOf[m] # emit[e].attempt
           /\ UNCHANGED <<status, pendingIds, attemptOf>>
    BY <1>2 DEF AckArrives, AckTimesOut, Callback, EmitsFit
  <2> HIDE DEF m
  <2>5. r \in Emission /\ r.msg = m /\ r.attempt = emit[e].attempt /\ ~r.waiting /\ r.at = a
        /\ (a = "ack" => emit[e].at = "ack") /\ (a = "unused" <=> emit[e].at = "unused")
    BY <1>t, <2>2 DEF Emission, m
  <2> HIDE DEF r
  <2>6. /\ emit' \in [Emits -> Emission] /\ emit'[e] = r
        /\ \A o \in Emits : o # e => emit'[o] = emit[o]
    BY <2>2, <2>5 DEF ChatTyped, r
  <2>7. /\ ChatTyped'
        /\ \A o \in Messages : status'[o] = "sending" =>
             /\ status[o] = "sending" /\ o \in pendingIds' /\ attemptOf'[o] = attemptOf[o]
             /\ o = m => ~(emit[e].waiting /\ attemptOf[m] = emit[e].attempt)
        /\ \A o \in Messages : status'[o] = "sent" => status[o] = "sent" \/ o \in relayed
    BY <2>3, <2>4, <2>6 DEF ChatTyped, Statuses, SendingIsPending
  <2>8. \A o \in Messages : status'[o] = "sending" =>
          \A f \in Emits : emit[f].msg = o /\ emit[f].waiting /\ emit[f].attempt = attemptOf[o] => emit'[f].waiting
    BY <2>5, <2>6, <2>7 DEF m
  <2>9. UNCHANGED <<relayed, assumed>>
    BY <1>2 DEF AckArrives, AckTimesOut
  <2> QED
    BY <2>5, <2>6, <2>7, <2>8, <2>9, NothingNewSent DEF m
<1>3. CASE ExceptionArrives(e)
  <2>1. /\ emit' = [emit EXCEPT ![e].at = "over"] /\ emit[e].at = "exception" /\ UNCHANGED <<relayed, assumed>>
        /\ \/ /\ lastSentId \in pendingIds /\ pendingIds' = pendingIds \ {lastSentId}
              /\ attemptOf' = [attemptOf EXCEPT ![lastSentId] = 0]
              /\ status' = [status EXCEPT ![lastSentId] = IF @ = "gone" THEN @ ELSE "failed"]
           \/ UNCHANGED <<status, pendingIds, attemptOf>>
    BY <1>3 DEF ExceptionArrives
  <2>2. /\ emit' \in [Emits -> Emission]
        /\ \A o \in Emits : o # e => emit'[o] = emit[o]
        /\ emit'[e].msg = emit[e].msg /\ emit'[e].attempt = emit[e].attempt
        /\ emit'[e].waiting = emit[e].waiting /\ emit'[e].at = "over"
    BY <1>t, <2>1 DEF ChatTyped, Emission
  <2>3. /\ ChatTyped'
        /\ \A o \in Messages : status'[o] = "sending" =>
             status[o] = "sending" /\ o \in pendingIds' /\ attemptOf'[o] = attemptOf[o]
        /\ \A o \in Messages : status'[o] = "sent" => status[o] = "sent"
    BY <2>1, <2>2 DEF ChatTyped, Statuses, SendingIsPending
  <2> QED
    BY <2>1, <2>2, <2>3, NothingNewSent
<1> QED
  BY <1>1, <1>2, <1>3

(* The socket comes and goes. *)
LEMMA SocketFits ==
  ASSUME ChatInv, Foreground \/ Connects \/ ConnectionDrops \/ Background \/ SignOut
  PROVE  ChatInv'
<1> USE DEF ChatInv
<1>1. CASE Foreground
  BY <1>1, NothingNewSent DEF Foreground, ChatTyped, SendingIsPending
<1>2. CASE Connects
  <2>1. /\ emit' = [e \in Emits |-> IF emit[e].at = "buffer" THEN [emit[e] EXCEPT !.at = "server"] ELSE emit[e]]
        /\ UNCHANGED <<status, pendingIds, attemptOf, relayed, assumed>>
    BY <1>2 DEF Connects
  <2>2. \A e \in Emits : /\ emit'[e] \in Emission
                         /\ emit'[e].msg = emit[e].msg /\ emit'[e].attempt = emit[e].attempt
                         /\ emit'[e].waiting = emit[e].waiting
                         /\ emit'[e].at = emit[e].at \/ (emit[e].at = "buffer" /\ emit'[e].at = "server")
    BY <2>1 DEF ChatTyped, Emission
  <2>3. emit' \in [Emits -> Emission]
    BY <2>1, <2>2
  <2> QED
    BY <2>1, <2>2, <2>3, NothingNewSent DEF ChatTyped, SendingIsPending
<1>3. CASE ConnectionDrops
  <2> DEFINE failing == {emit[e].msg : e \in {t \in Travelling : emit[t].waiting
                                            /\ attemptOf[emit[t].msg] = emit[t].attempt}}
  <2>1. /\ status' = [m \in Messages |-> IF m \in failing /\ status[m] # "gone" THEN "failed" ELSE status[m]]
        /\ pendingIds' = pendingIds \ failing
        /\ attemptOf' = [m \in Messages |-> IF m \in failing THEN 0 ELSE attemptOf[m]]
        /\ emit' = [e \in Emits |-> IF e \in Travelling THEN Lost(e) ELSE emit[e]]
        /\ assumed' = assumed /\ relayed \subseteq relayed'
    BY <1>3 DEF ConnectionDrops
  <2>2. \A e \in Emits : /\ emit'[e] \in Emission
                         /\ emit'[e].msg = emit[e].msg /\ emit'[e].attempt = emit[e].attempt
                         /\ emit'[e] = emit[e] \/ (e \in Travelling /\ emit'[e].at = "over" /\ ~emit'[e].waiting)
    BY <2>1, ZenonT(60) DEF ChatTyped, Emission, Lost
  <2>3. emit' \in [Emits -> Emission]
    BY <2>1, <2>2
  <2>4. \A e \in Travelling : emit[e].at # "unused"
    BY DEF Travelling
  <2>5. \A m \in Messages : status'[m] = "sending" => m \notin failing /\ status[m] = "sending"
    BY <2>1
  <2>6. \A m \in Messages : m \notin failing =>
          \A e \in Emits : emit[e].msg = m /\ emit[e].waiting /\ emit[e].attempt = attemptOf[m] => e \notin Travelling
    OBVIOUS
  <2>7. ChatTyped'
    BY <2>1, <2>3 DEF ChatTyped, Statuses
  <2>8. \A m \in Messages : /\ status'[m] = "sending" => m \in pendingIds' /\ attemptOf'[m] = attemptOf[m]
                            /\ status'[m] = "sent" => status[m] = "sent"
    BY <2>1, <2>5 DEF SendingIsPending
  <2> HIDE DEF failing
  <2>9. \A m \in Messages : status'[m] = "sending" =>
          \A e \in Emits : emit[e].msg = m /\ emit[e].waiting /\ emit[e].attempt = attemptOf[m] => emit'[e].waiting
    BY <2>2, <2>5, <2>6
  <2> QED
    BY <2>1, <2>2, <2>4, <2>5, <2>7, <2>8, <2>9, NothingNewSent
<1>4. CASE Background \/ SignOut
  <2>1. PICK kept \in {Messages, {}} : GiveUpSocket(kept)
    BY <1>4 DEF Background, SignOut
  <2>2. /\ status' = [m \in Messages |-> IF status[m] = "new" THEN "new"
                                   ELSE IF kept = {} THEN "gone"
                                   ELSE IF m \in pendingIds /\ status[m] # "gone" THEN "sent" ELSE status[m]]
        /\ assumed' = assumed \union pendingIds /\ pendingIds' = {}
        /\ attemptOf' = [m \in Messages |-> IF m \in pendingIds THEN 0 ELSE attemptOf[m]]
        /\ emit' = [e \in Emits |-> IF Used(e) THEN Lost(e) ELSE emit[e]]
        /\ relayed \subseteq relayed'
    BY <2>1 DEF GiveUpSocket
  <2>3. \A e \in Emits : /\ emit'[e] \in Emission
                         /\ emit'[e].msg = emit[e].msg /\ emit'[e].attempt = emit[e].attempt
                         /\ emit'[e] = emit[e] \/ (Used(e) /\ emit'[e].at = "over" /\ ~emit'[e].waiting)
    BY <2>2, ZenonT(60) DEF ChatTyped, Emission, Lost
  <2>4. emit' \in [Emits -> Emission]
    BY <2>2, <2>3
  <2>5. ChatTyped'
    BY <2>2, <2>4 DEF ChatTyped, Statuses
  <2>6. \A m \in Messages : /\ status'[m] # "sending"
                            /\ status'[m] = "sent" => status[m] = "sent" \/ m \in assumed'
    BY <2>2 DEF SendingIsPending
  <2> QED
    BY <2>2, <2>3, <2>5, <2>6, NothingNewSent DEF Used
<1> QED
  BY <1>1, <1>2, <1>3, <1>4

LEMMA ChatKeeps == ChatSpec => []ChatInv
<1>1. ChatInv /\ [ChatNext]_chatVars => ChatInv'
  <2> SUFFICES ASSUME ChatInv, [ChatNext]_chatVars PROVE ChatInv'
    OBVIOUS
  <2>1. CASE UNCHANGED chatVars
    BY <2>1 DEF chatVars, ChatInv, ChatTyped, EmitsFit, UsedInOrder, SendingIsPending, ShownAsItIs, Used
  <2> QED
    BY <2>1, SendingFits, AnswersFitChat, SocketFits DEF ChatNext
<1> QED
  BY <1>1, ChatInitially, PTL DEF ChatSpec

(* use-chat-socket: however drops, time-outs, retries and trips to the background overlap,  *)
(* no message is shown as sent that the server did not relay, unless the socket was given   *)
(* up while its answer was awaited, and none waits without a callback that will count.      *)
THEOREM MessagesShownAsTheyAre == ChatSpec => []ShownAsItIs
<1>1. ChatInv => ShownAsItIs
  BY DEF ChatInv
<1> QED
  BY <1>1, ChatKeeps, PTL

(* Types of the chat: beside the shapes above, an attempt never counts more emissions than    *)
(* there were.                                                                              *)
ChatWithin ==
  /\ line \in {"none", "down", "up"} /\ lastSentId \in Messages \union {NoMessage}
  /\ switches \in 0..MaxSwitches /\ relayed \subseteq Messages /\ assumed \subseteq Messages
AttemptsCounted ==
  \E k \in 0..MaxEmits : /\ \A e \in Emits : Used(e) <=> e <= k
                         /\ \A m \in Messages : attemptOf[m] <= k
                         /\ \A e \in Emits : emit[e].attempt <= k

LEMMA ChatStaysWithin ==
  ASSUME ChatInv, ChatWithin, ChatNext
  PROVE  ChatWithin'
<1>1. Switch => switches' \in 0..MaxSwitches
  BY ChatSocketAssumption DEF Switch, ChatWithin
<1>2. pendingIds \subseteq Messages /\ \A e \in Emits : emit[e].at # "unused" => emit[e].msg \in Messages
  BY DEF ChatInv, ChatTyped, EmitsFit, Used
<1>3. ASSUME NEW m \in Messages, SendMessage(m) \/ RetryMessage(m) PROVE ChatWithin'
  BY <1>3 DEF SendMessage, RetryMessage, EmitWithAck, ChatWithin
<1>4. ASSUME NEW e \in Emits,
             Relay(e) \/ Refuse(e) \/ AckArrives(e) \/ AckTimesOut(e) \/ ExceptionArrives(e)
      PROVE  ChatWithin'
  BY <1>2, <1>4 DEF Relay, Refuse, AckArrives, AckTimesOut, ExceptionArrives, ChatWithin
<1>5. ASSUME Foreground \/ Connects PROVE ChatWithin'
  BY <1>5 DEF Foreground, Connects, ChatWithin
<1>6. ASSUME ConnectionDrops \/ Background \/ SignOut PROVE ChatWithin'
  <2>1. /\ Switch /\ line' \in {"none", "down"} /\ lastSentId' = lastSentId
        /\ assumed' = assumed \/ assumed' = assumed \union pendingIds
    BY <1>6 DEF ConnectionDrops, Background, SignOut, GiveUpSocket
  <2>2. relayed' \subseteq Messages
    <3>1. PICK handled \in SUBSET {e \in Emits : emit[e].at = "server"} :
            relayed' = relayed \union {emit[e].msg : e \in handled}
      BY <1>6 DEF ConnectionDrops, Background, SignOut, GiveUpSocket
    <3> QED
      BY <1>2, <3>1 DEF ChatWithin
  <2> QED
    BY <1>1, <1>2, <2>1, <2>2 DEF ChatWithin
<1> QED
  BY <1>3, <1>4, <1>5, <1>6 DEF ChatNext

LEMMA NothingNewCounted ==
  ASSUME ChatInv, AttemptsCounted,
         \A m \in Messages : attemptOf'[m] = attemptOf[m] \/ attemptOf'[m] = 0,
         \A e \in Emits : emit'[e].attempt = emit[e].attempt /\ (emit'[e].at = "unused" <=> emit[e].at = "unused")
  PROVE  AttemptsCounted'
<1>1. PICK k \in 0..MaxEmits : /\ \A e \in Emits : Used(e) <=> e <= k
                               /\ \A m \in Messages : attemptOf[m] <= k
                               /\ \A e \in Emits : emit[e].attempt <= k
  BY DEF AttemptsCounted
<1>2. \A e \in Emits : Used(e)' <=> e <= k
  BY <1>1 DEF Used
<1>3. \A m \in Messages : attemptOf'[m] <= k
  BY <1>1
<1>4. \A e \in Emits : emit'[e].attempt <= k
  BY <1>1
<1> QED
  BY <1>2, <1>3, <1>4 DEF AttemptsCounted

LEMMA SendingCounts ==
  ASSUME ChatInv, AttemptsCounted, NEW m \in Messages, SendMessage(m) \/ RetryMessage(m)
  PROVE  AttemptsCounted'
<1>1. EmitWithAck(m) /\ attemptOf \in [Messages -> Nat] /\ emit \in [Emits -> Emission]
  BY DEF SendMessage, RetryMessage, ChatInv, ChatTyped
<1>2. CASE line = "none"
  <2>1. attemptOf' = [attemptOf EXCEPT ![m] = 0] /\ emit' = emit
    BY <1>1, <1>2 DEF EmitWithAck
  <2> QED
    BY <1>1, <2>1, NothingNewCounted
<1>3. CASE line # "none"
  <2> DEFINE a == IF line = "up" THEN "server" ELSE "buffer"
             r == [msg |-> m, attempt |-> attemptOf[m] + 1, waiting |-> TRUE, at |-> a]
             n == NextEmit
  <2>1. /\ \E e \in Emits : ~Used(e)
        /\ attemptOf' = [attemptOf EXCEPT ![m] = @ + 1] /\ emit' = [emit EXCEPT ![n] = r]
    BY <1>1, <1>3 DEF EmitWithAck
  <2>2. PICK k \in 0..MaxEmits : /\ \A e \in Emits : Used(e) <=> e <= k
                                 /\ \A o \in Messages : attemptOf[o] <= k
                                 /\ \A e \in Emits : emit[e].attempt <= k
    BY DEF AttemptsCounted
  <2>3. MaxEmits \in Nat /\ k \in Nat /\ k + 1 \in Emits
    BY <2>1, <2>2, ChatSocketAssumption DEF Emits
  <2>4. n \in Emits /\ ~Used(n) /\ \A o \in 1..n - 1 : Used(o)
    <3>1. ~Used(k + 1) /\ \A o \in 1..(k + 1) - 1 : Used(o)
      BY <2>2, <2>3 DEF Emits
    <3> QED
      BY <2>3, <3>1 DEF NextEmit
  <2>5. n = k + 1
    BY <2>2, <2>3, <2>4 DEF Emits
  <2> HIDE DEF n
  <2>6. /\ emit'[n].at \in {"server", "buffer"} /\ emit'[n].attempt = attemptOf[m] + 1
        /\ \A e \in Emits : e # n => emit'[e] = emit[e]
    BY <1>1, <2>1, <2>4
  <2>7. \A e \in Emits : Used(e)' <=> e <= k + 1
    BY <2>2, <2>3, <2>5, <2>6 DEF Used, Emits
  <2>8. \A o \in Messages : attemptOf'[o] = attemptOf[o] \/ attemptOf'[o] = attemptOf[o] + 1
    BY <1>1, <2>1
  <2>9. \A o \in Messages : attemptOf'[o] <= k + 1
    BY <1>1, <2>2, <2>3, <2>8
  <2>10. \A e \in Emits : emit'[e].attempt <= k + 1
    <3>1. \A e \in Emits : emit[e].attempt \in Nat
      BY <1>1 DEF Emission
    <3> QED
      BY <1>1, <2>2, <2>3, <2>6, <3>1
  <2>11. k + 1 \in 0..MaxEmits
    BY <2>3 DEF Emits
  <2> QED
    BY <2>7, <2>9, <2>10, <2>11 DEF AttemptsCounted
<1> QED
  BY <1>2, <1>3

LEMMA AnswersCount ==
  ASSUME ChatInv, AttemptsCounted, ChatNext, \A m \in Messages : ~SendMessage(m) /\ ~RetryMessage(m)
  PROVE  AttemptsCounted'
<1>1. attemptOf \in [Messages -> Nat] /\ emit \in [Emits -> Emission]
  BY DEF ChatInv, ChatTyped
<1>2. ASSUME NEW e \in Emits, Relay(e) \/ Refuse(e) \/ AckArrives(e) \/ AckTimesOut(e) \/ ExceptionArrives(e)
      PROVE  AttemptsCounted'
  <2>1. \A m \in Messages : attemptOf'[m] = attemptOf[m] \/ attemptOf'[m] = 0
    BY <1>1, <1>2 DEF Relay, Refuse, AckArrives, AckTimesOut, ExceptionArrives, Callback
  <2>2. emit[e].at # "unused"
    BY <1>2 DEF Relay, Refuse, AckArrives, AckTimesOut, ExceptionArrives, ChatInv, EmitsFit, Used
  <2>3. \A o \in Emits : o # e => emit'[o] = emit[o]
    BY <1>1, <1>2 DEF Relay, Refuse, AckArrives, AckTimesOut, ExceptionArrives
  <2>4. emit'[e].attempt = emit[e].attempt /\ emit'[e].at # "unused"
    <3>1. emit[e] \in Emission
      BY <1>1
    <3>2. CASE Relay(e) \/ Refuse(e) \/ AckArrives(e) \/ ExceptionArrives(e)
      BY <1>1, <3>1, <3>2 DEF Relay, Refuse, AckArrives, ExceptionArrives, Emission
    <3>3. CASE AckTimesOut(e)
      BY <1>1, <2>2, <3>1, <3>3 DEF AckTimesOut, Emission
    <3> QED
      BY <1>2, <3>2, <3>3
  <2> QED
    BY <2>1, <2>2, <2>3, <2>4, NothingNewCounted
<1>3. CASE Foreground
  BY <1>3, NothingNewCounted DEF Foreground
<1>4. CASE Connects
  <2>1. \A e \in Emits : emit'[e].attempt = emit[e].attempt /\ (emit'[e].at = "unused" <=> emit[e].at = "unused")
    BY <1>1, <1>4 DEF Connects, Emission
  <2> QED
    BY <1>4, <2>1, NothingNewCounted DEF Connects
<1>5. CASE ConnectionDrops \/ Background \/ SignOut
  <2>1. \A m \in Messages : attemptOf'[m] = attemptOf[m] \/ attemptOf'[m] = 0
    BY <1>1, <1>5 DEF ConnectionDrops, Background, SignOut, GiveUpSocket
  <2>2. \A e \in Emits : emit'[e] = emit[e] \/ (emit'[e] = Lost(e) /\ emit[e].at # "unused")
    BY <1>1, <1>5 DEF ConnectionDrops, Background, SignOut, GiveUpSocket, Travelling, Used
  <2>3. \A e \in Emits : Lost(e).attempt = emit[e].attempt /\ Lost(e).at = "over"
    BY <1>1 DEF Lost, Emission
  <2>4. \A e \in Emits : emit'[e].attempt = emit[e].attempt /\ (emit'[e].at = "unused" <=> emit[e].at = "unused")
    BY <2>2, <2>3
  <2> QED
    BY <2>1, <2>4, NothingNewCounted
<1> QED
  BY <1>2, <1>3, <1>4, <1>5 DEF ChatNext

(* The refs of use-chat-socket keep their shapes, whatever comes of the emissions, and what   *)
(* is relayed or taken for sent are messages the user has written.                            *)
THEOREM ChatStaysTyped == ChatSpec => []ChatTypeOK
<1>1. ChatInit => ChatWithin /\ AttemptsCounted
  <2> SUFFICES ASSUME ChatInit PROVE ChatWithin /\ AttemptsCounted
    OBVIOUS
  <2>1. ChatWithin
    BY ChatSocketAssumption DEF ChatInit, ChatWithin
  <2>2. 0 \in 0..MaxEmits /\ \A e \in Emits : ~(e <= 0) /\ ~Used(e)
    BY ChatSocketAssumption DEF ChatInit, Unused, Used, Emits
  <2>3. (\A m \in Messages : attemptOf[m] = 0) /\ (\A e \in Emits : emit[e].attempt = 0)
    BY DEF ChatInit, Unused
  <2> QED
    BY <2>1, <2>2, <2>3 DEF AttemptsCounted
<1>2. ChatInv /\ ChatWithin /\ AttemptsCounted /\ [ChatNext]_chatVars => ChatWithin' /\ AttemptsCounted'
  <2> SUFFICES ASSUME ChatInv, ChatWithin, AttemptsCounted, [ChatNext]_chatVars PROVE ChatWithin' /\ AttemptsCounted'
    OBVIOUS
  <2>1. CASE ChatNext
    BY <2>1, ChatStaysWithin, SendingCounts, AnswersCount
  <2>2. CASE UNCHANGED chatVars
    BY <2>2 DEF chatVars, ChatWithin, AttemptsCounted, Used
  <2> QED
    BY <2>1, <2>2
<1>3. ChatInv /\ ChatWithin /\ AttemptsCounted => ChatTypeOK
  <2> SUFFICES ASSUME ChatInv, ChatWithin, AttemptsCounted PROVE ChatTypeOK
    OBVIOUS
  <2>1. attemptOf \in [Messages -> Nat] /\ emit \in [Emits -> Emission] /\ MaxEmits \in Nat
        /\ status \in [Messages -> {"new", "sending", "sent", "failed", "gone"}] /\ pendingIds \subseteq Messages
    BY ChatSocketAssumption DEF ChatInv, ChatTyped, Statuses
  <2>2. (\A m \in Messages : attemptOf[m] <= MaxEmits) /\ (\A e \in Emits : emit[e].attempt <= MaxEmits)
    <3>1. PICK k \in 0..MaxEmits : /\ \A m \in Messages : attemptOf[m] <= k
                                   /\ \A e \in Emits : emit[e].attempt <= k
      BY DEF AttemptsCounted
    <3>2. \A e \in Emits : emit[e].attempt \in Nat
      BY <2>1 DEF Emission
    <3> QED
      BY <2>1, <3>1, <3>2
  <2>3. attemptOf \in [Messages -> 0..MaxEmits]
    BY <2>1, <2>2
  <2>4. emit \in [Emits -> [msg : Messages \union {NoMessage}, attempt : 0..MaxEmits, waiting : BOOLEAN,
                            at : {"unused", "buffer", "server", "ack", "exception", "over"}]]
    BY <2>1, <2>2 DEF Emission
  <2> QED
    BY <2>1, <2>3, <2>4 DEF ChatWithin, ChatTypeOK
<1> QED
  BY <1>1, <1>2, <1>3, ChatKeeps, PTL DEF ChatSpec

-----------------------------------------------------------------------------
(* The position watcher.  A start holds nothing, and its watcher is the only one; what is   *)
(* held is of the present generation; a start that ends for another reason than an error    *)
(* is followed by one for whoever is there.                                                 *)
StartPlaces == {"nowhere", "notice", "permission", "dialog", "services", "watch"}
Displays == [coords : Int, error : BOOLEAN, kind : {"none", "permission", "services", "unavailable"},
             loading : BOOLEAN]
LocationTyped ==
  /\ app \in {"active", "inactive", "background"} /\ generation \in Nat /\ held \in Int
  /\ begun \in [at : StartPlaces, gen : Nat] /\ (begun.at = "nowhere" => begun = Resting)
  /\ denied \in BOOLEAN /\ explicit \in BOOLEAN
  /\ display \in Displays
  /\ noticed \in {"loading", "pending", "acknowledged"} /\ asked \in Nat /\ taps \in Nat
WatchersFit ==
  /\ begun # Resting => held = Nothing
  /\ watchers = IF begun.at = "watch" THEN {begun.gen} ELSE {held} \ {Nothing}
  /\ held # Nothing => consumers # {} /\ app # "background" /\ held = generation
PositionFits ==
  /\ display.coords # Nothing => display.coords = generation /\ consumers # {}
  /\ display.coords # Nothing /\ app = "active" /\ begun = Resting => held = generation
  /\ NeverLoadingForever
NoticeFirst ==
  begun.at \in {"permission", "dialog", "services", "watch"} \/ asked > 0 => noticed = "acknowledged"

(* The dialogs answered, the one that is open, and the ones that taps, or the first start,  *)
(* may still bring.                                                                         *)
OpenDialog == IF begun.at = "dialog" THEN 1 ELSE 0
WishedDialog == IF explicit THEN 1 ELSE 0
RecoveryDialog == IF recovery # "none" THEN 1 ELSE 0
FirstDialog == IF begun.at # "dialog" /\ permission = "undetermined" /\ ~denied THEN 1 ELSE 0
DialogsPaid == asked + OpenDialog + WishedDialog + RecoveryDialog + FirstDialog <= 1 + taps
LocationInv == LocationTyped /\ WatchersFit /\ PositionFits /\ NoticeFirst /\ DialogsPaid

LEMMA DisplaysFit ==
  /\ Loading \in Displays /\ Loading.coords = Nothing
  /\ \A kind \in {"permission", "services", "unavailable"} :
       Failed(kind) \in Displays /\ Failed(kind).coords = Nothing /\ Failed(kind).error
  /\ \A g \in Int : [coords |-> g, error |-> FALSE, kind |-> "none", loading |-> FALSE] \in Displays
<1>1. Loading \in Displays /\ Loading.coords = Nothing
  BY DEF Displays, Loading, Nothing
<1>2. ASSUME NEW kind \in {"permission", "services", "unavailable"}
      PROVE  Failed(kind) \in Displays /\ Failed(kind).coords = Nothing /\ Failed(kind).error
  BY DEF Displays, Failed, Nothing
<1>3. ASSUME NEW g \in Int
      PROVE  [coords |-> g, error |-> FALSE, kind |-> "none", loading |-> FALSE] \in Displays
  BY DEF Displays
<1> QED
  BY <1>1, <1>2, <1>3

LEMMA LocationInitially == LocationInit => LocationInv
<1> SUFFICES ASSUME LocationInit PROVE LocationInv
  OBVIOUS
<1>1. LocationTyped
  <2>1. denied \in BOOLEAN /\ explicit \in BOOLEAN /\ display \in Displays /\ begun = Resting
    BY DisplaysFit, Zenon DEF LocationInit
  <2>2. Resting \in [at : StartPlaces, gen : Nat]
    BY DEF Resting, StartPlaces
  <2>3. app = "active" /\ generation = 0 /\ held = -1 /\ asked = 0 /\ taps = 0 /\ noticed = "loading"
    BY DEF LocationInit, Nothing
  <2> QED
    BY <2>1, <2>2, <2>3 DEF LocationTyped
<1>2. WatchersFit /\ PositionFits /\ NoticeFirst
  BY DEF LocationInit, WatchersFit, PositionFits, NeverLoadingForever, NoticeFirst, Resting, Loading, Nothing
<1>3. DialogsPaid
  BY DEF LocationInit, DialogsPaid, OpenDialog, WishedDialog, RecoveryDialog, FirstDialog, Resting
<1> QED
  BY <1>1, <1>2, <1>3 DEF LocationInv

(* What comes of start() and of its finally. *)
LEMMA WatchStarts ==
  ASSUME LocationTyped, generation' = generation, held' = held, NEW users, Start(users)
  PROVE  /\ begun' \in [at : StartPlaces, gen : Nat] /\ (begun'.at = "nowhere" => begun' = Resting)
         /\ begun' = begun \/ (/\ begun = Resting /\ begun'.at = "notice" /\ begun' # Resting
                              /\ held = Nothing)
         /\ begun' = Resting /\ users # {} /\ app' = "active" => held # Nothing
BY DEF LocationTyped, Start, MayStart, StartPlaces, Resting

LEMMA WatchEnded ==
  ASSUME LocationTyped, generation' = generation, Ends
  PROVE  /\ begun' \in [at : StartPlaces, gen : Nat] /\ (begun'.at = "nowhere" => begun' = Resting)
         /\ begun'.at \in {"nowhere", "notice"}
         /\ begun' # Resting => held' = Nothing
         /\ begun' = Resting /\ held' = Nothing /\ consumers # {} /\ app' = "active" => begun.gen = generation
BY DEF LocationTyped, Ends, Again, MayStart, StartPlaces, Resting

(* Steps outside the start: mounts, the notice, the state of the app, fixes and taps. *)
LEMMA OutsideFits ==
  ASSUME LocationInv,
         \/ Mounts \/ LoadsNotice \/ Acknowledges \/ ToInactive \/ ToActive \/ Settings \/ Taps
         \/ RecoveryReadsNotice \/ RecoveryReadsPermission
  PROVE  LocationInv'
<1> USE DEF LocationInv
<1>1. /\ UNCHANGED <<generation, watchers, held, denied, display, asked>>
      /\ noticed = "acknowledged" => noticed' = "acknowledged"
      /\ permission' = "undetermined" => permission = "undetermined"
      /\ consumers \subseteq consumers'
      /\ app' = "background" => app = "background"
  BY DEF Mounts, LoadsNotice, Acknowledges, ToInactive, ToActive, Settings, Taps, RecoveryReadsNotice,
         RecoveryReadsPermission, flags, os, history
<1>2. /\ begun' \in [at : StartPlaces, gen : Nat] /\ (begun'.at = "nowhere" => begun' = Resting)
      /\ begun' = begun \/ (/\ begun = Resting /\ begun'.at = "notice" /\ begun' # Resting
                           /\ held = Nothing)
  BY <1>1, WatchStarts DEF Mounts, LoadsNotice, Acknowledges, ToInactive, ToActive, Settings, Taps, RecoveryReadsNotice,
         RecoveryReadsPermission, LocationTyped
<1>3. \/ begun' = Resting /\ consumers' # {} /\ app' = "active" => held # Nothing
      \/ UNCHANGED <<consumers, noticed, app>>
      \/ app' # "active"
  BY <1>1, WatchStarts DEF Mounts, LoadsNotice, Acknowledges, ToInactive, ToActive, Settings, Taps, RecoveryReadsNotice,
         RecoveryReadsPermission, LocationTyped, os, flags, history
<1>e. explicit' \in BOOLEAN
  <2>1. CASE RecoveryReadsPermission
    <3> DEFINE b == permission # "granted"
    <3>1. explicit' = b \/ explicit' = explicit
      BY <2>1 DEF RecoveryReadsPermission
    <3>2. b \in BOOLEAN
      OBVIOUS
    <3> HIDE DEF b
    <3> QED
      BY <3>1, <3>2 DEF LocationTyped
  <2> QED
    BY <2>1 DEF LocationTyped, Mounts, LoadsNotice, Acknowledges, ToInactive, ToActive, Settings, Taps,
         RecoveryReadsNotice, flags
<1>4. LocationTyped'
  BY <1>1, <1>2, <1>e DEF LocationTyped, Mounts, LoadsNotice, Acknowledges, ToInactive, ToActive, Settings, Taps,
         RecoveryReadsNotice, RecoveryReadsPermission, flags, os, history
<1>5. WatchersFit'
  BY <1>1, <1>2 DEF WatchersFit, Resting
<1>6. PositionFits'
  BY <1>1, <1>2, <1>3 DEF PositionFits, NeverLoadingForever, WatchersFit, LocationTyped, Nothing
<1>7. NoticeFirst'
  BY <1>1, <1>2 DEF NoticeFirst
<1>8. DialogsPaid'
  <2>1. begun'.at = "dialog" <=> begun.at = "dialog"
    BY <1>2 DEF Resting
  <2>2. \/ UNCHANGED <<explicit, recovery, taps>>
        \/ UNCHANGED <<explicit>> /\ taps' = taps + 1 /\ recovery = "none"
        \/ UNCHANGED <<explicit, taps>> /\ recovery # "none"
        \/ UNCHANGED <<taps>> /\ recovery # "none" /\ recovery' = "none"
    BY DEF Mounts, LoadsNotice, Acknowledges, ToInactive, ToActive, Settings, Taps,
         RecoveryReadsNotice, RecoveryReadsPermission, flags, os, history
  <2>3. /\ asked' = asked /\ OpenDialog' = OpenDialog /\ OpenDialog \in Int
        /\ FirstDialog' <= FirstDialog /\ FirstDialog \in Int /\ FirstDialog' \in Int
    BY <1>1, <2>1 DEF OpenDialog, FirstDialog
  <2>4. /\ WishedDialog' + RecoveryDialog' + taps <= WishedDialog + RecoveryDialog + taps'
        /\ {WishedDialog, RecoveryDialog, WishedDialog', RecoveryDialog'} \subseteq Int
    BY <2>2 DEF WishedDialog, RecoveryDialog, LocationTyped
  <2> QED
    BY <1>4, <2>3, <2>4 DEF DialogsPaid, LocationTyped
<1> QED
  BY <1>4, <1>5, <1>6, <1>7, <1>8

(* The last one leaves; the app goes to the background; a fix. *)
LEMMA LeavingFits ==
  ASSUME LocationInv, Unmounts \/ ToBackground \/ Fix
  PROVE  LocationInv'
<1> USE DEF LocationInv
<1>1. /\ UNCHANGED <<begun, denied, explicit, noticed, permission, recovery, asked, taps>>
      /\ consumers' \subseteq consumers
      /\ app' = app \/ app' = "background"
  BY DEF Unmounts, ToBackground, Fix, flags, os, history
<1>2. DialogsPaid' /\ NoticeFirst'
  BY <1>1 DEF DialogsPaid, OpenDialog, WishedDialog, RecoveryDialog, FirstDialog, NoticeFirst
<1>3. CASE Fix
  <2>1. /\ \E g \in watchers : g = generation
        /\ display' = [coords |-> generation, error |-> FALSE, kind |-> "none", loading |-> FALSE]
        /\ consumers # {} /\ UNCHANGED <<app, consumers, generation, watchers, held>>
    BY <1>3 DEF Fix
  <2>2. display' \in Displays /\ display'.coords = generation
    BY <2>1, DisplaysFit DEF LocationTyped
  <2>3. LocationTyped' /\ WatchersFit'
    BY <1>1, <2>1, <2>2 DEF LocationTyped, WatchersFit
  <2>4. begun = Resting => held = generation /\ held # Nothing
    BY <2>1 DEF WatchersFit, LocationTyped, Resting, Nothing
  <2>5. PositionFits'
    BY <1>1, <2>1, <2>2, <2>4 DEF PositionFits, NeverLoadingForever
  <2> QED
    BY <1>2, <2>3, <2>5
<1>4. CASE UNCHANGED <<generation, watchers, held, display>> /\ (Unmounts \/ ToBackground)
  <2>1. (consumers' # {} /\ app' = app) \/ (app' = "background" /\ begun.at = "dialog" /\ consumers' = consumers)
    BY <1>4 DEF Unmounts, ToBackground, LocationTyped, Leaving
  <2>2. LocationTyped'
    BY <1>1, <1>4 DEF LocationTyped
  <2>3. WatchersFit'
    BY <1>1, <1>4, <2>1 DEF WatchersFit, Resting
  <2>4. PositionFits'
    BY <1>1, <1>4, <2>1 DEF PositionFits, NeverLoadingForever
  <2> QED
    BY <1>2, <2>2, <2>3, <2>4
<1>5. CASE ~UNCHANGED <<generation, watchers, held, display>> /\ (Unmounts \/ ToBackground)
  <2>1. /\ generation' = generation + 1 /\ watchers' = watchers \ {held} /\ held' = Nothing
        /\ display' = Loading \/ display' = [Loading EXCEPT !.error = display.error]
        /\ consumers' = {} \/ app' = "background"
    BY <1>5 DEF Unmounts, ToBackground
  <2>2. display' \in Displays /\ display'.coords = Nothing
    BY <2>1, DisplaysFit DEF LocationTyped, Displays
  <2>3. LocationTyped'
    BY <1>1, <2>1, <2>2 DEF LocationTyped, Nothing
  <2>4. WatchersFit'
    BY <1>1, <2>1 DEF WatchersFit, LocationTyped, Resting, Nothing
  <2>5. PositionFits'
    BY <2>1, <2>2 DEF PositionFits, NeverLoadingForever
  <2> QED
    BY <1>2, <2>3, <2>4, <2>5
<1> QED
  BY <1>3, <1>4, <1>5

(* Where a start stops for good or goes on: what it has looked at decides. *)
LEMMA AwaitsFit ==
  ASSUME LocationInv, ReadsNotice \/ ReadsServices \/ Watches \/ StartFails
  PROVE  LocationInv'
<1> USE DEF LocationInv
<1>1. /\ UNCHANGED <<app, consumers, generation, denied, noticed, permission, recovery, asked, taps>>
      /\ begun.at \in {"notice", "permission", "dialog", "services", "watch"}
      /\ held = Nothing /\ begun # Resting
  BY DEF ReadsNotice, ReadsServices, Watches, StartFails, os, history, WatchersFit, Resting
<1>e. explicit' \in BOOLEAN /\ (explicit' => explicit)
  BY DEF ReadsNotice, ReadsServices, Watches, StartFails, LocationTyped
<1>2. \/ /\ Ends
         /\ watchers' = (IF held' = Nothing THEN {} ELSE {held'})
         /\ \/ held' = Nothing /\ ~IsCurrent /\ display' = display
            \/ held' = Nothing /\ display' \in Displays /\ display'.coords = Nothing
                 /\ (display'.error \/ noticed # "acknowledged")
            \/ held' = generation /\ display' = display /\ IsCurrent
      \/ /\ Goes("permission") \/ Goes("watch")
         /\ held' = Nothing /\ noticed' = "acknowledged"
         /\ watchers' = (IF begun'.at = "watch" THEN {begun.gen} ELSE {})
         /\ display' = display \/ display' = Loading
  <2> USE <1>1
  <2>1. CASE ReadsNotice
    BY <2>1, DisplaysFit DEF ReadsNotice, Goes, WatchersFit, LocationTyped, Resting
  <2>2. CASE ReadsServices
    BY <2>2, DisplaysFit DEF ReadsServices, Shows, Goes, WatchersFit, NoticeFirst, LocationTyped, Resting
  <2>3. CASE Watches
    BY <2>3 DEF Watches, Surplus, WatchersFit, IsCurrent, LocationTyped, Nothing
  <2>4. CASE StartFails
    BY <2>4, DisplaysFit DEF StartFails, Shows, WatchersFit, LocationTyped
  <2> QED
    BY <2>1, <2>2, <2>3, <2>4
<1>3. CASE Ends
  <2>1. /\ begun' \in [at : StartPlaces, gen : Nat] /\ (begun'.at = "nowhere" => begun' = Resting)
        /\ begun'.at \in {"nowhere", "notice"}
        /\ begun' # Resting => held' = Nothing
        /\ begun' = Resting /\ held' = Nothing /\ consumers # {} /\ app = "active" => begun.gen = generation
    BY <1>1, <1>3, WatchEnded
  <2>2. LocationTyped'
    BY <1>1, <1>2, <1>e, <2>1, DisplaysFit DEF LocationTyped, Nothing
  <2>3. WatchersFit'
    BY <1>1, <1>2, <2>1 DEF WatchersFit, IsCurrent, LocationTyped, Nothing
  <2>4. PositionFits'
    <3>1. CASE held' = generation
      BY <1>1, <1>2, <2>1, <3>1 DEF PositionFits, NeverLoadingForever, LocationTyped, Nothing
    <3>2. CASE held' = Nothing /\ ~IsCurrent /\ display' = display
      <4>1. begun' = Resting /\ app' = "active" => consumers' = {}
        BY <1>1, <2>1, <3>2 DEF IsCurrent
      <4> QED
        BY <1>1, <3>2, <4>1 DEF PositionFits, NeverLoadingForever
    <3>3. CASE display'.coords = Nothing /\ (display'.error \/ noticed # "acknowledged")
      BY <1>1, <3>3 DEF PositionFits, NeverLoadingForever
    <3> QED
      BY <1>1, <1>2, <1>3, <3>1, <3>2, <3>3 DEF Ends, Goes, Resting
  <2>5. NoticeFirst'
    BY <1>1, <2>1 DEF NoticeFirst
  <2>6. DialogsPaid'
    <3>1. OpenDialog' + FirstDialog' <= OpenDialog + FirstDialog /\ WishedDialog' <= WishedDialog
          /\ RecoveryDialog' = RecoveryDialog
          /\ {OpenDialog, FirstDialog, OpenDialog', FirstDialog', WishedDialog, WishedDialog', RecoveryDialog} \subseteq Int
      BY <1>1, <1>e, <2>1 DEF OpenDialog, FirstDialog, WishedDialog, RecoveryDialog
    <3> QED
      BY <1>1, <2>2, <3>1 DEF DialogsPaid, LocationTyped
  <2> QED
    BY <2>2, <2>3, <2>4, <2>5, <2>6
<1>4. CASE ~Ends
  <2>1. /\ begun' \in [at : StartPlaces, gen : Nat] /\ begun'.at \in {"permission", "watch"} /\ begun'.gen = begun.gen
        /\ held' = Nothing /\ noticed = "acknowledged"
        /\ watchers' = IF begun'.at = "watch" THEN {begun'.gen} ELSE {}
        /\ display' = display \/ display' = Loading
    BY <1>1, <1>2, <1>4 DEF Goes, LocationTyped, StartPlaces
  <2>2. LocationTyped'
    BY <1>1, <1>e, <2>1, DisplaysFit DEF LocationTyped, Nothing
  <2>3. WatchersFit'
    BY <2>1 DEF WatchersFit
  <2>4. PositionFits'
    BY <1>1, <2>1, DisplaysFit DEF PositionFits, NeverLoadingForever, Resting
  <2>5. NoticeFirst'
    BY <1>1, <2>1 DEF NoticeFirst
  <2>6. DialogsPaid'
    <3>1. OpenDialog' + FirstDialog' <= OpenDialog + FirstDialog /\ WishedDialog' <= WishedDialog
          /\ RecoveryDialog' = RecoveryDialog
          /\ {OpenDialog, FirstDialog, OpenDialog', FirstDialog', WishedDialog, WishedDialog', RecoveryDialog} \subseteq Int
      BY <1>1, <1>e, <2>1 DEF OpenDialog, FirstDialog, WishedDialog, RecoveryDialog
    <3> QED
      BY <1>1, <2>2, <3>1 DEF DialogsPaid, LocationTyped
  <2> QED
    BY <2>2, <2>3, <2>4, <2>5, <2>6
<1> QED
  BY <1>3, <1>4

(* The permission is read, or its dialog answered: every dialog is paid for. *)
LEMMA PermissionFits ==
  ASSUME LocationInv, ReadsPermission \/ DialogAnswered
  PROVE  LocationInv'
<1> USE DEF LocationInv
<1>1. /\ UNCHANGED <<app, consumers, generation, watchers, held, noticed, recovery, taps>>
      /\ begun.at \in {"permission", "dialog"} /\ held = Nothing /\ begun # Resting
      /\ noticed = "acknowledged" /\ watchers = {}
  <2>1. /\ UNCHANGED <<app, consumers, generation, watchers, held, noticed, recovery, taps>>
        /\ begun.at \in {"permission", "dialog"}
    BY DEF ReadsPermission, DialogAnswered, history
  <2> QED
    BY <2>1 DEF WatchersFit, NoticeFirst, Resting
<1>2. /\ \/ Concludes
         \/ /\ begun.at = "permission" /\ Goes("dialog") /\ MayAsk /\ ~explicit'
            /\ UNCHANGED <<denied, display, permission, asked>>
      /\ explicit' \in BOOLEAN /\ (explicit' => explicit)
  <2>1. CASE ReadsPermission
    BY <2>1 DEF ReadsPermission, history
  <2>2. CASE DialogAnswered
    BY <2>2 DEF DialogAnswered, LocationTyped
  <2> QED
    BY <2>1, <2>2
<1>3. CASE Concludes
  <2>1. /\ \/ Ends /\ permission' # "granted" /\ denied' /\ display' = (IF IsCurrent THEN Failed("permission") ELSE display)
           \/ Ends /\ ~IsCurrent /\ display' = display /\ permission' = "granted"
           \/ Goes("services") /\ display' = display /\ permission' = "granted"
        /\ denied' \in BOOLEAN
    <3> DEFINE b == permission' # "granted"
    <3>1. denied' = b
      BY <1>3 DEF Concludes, Recorded
    <3>2. b \in BOOLEAN /\ (b => permission' # "granted") /\ (permission' # "granted" => b)
      OBVIOUS
    <3> HIDE DEF b
    <3> QED
      BY <1>3, <3>1, <3>2 DEF Concludes, Shows
  <2>2. /\ begun' \in [at : StartPlaces, gen : Nat] /\ (begun'.at = "nowhere" => begun' = Resting)
        /\ begun'.at \in {"nowhere", "notice", "services"}
        /\ begun' = Resting /\ consumers # {} /\ app = "active" =>
             begun.gen = generation /\ Ends
    <3>1. CASE Ends
      BY <1>1, <3>1, WatchEnded
    <3>2. CASE ~Ends
      BY <1>1, <2>1, <3>2 DEF Goes, LocationTyped, StartPlaces, Resting
    <3> QED
      BY <3>1, <3>2
  <2>3. display' = display \/ display' = Failed("permission")
    BY <2>1
  <2>4. asked' \in {asked, asked + 1} /\ (asked' # asked => begun.at = "dialog")
    BY DEF ReadsPermission, DialogAnswered, history, LocationTyped
  <2>5. LocationTyped'
    BY <1>1, <1>2, <2>1, <2>2, <2>3, <2>4, DisplaysFit DEF LocationTyped, Nothing
  <2>6. WatchersFit'
    BY <1>1, <2>2 DEF WatchersFit, Resting
  <2>7. PositionFits'
    <3>1. CASE display' = Failed("permission")
      BY <1>1, <3>1, DisplaysFit DEF PositionFits, NeverLoadingForever
    <3>2. CASE display' # Failed("permission")
      <4>1. display' = display /\ (begun' = Resting => ~IsCurrent)
        BY <2>1, <3>2 DEF Goes, Resting
      <4>2. begun' = Resting /\ app' = "active" => consumers' = {}
        BY <1>1, <2>2, <4>1 DEF IsCurrent
      <4> QED
        BY <1>1, <4>1, <4>2 DEF PositionFits, NeverLoadingForever
    <3> QED
      BY <3>1, <3>2
  <2>8. NoticeFirst'
    BY <1>1 DEF NoticeFirst
  <2>9. DialogsPaid'
    <3>1. permission' = "undetermined" => denied'
      BY <2>1
    <3>2. /\ OpenDialog' = 0 /\ FirstDialog' = 0 /\ asked' <= asked + OpenDialog /\ FirstDialog >= 0
          /\ WishedDialog' <= WishedDialog /\ RecoveryDialog' = RecoveryDialog
          /\ {OpenDialog, FirstDialog, WishedDialog, WishedDialog', RecoveryDialog} \subseteq Int
      BY <1>1, <1>2, <2>2, <2>4, <3>1 DEF OpenDialog, FirstDialog, WishedDialog, RecoveryDialog, LocationTyped
    <3> QED
      BY <1>1, <2>5, <3>2 DEF DialogsPaid, LocationTyped
  <2> QED
    BY <2>5, <2>6, <2>7, <2>8, <2>9
<1>4. CASE ~Concludes
  <2>1. /\ begun' \in [at : StartPlaces, gen : Nat] /\ begun'.at = "dialog" /\ begun.at = "permission"
        /\ UNCHANGED <<denied, display, permission, asked>> /\ ~explicit' /\ explicit' \in BOOLEAN
        /\ explicit \/ (permission = "undetermined" /\ ~denied)
    BY <1>2, <1>4 DEF Goes, LocationTyped, StartPlaces, MayAsk
  <2>2. LocationTyped'
    BY <1>1, <2>1 DEF LocationTyped
  <2>3. WatchersFit' /\ PositionFits' /\ NoticeFirst'
    BY <1>1, <2>1 DEF WatchersFit, PositionFits, NeverLoadingForever, NoticeFirst, Resting
  <2>4. DialogsPaid'
    <3>1. /\ OpenDialog' + WishedDialog' + FirstDialog' <= OpenDialog + WishedDialog + FirstDialog
          /\ RecoveryDialog' = RecoveryDialog
          /\ {OpenDialog, FirstDialog, OpenDialog', FirstDialog', WishedDialog, WishedDialog', RecoveryDialog} \subseteq Int
      BY <1>1, <2>1 DEF OpenDialog, FirstDialog, WishedDialog, RecoveryDialog
    <3> QED
      BY <1>1, <2>1, <2>2, <3>1 DEF DialogsPaid, LocationTyped
  <2> QED
    BY <2>2, <2>3, <2>4
<1> QED
  BY <1>3, <1>4

LEMMA LocationKeeps == LocationSpec => []LocationInv
<1>1. LocationInv /\ [LocationNext]_locationVars => LocationInv'
  <2> SUFFICES ASSUME LocationInv, [LocationNext]_locationVars PROVE LocationInv'
    OBVIOUS
  <2>1. CASE UNCHANGED locationVars
    BY <2>1 DEF locationVars, LocationInv, LocationTyped, WatchersFit, PositionFits, NeverLoadingForever, NoticeFirst,
                DialogsPaid, OpenDialog, WishedDialog, RecoveryDialog, FirstDialog
  <2> QED
    BY <2>1, OutsideFits, LeavingFits, AwaitsFit, PermissionFits DEF LocationNext
<1> QED
  BY <1>1, LocationInitially, PTL DEF LocationSpec

(* use-location: however starts, mounts, the dialog of the system and the state of the app  *)
(* overlap, one watcher serves whoever is there, nobody waits for it for ever, and nobody   *)
(* is asked for the permission twice but at a tap.                                          *)
THEOREM WatcherIsOurs == LocationSpec => []WatcherServesScreens
<1>1. LocationInv => WatcherServesScreens
  <2> SUFFICES ASSUME LocationInv PROVE WatcherServesScreens
    OBVIOUS
  <2> USE DEF LocationInv
  <2>1. Cardinality(watchers) <= 1
    <3>1. watchers = {} \/ \E g \in Int : watchers = {g}
      BY DEF WatchersFit, LocationTyped, Nothing
    <3> QED
      BY <3>1, FS_EmptySet, FS_Singleton
  <2>2. OneWatcherOfOurs
    BY <2>1 DEF OneWatcherOfOurs, WatchersFit, PositionFits, Resting
  <2>3. AsksOnlyWhenAsked
    <3>1. {OpenDialog, FirstDialog, WishedDialog, RecoveryDialog} \subseteq Nat
      BY DEF OpenDialog, FirstDialog, WishedDialog, RecoveryDialog
    <3> QED
      BY <3>1 DEF AsksOnlyWhenAsked, DialogsPaid, NoticeFirst, LocationTyped
  <2> QED
    BY <2>2, <2>3 DEF WatcherServesScreens, PositionFits
<1> QED
  BY <1>1, LocationKeeps, PTL

(* Types of the watcher: no start is of a generation that is still to come, and generations   *)
(* and taps stay within their bounds.                                                         *)
LocationWithin ==
  /\ consumers \subseteq Consumers /\ generation <= MaxGenerations /\ begun.gen <= generation
  /\ resume \in BOOLEAN /\ permission \in {"undetermined", "granted", "denied", "blocked"}
  /\ services \in BOOLEAN /\ recovery \in {"none", "notice", "permission"} /\ taps <= MaxTaps

LEMMA StartIsOfNow ==
  ASSUME LocationTyped, LocationWithin, generation' \in Nat, generation' >= generation,
         \/ begun' = begun \/ (\E users : Start(users)) \/ (\E place \in StartPlaces : Goes(place))
         \/ generation' = generation /\ Ends
  PROVE  begun'.gen <= generation'
<1>1. generation \in Nat /\ begun.gen \in Nat /\ begun.gen <= generation /\ begun \in [at : StartPlaces, gen : Nat]
  BY DEF LocationTyped, LocationWithin
<1>2. begun'.gen \in {begun.gen, generation, generation', 0}
  BY <1>1 DEF Start, Goes, Ends, Resting
<1> QED
  BY <1>1, <1>2

(* Mounts, the notice, the state of the app, fixes and taps.                                  *)
LEMMA OutsideWithin ==
  ASSUME LocationInv, LocationWithin,
         \/ Mounts \/ LoadsNotice \/ Acknowledges \/ ToInactive \/ ToActive \/ Settings \/ Fix \/ Taps
         \/ RecoveryReadsNotice \/ RecoveryReadsPermission
  PROVE  LocationWithin'
<1> USE DEF LocationWithin, flags, os, history
<1>1. generation \in Nat /\ taps \in Nat /\ LocationTyped /\ MaxTaps \in Nat
  BY LocationAssumption DEF LocationInv, LocationTyped
<1>2. generation' = generation
  BY DEF Mounts, LoadsNotice, Acknowledges, ToInactive, ToActive, Settings, Fix, Taps, RecoveryReadsNotice,
         RecoveryReadsPermission
<1>3. begun' = begun \/ \E users : Start(users)
  BY DEF Mounts, LoadsNotice, Acknowledges, ToInactive, ToActive, Settings, Fix, Taps, RecoveryReadsNotice,
         RecoveryReadsPermission
<1>4. generation' \in Nat /\ generation' >= generation
  BY <1>1, <1>2
<1>5. begun'.gen <= generation'
  BY <1>1, <1>3, <1>4, StartIsOfNow
<1>6. consumers' \subseteq Consumers /\ resume' \in BOOLEAN
  <2>1. CASE Mounts
    BY <2>1 DEF Mounts
  <2>2. CASE ToActive
    BY <2>2 DEF ToActive
  <2>3. CASE LoadsNotice \/ Acknowledges \/ ToInactive \/ Settings \/ Fix \/ Taps \/ RecoveryReadsNotice
             \/ RecoveryReadsPermission
    BY <2>3 DEF LoadsNotice, Acknowledges, ToInactive, Settings, Fix, Taps, RecoveryReadsNotice, RecoveryReadsPermission
  <2> QED
    BY <2>1, <2>2, <2>3
<1>7. permission' \in {"undetermined", "granted", "denied", "blocked"} /\ services' \in BOOLEAN
      /\ recovery' \in {"none", "notice", "permission"}
  <2>1. CASE Settings
    BY <2>1 DEF Settings
  <2>2. CASE Mounts \/ LoadsNotice \/ Acknowledges \/ ToInactive \/ ToActive \/ Fix
    BY <2>2 DEF Mounts, LoadsNotice, Acknowledges, ToInactive, ToActive, Fix
  <2>3. CASE Taps \/ RecoveryReadsNotice \/ RecoveryReadsPermission
    BY <2>3 DEF Taps, RecoveryReadsNotice, RecoveryReadsPermission
  <2> QED
    BY <2>1, <2>2, <2>3
<1>8. taps' = taps \/ (taps < MaxTaps /\ taps' = taps + 1)
  BY DEF Mounts, LoadsNotice, Acknowledges, ToInactive, ToActive, Settings, Fix, Taps, RecoveryReadsNotice,
         RecoveryReadsPermission
<1>9. taps' <= MaxTaps
  BY <1>1, <1>8
<1> QED
  BY <1>2, <1>5, <1>6, <1>7, <1>9

(* Who leaves, and the places of the start.                                                   *)
LEMMA StartWithin ==
  ASSUME LocationInv, LocationWithin,
         \/ Unmounts \/ ToBackground
         \/ ReadsNotice \/ ReadsPermission \/ DialogAnswered \/ ReadsServices \/ Watches \/ StartFails
  PROVE  LocationWithin'
<1> USE DEF LocationWithin, flags, os, history
<1>1. generation \in Nat /\ MaxGenerations \in Nat /\ LocationTyped
  BY LocationAssumption DEF LocationInv, LocationTyped
<1>2. CASE Unmounts \/ ToBackground
  <2>1. generation' = generation \/ (generation < MaxGenerations /\ generation' = generation + 1)
    BY <1>2 DEF Unmounts, ToBackground
  <2>2. /\ consumers' \subseteq Consumers /\ begun' = begun
        /\ UNCHANGED <<resume, permission, services, recovery, taps>>
    BY <1>2 DEF Unmounts, ToBackground
  <2>3. generation' \in Nat /\ generation' >= generation /\ generation' <= MaxGenerations
    BY <1>1, <2>1
  <2>4. begun'.gen <= generation'
    BY <1>1, <2>2, <2>3, StartIsOfNow
  <2> QED
    BY <2>2, <2>3, <2>4
<1>3. CASE ReadsNotice \/ ReadsPermission \/ DialogAnswered \/ ReadsServices \/ Watches \/ StartFails
  <2>1. /\ generation' = generation /\ consumers' = consumers
        /\ UNCHANGED <<services, recovery, taps>>
    BY <1>3 DEF ReadsNotice, ReadsPermission, DialogAnswered, ReadsServices, Watches, StartFails
  <2>2. permission' \in {"undetermined", "granted", "denied", "blocked"}
    <3>1. CASE DialogAnswered
      BY <3>1 DEF DialogAnswered
    <3>2. CASE ReadsNotice \/ ReadsPermission \/ ReadsServices \/ Watches \/ StartFails
      BY <3>2 DEF ReadsNotice, ReadsPermission, ReadsServices, Watches, StartFails
    <3> QED
      BY <1>3, <3>1, <3>2
  <2>3. Ends \/ (\E place \in StartPlaces : Goes(place))
    <3>1. \A place \in {"permission", "dialog", "services", "watch"} : place \in StartPlaces
      BY DEF StartPlaces
    <3>2. CASE ReadsNotice
      BY <3>1, <3>2 DEF ReadsNotice
    <3>3. CASE ReadsPermission \/ DialogAnswered
      BY <3>1, <3>3 DEF ReadsPermission, DialogAnswered, Concludes
    <3>4. CASE ReadsServices
      BY <3>1, <3>4 DEF ReadsServices
    <3>5. CASE Watches \/ StartFails
      BY <3>5 DEF Watches, StartFails
    <3> QED
      BY <1>3, <3>2, <3>3, <3>4, <3>5
  <2>4. resume' \in BOOLEAN
    BY <2>3 DEF Ends, Goes
  <2>5. generation' \in Nat /\ generation' >= generation
    BY <1>1, <2>1
  <2>6. begun'.gen <= generation'
    BY <1>1, <2>1, <2>3, <2>5, StartIsOfNow
  <2> QED
    BY <2>1, <2>2, <2>4, <2>6
<1> QED
  BY <1>2, <1>3

(* The module state of use-location keeps its shape: no watcher, start or position is of a    *)
(* generation that is still to come, and the watcher held is one that is alive.               *)
THEOREM LocationStaysTyped == LocationSpec => []LocationTypeOK
<1>1. LocationInit => LocationWithin
  <2> SUFFICES ASSUME LocationInit PROVE LocationWithin
    OBVIOUS
  <2>1. /\ consumers = {} /\ generation = 0 /\ begun = Resting /\ resume = FALSE /\ recovery = "none" /\ taps = 0
        /\ permission \in {"undetermined", "granted"} /\ services \in BOOLEAN
    BY DEF LocationInit
  <2>2. 0 <= MaxGenerations /\ 0 <= MaxTaps /\ begun.gen = 0
    BY <2>1, LocationAssumption DEF Resting
  <2>3. begun.gen <= generation
    BY <2>1, <2>2
  <2>4. resume \in BOOLEAN
    BY <2>1
  <2> QED
    BY <2>1, <2>2, <2>3, <2>4 DEF LocationWithin
<1>2. LocationInv /\ LocationWithin /\ [LocationNext]_locationVars => LocationWithin'
  <2> SUFFICES ASSUME LocationInv, LocationWithin, [LocationNext]_locationVars PROVE LocationWithin'
    OBVIOUS
  <2>1. CASE UNCHANGED locationVars
    BY <2>1 DEF locationVars, LocationWithin
  <2> QED
    BY <2>1, OutsideWithin, StartWithin DEF LocationNext
<1>3. LocationInv /\ LocationWithin => LocationTypeOK
  <2> SUFFICES ASSUME LocationInv, LocationWithin PROVE LocationTypeOK
    OBVIOUS
  <2>1. generation \in 0..MaxGenerations /\ taps \in 0..MaxTaps
    BY LocationAssumption DEF LocationInv, LocationTyped, LocationWithin
  <2>2. begun \in [at : {"nowhere", "notice", "permission", "dialog", "services", "watch"}, gen : 0..generation]
    <3>1. begun.gen \in 0..generation
      BY <2>1 DEF LocationInv, LocationTyped, LocationWithin
    <3> QED
      BY <3>1 DEF LocationInv, LocationTyped, StartPlaces
  <2>3. display.coords \in {Nothing} \union 0..generation
    BY <2>1 DEF LocationInv, PositionFits
  <2>4. display \in [coords : {Nothing} \union 0..generation,
                     error : BOOLEAN, kind : {"none", "permission", "services", "unavailable"},
                     loading : BOOLEAN]
    BY <2>3 DEF LocationInv, LocationTyped, Displays
  <2>5. watchers \subseteq 0..generation /\ held \in {Nothing} \union watchers
    <3>1. CASE begun.at = "watch"
      <4>1. begun # Resting
        BY <3>1 DEF Resting
      <4>2. held = Nothing /\ watchers = {begun.gen}
        BY <3>1, <4>1 DEF LocationInv, WatchersFit
      <4> QED
        BY <2>2, <4>2
    <3>2. CASE begun.at # "watch"
      BY <2>1, <3>2 DEF LocationInv, WatchersFit
    <3> QED
      BY <3>1, <3>2
  <2>6. {resume, denied, explicit} \subseteq BOOLEAN
    BY DEF LocationInv, LocationTyped, LocationWithin
  <2> QED
    BY <2>1, <2>2, <2>4, <2>5, <2>6 DEF LocationInv, LocationTyped, LocationWithin, LocationTypeOK
<1> QED
  BY <1>1, <1>2, <1>3, LocationKeeps, PTL DEF LocationSpec

-----------------------------------------------------------------------------
(* The map.  A callout opens when the query of a tap has its answer, so until then there is *)
(* none and the marker wanted is that of the query; what the sheet watches was begun in     *)
(* this opening; and what the device keeps, or is about to keep, is of its user unless a    *)
(* write has outlived the user it was for, or the device was not cleared when he left.      *)
SpotsOrNone == Sites \union {NoSite}
Entries == [Sites -> Owners \union {NoOwner}]
MapTyped ==
  /\ holder \in Owners /\ disk \in Entries /\ leaked \in BOOLEAN /\ checked \subseteq Owners \X Sites /\ uncleared \subseteq Sites
  /\ writes \subseteq [op : {"save", "clear"}, spot : Sites, owner : Owners, loaded : BOOLEAN, found : Entries]
  /\ detail \in [spot : SpotsOrNone, opening : Nat]
  /\ section \in [loading : BOOLEAN, in : BOOLEAN, checkin : {"idle", "pending", "done", "failed"},
                  review : {"idle", "pending", "done"}]
  /\ attempt \in [state : {"idle", "pending", "succeeded", "failed"}, spot : SpotsOrNone, opening : Nat]
  /\ requests \subseteq [kind : {"claim", "checkin", "review"}, spot : Sites, owner : Owners, opening : Nat]
  /\ query \in [spot : SpotsOrNone, seq : Nat, settled : BOOLEAN, fetching : BOOLEAN]
  /\ mounted \subseteq Sites /\ callout \in SpotsOrNone /\ wanted \in SpotsOrNone
CalloutWaits ==
  /\ query.spot = NoSite => ~query.fetching
  /\ query.spot # NoSite /\ ~query.settled => callout = NoSite /\ wanted = query.spot
AttemptIsOfNow == attempt.state # "idle" => attempt.spot = detail.spot /\ attempt.opening = detail.opening
VisitIsOwn(s) == <<holder, s>> \in checked \/ leaked \/ s \in uncleared
EntriesAreOwn ==
  /\ \A s \in Sites : disk[s] # NoOwner => VisitIsOwn(s)
  /\ \A w \in writes : /\ \A s \in Sites : w.found[s] # NoOwner => VisitIsOwn(s)
                       /\ w.op = "save" => VisitIsOwn(w.spot)
  /\ section.loading => detail.spot \in Sites
MapInv == MapTyped /\ CalloutWaits /\ AttemptIsOfNow /\ EntriesAreOwn
          /\ CalloutIsWanted /\ NoInheritedVisit

LEMMA MapInitially == MapSheetInit => MapInv
<1> SUFFICES ASSUME MapSheetInit PROVE MapInv
  OBVIOUS
<1>1. MapTyped
  BY MapSheetAssumption DEF MapSheetInit, MapTyped, SpotsOrNone, Entries, Owners, NoOwner, NoEntries, NoSection, NoAttempt, NoQuery
<1>2. CalloutWaits /\ AttemptIsOfNow /\ CalloutIsWanted /\ NoInheritedVisit
  BY DEF MapSheetInit, CalloutWaits, AttemptIsOfNow, CalloutIsWanted, NoInheritedVisit, NoQuery, NoAttempt, NoSection
<1>3. EntriesAreOwn
  BY DEF MapSheetInit, EntriesAreOwn, NoEntries, NoSection
<1> QED
  BY <1>1, <1>2, <1>3 DEF MapInv

(* What is drawn: nothing new, or the marker of a query that has just got something to show. *)
LEMMA Drawn ==
  ASSUME MapInv, NEW h \in BOOLEAN, Draws(h)
  PROVE  \/ callout' = NoSite \/ (callout' = callout /\ ~h)
         \/ /\ callout' \in mounted /\ callout' = query'.spot
            /\ query'.settled /\ ~(query.spot = query'.spot /\ query.settled /\ query.seq = query'.seq)
<1>1. CASE \E s \in Sites : Opens(s)
  <2>1. PICK s \in Sites : Opens(s) /\ callout' = s
    BY <1>1 DEF Draws
  <2> QED
    BY <2>1 DEF Opens, OpenSeq
<1>2. CASE ~\E s \in Sites : Opens(s)
  BY <1>2 DEF Draws
<1> QED
  BY <1>1, <1>2

LEMMA MarkersKeep ==
  ASSUME MapInv, TapsMarker \/ QueryEnds \/ Pans
  PROVE  MapInv'
<1> USE MapSheetAssumption DEF MapInv, storage, served, onMap
<1>0. UNCHANGED <<holder, storage, served, detail, section, attempt, requests>>
  BY DEF TapsMarker, QueryEnds, Pans
<1>1. AttemptIsOfNow' /\ EntriesAreOwn' /\ NoInheritedVisit'
  BY <1>0 DEF AttemptIsOfNow, EntriesAreOwn, NoInheritedVisit, VisitIsOwn
<1>2. CASE TapsMarker
  <2>1. PICK s \in mounted : /\ wanted' = s
       /\ query' = [spot |-> s, seq |-> query.seq + 1, fetching |-> TRUE,
                    settled |-> query.spot = s /\ query.settled]
    BY <1>2 DEF TapsMarker
  <2> DEFINE b == query.spot = s /\ query.settled
  <2>2. query' = [spot |-> s, seq |-> query.seq + 1, fetching |-> TRUE, settled |-> b] /\ b \in BOOLEAN
    BY <2>1
  <2> HIDE DEF b
  <2>3. /\ query'.spot = s /\ query'.settled = b /\ query'.fetching = TRUE
        /\ query' \in [spot : SpotsOrNone, seq : Nat, settled : BOOLEAN, fetching : BOOLEAN]
    BY <2>2 DEF MapTyped, SpotsOrNone
  <2>4. callout' = NoSite \/ (callout' = s /\ b)
    BY <1>2, <2>3, Drawn DEF TapsMarker
  <2>5. UNCHANGED mounted /\ s \in Sites /\ s # NoSite
    BY <1>2 DEF TapsMarker, MapTyped
  <2>6. MapTyped'
    BY <1>0, <2>1, <2>3, <2>4, <2>5 DEF MapTyped, SpotsOrNone
  <2>7. CalloutWaits' /\ CalloutIsWanted'
    BY <2>1, <2>3, <2>4, <2>5 DEF CalloutWaits, CalloutIsWanted
  <2> QED
    BY <1>1, <2>6, <2>7
<1>3. CASE QueryEnds
  <2>1. /\ query.fetching /\ query' = [query EXCEPT !.fetching = FALSE, !.settled = TRUE, !.seq = query.seq]
        /\ UNCHANGED <<mounted, wanted>>
    BY <1>3 DEF QueryEnds, SeqOfTap
  <2>2. /\ query'.spot = query.spot /\ query'.settled = TRUE /\ query'.fetching = FALSE /\ query'.seq = query.seq
        /\ query' \in [spot : SpotsOrNone, seq : Nat, settled : BOOLEAN, fetching : BOOLEAN]
    BY <2>1 DEF MapTyped, SpotsOrNone
  <2>3. \/ callout' = NoSite \/ callout' = callout
        \/ callout' \in mounted /\ callout' = query.spot /\ ~query.settled
    BY <1>3, <2>2, Drawn DEF QueryEnds
  <2>4. CalloutIsWanted'
    BY <2>1, <2>3 DEF CalloutIsWanted, CalloutWaits
  <2>5. MapTyped' /\ CalloutWaits'
    BY <1>0, <2>1, <2>2, <2>3 DEF MapTyped, CalloutWaits, SpotsOrNone
  <2> QED
    BY <1>1, <2>4, <2>5
<1>4. CASE Pans
  BY <1>0, <1>1, <1>4 DEF Pans, MapTyped, CalloutWaits, CalloutIsWanted, SpotsOrNone
<1> QED
  BY <1>2, <1>3, <1>4

LEMMA SheetKeeps ==
  ASSUME MapInv, CalloutTapped \/ Dismisses \/ CheckinsLoaded
  PROVE  MapInv'
<1> USE MapSheetAssumption DEF MapInv, storage, served, onMap
<1>0. UNCHANGED <<holder, storage, served, requests, query, mounted>>
  BY DEF CalloutTapped, Dismisses, CheckinsLoaded
<1>n. /\ NoSection.loading = FALSE /\ NoSection.in = FALSE /\ NoAttempt.state = "idle"
      /\ NoSection \in [loading : BOOLEAN, in : BOOLEAN, checkin : {"idle", "pending", "done", "failed"},
                        review : {"idle", "pending", "done"}]
      /\ NoAttempt \in [state : {"idle", "pending", "succeeded", "failed"}, spot : SpotsOrNone, opening : Nat]
  BY DEF NoSection, NoAttempt, SpotsOrNone
<1>1. CASE CalloutTapped /\ detail.spot # callout
  <2> DEFINE v == [NoSection EXCEPT !.loading = TRUE]
             e == [spot |-> callout, opening |-> detail.opening + 1]
  <2>1. /\ detail' = e /\ section' = v /\ attempt' = NoAttempt /\ callout # NoSite
        /\ callout' = NoSite /\ wanted' = NoSite
    BY <1>1 DEF CalloutTapped, Reset
  <2>6. /\ v.loading = TRUE /\ v.in = FALSE
        /\ v \in [loading : BOOLEAN, in : BOOLEAN, checkin : {"idle", "pending", "done", "failed"},
                        review : {"idle", "pending", "done"}]
    BY DEF NoSection
  <2>7. e.spot = callout /\ e \in [spot : SpotsOrNone, opening : Nat]
    BY DEF MapTyped
  <2>2. /\ v.loading = TRUE /\ v.in = FALSE
        /\ v \in [loading : BOOLEAN, in : BOOLEAN, checkin : {"idle", "pending", "done", "failed"},
                        review : {"idle", "pending", "done"}]
        /\ e.spot = callout /\ e \in [spot : SpotsOrNone, opening : Nat]
    BY <2>6, <2>7
  <2> HIDE DEF v, e
  <2>3. MapTyped'
    BY <1>0, <1>n, <2>1, <2>2 DEF MapTyped, SpotsOrNone
  <2>4. CalloutWaits' /\ AttemptIsOfNow' /\ CalloutIsWanted' /\ NoInheritedVisit'
    BY <1>0, <1>n, <2>1, <2>2 DEF CalloutWaits, AttemptIsOfNow, CalloutIsWanted, NoInheritedVisit
  <2>5. EntriesAreOwn'
    BY <1>0, <2>1, <2>2 DEF EntriesAreOwn, VisitIsOwn, MapTyped, SpotsOrNone
  <2> QED
    BY <2>3, <2>4, <2>5
<1>2. CASE CalloutTapped /\ detail.spot = callout
  <2>1. UNCHANGED <<detail, section, attempt>> /\ callout' = NoSite /\ wanted' = NoSite /\ callout # NoSite
    BY <1>2 DEF CalloutTapped
  <2>2. MapTyped' /\ CalloutWaits' /\ AttemptIsOfNow' /\ CalloutIsWanted'
    BY <1>0, <2>1 DEF MapTyped, CalloutWaits, AttemptIsOfNow, CalloutIsWanted, SpotsOrNone
  <2>3. EntriesAreOwn' /\ NoInheritedVisit'
    BY <1>0, <2>1 DEF EntriesAreOwn, VisitIsOwn, NoInheritedVisit
  <2> QED
    BY <2>2, <2>3
<1>3. CASE Dismisses
  <2>1. /\ detail' = [detail EXCEPT !.spot = NoSite] /\ section' = NoSection /\ attempt' = NoAttempt
        /\ UNCHANGED <<callout, wanted>>
    BY <1>3 DEF Dismisses, Dismissed, Reset
  <2>2. detail' \in [spot : SpotsOrNone, opening : Nat]
    BY <2>1 DEF MapTyped, SpotsOrNone
  <2>3. MapTyped' /\ CalloutWaits' /\ AttemptIsOfNow' /\ CalloutIsWanted' /\ NoInheritedVisit'
    BY <1>0, <1>n, <2>1, <2>2 DEF MapTyped, CalloutWaits, AttemptIsOfNow, CalloutIsWanted, NoInheritedVisit
  <2>4. EntriesAreOwn'
    BY <1>0, <1>n, <2>1 DEF EntriesAreOwn, VisitIsOwn
  <2> QED
    BY <2>3, <2>4
<1>4. CASE CheckinsLoaded
  <2> DEFINE b == disk[detail.spot] # NoOwner
             v == [section EXCEPT !.loading = FALSE, !.in = b]
  <2>1. section' = v /\ section.loading /\ UNCHANGED <<detail, attempt, callout, wanted>> /\ b \in BOOLEAN
    BY <1>4 DEF CheckinsLoaded
  <2>2. b => VisitIsOwn(detail.spot)
    BY <2>1 DEF EntriesAreOwn
  <2> HIDE DEF b
  <2>3. /\ v.loading = FALSE /\ v.in = b
        /\ v \in [loading : BOOLEAN, in : BOOLEAN, checkin : {"idle", "pending", "done", "failed"},
                        review : {"idle", "pending", "done"}]
    BY <2>1 DEF MapTyped
  <2> HIDE DEF v
  <2>4. MapTyped' /\ CalloutWaits' /\ AttemptIsOfNow' /\ CalloutIsWanted'
    BY <1>0, <2>1, <2>3 DEF MapTyped, CalloutWaits, AttemptIsOfNow, CalloutIsWanted
  <2>5. EntriesAreOwn' /\ NoInheritedVisit'
    BY <1>0, <2>1, <2>2, <2>3 DEF EntriesAreOwn, VisitIsOwn, NoInheritedVisit
  <2> QED
    BY <2>4, <2>5
<1> QED
  BY <1>1, <1>2, <1>3, <1>4

LEMMA SendsKeep ==
  ASSUME MapInv, Attempts \/ ChecksIn \/ Reviews
  PROVE  MapInv'
<1> USE MapSheetAssumption DEF MapInv, storage, served, onMap
<1>1. UNCHANGED <<holder, storage, served, detail, onMap>> /\ detail.spot # NoSite
  BY DEF Attempts, ChecksIn, Reviews, Sends
<1>2. requests' \subseteq [kind : {"claim", "checkin", "review"}, spot : Sites, owner : Owners, opening : Nat]
  BY DEF Attempts, ChecksIn, Reviews, Sends, MapTyped, SpotsOrNone
<1>3. /\ section' \in [loading : BOOLEAN, in : BOOLEAN, checkin : {"idle", "pending", "done", "failed"},
                        review : {"idle", "pending", "done"}]
      /\ section'.in = section.in /\ section'.loading = section.loading
  BY DEF Attempts, ChecksIn, Reviews, MapTyped
<1>4. \/ attempt' = attempt
      \/ attempt' = [state |-> "pending", spot |-> detail.spot, opening |-> detail.opening]
  BY DEF Attempts, ChecksIn, Reviews
<1>5. MapTyped'
  BY <1>1, <1>2, <1>3, <1>4 DEF MapTyped
<1>6. AttemptIsOfNow'
  BY <1>1, <1>4 DEF AttemptIsOfNow
<1>7. CalloutWaits' /\ CalloutIsWanted' /\ NoInheritedVisit' /\ EntriesAreOwn'
  BY <1>1, <1>3 DEF CalloutWaits, CalloutIsWanted, NoInheritedVisit, EntriesAreOwn, VisitIsOwn
<1> QED
  BY <1>5, <1>6, <1>7

LEMMA AnswersKeep ==
  ASSUME MapInv, Answered
  PROVE  MapInv'
<1> USE MapSheetAssumption DEF MapInv, storage, served, onMap
<1>1. PICK r \in requests, ok \in BOOLEAN :
         /\ requests' = requests \ {r}
         /\ ClaimAnswered(r, ok) \/ CheckinAnswered(r, ok) \/ ReviewAnswered(r, ok)
  BY DEF Answered
<1>2. UNCHANGED <<holder, detail, mounted, callout, wanted, disk>>
  BY <1>1 DEF Answered, ClaimAnswered, CheckinAnswered, ReviewAnswered
<1>3. r \in [kind : {"claim", "checkin", "review"}, spot : Sites, owner : Owners, opening : Nat]
  BY DEF MapTyped
<1>4. CASE ClaimAnswered(r, ok)
  <2>1. UNCHANGED <<storage, served, section>>
    BY <1>4 DEF ClaimAnswered
  <2>2. /\ attempt' \in [state : {"idle", "pending", "succeeded", "failed"}, spot : SpotsOrNone, opening : Nat]
        /\ attempt'.spot = attempt.spot /\ attempt'.opening = attempt.opening
        /\ attempt.state = "idle" => attempt' = attempt
    BY <1>4 DEF ClaimAnswered, MapTyped
  <2>3. /\ query' \in [spot : SpotsOrNone, seq : Nat, settled : BOOLEAN, fetching : BOOLEAN]
        /\ query'.spot = query.spot /\ query'.settled = query.settled
        /\ query' # query => query.spot # NoSite
    <3>1. query' = query \/ (query' = [query EXCEPT !.fetching = TRUE] /\ query.spot = r.spot)
      BY <1>4 DEF ClaimAnswered
    <3>2. r.spot \in Sites
      BY <1>3
    <3>3. CASE query' = [query EXCEPT !.fetching = TRUE] /\ query.spot = r.spot
      <4>1. /\ query' \in [spot : SpotsOrNone, seq : Nat, settled : BOOLEAN, fetching : BOOLEAN]
            /\ query'.spot = query.spot /\ query'.settled = query.settled
        BY <3>3 DEF MapTyped
      <4>2. query.spot # NoSite
        BY <3>2, <3>3
      <4> QED
        BY <4>1, <4>2
    <3>4. CASE query' = query
      BY <3>4 DEF MapTyped
    <3> QED
      BY <3>1, <3>3, <3>4
  <2>4. MapTyped' /\ AttemptIsOfNow'
    BY <1>1, <1>2, <2>1, <2>2, <2>3 DEF MapTyped, AttemptIsOfNow
  <2>5. CalloutWaits' /\ CalloutIsWanted'
    BY <1>2, <2>3 DEF CalloutWaits, CalloutIsWanted
  <2>6. NoInheritedVisit' /\ EntriesAreOwn'
    BY <1>2, <2>1 DEF NoInheritedVisit, EntriesAreOwn, VisitIsOwn
  <2> QED
    BY <2>4, <2>5, <2>6
<1>5. ASSUME NEW v \in [loading : BOOLEAN, in : BOOLEAN, checkin : {"idle", "pending", "done", "failed"},
                        review : {"idle", "pending", "done"}],
             section' = v, v.loading = section.loading, v.in => section.in,
             UNCHANGED <<leaked, uncleared, served, attempt, query>>,
             writes' = writes \/ Writes("clear", r)
      PROVE  MapInv'
  <2>1. /\ NoEntries \in Entries /\ \A s \in Sites : NoEntries[s] = NoOwner
        /\ [op |-> "clear", spot |-> r.spot, owner |-> r.owner, loaded |-> FALSE, found |-> NoEntries]
             \in [op : {"save", "clear"}, spot : Sites, owner : Owners, loaded : BOOLEAN, found : Entries]
    BY <1>3 DEF NoEntries, Entries
  <2>2. \/ writes' = writes
        \/ writes' = writes \union {[op |-> "clear", spot |-> r.spot, owner |-> r.owner, loaded |-> FALSE, found |-> NoEntries]}
    BY <1>5 DEF Writes
  <2>6. /\ writes' \subseteq [op : {"save", "clear"}, spot : Sites, owner : Owners, loaded : BOOLEAN, found : Entries]
        /\ requests' \subseteq requests
    BY <1>1, <2>1, <2>2 DEF MapTyped
  <2>3. MapTyped'
    BY <1>2, <1>5, <2>6 DEF MapTyped
  <2>4. CalloutWaits' /\ CalloutIsWanted' /\ AttemptIsOfNow' /\ NoInheritedVisit'
    BY <1>2, <1>5 DEF CalloutWaits, CalloutIsWanted, AttemptIsOfNow, NoInheritedVisit
  <2>5. EntriesAreOwn'
    BY <1>2, <1>5, <2>1, <2>2 DEF EntriesAreOwn, VisitIsOwn
  <2> QED
    BY <2>3, <2>4, <2>5
<1>6. CASE ReviewAnswered(r, ok)
  <2>1. UNCHANGED <<leaked, uncleared, served, attempt, query>> /\ (writes' = writes \/ Writes("clear", r))
    BY <1>6 DEF ReviewAnswered
  <2>2. /\ section' \in [loading : BOOLEAN, in : BOOLEAN, checkin : {"idle", "pending", "done", "failed"},
                        review : {"idle", "pending", "done"}]
        /\ section'.loading = section.loading /\ (section'.in => section.in)
    <3>1. \/ section' = section
          \/ section' = [section EXCEPT !.review = "done"] \/ section' = [section EXCEPT !.review = "idle"]
          \/ section' = [section EXCEPT !.review = "idle", !.in = FALSE]
      BY <1>6 DEF ReviewAnswered, Shown
    <3> QED
      BY <3>1, ZenonT(60) DEF MapTyped
  <2> QED
    BY <1>5, <2>1, <2>2
<1>7. CASE CheckinAnswered(r, ok) /\ ~ok
  <2>1. UNCHANGED <<leaked, uncleared, served, attempt, query, writes>>
    BY <1>7 DEF CheckinAnswered
  <2>2. /\ section' \in [loading : BOOLEAN, in : BOOLEAN, checkin : {"idle", "pending", "done", "failed"},
                        review : {"idle", "pending", "done"}]
        /\ section'.loading = section.loading /\ (section'.in => section.in)
    BY <1>7 DEF CheckinAnswered, Shown, MapTyped
  <2> QED
    BY <1>5, <2>1, <2>2
<1>8. CASE CheckinAnswered(r, ok) /\ ok
  <2> DEFINE w == [op |-> "save", spot |-> r.spot, owner |-> r.owner, loaded |-> FALSE, found |-> NoEntries]
             b == leaked \/ r.owner # holder
             v == [section EXCEPT !.checkin = "done", !.in = TRUE]
  <2>1. /\ UNCHANGED <<uncleared, attempt, query>> /\ checked' = checked \union {<<r.owner, r.spot>>}
        /\ writes' = writes \union {w} /\ (leaked' <=> b) /\ leaked' \in BOOLEAN
        /\ section' = IF Watched(r) THEN v ELSE section
    BY <1>8 DEF CheckinAnswered, Writes, Shown
  <2>2. /\ w \in [op : {"save", "clear"}, spot : Sites, owner : Owners, loaded : BOOLEAN, found : Entries]
        /\ w.spot = r.spot /\ w.found = NoEntries /\ \A s \in Sites : NoEntries[s] = NoOwner
    BY <1>3 DEF NoEntries, Entries
  <2>3. /\ v \in [loading : BOOLEAN, in : BOOLEAN, checkin : {"idle", "pending", "done", "failed"},
                        review : {"idle", "pending", "done"}]
        /\ v.loading = section.loading
    BY DEF MapTyped
  <2>4. b => leaked'
    BY <2>1
  <2> HIDE DEF w, v
  <2>5. MapTyped'
    BY <1>1, <1>2, <1>3, <2>1, <2>2, <2>3 DEF MapTyped
  <2>6. CalloutWaits' /\ CalloutIsWanted' /\ AttemptIsOfNow'
    BY <1>2, <2>1 DEF CalloutWaits, CalloutIsWanted, AttemptIsOfNow
  <2>7. \A s \in SpotsOrNone : VisitIsOwn(s) => VisitIsOwn(s)'
    BY <1>2, <2>1, <2>4 DEF VisitIsOwn
  <2>8. VisitIsOwn(r.spot)'
    BY <1>2, <2>1, <2>4 DEF VisitIsOwn
  <2>9. EntriesAreOwn'
    BY <1>2, <2>1, <2>2, <2>3, <2>7, <2>8 DEF EntriesAreOwn, SpotsOrNone, MapTyped
  <2>10. NoInheritedVisit'
    BY <1>2, <2>1, <2>7, <2>8 DEF NoInheritedVisit, VisitIsOwn, Watched, MapTyped
  <2> QED
    BY <2>5, <2>6, <2>9, <2>10
<1> QED
  BY <1>1, <1>4, <1>6, <1>7, <1>8

LEMMA StorageKeeps ==
  ASSUME MapInv, Loads \/ Stores \/ WriteFails \/ Lapses
  PROVE  MapInv'
<1> USE MapSheetAssumption DEF MapInv, storage, served, onMap
<1>0. UNCHANGED <<holder, leaked, uncleared, checked, detail, section, attempt, requests, onMap>>
  BY DEF Loads, Stores, WriteFails, Lapses
<1>1. CalloutWaits' /\ CalloutIsWanted' /\ AttemptIsOfNow' /\ NoInheritedVisit'
  BY <1>0 DEF CalloutWaits, CalloutIsWanted, AttemptIsOfNow, NoInheritedVisit
<1>2. \A s \in Sites : VisitIsOwn(s)' <=> VisitIsOwn(s)
  BY <1>0 DEF VisitIsOwn
<1>3. CASE Loads
  <2>1. PICK w \in writes : UNCHANGED disk /\ writes' = (writes \ {w}) \union {[w EXCEPT !.loaded = TRUE, !.found = disk]}
    BY <1>3 DEF Loads
  <2> DEFINE x == [w EXCEPT !.loaded = TRUE, !.found = disk]
  <2>2. /\ x \in [op : {"save", "clear"}, spot : Sites, owner : Owners, loaded : BOOLEAN, found : Entries]
        /\ x.op = w.op /\ x.spot = w.spot /\ x.found = disk
    BY DEF MapTyped
  <2>3. writes' = (writes \ {w}) \union {x}
    BY <2>1
  <2> HIDE DEF x
  <2>4. MapTyped'
    BY <1>0, <2>1, <2>2, <2>3 DEF MapTyped
  <2>5. EntriesAreOwn'
    BY <1>0, <1>2, <2>1, <2>2, <2>3 DEF EntriesAreOwn, MapTyped
  <2> QED
    BY <1>1, <2>4, <2>5
<1>4. CASE Stores
  <2>1. PICK w \in writes : /\ writes' = writes \ {w}
                            /\ disk' = [w.found EXCEPT ![w.spot] = IF w.op = "save" THEN w.owner ELSE NoOwner]
    BY <1>4 DEF Stores
  <2>2. w.found \in Entries /\ w.spot \in Sites /\ w.owner \in Owners
    BY DEF MapTyped
  <2>3. /\ disk' \in Entries
        /\ \A s \in Sites : disk'[s] = IF s = w.spot THEN IF w.op = "save" THEN w.owner ELSE NoOwner ELSE w.found[s]
    BY <2>1, <2>2 DEF Entries
  <2>4. MapTyped'
    BY <1>0, <2>1, <2>3 DEF MapTyped
  <2>5. EntriesAreOwn'
    BY <1>0, <1>2, <2>1, <2>2, <2>3 DEF EntriesAreOwn, MapTyped
  <2> QED
    BY <1>1, <2>4, <2>5
<1>5. CASE Lapses
  <2>1. /\ UNCHANGED writes /\ disk' \in Entries
        /\ \A s \in Sites : disk'[s] \in {disk[s], NoOwner}
    BY <1>5 DEF Lapses, MapTyped, Entries
  <2>2. MapTyped'
    BY <1>0, <2>1 DEF MapTyped
  <2>3. EntriesAreOwn'
    BY <1>0, <1>2, <2>1 DEF EntriesAreOwn, MapTyped
  <2> QED
    BY <1>1, <2>2, <2>3
<1>6. CASE WriteFails
  <2>1. UNCHANGED disk /\ writes' \subseteq writes
    BY <1>6 DEF WriteFails
  <2>2. MapTyped'
    BY <1>0, <2>1 DEF MapTyped
  <2>3. EntriesAreOwn'
    BY <1>0, <1>2, <2>1 DEF EntriesAreOwn, MapTyped
  <2> QED
    BY <1>1, <2>2, <2>3
<1> QED
  BY <1>3, <1>4, <1>5, <1>6

LEMMA SwitchKeeps ==
  ASSUME MapInv, SwitchesUser
  PROVE  MapInv'
<1> USE MapSheetAssumption DEF MapInv, storage, served, onMap
<1>1. /\ holder' = "second" /\ UNCHANGED <<writes, checked, requests, mounted>>
      /\ detail' = [detail EXCEPT !.spot = NoSite] /\ section' = NoSection /\ attempt' = NoAttempt
      /\ query' = NoQuery /\ callout' = NoSite /\ wanted' = NoSite
      /\ leaked' \in BOOLEAN /\ (writes # {} => leaked')
      /\ \/ disk' = NoEntries /\ uncleared' = uncleared
         \/ disk' = disk /\ uncleared' = {s \in Sites : disk[s] # NoOwner}
  BY DEF SwitchesUser, ClearAll, Dismissed, Reset
<1>2. NoEntries \in Entries /\ \A s \in Sites : NoEntries[s] = NoOwner
  BY DEF NoEntries, Entries
<1>3. detail' \in [spot : SpotsOrNone, opening : Nat]
  BY <1>1 DEF MapTyped, SpotsOrNone
<1>4. MapTyped'
  BY <1>1, <1>2, <1>3 DEF MapTyped, NoSection, NoAttempt, NoQuery, SpotsOrNone, Owners
<1>5. CalloutWaits' /\ CalloutIsWanted' /\ AttemptIsOfNow' /\ NoInheritedVisit'
  BY <1>1 DEF CalloutWaits, CalloutIsWanted, AttemptIsOfNow, NoInheritedVisit, NoQuery, NoAttempt, NoSection
<1>6. EntriesAreOwn'
  BY <1>1, <1>2 DEF EntriesAreOwn, VisitIsOwn, NoSection
<1> QED
  BY <1>4, <1>5, <1>6

LEMMA MapKeeps == MapSheetSpec => []MapInv
<1>1. MapInv /\ [MapSheetNext]_mapVars => MapInv'
  <2> SUFFICES ASSUME MapInv, [MapSheetNext]_mapVars PROVE MapInv'
    OBVIOUS
  <2>1. CASE UNCHANGED mapVars
    BY <2>1 DEF mapVars, MapInv, MapTyped, CalloutWaits, AttemptIsOfNow, EntriesAreOwn, VisitIsOwn,
                CalloutIsWanted, NoInheritedVisit
  <2> QED
    BY <2>1, MarkersKeep, SheetKeeps, SendsKeep, AnswersKeep, StorageKeeps, SwitchKeeps DEF MapSheetNext
<1> QED
  BY <1>1, MapInitially, PTL DEF MapSheetSpec

(* SpotMarkers, SpotDetailSheet, visit-checkin: in whatever order taps, answers, writes to  *)
(* the device and a change of its user come, the map shows a callout for the last tap, the  *)
(* result of an attempt of this opening, and a review form to who has checked in, but for   *)
(* the two ways NoInheritedVisit names in which an entry outlives its user.                 *)
THEOREM SheetIsOwn == MapSheetSpec => []SheetIsOfThisVisit
<1>1. MapInv => SheetIsOfThisVisit
  BY DEF MapInv, AttemptIsOfNow, SheetIsOfThisVisit, FeedbackIsOfNow
<1> QED
  BY <1>1, MapKeeps, PTL

(* Types of the map: an open visit is one that was begun, and requests and acts are no more   *)
(* than their bounds.                                                                         *)
MapWithin ==
  /\ windows \subseteq checked /\ acts \in 0..MaxActs
  /\ IsFiniteSet(requests) /\ Cardinality(requests) <= MaxCalls

LEMMA RequestsStayFew ==
  ASSUME MapWithin, NEW r, requests' \in {requests, requests \ {r}, requests \union {r}},
         requests' = requests \union {r} => Cardinality(requests) < MaxCalls \/ r \in requests
  PROVE  IsFiniteSet(requests') /\ Cardinality(requests') <= MaxCalls
<1>1. IsFiniteSet(requests) /\ Cardinality(requests) <= MaxCalls /\ MaxCalls \in Nat /\ Cardinality(requests) \in Nat
  BY FS_CardinalityType, MapSheetAssumption DEF MapWithin
<1>2. CASE requests' = requests \ {r}
  BY <1>1, <1>2, FS_RemoveElement
<1>3. CASE requests' = requests \union {r}
  <2>1. CASE r \in requests
    <3>1. requests' = requests
      BY <1>3, <2>1
    <3> QED
      BY <1>1, <3>1
  <2>2. CASE r \notin requests
    <3>1. /\ IsFiniteSet(requests \union {r})
          /\ Cardinality(requests \union {r}) = Cardinality(requests) + 1
      BY <1>1, <2>2, FS_AddElement
    <3>2. Cardinality(requests) < MaxCalls
      BY <1>3, <2>2
    <3>3. Cardinality(requests \union {r}) <= MaxCalls
      BY <1>1, <3>1, <3>2
    <3> QED
      BY <1>3, <3>1, <3>3
  <2> QED
    BY <2>1, <2>2
<1> QED
  BY <1>1, <1>2, <1>3

LEMMA MapStaysWithin ==
  ASSUME MapInv, MapWithin, MapSheetNext
  PROVE  MapWithin'
<1> USE DEF storage, served, onMap
<1>1. Acts => acts' \in 0..MaxActs
  BY MapSheetAssumption DEF Acts, MapWithin
<1>2. ASSUME TapsMarker \/ Pans \/ CalloutTapped \/ Dismisses PROVE MapWithin'
  <2>1. Acts /\ windows' = windows /\ checked' = checked /\ requests' = requests
    BY <1>2 DEF TapsMarker, Pans, CalloutTapped, Dismisses
  <2> QED
    BY <1>1, <2>1 DEF MapWithin
<1>3. ASSUME QueryEnds \/ CheckinsLoaded \/ Loads \/ Stores \/ WriteFails \/ SwitchesUser PROVE MapWithin'
  <2>1. UNCHANGED <<windows, checked, requests, acts>>
    BY <1>3 DEF QueryEnds, CheckinsLoaded, Loads, Stores, WriteFails, SwitchesUser
  <2> QED
    BY <2>1 DEF MapWithin
<1>4. ASSUME NEW kind, Sends(kind) PROVE MapWithin'
  <2>1. PICK r : requests' = requests \union {r} /\ Cardinality(requests) < MaxCalls
    BY <1>4 DEF Sends
  <2>2. Acts /\ windows' = windows /\ checked' = checked
    BY <1>4 DEF Sends
  <2>3. IsFiniteSet(requests') /\ Cardinality(requests') <= MaxCalls
    BY <2>1, RequestsStayFew
  <2> QED
    BY <1>1, <2>2, <2>3 DEF MapWithin
<1>5. ASSUME Answered PROVE MapWithin'
  <2>1. PICK r \in requests, ok \in BOOLEAN :
          /\ requests' = requests \ {r}
          /\ ClaimAnswered(r, ok) \/ CheckinAnswered(r, ok) \/ ReviewAnswered(r, ok)
    BY <1>5 DEF Answered
  <2>2. IsFiniteSet(requests') /\ Cardinality(requests') <= MaxCalls
    <3>1. requests' = requests \union {r} => r \in requests
      OBVIOUS
    <3> QED
      BY <2>1, <3>1, RequestsStayFew
  <2>3. windows' \subseteq checked' /\ acts' = acts
    <3>1. acts' = acts /\ windows \subseteq checked
      BY <1>5 DEF Answered, MapWithin
    <3>2. \/ windows' = windows /\ checked' = checked
          \/ windows' = windows \union {<<r.owner, r.spot>>} /\ checked' = checked \union {<<r.owner, r.spot>>}
      BY <2>1 DEF ClaimAnswered, CheckinAnswered, ReviewAnswered
    <3> QED
      BY <3>1, <3>2
  <2> QED
    BY <2>2, <2>3 DEF MapWithin
<1>6. ASSUME Lapses PROVE MapWithin'
  <2>1. windows' \subseteq windows /\ UNCHANGED <<checked, requests, acts>>
    BY <1>6 DEF Lapses
  <2> QED
    BY <2>1 DEF MapWithin
<1> QED
  BY <1>2, <1>3, <1>4, <1>5, <1>6 DEF MapSheetNext, Attempts, ChecksIn, Reviews

(* What the map, the sheet and the device keep stays of its shape, and the server never has   *)
(* an open visit of somebody who did not check in.                                            *)
THEOREM MapStaysTyped == MapSheetSpec => []MapSheetTypeOK
<1>1. MapSheetInit => MapWithin
  BY FS_EmptySet, MapSheetAssumption DEF MapSheetInit, MapWithin
<1>2. MapInv /\ MapWithin /\ [MapSheetNext]_mapVars => MapWithin'
  <2> SUFFICES ASSUME MapInv, MapWithin, [MapSheetNext]_mapVars PROVE MapWithin'
    OBVIOUS
  <2>1. CASE UNCHANGED mapVars
    BY <2>1 DEF mapVars, MapWithin
  <2> QED
    BY <2>1, MapStaysWithin
<1>3. MapInv /\ MapWithin => MapSheetTypeOK
  <2> SUFFICES ASSUME MapInv, MapWithin PROVE MapSheetTypeOK
    OBVIOUS
  <2>1. {detail.spot, callout, wanted, query.spot, attempt.spot} \subseteq Sites \union {NoSite}
    BY DEF MapInv, MapTyped, SpotsOrNone
  <2>2. {leaked, section.loading, section.in, query.settled, query.fetching} \subseteq BOOLEAN
    BY DEF MapInv, MapTyped
  <2>3. attempt.state \in {"idle", "pending", "succeeded", "failed"} /\ section.review \in {"idle", "pending", "done"}
    BY DEF MapInv, MapTyped
  <2> QED
    BY <2>1, <2>2, <2>3 DEF MapInv, MapTyped, Entries, MapWithin, MapSheetTypeOK
<1> QED
  BY <1>1, <1>2, <1>3, MapKeeps, PTL DEF MapSheetSpec

-----------------------------------------------------------------------------
(* The season ranking.  An answer is kept under the key it was asked by, and is over when   *)
(* that is a number; the current season is known from the first answer that was shown       *)
(* without a number on, so the arrows lead nowhere before.                                  *)
RankingAnswers == [season : 1..LastSeason, ended : BOOLEAN]
AnswerOrNone == RankingAnswers \union {Missing}
SeasonTyped ==
  /\ season \in FirstSeason..LastSeason /\ scope \in Scopes /\ selected \in Keys
  /\ knownSeason \in {Current} \union 1..season /\ current \subseteq 1..season /\ steps \in 0..MaxSteps
  /\ cache \in [Scopes -> [Keys -> AnswerOrNone]] /\ last \in [Scopes -> AnswerOrNone]
  /\ fetches \subseteq [scope : Scopes, key : Keys, answer : AnswerOrNone]
  /\ selected # Current => selected >= 1 - MaxSteps + steps
Fits(answer, key) ==
  answer # Missing => IF key = Current THEN answer.season \in current
                      ELSE answer.season = key /\ answer.ended
AnswersFit ==
  /\ \A s \in Scopes, k \in Keys : Fits(cache[s][k], k)
  /\ \A f \in fetches : Fits(f.answer, f.key) /\ (f.key # Current => f.key < season)
KnownFits ==
  /\ knownSeason # Current => knownSeason \in current
  /\ selected # Current => knownSeason # Current /\ selected < knownSeason
  /\ selected = Current /\ cache[scope][Current] # Missing => knownSeason = cache[scope][Current].season
  /\ knownSeason = Current => \A s \in Scopes : last[s] # Missing => cache[s][Current] # Missing
SeasonInv == SeasonTyped /\ AnswersFit /\ KnownFits

LEMMA Seasons ==
  /\ FirstSeason \in Nat /\ LastSeason \in Nat /\ MaxSteps \in Nat /\ 1 <= FirstSeason /\ FirstSeason <= LastSeason
  /\ Current = -100 /\ Current \in Keys /\ Missing.season = Current /\ Missing.ended = FALSE
  /\ Missing \notin RankingAnswers
  BY SeasonAssumption DEF Current, Keys, Missing, RankingAnswers

LEMMA SeasonInitially == SeasonInit => SeasonInv
<1> SUFFICES ASSUME SeasonInit PROVE SeasonInv
  OBVIOUS
<1>1. SeasonTyped
  BY Seasons DEF SeasonInit, SeasonTyped, AnswerOrNone, Scopes
<1>2. AnswersFit /\ KnownFits
  BY Seasons DEF SeasonInit, AnswersFit, KnownFits, Fits, Scopes
<1> QED
  BY <1>1, <1>2 DEF SeasonInv

(* What the screen has of an answer and of a placeholder. *)
LEMMA RankingShows ==
  ASSUME SeasonInv
  PROVE  /\ Answer \in AnswerOrNone /\ Data \in AnswerOrNone
         /\ Answer # Missing => Data = Answer
         /\ knownSeason = Current => Data = Missing
<1>1. Answer \in AnswerOrNone /\ last[scope] \in AnswerOrNone
  BY DEF SeasonInv, SeasonTyped, Answer
<1>2. knownSeason = Current => Answer = Missing /\ last[scope] = Missing
  <2> SUFFICES ASSUME knownSeason = Current PROVE Answer = Missing /\ last[scope] = Missing
    OBVIOUS
  <2>1. selected = Current
    BY DEF SeasonInv, KnownFits
  <2>2. Answer = Missing
    <3> SUFFICES ASSUME Answer # Missing PROVE FALSE
      OBVIOUS
    <3>1. Answer.season = Current /\ Answer \in RankingAnswers
      BY <1>1, <2>1 DEF SeasonInv, KnownFits, Answer, AnswerOrNone
    <3> QED
      BY <3>1, Seasons DEF RankingAnswers
  <2> QED
    BY <2>1, <2>2 DEF SeasonInv, SeasonTyped, KnownFits, Answer
<1> QED
  BY <1>1, <1>2 DEF Data

LEMMA RankingRendered ==
  ASSUME Renders
  PROVE  /\ knownSeason' = IF selected' = Current /\ cache'[scope'][selected'] # Missing
                           THEN cache'[scope'][selected'].season ELSE knownSeason
         /\ last' = [s \in Scopes |-> IF cache'[s][selected'] # Missing THEN cache'[s][selected'] ELSE last[s]]
  BY DEF Renders, KnownByAnswer, IsPlaceholder, Data, Answer

(* A render keeps the known season a season the server has named. *)
LEMMA RenderFits ==
  ASSUME SeasonInv, Renders, UNCHANGED <<season, current>>, scope' \in Scopes, selected' \in Keys,
         cache' \in [Scopes -> [Keys -> AnswerOrNone]], AnswersFit', steps' \in 0..MaxSteps,
         fetches' \subseteq fetches, selected' # Current => selected' >= 1 - MaxSteps + steps',
         selected' # Current => knownSeason # Current /\ selected' < knownSeason,
         \A s \in Scopes : cache[s][Current] # Missing /\ selected = Current => cache'[s][Current] # Missing
  PROVE  SeasonInv'
<1> USE Seasons DEF SeasonInv
<1>1. cache'[scope'][selected'] \in AnswerOrNone /\ \A s \in Scopes : cache'[s][selected'] \in AnswerOrNone
  OBVIOUS
<1>2. selected' = Current /\ cache'[scope'][selected'] # Missing => cache'[scope'][selected'].season \in current
  BY DEF AnswersFit, Fits
<1>3. knownSeason' \in {Current} \union 1..season /\ (knownSeason' # Current => knownSeason' \in current)
  BY <1>2, RankingRendered DEF SeasonTyped, KnownFits
<1>4. knownSeason # Current => knownSeason' # Current
  <2>1. \A n \in current : n # Current
    BY DEF SeasonTyped
  <2> QED
    BY <1>2, <2>1, RankingRendered
<1>5. last' \in [Scopes -> AnswerOrNone]
  BY <1>1, RankingRendered DEF SeasonTyped
<1>6. SeasonTyped'
  BY <1>3, <1>5 DEF SeasonTyped
<1>7. ASSUME selected' # Current
      PROVE  knownSeason' # Current /\ selected' < knownSeason'
  BY <1>7, RankingRendered
<1>8. selected' = Current /\ cache'[scope'][Current] # Missing => knownSeason' = cache'[scope'][Current].season
  BY RankingRendered
<1>9. ASSUME knownSeason' = Current, NEW s \in Scopes, last'[s] # Missing
      PROVE  cache'[s][Current] # Missing
  <2>1. knownSeason = Current /\ selected' = Current /\ selected = Current
    BY <1>4, <1>7, <1>9 DEF KnownFits
  <2> QED
    BY <1>9, <2>1, RankingRendered DEF KnownFits
<1>10. KnownFits'
  BY <1>3, <1>7, <1>8, <1>9 DEF KnownFits
<1> QED
  BY <1>6, <1>10

LEMMA TapsFit ==
  ASSUME SeasonInv, GoToPrevious \/ GoToNext \/ BackToCurrent \/ ChangesScope
  PROVE  SeasonInv'
<1> USE Seasons DEF Steps
<1>1. /\ UNCHANGED <<season, cache, failed, fetches, current>> /\ Renders
      /\ steps > 0 /\ steps' = steps - 1 /\ scope' \in Scopes
  BY DEF GoToPrevious, GoToNext, BackToCurrent, ChangesScope, SeasonInv, SeasonTyped
<1>2. steps \in 0..MaxSteps /\ steps' \in 0..MaxSteps /\ season \in Nat /\ season <= LastSeason
  BY <1>1 DEF SeasonInv, SeasonTyped
<1>3. AnswersFit' /\ cache' \in [Scopes -> [Keys -> AnswerOrNone]]
  BY <1>1 DEF SeasonInv, SeasonTyped, AnswersFit, Fits
<1>k. /\ knownSeason # Current => knownSeason \in 1..season
      /\ selected # Current => /\ selected \in Int /\ selected >= 1 - MaxSteps + steps
                               /\ knownSeason # Current /\ selected < knownSeason
  BY <1>2 DEF SeasonInv, SeasonTyped, KnownFits, Keys
<1>4. /\ selected' # Current => selected' \in Int /\ selected' >= 1 - MaxSteps + steps'
      /\ selected' # Current => knownSeason # Current /\ selected' < knownSeason
  <2>1. CASE GoToPrevious
    <3>1. knownSeason # Current
      BY <2>1, RankingShows DEF GoToPrevious, CanGoPrevious
    <3>2. selected' = (IF selected # Current THEN selected ELSE knownSeason) - 1
      BY <2>1, <3>1 DEF GoToPrevious, DisplaySeason
    <3> QED
      BY <1>1, <1>2, <1>k, <3>1, <3>2
  <2>2. CASE GoToNext
    <3>1. knownSeason # Current
      BY <2>2, RankingShows DEF GoToNext, CanGoNext
    <3>2. /\ DisplaySeason = IF selected # Current THEN selected ELSE knownSeason
          /\ selected' = IF DisplaySeason + 1 >= knownSeason THEN Current ELSE DisplaySeason + 1
      BY <2>2, <3>1 DEF GoToNext, DisplaySeason, ResolveNextSeason
    <3> QED
      BY <1>1, <1>2, <1>k, <3>1, <3>2
  <2>3. CASE BackToCurrent
    BY <2>3 DEF BackToCurrent
  <2>4. CASE ChangesScope
    BY <1>1, <1>2, <1>k, <2>4 DEF ChangesScope
  <2> QED
    BY <2>1, <2>2, <2>3, <2>4
<1>5. selected' \in Keys
  BY <1>2, <1>4, <1>k DEF Keys
<1> QED
  BY <1>1, <1>2, <1>3, <1>4, <1>5, RenderFits

LEMMA FetchEndsFits ==
  ASSUME SeasonInv, FetchEnds
  PROVE  SeasonInv'
<1> USE Seasons
<1>1. /\ UNCHANGED <<season, scope, selected, current, steps>> /\ Renders
  BY DEF FetchEnds
<1>2. PICK f \in fetches :
       /\ fetches' = fetches \ {f}
       /\ cache' = cache \/ (f.answer # Missing /\ cache' = [cache EXCEPT ![f.scope][f.key] = f.answer])
  BY DEF FetchEnds
<1>3. f \in [scope : Scopes, key : Keys, answer : AnswerOrNone]
  BY DEF SeasonInv, SeasonTyped
<1>4. \A s \in Scopes, k \in Keys : cache'[s][k] = cache[s][k] \/ (k = f.key /\ cache'[s][k] = f.answer /\ f.answer # Missing)
  BY <1>2, <1>3 DEF SeasonInv, SeasonTyped
<1>5. cache' \in [Scopes -> [Keys -> AnswerOrNone]]
  BY <1>2, <1>3 DEF SeasonInv, SeasonTyped
<1>6. AnswersFit'
  BY <1>1, <1>2, <1>4 DEF SeasonInv, AnswersFit, Fits
<1>7. \A s \in Scopes : cache[s][Current] # Missing /\ selected = Current => cache'[s][Current] # Missing
  BY <1>4
<1> QED
  BY <1>1, <1>2, <1>5, <1>6, <1>7, RenderFits DEF SeasonInv, SeasonTyped, KnownFits

LEMMA FetchesFit ==
  ASSUME SeasonInv, Fetches \/ ServesSeason \/ Forgets \/ SeasonEnds
  PROVE  SeasonInv'
<1> USE Seasons DEF SeasonInv
<1>0. UNCHANGED <<scope, selected, knownSeason, last, steps>>
  BY DEF Fetches, ServesSeason, Forgets, SeasonEnds
<1>1. CASE Fetches
  <2> DEFINE g == [scope |-> scope, key |-> selected, answer |-> Missing]
  <2>1. fetches' = fetches \union {g} /\ UNCHANGED <<season, cache, current>>
    BY <1>1 DEF Fetches
  <2>2. g \in [scope : Scopes, key : Keys, answer : AnswerOrNone] /\ g.answer = Missing /\ g.key = selected
    BY DEF SeasonTyped, AnswerOrNone
  <2> HIDE DEF g
  <2>3. selected # Current => selected < season
    BY DEF SeasonTyped, KnownFits, Keys
  <2>4. SeasonTyped'
    BY <1>0, <2>1, <2>2 DEF SeasonTyped
  <2>5. AnswersFit' /\ KnownFits'
    BY <1>0, <2>1, <2>2, <2>3 DEF AnswersFit, KnownFits, Fits
  <2> QED
    BY <2>4, <2>5
<1>2. CASE ServesSeason
  <2>1. PICK f \in fetches, n \in 1..season :
          /\ n = IF f.key = Current THEN season ELSE f.key
          /\ fetches' = (fetches \ {f}) \union {[f EXCEPT !.answer = [season |-> n, ended |-> n < season]]}
          /\ current' = IF f.key = Current THEN current \union {n} ELSE current
          /\ UNCHANGED <<season, cache>>
    BY <1>2 DEF ServesSeason
  <2> DEFINE e == n < season
             r == [season |-> n, ended |-> e]
             g == [f EXCEPT !.answer = r]
  <2>2. e \in BOOLEAN /\ (f.key # Current => e)
    BY <2>1 DEF AnswersFit
  <2>3. fetches' = (fetches \ {f}) \union {g}
    BY <2>1
  <2> HIDE DEF e
  <2>4. r \in RankingAnswers /\ r.season = n /\ r.ended = e
    BY <2>2 DEF RankingAnswers, SeasonTyped
  <2> HIDE DEF r
  <2>5. g \in [scope : Scopes, key : Keys, answer : AnswerOrNone] /\ g.answer = r /\ g.key = f.key
    BY <2>4 DEF SeasonTyped, AnswerOrNone
  <2> HIDE DEF g
  <2>6. SeasonTyped'
    BY <1>0, <2>1, <2>3, <2>5 DEF SeasonTyped
  <2>7. current \subseteq current' /\ season' = season
    BY <2>1
  <2>a. g.key # Current => g.key < season /\ r.season = g.key /\ r.ended
    BY <2>1, <2>2, <2>4, <2>5 DEF AnswersFit
  <2>b. g.key = Current => r.season \in current'
    BY <2>1, <2>4, <2>5
  <2>8. AnswersFit'
    <3>1. \A s \in Scopes, k \in Keys : cache[s][k] # Missing =>
            IF k = Current THEN cache[s][k].season \in current'
            ELSE cache[s][k].season = k /\ cache[s][k].ended
      BY <2>7 DEF AnswersFit, Fits
    <3>2. \A o \in fetches' : o.key # Current => o.key < season'
      BY <2>3, <2>7, <2>a DEF AnswersFit
    <3>3. \A o \in fetches' : o.answer # Missing =>
            IF o.key = Current THEN o.answer.season \in current'
            ELSE o.answer.season = o.key /\ o.answer.ended
      BY <2>3, <2>5, <2>7, <2>a, <2>b DEF AnswersFit, Fits
    <3> QED
      BY <2>1, <3>1, <3>2, <3>3 DEF AnswersFit, Fits
  <2>9. KnownFits'
    BY <1>0, <2>1, <2>7 DEF KnownFits
  <2> QED
    BY <2>6, <2>8, <2>9
<1>3. CASE Forgets
  <2>1. PICK s \in Scopes, k \in Keys \ {selected} :
          cache' = [cache EXCEPT ![s][k] = Missing] /\ UNCHANGED <<season, fetches, current>>
    BY <1>3 DEF Forgets
  <2>2. /\ \A t \in Scopes, j \in Keys : cache'[t][j] \in {cache[t][j], Missing}
        /\ \A t \in Scopes : cache'[t][selected] = cache[t][selected]
        /\ cache' \in [Scopes -> [Keys -> AnswerOrNone]]
    BY <2>1 DEF SeasonTyped, AnswerOrNone
  <2>3. SeasonTyped' /\ AnswersFit'
    BY <1>0, <2>1, <2>2 DEF SeasonTyped, AnswersFit, Fits
  <2>4. KnownFits'
    BY <1>0, <2>1, <2>2 DEF KnownFits, SeasonTyped
  <2> QED
    BY <2>3, <2>4
<1>4. CASE SeasonEnds
  <2>1. season' = season + 1 /\ season < LastSeason /\ UNCHANGED <<cache, fetches, current>>
    BY <1>4 DEF SeasonEnds
  <2>2. SeasonTyped'
    BY <1>0, <2>1 DEF SeasonTyped
  <2>3. \A f \in fetches : f.key # Current => f.key < season'
    BY <2>1 DEF AnswersFit, SeasonTyped, Keys
  <2>4. AnswersFit' /\ KnownFits'
    BY <1>0, <2>1, <2>3 DEF AnswersFit, KnownFits, Fits
  <2> QED
    BY <2>2, <2>4
<1> QED
  BY <1>1, <1>2, <1>3, <1>4

LEMMA SeasonKeeps == SeasonSpec => []SeasonInv
<1>1. SeasonInv /\ [SeasonNext]_seasonVars => SeasonInv'
  <2> SUFFICES ASSUME SeasonInv, [SeasonNext]_seasonVars PROVE SeasonInv'
    OBVIOUS
  <2>1. CASE UNCHANGED seasonVars
    BY <2>1 DEF seasonVars, SeasonInv, SeasonTyped, AnswersFit, KnownFits, Fits
  <2> QED
    BY <2>1, TapsFit, FetchEndsFits, FetchesFit DEF SeasonNext
<1> QED
  BY <1>1, SeasonInitially, PTL DEF SeasonSpec

(* useSeasonRanking: whatever taps and answers overlap and whenever the season ends, a      *)
(* ranking stands under its own number, and the way forward leads back to a current season  *)
(* the server has named.                                                                    *)
THEOREM RankingIsOfItsSeason == SeasonSpec => []RankingUnderItsNumber
<1>1. SeasonInv => RankingUnderItsNumber
  <2> SUFFICES ASSUME SeasonInv PROVE RankingUnderItsNumber
    OBVIOUS
  <2>1. Answer # Missing => DisplaySeason = Answer.season
    BY RankingShows DEF SeasonInv, SeasonTyped, KnownFits, AnswersFit, Fits, Answer, DisplaySeason
  <2>2. selected # Current /\ Answer # Missing => CanGoNext
    BY RankingShows DEF SeasonInv, SeasonTyped, AnswersFit, Fits, Answer, CanGoNext
  <2> QED
    BY <2>1, <2>2 DEF SeasonInv, KnownFits, RankingUnderItsNumber
<1> QED
  BY <1>1, SeasonKeeps, PTL

(* Types of the ranking: only queries of the screen fail.                                     *)
FailedTyped == failed \subseteq Scopes \X Keys

(* The state of the ranking screen keeps its shape: every season kept, shown or asked for is  *)
(* one that has begun, or none.                                                               *)
THEOREM SeasonStaysTyped == SeasonSpec => []SeasonTypeOK
<1>1. SeasonInit => FailedTyped
  BY DEF SeasonInit, FailedTyped
<1>2. SeasonInv /\ FailedTyped /\ [SeasonNext]_seasonVars => FailedTyped'
  <2> SUFFICES ASSUME SeasonInv, FailedTyped, [SeasonNext]_seasonVars PROVE FailedTyped'
    OBVIOUS
  <2>1. CASE GoToPrevious \/ GoToNext \/ BackToCurrent \/ ChangesScope
    BY <2>1 DEF GoToPrevious, GoToNext, BackToCurrent, ChangesScope, Steps, FailedTyped
  <2>2. CASE Fetches \/ ServesSeason \/ SeasonEnds \/ UNCHANGED seasonVars
    BY <2>2 DEF Fetches, ServesSeason, SeasonEnds, seasonVars, FailedTyped
  <2>3. CASE Forgets
    BY <2>3 DEF Forgets, FailedTyped
  <2>4. CASE FetchEnds
    <3>1. PICK f \in fetches : failed' \in {failed \ {<<f.scope, f.key>>}, failed \union {<<f.scope, f.key>>}, failed}
      BY <2>4 DEF FetchEnds
    <3>2. f.scope \in Scopes /\ f.key \in Keys
      BY DEF SeasonInv, SeasonTyped
    <3> QED
      BY <3>1, <3>2 DEF FailedTyped
  <2> QED
    BY <2>1, <2>2, <2>3, <2>4 DEF SeasonNext
<1>3. SeasonInv /\ FailedTyped => SeasonTypeOK
  <2> SUFFICES ASSUME SeasonInv, FailedTyped PROVE SeasonTypeOK
    OBVIOUS
  <2>1. season \in Nat /\ season <= LastSeason /\ LastSeason \in Nat
    BY Seasons DEF SeasonInv, SeasonTyped
  <2>2. knownSeason \in {Current} \union 1..LastSeason /\ current \subseteq 1..LastSeason
    BY <2>1 DEF SeasonInv, SeasonTyped
  <2>3. \A a \in AnswerOrNone : a = Missing \/ a.season \in 1..LastSeason
    BY DEF AnswerOrNone, RankingAnswers
  <2>4. \A s \in Scopes : last[s] = Missing \/ last[s].season \in 1..LastSeason
    BY <2>3 DEF SeasonInv, SeasonTyped
  <2>5. \A s \in Scopes, k \in Keys : cache[s][k] = Missing \/ cache[s][k].season \in 1..LastSeason
    BY <2>3 DEF SeasonInv, SeasonTyped
  <2> QED
    BY <2>2, <2>4, <2>5 DEF SeasonInv, SeasonTyped, FailedTyped, SeasonTypeOK
<1> QED
  BY <1>1, <1>2, <1>3, SeasonKeeps, PTL DEF SeasonSpec

-----------------------------------------------------------------------------
(* Signing up.  Who is signed in, or asks to be registered, still has his account; who was   *)
(* told to be registered is; and the query is about nobody but the session.                  *)
LoginMade(u) == u \in 1..Len(made)
Registrations == [uid : Nat, consent : {"none", "current", "ahead"},
                  answer : {"none", "ok", "conflict", "consent", "refused"}]
StrayRecords == [uid : Nat, consent : {"none", "current", "ahead"}]
FormRecords == [phase : {"idle", "register", "complete", "rollback", "recheck"}, uid : Nat]
EntryRecords == [phase : {"idle", "fetch", "asking", "leaving"}, uid : Nat]
PollRecords == [uid : Nat, read : Int]
Screens == {"login", "register", "complete", "main"}
Snapshots == {"none", "current", "old", "ahead"}
SignInTyped ==
  /\ made \in Seq(Identities) /\ logins \in [Identities -> Nat] /\ row \in [Identities -> Nat]
  /\ session \in Nat /\ me \in Int /\ poll \in PollRecords /\ known \in Nat
  /\ screen \in Screens /\ snapshot \in Snapshots /\ saving \in {0, 1}
  /\ created \in BOOLEAN /\ sheet \in BOOLEAN /\ awaited \in BOOLEAN /\ strayed \in BOOLEAN
  /\ entry \in [Identities -> EntryRecords] /\ form \in FormRecords /\ call \in Registrations
  /\ strays \subseteq StrayRecords /\ verified \subseteq Nat \ {Unknown}
UidsFit ==
  /\ \A i \in Identities : logins[i] # Unknown => LoginMade(logins[i]) /\ made[logins[i]] = i
  /\ session # Unknown => LoginMade(session) /\ logins[made[session]] = session
  /\ form.phase # "idle" => LoginMade(form.uid)
  /\ call.uid # Unknown => LoginMade(call.uid) /\ logins[made[call.uid]] = call.uid
  /\ known # Unknown => LoginMade(known) /\ row[made[known]] = known
  /\ \A c \in strays : LoginMade(c.uid) /\ c.uid \in unsure
  /\ entry["mail"].phase = "fetch" => LoginMade(entry["mail"].uid) /\ made[entry["mail"].uid] = "mail"
AuthCallFits ==
  /\ call.uid = Unknown => call.answer = "none"
  /\ call.uid # Unknown => form.phase \in {"register", "complete"} /\ form.uid = call.uid
  /\ call.answer = "ok" => row[made[call.uid]] = call.uid
  /\ call.answer = "refused" /\ row[made[call.uid]] = call.uid => call.uid \in unsure
  /\ form.phase = "rollback" /\ row[made[form.uid]] = form.uid => form.uid \in unsure
QueryFits ==
  /\ poll.uid = Unknown => poll = NoPoll
  /\ poll.uid # Unknown => poll.uid = session
  /\ session = Unknown => me \in {Unknown, known}
  /\ known # Unknown /\ poll.uid = known => poll.read \in {Unknown, known}
ScreensFit ==
  /\ awaited => sheet /\ entry["social"].phase # "fetch"
  /\ strayed
       \/ /\ screen = "login" => form.phase = "idle"
          /\ sheet => form.phase = "idle" /\ screen \in {"login", "main"}
          /\ saving > 0 /\ ~sheet => form.phase = "idle" /\ screen = "main"
          /\ entry["social"].phase = "fetch" => form.phase = "idle" /\ screen \in {"login", "main"}
          /\ (sheet \/ saving > 0) /\ ~awaited => entry["social"].phase # "fetch" /\ ~Social(session)
SignInInv == /\ SignInTyped /\ UidsFit /\ AuthCallFits /\ QueryFits /\ ScreensFit
             /\ ProfileKeepsLogin /\ RegistrationIsKept /\ SocialStaysApart
AccountsFit == UidsFit /\ AuthCallFits /\ ProfileKeepsLogin
ScreensHold == ScreensFit /\ SocialStaysApart
QueryHolds == QueryFits /\ RegistrationIsKept

LEMMA SignInRecords ==
  /\ Still \in EntryRecords /\ Still \in FormRecords /\ NoCall \in Registrations /\ NoPoll \in PollRecords
  /\ Unknown = 0 /\ Null = -1
BY DEF Still, NoCall, NoPoll, Unknown, Null, EntryRecords, FormRecords, Registrations, PollRecords

LEMMA SignInInitially == SignInInit => SignInInv
<1> SUFFICES ASSUME SignInInit PROVE SignInInv
    OBVIOUS
<1>1. <<>> \in Seq(Identities)
      OBVIOUS
<1>2. SignInTyped
  <2>1. [i \in Identities |-> Unknown] \in [Identities -> Nat]
        BY DEF Unknown
  <2>2. [i \in Identities |-> Still] \in [Identities -> EntryRecords]
        BY SignInRecords
  <2>3. screen \in Screens /\ snapshot \in Snapshots /\ saving \in {0, 1} /\ strays \subseteq StrayRecords
        BY DEF SignInInit, Screens, Snapshots
  <2>4. session \in Nat /\ me \in Int /\ known \in Nat
        BY DEF SignInInit, Unknown
  <2> QED BY <1>1, <2>1, <2>2, <2>3, <2>4, SignInRecords DEF SignInInit, SignInTyped
<1>3. UidsFit /\ AuthCallFits /\ ProfileKeepsLogin
      BY DEF SignInInit, UidsFit, AuthCallFits, ProfileKeepsLogin, Identities, Unknown, NoPoll, NoCall, Still
<1>4. QueryFits /\ RegistrationIsKept
      BY DEF SignInInit, QueryFits, RegistrationIsKept, Unknown, NoPoll, Null
<1>5. ScreensFit /\ SocialStaysApart
      BY DEF SignInInit, ScreensFit, SocialStaysApart, Social, Identities, Unknown, Still
<1> QED BY <1>2, <1>3, <1>4, <1>5 DEF SignInInv

-----------------------------------------------------------------------------
(* Who signs in has an account then, his own; the accounts there were stay what they were. *)
Signed(i) ==
  \/ logins[i] # Unknown /\ UNCHANGED <<made, logins, verified>>
  \/ logins[i] = Unknown /\ Makes(i)

LEMMA SignedFits ==
  ASSUME SignInTyped, UidsFit, NEW i \in Identities, Signed(i)
  PROVE  /\ made' \in Seq(Identities) /\ Len(made) <= Len(made')
         /\ \A u \in 1..Len(made) : u \in 1..Len(made') /\ made'[u] = made[u]
         /\ logins' \in [Identities -> Nat]
         /\ logins'[i] \in 1..Len(made') /\ made'[logins'[i]] = i
         /\ \A w \in Identities : w # i \/ logins[i] # Unknown => logins'[w] = logins[w]
         /\ verified' \subseteq Nat \ {Unknown}
<1>1. CASE logins[i] # Unknown /\ UNCHANGED <<made, logins, verified>>
      BY <1>1 DEF SignInTyped, UidsFit, LoginMade
<1>2. CASE logins[i] = Unknown /\ Makes(i)
  <2>1. made \in Seq(Identities) /\ Len(made) \in Nat
        BY DEF SignInTyped
  <2>2. made' = Append(made, i)
        BY <1>2 DEF Makes
  <2>3. made' \in Seq(Identities) /\ Len(made') = Len(made) + 1
        BY <2>1, <2>2
  <2>4. \A u \in 1..Len(made) : made'[u] = made[u]
        BY <2>1, <2>2
  <2>5. made'[Len(made) + 1] = i
        BY <2>1, <2>2
  <2>6. logins' = [logins EXCEPT ![i] = Len(made) + 1] /\ logins \in [Identities -> Nat]
        BY <1>2 DEF Makes, SignInTyped
  <2>7. logins' \in [Identities -> Nat] /\ logins'[i] = Len(made) + 1
        BY <2>1, <2>6
  <2>8. \A w \in Identities : w # i => logins'[w] = logins[w]
        BY <2>6
  <2>9. verified' \subseteq Nat \ {Unknown}
    <3>1. Len(made) + 1 \in Nat \ {Unknown}
          BY <2>1 DEF Unknown
    <3> QED BY <1>2, <3>1 DEF Makes, SignInTyped
  <2> QED BY <1>2, <2>1, <2>3, <2>4, <2>5, <2>7, <2>8, <2>9
<1> QED BY <1>1, <1>2 DEF Signed

LEMMA SocialOrMail == Identities = {"mail", "social"} /\ "mail" \in Identities /\ "social" \in Identities
BY DEF Identities

LEMMA AcceptedSigns == ASSUME NEW w, Accepted(w) PROVE Signed(w)
BY DEF Accepted, Signed

(* What SessionBecomes leaves of the query about auth.me. *)
LEMMA SessionTyped ==
  ASSUME SignInTyped, NEW u \in Nat, SessionBecomes(u)
  PROVE  session' = u /\ me' \in Int /\ poll' \in PollRecords
<1>1. NoPoll \in PollRecords /\ Asked(u) \in PollRecords
      BY DEF NoPoll, Asked, Unknown, PollRecords
<1> QED BY <1>1 DEF SessionBecomes, SignInTyped, Unknown

LEMMA SessionFits ==
  ASSUME SignInTyped, QueryHolds, NEW u \in Nat, SessionBecomes(u), known' = known
  PROVE  QueryHolds'
BY DEF SessionBecomes, SignInTyped, QueryHolds, QueryFits, RegistrationIsKept, NoPoll, Asked, Unknown, Null, PollRecords

LEMMA ThenIs ==
  ASSUME SignInTyped, NEW w \in Identities, NEW p \in {"idle", "fetch", "asking", "leaving"}, Then(w, p)
  PROVE  /\ entry' \in [Identities -> EntryRecords] /\ entry'[w].phase = p
         /\ \A v \in Identities : v # w => entry'[v] = entry[v]
<1>1. Still \in EntryRecords /\ Still.phase = "idle"
      BY DEF Still, Unknown, EntryRecords
<1>2. entry \in [Identities -> EntryRecords]
      BY DEF SignInTyped
<1> DEFINE e == IF p = "idle" THEN Still ELSE [entry[w] EXCEPT !.phase = p]
<1>3. e \in EntryRecords /\ e.phase = p
      BY <1>1, <1>2 DEF EntryRecords
<1>4. entry' = [entry EXCEPT ![w] = e]
      BY DEF Then
<1> HIDE DEF e
<1> QED BY <1>2, <1>3, <1>4

LEMMA FinishesTyped ==
  ASSUME SignInTyped, NEW u \in Nat, NEW by \in {"register", "complete"}, Finishes(u, by)
  PROVE  form' \in FormRecords /\ call' \in Registrations /\ screen' \in Screens /\ snapshot' \in Snapshots
BY DEF Finishes, Requests, BackToTerms, Usable, SignInTyped, FormRecords, Registrations, Screens, Snapshots

LEMMA EntersTyped == ASSUME NEW c, EntersBy(c) PROVE screen' \in {"login", "main"}
BY DEF EntersBy

-----------------------------------------------------------------------------
(* The types. *)
LEMMA SignInKeepsTypes == SignInTyped /\ UidsFit /\ SignInNext => SignInTyped'
<1> SUFFICES ASSUME SignInTyped, UidsFit, SignInNext PROVE SignInTyped'
    OBVIOUS
<1> USE SignInRecords, SocialOrMail
<1>1. \A u \in Nat : Profile(u) \in Int
      BY DEF Profile
<1>2. poll.uid \in Nat /\ poll.read \in Int /\ form.uid \in Nat /\ call.uid \in Nat
      BY DEF SignInTyped, PollRecords, FormRecords, Registrations
<1>3. CASE PollReads
      BY <1>1, <1>2, <1>3 DEF PollReads, SignInTyped, world, device, server, past, PollRecords
<1>4. CASE PollAnswers
      BY <1>2, <1>4 DEF PollAnswers, SignInTyped, world, device, server, past
<1>5. CASE OpensLink
      BY <1>5, ZenonT(60) DEF OpensLink, SignInTyped, world, device, server, past
<1>6. CASE ElsewhereRegisters
  <2>1. row' \in [Identities -> Nat]
        BY <1>6 DEF ElsewhereRegisters, SignInTyped
  <2> QED BY <1>6, <2>1 DEF ElsewhereRegisters, SignInTyped, device, server
<1>7. CASE OpensSheet
      BY <1>7 DEF OpensSheet, SignInTyped, world, server
<1>8. CASE Continues
  <2>1. saving' \in {0, 1}
        BY <1>8 DEF Continues, OneTap
  <2> QED BY <1>8, <2>1 DEF Continues, SignInTyped, world, server, past
<1>9. CASE SnapshotNotSaved
  <2>1. saving' \in {0, 1}
        BY <1>9 DEF SnapshotNotSaved, SignInTyped
  <2> QED BY <1>9, <2>1 DEF SnapshotNotSaved, SignInTyped, world, server, past
<1>10. CASE SnapshotAges
      BY <1>10 DEF SnapshotAges, SignInTyped, world, server, past, Snapshots
<1>11. CASE \E w \in Identities : SignsIn(w) \/ Fetched(w) \/ FetchCancelled(w) \/ FetchFails(w) \/ Leaves(w)
  <2> PICK w \in Identities : SignsIn(w) \/ Fetched(w) \/ FetchCancelled(w) \/ FetchFails(w) \/ Leaves(w)
      BY <1>11
  <2>1. CASE SignsIn(w)
    <3>1. Signed(w)
          BY <2>1, AcceptedSigns DEF SignsIn
    <3>2. /\ made' \in Seq(Identities) /\ logins' \in [Identities -> Nat] /\ logins'[w] \in Nat
          /\ verified' \subseteq Nat \ {Unknown}
          BY <3>1, SignedFits
    <3>3. session' = logins'[w] /\ me' \in Int /\ poll' \in PollRecords
          BY <2>1, <3>2, SessionTyped DEF SignsIn
    <3>4. entry' \in [Identities -> EntryRecords]
          BY <2>1, <3>2 DEF SignsIn, SignInTyped, EntryRecords
    <3> QED BY <2>1, <3>2, <3>3, <3>4 DEF SignsIn, SignInTyped, device, server, past
  <2>2. CASE Fetched(w)
    <3>1. entry' \in [Identities -> EntryRecords]
          BY <2>2, ThenIs DEF Fetched
    <3>2. screen' \in Screens
          BY <2>2, EntersTyped DEF Fetched, Screens, SignInTyped
    <3>3. sheet' \in BOOLEAN /\ awaited' \in BOOLEAN
          BY <2>2 DEF Fetched
    <3> QED BY <1>1, <2>2, <3>1, <3>2, <3>3 DEF Fetched, SignInTyped, world, server, past
  <2>3. CASE FetchCancelled(w)
    <3>1. entry' \in [Identities -> EntryRecords]
      <4>1. CASE Then(w, "idle") \/ Then(w, "leaving")
            BY <4>1, ThenIs
      <4>2. CASE entry' = [entry EXCEPT ![w].uid = session]
            BY <4>2 DEF SignInTyped, EntryRecords
      <4> QED BY <2>3, <4>1, <4>2 DEF FetchCancelled
    <3> QED BY <2>3, <3>1 DEF FetchCancelled, SignInTyped, world, device, server, past
  <2>4. CASE FetchFails(w)
    <3>1. entry' \in [Identities -> EntryRecords]
          BY <2>4, ThenIs DEF FetchFails
    <3> QED BY <2>4, <3>1 DEF FetchFails, SignInTyped, world, device, server, past
  <2>5. CASE Leaves(w)
    <3>1. entry' \in [Identities -> EntryRecords]
          BY <2>5, ThenIs DEF Leaves
    <3>2. session' = Unknown /\ me' \in Int /\ poll' \in PollRecords
          BY <2>5, SessionTyped DEF Leaves
    <3> QED BY <2>5, <3>1, <3>2 DEF Leaves, SignInTyped, world, device, server, past
  <2> QED BY <2>1, <2>2, <2>3, <2>4, <2>5
<1>12. CASE SnapshotSaved
  <2>1. entry' \in [Identities -> EntryRecords]
    <3>1. Then("social", "idle") \/ entry' = entry
          BY <1>12 DEF SnapshotSaved
    <3> QED BY <3>1, ThenIs DEF SignInTyped
  <2>2. screen' \in Screens /\ created' \in BOOLEAN
        BY <1>12 DEF SnapshotSaved, OpensRegister, Screens, SignInTyped
  <2>3. snapshot' \in Snapshots /\ sheet' \in BOOLEAN /\ awaited' \in BOOLEAN
        BY <1>12 DEF SnapshotSaved, Snapshots
  <2>4. saving' \in {0, 1}
        BY <1>12 DEF SnapshotSaved, SignInTyped
  <2> QED BY <1>12, <2>1, <2>2, <2>3, <2>4 DEF SnapshotSaved, SignInTyped, world, server, past
<1>13. CASE DismissesSheet
  <2>1. entry' \in [Identities -> EntryRecords]
    <3>1. Then("social", "leaving") \/ entry' = entry
          BY <1>13 DEF DismissesSheet
    <3> QED BY <3>1, ThenIs DEF SignInTyped
  <2> QED BY <1>13, <2>1 DEF DismissesSheet, SignInTyped, world, server
<1>14. CASE Submits
  <2>1. Signed("mail") /\ created' \in BOOLEAN
        BY <1>14 DEF Submits, Signed
  <2>2. /\ made' \in Seq(Identities) /\ logins' \in [Identities -> Nat] /\ logins'["mail"] \in Nat
        /\ verified' \subseteq Nat \ {Unknown}
        BY <2>1, SignedFits
  <2>3. session' = logins'["mail"] /\ me' \in Int /\ poll' \in PollRecords
        BY <1>14, <2>2, SessionTyped DEF Submits
  <2>4. form' \in FormRecords /\ call' \in Registrations /\ screen' \in Screens /\ snapshot' \in Snapshots
    <3>1. Finishes(logins'["mail"], "register") \/ UNCHANGED <<screen, snapshot, form, call>>
          BY <1>14 DEF Submits
    <3> QED BY <2>2, <3>1, FinishesTyped DEF SignInTyped
  <2> QED BY <1>14, <2>1, <2>2, <2>3, <2>4 DEF Submits, SignInTyped, past
<1>15. CASE Confirms
  <2>1. form' \in FormRecords /\ call' \in Registrations /\ screen' \in Screens /\ snapshot' \in Snapshots
    <3>1. Finishes(session, "register") \/ UNCHANGED <<screen, snapshot, form, call>>
          BY <1>15 DEF Confirms
    <3> QED BY <3>1, FinishesTyped DEF SignInTyped
  <2> QED BY <1>15, <2>1 DEF Confirms, SignInTyped, world, past
<1>16. CASE ChangesEmail
  <2>1. session' = Unknown /\ me' \in Int /\ poll' \in PollRecords
        BY <1>16, SessionTyped DEF ChangesEmail
  <2>2. logins' \in [Identities -> Nat]
    <3>1. logins' = logins \/ logins' = [logins EXCEPT ![made[session]] = Unknown]
          BY <1>16 DEF ChangesEmail
    <3> QED BY <3>1 DEF SignInTyped
  <2> QED BY <1>16, <2>1, <2>2 DEF ChangesEmail, SignInTyped, server
<1>17. CASE Completes
  <2>1. form' \in FormRecords /\ call' \in Registrations /\ screen' \in Screens /\ snapshot' \in Snapshots
    <3>1. Finishes(session, "complete") \/ (screen' = "login" /\ UNCHANGED <<snapshot, form, call>>)
          BY <1>17 DEF Completes
    <3> QED BY <3>1, FinishesTyped DEF SignInTyped, Screens
  <2>2. session' \in Nat /\ me' \in Int /\ poll' \in PollRecords
    <3>1. SessionBecomes(Unknown) \/ UNCHANGED <<session, me, poll>>
          BY <1>17 DEF Completes
    <3> QED BY <3>1, SessionTyped DEF SignInTyped
  <2> QED BY <1>17, <2>1, <2>2 DEF Completes, SignInTyped, world, past
<1>18. CASE ServerRegisters
  <2>1. call' \in Registrations
        BY <1>18 DEF ServerRegisters, Answers, SignInTyped, Registrations
  <2>2. row' \in [Identities -> Nat]
    <3>1. row' = row \/ row' = [row EXCEPT ![made[call.uid]] = call.uid]
          BY <1>18 DEF ServerRegisters
    <3> QED BY <1>2, <3>1 DEF SignInTyped
  <2> QED BY <1>18, <2>1, <2>2 DEF ServerRegisters, SignInTyped, device, past
<1>19. CASE ServerRefuses
  <2>1. call' \in Registrations
        BY <1>19 DEF ServerRefuses, Answers, SignInTyped, Registrations
  <2> QED BY <1>19, <2>1 DEF ServerRefuses, SignInTyped, world, device
<1>20. CASE StrayArrives
  <2>1. PICK c \in strays : /\ strays' = strays \ {c}
                            /\ row' = row \/ row' = [row EXCEPT ![made[c.uid]] = c.uid]
        BY <1>20 DEF StrayArrives
  <2>2. c.uid \in Nat
        BY DEF SignInTyped, StrayRecords
  <2>3. row' \in [Identities -> Nat] /\ strays' \subseteq StrayRecords
        BY <2>1, <2>2 DEF SignInTyped
  <2> QED BY <1>20, <2>3 DEF StrayArrives, SignInTyped, device, past
<1>21. CASE Welcomed
      BY <1>2, <1>21 DEF Welcomed, Cancelled, SignInTyped, world, Screens, Snapshots
<1>22. CASE RegisterRefused
  <2>1. form' \in FormRecords
        BY <1>22 DEF RegisterRefused, SignInTyped, FormRecords
  <2>2. screen' \in Screens /\ snapshot' \in Snapshots
        BY <1>22 DEF RegisterRefused, BackToTerms, SignInTyped, Screens, Snapshots
  <2> QED BY <1>22, <2>1, <2>2 DEF RegisterRefused, SignInTyped, world, past
<1>23. CASE RollsBack
  <2>1. session' \in Nat /\ me' \in Int /\ poll' \in PollRecords
    <3>1. SessionBecomes(Unknown) \/ UNCHANGED <<session, me, poll>>
          BY <1>23 DEF RollsBack
    <3> QED BY <3>1, SessionTyped DEF SignInTyped
  <2>2. logins' \in [Identities -> Nat]
    <3>1. logins' = logins \/ logins' = [logins EXCEPT ![made[form.uid]] = Unknown]
          BY <1>23 DEF RollsBack
    <3> QED BY <3>1 DEF SignInTyped
  <2> QED BY <1>23, <2>1, <2>2 DEF RollsBack, SignInTyped, device, server, past
<1>24. CASE CompleteRefused
  <2>1. form' \in FormRecords
        BY <1>24 DEF CompleteRefused, SignInTyped, FormRecords
  <2> QED BY <1>24, <2>1 DEF CompleteRefused, SignInTyped, world, device, past
<1>25. CASE Rechecks
  <2>1. session' \in Nat /\ me' \in Int /\ poll' \in PollRecords
    <3>1. SessionBecomes(Unknown) \/ (me' = session /\ poll' = NoPoll /\ session' = session) \/ UNCHANGED <<session, me, poll>>
          BY <1>25 DEF Rechecks
    <3> QED BY <3>1, SessionTyped DEF SignInTyped
  <2>2. screen' \in Screens /\ snapshot' \in Snapshots
        BY <1>25, EntersTyped DEF Rechecks, SignInTyped, Screens, Snapshots
  <2> QED BY <1>25, <2>1, <2>2 DEF Rechecks, SignInTyped, world, server, past
<1>26. CASE NoAnswer \/ AppRestarts
  <2>1. strays' \subseteq StrayRecords
    <3>1. [uid |-> call.uid, consent |-> call.consent] \in StrayRecords
          BY DEF SignInTyped, Registrations, StrayRecords
    <3> QED BY <1>26, <3>1 DEF NoAnswer, AppRestarts, Abandoned, SignInTyped
  <2>2. CASE NoAnswer
        BY <2>1, <2>2 DEF NoAnswer, SignInTyped, world, device
  <2>3. CASE AppRestarts
    <3>1. entry' \in [Identities -> EntryRecords]
          BY <2>3 DEF AppRestarts
    <3>2. me' \in Int /\ screen' \in Screens /\ strayed' \in BOOLEAN
          BY <1>1, <2>3 DEF AppRestarts, SignInTyped, Screens
    <3> QED BY <2>1, <2>3, <3>1, <3>2 DEF AppRestarts, SignInTyped, world
  <2> QED BY <1>26, <2>2, <2>3
<1> QED BY <1>3, <1>4, <1>5, <1>6, <1>7, <1>8, <1>9, <1>10, <1>11, <1>12, <1>13, <1>14, <1>15, <1>16, <1>17, <1>18, <1>19, <1>20, <1>21, <1>22, <1>23, <1>24, <1>25, <1>26 DEF SignInNext
-----------------------------------------------------------------------------
(* The accounts: whose they are, and what the server may have made of them. *)
LEMMA SignedKeepsAccounts ==
  ASSUME SignInTyped, AccountsFit, NEW i \in Identities, Signed(i), session' = logins'[i],
         UNCHANGED <<row, strays, unsure, dropped, known>>,
         entry'["mail"] = entry["mail"] \/ (i = "mail" /\ entry'["mail"].uid = logins'[i]),
         \/ UNCHANGED <<form, call>>
         \/ /\ form' \in [phase : {"register"}, uid : {logins'[i]}] /\ call'.uid = logins'[i] /\ call'.answer = "none"
  PROVE  AccountsFit'
<1> USE SocialOrMail
<1>1. /\ \A u \in 1..Len(made) : u \in 1..Len(made') /\ made'[u] = made[u] /\ made[u] \in Identities
      /\ logins'[i] \in 1..Len(made') /\ made'[logins'[i]] = i
      /\ \A w \in Identities : w # i \/ logins[i] # Unknown => logins'[w] = logins[w]
      BY SignedFits DEF AccountsFit, SignInTyped
<1>2. UidsFit'
  <2>1. \A w \in Identities : logins'[w] # Unknown => logins'[w] \in 1..Len(made') /\ made'[logins'[w]] = w
        BY <1>1 DEF AccountsFit, UidsFit, LoginMade
  <2>2. session' # Unknown => session' \in 1..Len(made') /\ logins'[made'[session']] = session'
        BY <1>1
  <2>3. form'.phase # "idle" => form'.uid \in 1..Len(made')
        BY <1>1 DEF AccountsFit, UidsFit, LoginMade
  <2>4. call'.uid # Unknown => call'.uid \in 1..Len(made') /\ logins'[made'[call'.uid]] = call'.uid
    <3>1. CASE call' = call
      <4> SUFFICES ASSUME call.uid # Unknown PROVE call.uid \in 1..Len(made') /\ logins'[made'[call.uid]] = call.uid
          BY <3>1
      <4>1. call.uid \in 1..Len(made) /\ logins[made[call.uid]] = call.uid
            BY DEF AccountsFit, UidsFit, LoginMade
      <4>2. logins[made[call.uid]] # Unknown
            BY <4>1
      <4> QED BY <1>1, <4>1, <4>2
    <3> QED BY <1>1, <3>1
  <2>5. known' # Unknown => known' \in 1..Len(made') /\ row'[made'[known']] = known'
        BY <1>1 DEF AccountsFit, UidsFit, LoginMade
  <2>6. \A c \in strays' : c.uid \in 1..Len(made') /\ c.uid \in unsure'
        BY <1>1 DEF AccountsFit, UidsFit, LoginMade
  <2>7. entry'["mail"].phase = "fetch" => entry'["mail"].uid \in 1..Len(made') /\ made'[entry'["mail"].uid] = "mail"
        BY <1>1 DEF AccountsFit, UidsFit, LoginMade
  <2> QED BY <2>1, <2>2, <2>3, <2>4, <2>5, <2>6, <2>7 DEF UidsFit, LoginMade
<1>3. AuthCallFits'
  <2>1. CASE UNCHANGED <<form, call>>
    <3>1. form.phase # "idle" => made'[form.uid] = made[form.uid]
          BY <1>1 DEF AccountsFit, UidsFit, LoginMade
    <3>2. call.uid # Unknown => made'[call.uid] = made[call.uid]
          BY <1>1 DEF AccountsFit, UidsFit, LoginMade
    <3> QED BY <2>1, <3>1, <3>2 DEF AccountsFit, AuthCallFits
  <2>2. CASE ~UNCHANGED <<form, call>>
        BY <1>1, <2>2 DEF AuthCallFits, Unknown
  <2> QED BY <2>1, <2>2
<1>4. ProfileKeepsLogin'
  <2> SUFFICES ASSUME NEW w \in Identities, row[w] # Unknown
               PROVE  logins'[w] = row[w] \/ row[w] \in unsure \union dropped
      BY DEF ProfileKeepsLogin
  <2>1. logins[w] = row[w] \/ row[w] \in unsure \union dropped
        BY DEF AccountsFit, ProfileKeepsLogin
  <2> QED BY <1>1, <2>1
<1> QED BY <1>2, <1>3, <1>4 DEF AccountsFit

(* An account is deleted at Firebase: it had no profile, or that is recorded. *)
LEMMA DeletionKeepsAccounts ==
  ASSUME SignInTyped, AccountsFit, NEW u \in 1..Len(made), logins[made[u]] = u,
         logins' = [logins EXCEPT ![made[u]] = Unknown],
         session' \in {Unknown, session}, session' # u, call.uid = Unknown,
         UNCHANGED <<made, row, call, strays, unsure, known, entry>>, form'.phase = "idle",
         dropped \subseteq dropped', row[made[u]] # u \/ u \in unsure \union dropped'
  PROVE  AccountsFit'
<1>1. made[u] \in Identities /\ logins'[made[u]] = Unknown
      BY DEF SignInTyped
<1>2. \A w \in Identities : w # made[u] => logins'[w] = logins[w]
      BY DEF SignInTyped
<1>3. UidsFit'
  <2>1. \A w \in Identities : logins'[w] # Unknown => logins'[w] \in 1..Len(made) /\ made[logins'[w]] = w
        BY <1>1, <1>2 DEF AccountsFit, UidsFit, LoginMade
  <2>2. session' # Unknown => session' \in 1..Len(made) /\ logins'[made[session']] = session'
    <3> SUFFICES ASSUME session' # Unknown PROVE session' \in 1..Len(made) /\ logins'[made[session']] = session'
        OBVIOUS
    <3>1. session' = session /\ session \in 1..Len(made) /\ logins[made[session]] = session
          BY DEF AccountsFit, UidsFit, LoginMade
    <3>2. made[session] # made[u] /\ made[session] \in Identities
          BY <3>1 DEF SignInTyped
    <3> QED BY <1>2, <3>1, <3>2
  <2> QED BY <2>1, <2>2 DEF AccountsFit, UidsFit, LoginMade, AuthCallFits
<1>4. AuthCallFits'
      BY DEF AccountsFit, AuthCallFits
<1>5. ProfileKeepsLogin'
      BY <1>1, <1>2 DEF AccountsFit, ProfileKeepsLogin
<1> QED BY <1>3, <1>4, <1>5 DEF AccountsFit

LEMMA MadeForSomebody == ASSUME made \in Seq(Identities) PROVE \A v \in 1..Len(made) : made[v] \in Identities
OBVIOUS

(* A profile is made where there was none. *)
LEMMA ProfileKeepsAccounts ==
  ASSUME SignInTyped, AccountsFit, NEW u \in 1..Len(made), row[made[u]] = Unknown,
         row' = [row EXCEPT ![made[u]] = u],
         UNCHANGED <<made, logins, session, form, known, entry, dropped>>,
         strays' \subseteq strays, unsure \subseteq unsure',
         logins[made[u]] = u \/ u \in unsure',
         call' = call \/ (call.uid = u /\ call' = [call EXCEPT !.answer = "ok"]),
         form.uid = u /\ (form.phase = "rollback" \/ call.answer = "refused") => u \in unsure'
  PROVE  AccountsFit'
<1>1. made[u] \in Identities /\ row'[made[u]] = u /\ u # Unknown
      BY DEF SignInTyped, Unknown
<1>2. \A w \in Identities : w # made[u] => row'[w] = row[w]
      BY DEF SignInTyped
<1>3. call'.uid = call.uid /\ call'.answer \in {call.answer, "ok"} /\ (call'.answer # call.answer => call.uid = u)
      BY DEF SignInTyped, Registrations
<1>4. UidsFit'
  <2>1. known # Unknown => row'[made[known]] = known
    <3> SUFFICES ASSUME known # Unknown PROVE row'[made[known]] = known
        OBVIOUS
    <3>1. known \in 1..Len(made) /\ row[made[known]] = known
          BY DEF AccountsFit, UidsFit, LoginMade
    <3>2. made[known] \in Identities /\ made[known] # made[u]
          BY <3>1, MadeForSomebody DEF SignInTyped
    <3> QED BY <1>2, <3>1, <3>2
  <2> QED BY <1>3, <2>1 DEF AccountsFit, UidsFit, LoginMade
<1>5. AuthCallFits'
  <2>1. call'.uid = Unknown => call'.answer = "none"
        BY <1>1, <1>3 DEF AccountsFit, AuthCallFits
  <2>2. call'.uid # Unknown => form.phase \in {"register", "complete"} /\ form.uid = call.uid
        BY <1>3 DEF AccountsFit, AuthCallFits
  <2>3. \A v \in 1..Len(made) : made[v] \in Identities /\ (row'[made[v]] = v => v = u \/ row[made[v]] = v)
    <3>1. \A v \in 1..Len(made) : made[v] \in Identities
          BY MadeForSomebody DEF SignInTyped
    <3>2. \A v \in 1..Len(made) : made[v] = made[u] /\ row'[made[v]] = v => v = u
          BY <1>1
    <3> QED BY <1>2, <3>1, <3>2
  <2>4. \A v \in 1..Len(made) : row[made[v]] = v => row'[made[v]] = v
        BY <1>1, <1>2, <2>3 DEF Unknown
  <2>5. call'.answer = "ok" => row'[made[call.uid]] = call.uid
    <3>1. CASE call'.answer = call.answer
      <4> SUFFICES ASSUME call.answer = "ok" PROVE row'[made[call.uid]] = call.uid
          BY <3>1
      <4>1. call.uid \in 1..Len(made) /\ row[made[call.uid]] = call.uid
            BY DEF AccountsFit, UidsFit, AuthCallFits, LoginMade
      <4> QED BY <2>4, <4>1
    <3> QED BY <1>1, <1>3, <3>1
  <2>6. call'.answer = "refused" /\ row'[made[call.uid]] = call.uid => call.uid \in unsure'
    <3> SUFFICES ASSUME call'.answer = "refused", row'[made[call.uid]] = call.uid PROVE call.uid \in unsure'
        OBVIOUS
    <3>1. call.answer = "refused" /\ call.uid \in 1..Len(made) /\ form.uid = call.uid
          BY <1>3 DEF AccountsFit, UidsFit, AuthCallFits, LoginMade
    <3> QED BY <2>3, <3>1 DEF AccountsFit, AuthCallFits
  <2>7. form.phase = "rollback" /\ row'[made[form.uid]] = form.uid => form.uid \in unsure'
    <3> SUFFICES ASSUME form.phase = "rollback", row'[made[form.uid]] = form.uid PROVE form.uid \in unsure'
        OBVIOUS
    <3>1. form.uid \in 1..Len(made)
          BY DEF AccountsFit, UidsFit, LoginMade
    <3> QED BY <2>3, <3>1 DEF AccountsFit, AuthCallFits
  <2> QED BY <1>3, <2>1, <2>2, <2>5, <2>6, <2>7 DEF AuthCallFits
<1>6. ProfileKeepsLogin'
      BY <1>1, <1>2 DEF AccountsFit, ProfileKeepsLogin
<1> QED BY <1>4, <1>5, <1>6 DEF AccountsFit

(* Steps that sign nobody in, and leave the accounts, the profiles and the registration as they are. *)
LEMMA AccountsUntouched ==
  ASSUME AccountsFit, UNCHANGED <<made, logins, row, form, call, strays, unsure, dropped, known>>,
         session' \in {session, Unknown},
         entry'["mail"] = entry["mail"] \/ entry'["mail"].phase # "fetch"
  PROVE  AccountsFit'
BY DEF AccountsFit, UidsFit, AuthCallFits, ProfileKeepsLogin, LoginMade

LEMMA SignInKeepsAccounts == SignInTyped /\ AccountsFit /\ SignInNext => AccountsFit'
<1> SUFFICES ASSUME SignInTyped, AccountsFit, SignInNext PROVE AccountsFit'
    OBVIOUS
<1> USE SocialOrMail
<1>1. CASE PollReads \/ PollAnswers \/ OpensLink
      BY <1>1, AccountsUntouched DEF PollReads, PollAnswers, OpensLink, world, device, server, past
<1>2. CASE OpensSheet \/ Continues \/ SnapshotNotSaved \/ SnapshotAges
      BY <1>2, AccountsUntouched DEF OpensSheet, Continues, SnapshotNotSaved, SnapshotAges, world, device, server, past
<1>3. CASE SnapshotSaved \/ DismissesSheet
  <2>1. entry'["mail"] = entry["mail"]
    <3>1. Then("social", "idle") \/ Then("social", "leaving") \/ entry' = entry
          BY <1>3 DEF SnapshotSaved, DismissesSheet
    <3> QED BY <3>1, ThenIs
  <2> QED BY <1>3, <2>1, AccountsUntouched DEF SnapshotSaved, DismissesSheet, world, server, past
<1>4. CASE ElsewhereRegisters
  <2>1. PICK i \in Identities :
          /\ row[i] = Unknown /\ row' = [row EXCEPT ![i] = logins[i]]
          /\ unsure' = IF form.uid = logins[i] /\ (form.phase = "rollback" \/ call.answer = "refused")
                         THEN unsure \union {logins[i]} ELSE unsure
        BY <1>4 DEF ElsewhereRegisters
  <2>2. CASE logins[i] = Unknown
    <3>1. row' = row
          BY <2>1, <2>2 DEF SignInTyped
    <3> QED BY <1>4, <2>1, <2>2, <3>1
            DEF ElsewhereRegisters, AccountsFit, UidsFit, AuthCallFits, ProfileKeepsLogin, LoginMade, device, server, past
  <2>3. CASE logins[i] # Unknown
    <3>1. logins[i] \in 1..Len(made) /\ made[logins[i]] = i
          BY <2>3 DEF AccountsFit, UidsFit, LoginMade
    <3>2. UNCHANGED <<made, logins, session, form, known, entry, dropped, strays, call>>
          BY <1>4 DEF ElsewhereRegisters, server
    <3>3. unsure \subseteq unsure'
          BY <2>1
    <3>4. form.uid = logins[i] /\ (form.phase = "rollback" \/ call.answer = "refused") => logins[i] \in unsure'
          BY <2>1
    <3> QED BY <2>1, <3>1, <3>2, <3>3, <3>4, ProfileKeepsAccounts
  <2> QED BY <2>2, <2>3
<1>5. CASE \E w \in Identities : SignsIn(w) \/ Fetched(w) \/ FetchCancelled(w) \/ FetchFails(w) \/ Leaves(w)
  <2> PICK w \in Identities : SignsIn(w) \/ Fetched(w) \/ FetchCancelled(w) \/ FetchFails(w) \/ Leaves(w)
      BY <1>5
  <2>1. CASE SignsIn(w)
    <3>1. Signed(w)
          BY <2>1, AcceptedSigns DEF SignsIn
    <3>2. session' = logins'[w]
          BY <2>1 DEF SignsIn, SessionBecomes
    <3>3. entry'["mail"] = entry["mail"] \/ (w = "mail" /\ entry'["mail"].uid = logins'[w])
          BY <2>1 DEF SignsIn, SignInTyped
    <3> QED BY <2>1, <3>1, <3>2, <3>3, SignedKeepsAccounts DEF SignsIn, server, past
  <2>2. CASE Fetched(w)
    <3>1. entry'["mail"] = entry["mail"] \/ entry'["mail"].phase # "fetch"
          BY <2>2, ThenIs DEF Fetched
    <3> QED BY <2>2, <3>1, AccountsUntouched DEF Fetched, world, server, past
  <2>3. CASE FetchCancelled(w)
    <3>1. entry'["mail"] = entry["mail"] \/ entry'["mail"].phase # "fetch"
      <4>1. CASE w = "mail" \/ session = Unknown
            BY <2>3, <4>1, ThenIs DEF FetchCancelled
      <4>2. CASE w # "mail" /\ session # Unknown
            BY <2>3, <4>2 DEF FetchCancelled, SignInTyped
      <4> QED BY <4>1, <4>2
    <3> QED BY <2>3, <3>1, AccountsUntouched DEF FetchCancelled, world, server, past
  <2>4. CASE FetchFails(w) \/ Leaves(w)
    <3>1. entry'["mail"] = entry["mail"] \/ entry'["mail"].phase # "fetch"
      <4>1. Then(w, "idle") \/ Then(w, "leaving")
            BY <2>4 DEF FetchFails, Leaves
      <4> QED BY <4>1, ThenIs
    <3>2. session' \in {session, Unknown}
          BY <2>4 DEF FetchFails, Leaves, SessionBecomes
    <3> QED BY <2>4, <3>1, <3>2, AccountsUntouched DEF FetchFails, Leaves, world, server, past
  <2> QED BY <2>1, <2>2, <2>3, <2>4
<1>6. CASE Submits
  <2>1. Signed("mail") /\ session' = logins'["mail"]
        BY <1>6 DEF Submits, Signed, SessionBecomes
  <2>2. \/ UNCHANGED <<form, call>>
        \/ /\ form' \in [phase : {"register"}, uid : {logins'["mail"]}]
           /\ call'.uid = logins'["mail"] /\ call'.answer = "none"
        BY <1>6 DEF Submits, Finishes, Requests
  <2> QED BY <1>6, <2>1, <2>2, SignedKeepsAccounts DEF Submits, past
<1>7. CASE Confirms \/ Completes
  <2>1. form.phase = "idle" /\ UNCHANGED <<made, logins, row, entry, strays, unsure, dropped, known>>
        BY <1>7 DEF Confirms, Completes, Offers, world, past
  <2>2. \/ UNCHANGED <<form, call>> /\ session' \in {session, Unknown}
        \/ /\ session # Unknown /\ session' = session
           /\ form'.uid = session /\ form'.phase \in {"register", "complete"}
           /\ call'.uid = session /\ call'.answer = "none"
    <3>1. CASE Confirms
      <4>1. CASE session = Unknown
            BY <3>1, <4>1 DEF Confirms, SignInTyped
      <4>2. CASE session # Unknown
            BY <3>1, <4>2 DEF Confirms, Finishes, Requests
      <4> QED BY <4>1, <4>2
    <3>2. CASE Completes
          BY <3>2 DEF Completes, Finishes, Requests, SessionBecomes
    <3> QED BY <1>7, <3>1, <3>2
  <2> QED BY <2>1, <2>2 DEF AccountsFit, UidsFit, AuthCallFits, ProfileKeepsLogin, LoginMade, Unknown
<1>8. CASE ChangesEmail
  <2>1. form.phase = "idle" /\ call.uid = Unknown
        BY <1>8 DEF ChangesEmail, Offers, AccountsFit, AuthCallFits
  <2>2. session' = Unknown /\ UNCHANGED <<made, row, form, call, strays, entry, unsure, known>>
        BY <1>8 DEF ChangesEmail, SessionBecomes, server
  <2>3. CASE logins' = logins /\ dropped' = dropped
        BY <2>2, <2>3, AccountsUntouched
  <2>4. CASE /\ session # Unknown /\ logins[made[session]] = session
             /\ logins' = [logins EXCEPT ![made[session]] = Unknown] /\ dropped' = dropped \union {session}
    <3>1. session \in 1..Len(made)
          BY <2>4 DEF AccountsFit, UidsFit, LoginMade
    <3>2. dropped \subseteq dropped' /\ session \in unsure \union dropped'
          BY <2>4
    <3> QED BY <2>1, <2>2, <2>4, <3>1, <3>2, DeletionKeepsAccounts
  <2> QED BY <1>8, <2>3, <2>4 DEF ChangesEmail
<1>9. CASE ServerRegisters
  <2>1. /\ call.uid # Unknown /\ call.uid \in 1..Len(made) /\ logins[made[call.uid]] = call.uid
        /\ call.answer = "none"
        BY <1>9 DEF ServerRegisters, Pending, AccountsFit, UidsFit, LoginMade
  <2>2. UNCHANGED <<made, logins, session, form, known, entry, dropped, strays, unsure>>
        BY <1>9 DEF ServerRegisters, past
  <2>3. CASE row' = row /\ (Answers("conflict") \/ Answers("consent"))
    <3>1. call'.uid = call.uid /\ call'.answer \in {"conflict", "consent"}
          BY <2>3 DEF Answers, SignInTyped, Registrations
    <3> QED BY <2>1, <2>2, <2>3, <3>1 DEF AccountsFit, UidsFit, AuthCallFits, ProfileKeepsLogin, LoginMade
  <2>4. CASE /\ row[made[call.uid]] = Unknown /\ Answers("ok")
             /\ row' = [row EXCEPT ![made[call.uid]] = call.uid]
    <3>1. call' = [call EXCEPT !.answer = "ok"]
          BY <2>4 DEF Answers
    <3>2. form.phase # "rollback"
          BY <1>9 DEF ServerRegisters, Pending, AccountsFit, AuthCallFits
    <3> QED BY <2>1, <2>2, <2>4, <3>1, <3>2, ProfileKeepsAccounts
  <2> QED BY <1>9, <2>3, <2>4 DEF ServerRegisters
<1>10. CASE ServerRefuses
  <2>1. /\ call'.uid = call.uid /\ call'.answer = "refused"
        /\ call.uid # Unknown /\ call.uid \in 1..Len(made)
        BY <1>10 DEF ServerRefuses, Pending, Answers, SignInTyped, Registrations, AccountsFit, UidsFit, LoginMade
  <2>2. UNCHANGED <<made, logins, row, session, form, known, entry, dropped, strays>>
        BY <1>10 DEF ServerRefuses, world
  <2>3. unsure \subseteq unsure' /\ (row[made[call.uid]] = call.uid => call.uid \in unsure')
        BY <1>10 DEF ServerRefuses, Pending, Registered
  <2> QED BY <2>1, <2>2, <2>3 DEF AccountsFit, UidsFit, AuthCallFits, ProfileKeepsLogin, LoginMade
<1>11. CASE StrayArrives
  <2>1. PICK c \in strays :
          /\ strays' = strays \ {c}
          /\ row' = row \/ (row[made[c.uid]] = Unknown /\ row' = [row EXCEPT ![made[c.uid]] = c.uid])
        BY <1>11 DEF StrayArrives
  <2>2. c.uid \in 1..Len(made) /\ c.uid \in unsure
        BY DEF AccountsFit, UidsFit, LoginMade
  <2>3. UNCHANGED <<made, logins, session, form, known, entry, dropped, call, unsure>>
        BY <1>11 DEF StrayArrives, past
  <2>4. CASE row' = row
        BY <2>1, <2>3, <2>4 DEF AccountsFit, UidsFit, AuthCallFits, ProfileKeepsLogin, LoginMade
  <2>5. CASE row[made[c.uid]] = Unknown /\ row' = [row EXCEPT ![made[c.uid]] = c.uid]
        BY <2>1, <2>2, <2>3, <2>5, ProfileKeepsAccounts
  <2> QED BY <2>1, <2>4, <2>5
<1>12. CASE Welcomed
  <2>1. call.uid # Unknown /\ row[made[call.uid]] = call.uid
        BY <1>12 DEF Welcomed, AccountsFit, AuthCallFits
  <2>2. call.uid \in 1..Len(made)
        BY <2>1 DEF AccountsFit, UidsFit, LoginMade
  <2>3. call'.uid = Unknown /\ call'.answer = "none" /\ form'.phase = "idle" /\ known' = call.uid
        BY <1>12 DEF Welcomed, NoCall, Still
  <2>4. UNCHANGED <<made, logins, row, session, entry, strays, unsure, dropped>>
        BY <1>12 DEF Welcomed, world
  <2> QED BY <2>1, <2>2, <2>3, <2>4 DEF AccountsFit, UidsFit, AuthCallFits, ProfileKeepsLogin, LoginMade
<1>13. CASE RegisterRefused \/ CompleteRefused
  <2>1. call.uid # Unknown /\ call.uid \in 1..Len(made) /\ form.uid = call.uid
        BY <1>13 DEF RegisterRefused, CompleteRefused, AccountsFit, UidsFit, AuthCallFits, LoginMade
  <2>2. call'.uid = Unknown /\ call'.answer = "none"
        BY <1>13 DEF RegisterRefused, CompleteRefused, NoCall
  <2>3. \/ form'.phase = "idle"
        \/ form'.uid = form.uid /\ form'.phase = "recheck"
        \/ form'.uid = form.uid /\ form'.phase = "rollback" /\ call.answer = "refused"
        BY <1>13 DEF RegisterRefused, CompleteRefused, Still, ClearRefusal, SignInTyped, FormRecords
  <2>4. UNCHANGED <<made, logins, row, session, entry, strays, unsure, dropped, known>>
        BY <1>13 DEF RegisterRefused, CompleteRefused, world, past
  <2> QED BY <2>1, <2>2, <2>3, <2>4 DEF AccountsFit, UidsFit, AuthCallFits, ProfileKeepsLogin, LoginMade
<1>14. CASE RollsBack
  <2>1. form.phase = "rollback" /\ call.uid = Unknown /\ form'.phase = "idle"
        BY <1>14 DEF RollsBack, Still, AccountsFit, AuthCallFits
  <2>2. form.uid \in 1..Len(made) /\ form.uid # Unknown
        BY <2>1 DEF AccountsFit, UidsFit, LoginMade, Unknown
  <2>3. UNCHANGED <<made, row, entry, call, strays, unsure, dropped, known>>
        BY <1>14 DEF RollsBack, server, past
  <2>4. CASE logins' = logins /\ session' = session
        BY <2>1, <2>3, <2>4 DEF AccountsFit, UidsFit, AuthCallFits, ProfileKeepsLogin, LoginMade
  <2>5. CASE /\ logins[made[form.uid]] = form.uid /\ logins' = [logins EXCEPT ![made[form.uid]] = Unknown]
             /\ session' \in {Unknown, session} /\ session' # form.uid
    <3>1. row[made[form.uid]] # form.uid \/ form.uid \in unsure \union dropped'
          BY <2>1 DEF AccountsFit, AuthCallFits
    <3> QED BY <2>1, <2>2, <2>3, <2>5, <3>1, DeletionKeepsAccounts
  <2>6. \/ logins' = logins /\ session' = session
        \/ /\ logins[made[form.uid]] = form.uid /\ logins' = [logins EXCEPT ![made[form.uid]] = Unknown]
           /\ session' \in {Unknown, session} /\ session' # form.uid
        BY <1>14, <2>2 DEF RollsBack, SessionBecomes
  <2> QED BY <2>4, <2>5, <2>6
<1>15. CASE Rechecks
  <2>1. call.uid = Unknown /\ form'.phase = "idle" /\ session' \in {session, Unknown}
        BY <1>15 DEF Rechecks, Still, SessionBecomes, AccountsFit, AuthCallFits
  <2>2. UNCHANGED <<made, logins, row, entry, call, strays, unsure, dropped, known>>
        BY <1>15 DEF Rechecks, world, server, past
  <2> QED BY <2>1, <2>2 DEF AccountsFit, UidsFit, AuthCallFits, ProfileKeepsLogin, LoginMade
<1>16. CASE NoAnswer \/ AppRestarts
  <2>1. call'.uid = Unknown /\ call'.answer = "none" /\ form'.phase = "idle" /\ unsure \subseteq unsure'
        BY <1>16 DEF NoAnswer, AppRestarts, Still, NoCall, Doubtful
  <2>2. UNCHANGED <<made, logins, row, session, dropped, known>>
        BY <1>16 DEF NoAnswer, AppRestarts, world
  <2>3. entry'["mail"] = entry["mail"] \/ entry'["mail"].phase # "fetch"
        BY <1>16 DEF NoAnswer, AppRestarts, Still
  <2>4. \A c \in strays' : c.uid \in 1..Len(made) /\ c.uid \in unsure'
    <3> SUFFICES ASSUME NEW c \in strays' PROVE c.uid \in 1..Len(made) /\ c.uid \in unsure'
        OBVIOUS
    <3>1. CASE c \in strays
          BY <2>1, <3>1 DEF AccountsFit, UidsFit, LoginMade
    <3>2. CASE c \notin strays
      <4>1. call.uid # Unknown /\ c = [uid |-> call.uid, consent |-> call.consent] /\ unsure' = unsure \union {call.uid}
            BY <1>16, <3>2 DEF NoAnswer, AppRestarts, Abandoned, Pending, Doubtful
      <4> QED BY <4>1 DEF AccountsFit, UidsFit, LoginMade
    <3> QED BY <3>1, <3>2
  <2> QED BY <2>1, <2>2, <2>3, <2>4 DEF AccountsFit, UidsFit, AuthCallFits, ProfileKeepsLogin, LoginMade
<1> QED BY <1>1, <1>2, <1>3, <1>4, <1>5, <1>6, <1>7, <1>8, <1>9, <1>10, <1>11, <1>12, <1>13, <1>14, <1>15, <1>16
        DEF SignInNext

-----------------------------------------------------------------------------
(* The query about auth.me: whoever was told that he is registered reads nothing else. *)
LEMMA KnownIsRegistered == ASSUME UidsFit, known # Unknown PROVE Registered(known) /\ Profile(known) = known
BY DEF UidsFit, Registered, Profile

LEMMA SignInKeepsQuery == SignInTyped /\ UidsFit /\ QueryHolds /\ SignInNext => QueryHolds'
<1> SUFFICES ASSUME SignInTyped, UidsFit, QueryHolds, SignInNext PROVE QueryHolds'
    OBVIOUS
<1>1. CASE UNCHANGED <<session, me, poll, known>>
      BY <1>1 DEF QueryHolds, QueryFits, RegistrationIsKept
<1>2. CASE known' = known /\ \E u \in Nat : SessionBecomes(u)
      BY <1>2, SessionFits
<1>3. CASE PollReads
  <2>1. poll'.uid = poll.uid /\ poll'.read = Profile(poll.uid)
        BY <1>3 DEF PollReads, SignInTyped, PollRecords
  <2>2. poll.uid # Unknown /\ UNCHANGED <<session, me, known>>
        BY <1>3 DEF PollReads, past
  <2> HIDE DEF Profile
  <2>3. known # Unknown /\ poll.uid = known => poll'.read = known /\ known # Null
        BY <2>1, KnownIsRegistered DEF SignInTyped, Null
  <2> QED BY <2>1, <2>2, <2>3 DEF QueryHolds, QueryFits, RegistrationIsKept
<1>4. CASE PollAnswers
  <2>1. me' = poll.read /\ poll' = NoPoll /\ poll.read # Unknown /\ UNCHANGED <<session, known>>
        BY <1>4 DEF PollAnswers, past
  <2>2. session # Unknown
        BY <2>1 DEF QueryHolds, QueryFits, NoPoll
  <2> QED BY <2>1, <2>2 DEF QueryHolds, QueryFits, RegistrationIsKept, NoPoll
<1>5. CASE \E w \in Identities : Fetched(w)
  <2>1. session # Unknown /\ me' = Profile(session) /\ poll' = NoPoll /\ UNCHANGED <<session, known>>
        BY <1>5 DEF Fetched, past
  <2> HIDE DEF Profile
  <2> QED BY <2>1, KnownIsRegistered DEF QueryHolds, QueryFits, RegistrationIsKept, NoPoll
<1>6. CASE Welcomed
      BY <1>6 DEF Welcomed, Cancelled, QueryHolds, QueryFits, RegistrationIsKept, NoPoll
<1>7. CASE Rechecks /\ Registered(session)
  <2>1. session # Unknown /\ UNCHANGED known
        BY <1>7 DEF Rechecks, Registered, past
  <2>2. UNCHANGED <<session, me, poll>> \/ (me' = session /\ poll' = NoPoll /\ session' = session)
        BY <1>7 DEF Rechecks
  <2> QED BY <2>1, <2>2 DEF QueryHolds, QueryFits, RegistrationIsKept, NoPoll
<1>8. CASE Rechecks /\ ~Registered(session)
  <2>1. SessionBecomes(Unknown) \/ UNCHANGED <<session, me, poll>>
        BY <1>8 DEF Rechecks
  <2>2. known' = known /\ Unknown \in Nat
        BY <1>8 DEF Rechecks, past, Unknown
  <2> QED BY <1>1, <1>2, <2>1, <2>2
<1>9. CASE AppRestarts
  <2>1. me' = (IF session = Unknown THEN Unknown ELSE Profile(session)) /\ poll' = NoPoll /\ UNCHANGED <<session, known>>
        BY <1>9 DEF AppRestarts
  <2> HIDE DEF Profile
  <2> QED BY <2>1, KnownIsRegistered DEF QueryHolds, QueryFits, RegistrationIsKept, NoPoll
<1>10. CASE \E w \in Identities : SignsIn(w) \/ FetchCancelled(w) \/ FetchFails(w) \/ Leaves(w)
  <2> PICK w \in Identities : SignsIn(w) \/ FetchCancelled(w) \/ FetchFails(w) \/ Leaves(w)
      BY <1>10
  <2>1. CASE SignsIn(w)
    <3>1. logins'[w] \in Nat
      <4>1. Signed(w)
            BY <2>1, AcceptedSigns DEF SignsIn
      <4> QED BY <4>1, SignedFits DEF SignInTyped
    <3> QED BY <1>2, <2>1, <3>1 DEF SignsIn, past
  <2>2. CASE Leaves(w)
        BY <1>2, <2>2 DEF Leaves, past, Unknown
  <2>3. CASE FetchCancelled(w) \/ FetchFails(w)
        BY <1>1, <2>3 DEF FetchCancelled, FetchFails, past
  <2> QED BY <2>1, <2>2, <2>3
<1>11. CASE Submits
  <2>1. logins'["mail"] \in Nat
    <3>1. Signed("mail")
          BY <1>11 DEF Submits, Signed
    <3> QED BY <3>1, SocialOrMail, SignedFits DEF SignInTyped
  <2> QED BY <1>2, <1>11, <2>1 DEF Submits, past
<1>12. CASE ChangesEmail \/ Completes \/ RollsBack
  <2>1. SessionBecomes(Unknown) \/ UNCHANGED <<session, me, poll>>
        BY <1>12 DEF ChangesEmail, Completes, RollsBack
  <2>2. known' = known /\ Unknown \in Nat
        BY <1>12 DEF ChangesEmail, Completes, RollsBack, past, Unknown
  <2> QED BY <1>1, <1>2, <2>1, <2>2
<1>13. CASE \/ OpensLink \/ ElsewhereRegisters \/ OpensSheet \/ Continues \/ SnapshotSaved \/ SnapshotNotSaved
            \/ DismissesSheet \/ SnapshotAges \/ Confirms
       BY <1>1, <1>13 DEF OpensLink, ElsewhereRegisters, OpensSheet, Continues, SnapshotSaved, SnapshotNotSaved,
          DismissesSheet, SnapshotAges, Confirms, past
<1>14. CASE ServerRegisters \/ ServerRefuses \/ StrayArrives \/ RegisterRefused \/ CompleteRefused \/ NoAnswer
       BY <1>1, <1>14 DEF ServerRegisters, ServerRefuses, StrayArrives, RegisterRefused, CompleteRefused, NoAnswer, past
<1> QED BY <1>3, <1>4, <1>5, <1>6, <1>7, <1>8, <1>9, <1>10, <1>11, <1>12, <1>13, <1>14 DEF SignInNext

-----------------------------------------------------------------------------
(* The screens: a social login that nobody led astray never meets the register screen. *)
LEMMA SignInKeepsScreens == SignInTyped /\ UidsFit /\ AuthCallFits /\ ScreensHold /\ SignInNext => ScreensHold'
<1> SUFFICES ASSUME SignInTyped, UidsFit, AuthCallFits, ScreensHold, SignInNext PROVE ScreensHold'
    OBVIOUS
<1> USE SocialOrMail
<1>1. CASE UNCHANGED <<made, session, screen, sheet, saving, awaited, entry, strayed>> /\ form'.phase \in {form.phase, "idle"}
      BY <1>1 DEF ScreensHold, ScreensFit, SocialStaysApart, Social
<1>2. form.phase # "idle" =>
        \/ strayed
        \/ ~sheet /\ ~awaited /\ saving = 0 /\ entry["social"].phase # "fetch" /\ screen # "login"
      BY DEF ScreensHold, ScreensFit, SignInTyped
<1>3. CASE \/ PollReads \/ PollAnswers \/ OpensLink \/ ElsewhereRegisters \/ SnapshotAges \/ ServerRegisters
           \/ ServerRefuses \/ StrayArrives \/ NoAnswer
      BY <1>1, <1>3 DEF PollReads, PollAnswers, OpensLink, ElsewhereRegisters, SnapshotAges, ServerRegisters,
         ServerRefuses, StrayArrives, NoAnswer, Still, world, device, server, past
<1>4. CASE Continues \/ SnapshotNotSaved
  <2>1. UNCHANGED <<made, session, screen, sheet, awaited, entry, form, strayed>> /\ (saving' > 0 => sheet)
        BY <1>4 DEF Continues, SnapshotNotSaved, SignInTyped, world, past
  <2> QED BY <2>1 DEF ScreensHold, ScreensFit, SocialStaysApart, Social
<1>5. CASE \E w \in Identities : SignsIn(w)
  <2> PICK w \in Identities : SignsIn(w)
      BY <1>5
  <2>1. screen = "login" /\ ~sheet /\ UNCHANGED <<screen, sheet, saving, awaited, form, strayed>>
        BY DEF SignsIn, device, past
  <2>2. strayed \/ (form.phase = "idle" /\ ~(saving > 0))
        BY <2>1 DEF ScreensHold, ScreensFit
  <2>3. ~awaited
        BY <2>1 DEF ScreensHold, ScreensFit
  <2> QED BY <2>1, <2>2, <2>3 DEF ScreensHold, ScreensFit, SocialStaysApart
<1>6. CASE \E w \in Identities : Fetched(w)
  <2> PICK w \in Identities : Fetched(w)
      BY <1>6
  <2>1. UNCHANGED <<made, session, saving, form, strayed>> /\ entry[w].phase = "fetch" /\ entry[w].uid = session
        BY DEF Fetched, world, past
  <2>2. session # Unknown /\ session > 0
        BY DEF Fetched, SignInTyped, Unknown
  <2>3. CASE Registered(session)
    <3>1. ~sheet' /\ ~awaited' /\ screen' = "main"
          BY <2>2, <2>3 DEF Fetched, EntersBy
    <3>2. entry'["social"].phase # "fetch" \/ (w = "mail" /\ entry'["social"] = entry["social"])
          BY <2>3, ThenIs DEF Fetched
    <3>3. strayed \/ (saving > 0 => form.phase = "idle")
          BY DEF ScreensHold, ScreensFit
    <3>4. strayed \/ (w = "social" => form.phase = "idle")
          BY <2>1 DEF ScreensHold, ScreensFit
    <3>5. strayed \/ (saving > 0 => ~Social(session) /\ entry'["social"].phase # "fetch")
      <4>1. CASE awaited
        <5>1. w = "mail"
              BY <2>1, <4>1 DEF ScreensHold, ScreensFit, Identities
        <5>2. ~Social(session)
              BY <2>1, <5>1 DEF UidsFit, Social
        <5> QED BY <3>2, <4>1, <5>2 DEF ScreensHold, ScreensFit
      <4>2. CASE ~awaited
            BY <3>2, <4>2 DEF ScreensHold, ScreensFit
      <4> QED BY <4>1, <4>2
    <3> QED BY <2>1, <3>1, <3>2, <3>3, <3>4, <3>5 DEF ScreensHold, ScreensFit, SocialStaysApart, Social
  <2>4. CASE ~Registered(session) /\ w = "mail"
    <3>1. UNCHANGED <<screen, sheet, awaited>> /\ entry'["social"] = entry["social"]
          BY <2>4, ThenIs DEF Fetched, SignInTyped
    <3> QED BY <2>1, <3>1 DEF ScreensHold, ScreensFit, SocialStaysApart, Social
  <2>5. CASE ~Registered(session) /\ w = "social"
    <3>1. screen' = screen /\ sheet' /\ awaited' /\ entry'["social"].phase = "asking"
          BY <2>5, ThenIs DEF Fetched
    <3>2. strayed \/ (form.phase = "idle" /\ screen \in {"login", "main"})
          BY <2>1, <2>5 DEF ScreensHold, ScreensFit
    <3> QED BY <2>1, <3>1, <3>2 DEF ScreensHold, ScreensFit, SocialStaysApart
  <2> QED BY <2>3, <2>4, <2>5 DEF Identities
<1>7. CASE \E w \in Identities : FetchCancelled(w) \/ FetchFails(w) \/ Leaves(w)
  <2> PICK w \in Identities : FetchCancelled(w) \/ FetchFails(w) \/ Leaves(w)
      BY <1>7
  <2>1. UNCHANGED <<made, screen, sheet, saving, awaited, form, strayed>>
        BY DEF FetchCancelled, FetchFails, Leaves, world, device, past
  <2>2. session' \in {session, Unknown}
        BY DEF FetchCancelled, FetchFails, Leaves, SessionBecomes
  <2>3. entry'["social"].phase = "fetch" => entry["social"].phase = "fetch"
    <3>1. CASE Then(w, "idle") \/ Then(w, "leaving")
          BY <3>1, ThenIs
    <3>2. CASE entry' = [entry EXCEPT ![w].uid = session]
          BY <3>2 DEF SignInTyped, EntryRecords
    <3> QED BY <3>1, <3>2 DEF FetchCancelled, FetchFails, Leaves
  <2> QED BY <2>1, <2>2, <2>3 DEF ScreensHold, ScreensFit, SocialStaysApart, Social
<1>8. CASE OpensSheet
  <2>1. /\ screen = "login" /\ ~sheet /\ sheet' /\ strayed' = (strayed \/ Astray)
        /\ UNCHANGED <<made, session, screen, saving, awaited, entry, form>>
        BY <1>8 DEF OpensSheet, world
  <2> QED BY <2>1 DEF ScreensHold, ScreensFit, SocialStaysApart, Social, Astray
<1>9. CASE SnapshotSaved
  <2>1. saving > 0 /\ ~(saving' > 0) /\ ~sheet' /\ ~awaited' /\ UNCHANGED <<made, session, form, strayed>>
        BY <1>9 DEF SnapshotSaved, SignInTyped, world, past
  <2>2. CASE awaited
    <3>1. screen' \in {"complete", "login"} /\ entry'["social"].phase = "idle"
          BY <1>9, <2>2, ThenIs DEF SnapshotSaved
    <3> QED BY <2>1, <2>2, <3>1 DEF ScreensHold, ScreensFit, SocialStaysApart
  <2>3. CASE ~awaited
    <3>1. screen' = "register" /\ entry' = entry
          BY <1>9, <2>3 DEF SnapshotSaved, OpensRegister
    <3> QED BY <2>1, <2>3, <3>1 DEF ScreensHold, ScreensFit, SocialStaysApart, Social
  <2> QED BY <2>2, <2>3
<1>10. CASE DismissesSheet
  <2>1. /\ ~sheet' /\ ~awaited' /\ strayed' = (strayed \/ saving > 0)
        /\ UNCHANGED <<made, session, screen, saving, form>>
        BY <1>10 DEF DismissesSheet, world
  <2>2. entry'["social"].phase = "fetch" => entry["social"].phase = "fetch"
    <3>1. Then("social", "leaving") \/ entry' = entry
          BY <1>10 DEF DismissesSheet
    <3> QED BY <3>1, ThenIs
  <2> QED BY <2>1, <2>2 DEF ScreensHold, ScreensFit, SocialStaysApart, Social
<1>11. CASE Submits \/ Confirms \/ ChangesEmail
  <2>1. screen = "register" /\ form.phase = "idle" /\ UNCHANGED <<sheet, saving, awaited, entry, strayed>>
        BY <1>11 DEF Submits, Confirms, ChangesEmail, Offers, past
  <2>2. strayed \/ (~sheet /\ ~awaited /\ ~(saving > 0) /\ entry["social"].phase # "fetch" /\ ~Social(session))
        BY <2>1 DEF ScreensHold, ScreensFit, SocialStaysApart
  <2>3. screen' = "register" \/ (screen' = "login" /\ form' = form)
        BY <1>11, <2>1 DEF Submits, Confirms, ChangesEmail, Finishes, Requests, BackToTerms
  <2>4. strayed \/ ~Social(session)'
    <3>1. CASE Submits
      <4>1. Signed("mail") /\ session' = logins'["mail"]
            BY <3>1 DEF Submits, Signed, SessionBecomes
      <4>2. made'[session'] = "mail"
            BY <4>1, SignedFits
      <4> QED BY <4>2 DEF Social
    <3>2. CASE Confirms \/ ChangesEmail
      <4>1. made' = made /\ session' \in {session, Unknown}
            BY <3>2 DEF Confirms, ChangesEmail, SessionBecomes, world
      <4> QED BY <2>2, <4>1 DEF Social
    <3> QED BY <1>11, <3>1, <3>2
  <2>5. awaited => sheet /\ entry["social"].phase # "fetch"
        BY DEF ScreensHold, ScreensFit
  <2> QED BY <2>1, <2>2, <2>3, <2>4, <2>5 DEF ScreensHold, ScreensFit, SocialStaysApart
<1>12. CASE Completes
  <2>1. screen = "complete" /\ UNCHANGED <<sheet, saving, awaited, entry, strayed>>
        BY <1>12 DEF Completes, past
  <2>2. strayed \/ (~sheet /\ ~awaited /\ ~(saving > 0) /\ entry["social"].phase # "fetch")
        BY <2>1 DEF ScreensHold, ScreensFit
  <2>3. screen' = "complete" \/ (screen' = "login" /\ form'.phase = "idle")
        BY <1>12, <2>1 DEF Completes, Finishes, Requests, BackToTerms
  <2>4. awaited => sheet /\ entry["social"].phase # "fetch"
        BY DEF ScreensHold, ScreensFit
  <2> QED BY <2>1, <2>2, <2>3, <2>4 DEF ScreensHold, ScreensFit, SocialStaysApart
<1>13. CASE Welcomed \/ RegisterRefused \/ RollsBack \/ CompleteRefused \/ Rechecks
  <2>1. form.phase # "idle"
        BY <1>13 DEF Welcomed, RegisterRefused, RollsBack, CompleteRefused, Rechecks, AuthCallFits
  <2>2. UNCHANGED <<made, sheet, saving, awaited, entry, strayed>>
        BY <1>13 DEF Welcomed, RegisterRefused, RollsBack, CompleteRefused, Rechecks, world, device, past
  <2>3. screen' = screen \/ screen' = "main" \/ (screen' = "login" /\ form'.phase = "idle")
    <3>1. CASE Welcomed \/ RegisterRefused
          BY <3>1 DEF Welcomed, RegisterRefused, BackToTerms, Still
    <3>2. CASE RollsBack \/ CompleteRefused
          BY <3>2 DEF RollsBack, CompleteRefused, device
    <3>3. CASE Rechecks
          BY <3>3 DEF Rechecks, EntersBy, Still
    <3> QED BY <1>13, <3>1, <3>2, <3>3
  <2>4. session' \in {session, Unknown}
        BY <1>13 DEF Welcomed, RegisterRefused, RollsBack, CompleteRefused, Rechecks, SessionBecomes
  <2>5. awaited => sheet /\ entry["social"].phase # "fetch"
        BY DEF ScreensHold, ScreensFit
  <2>6. screen = "register" /\ Social(session) => strayed
        BY DEF ScreensHold, SocialStaysApart
  <2> QED BY <1>2, <2>1, <2>2, <2>3, <2>4, <2>5, <2>6 DEF ScreensHold, ScreensFit, SocialStaysApart, Social
<1>14. CASE AppRestarts
  <2>1. /\ ~sheet' /\ ~awaited' /\ saving' = 0 /\ form'.phase = "idle" /\ entry'["social"].phase = "idle"
        /\ screen' \in {"main", "login"} /\ UNCHANGED <<made, session>>
        BY <1>14 DEF AppRestarts, Still, world
  <2> QED BY <2>1 DEF ScreensHold, ScreensFit, SocialStaysApart
<1> QED BY <1>3, <1>4, <1>5, <1>6, <1>7, <1>8, <1>9, <1>10, <1>11, <1>12, <1>13, <1>14 DEF SignInNext

-----------------------------------------------------------------------------
LEMMA SignInKeeps == SignInSpec => []SignInInv
<1>1. SignInInv /\ [SignInNext]_signInVars => SignInInv'
  <2> SUFFICES ASSUME SignInInv, [SignInNext]_signInVars PROVE SignInInv'
      OBVIOUS
  <2>1. CASE SignInNext
        BY <2>1, SignInKeepsTypes, SignInKeepsAccounts, SignInKeepsQuery, SignInKeepsScreens
           DEF SignInInv, AccountsFit, QueryHolds, ScreensHold
  <2>2. CASE UNCHANGED signInVars
    <3>1. SignInTyped'
          BY <2>2 DEF SignInInv, signInVars, SignInTyped
    <3>2. UidsFit' /\ AuthCallFits' /\ ProfileKeepsLogin'
          BY <2>2 DEF SignInInv, signInVars, UidsFit, AuthCallFits, ProfileKeepsLogin, LoginMade
    <3>3. QueryFits' /\ RegistrationIsKept'
          BY <2>2 DEF SignInInv, signInVars, QueryFits, RegistrationIsKept
    <3>4. ScreensFit' /\ SocialStaysApart'
          BY <2>2 DEF SignInInv, signInVars, ScreensFit, SocialStaysApart, Social
    <3> QED BY <3>1, <3>2, <3>3, <3>4 DEF SignInInv
  <2> QED BY <2>1, <2>2
<1> QED BY <1>1, SignInInitially, PTL DEF SignInSpec

(* However answers are lost, late or overtaken: a profile keeps the Firebase account it is  *)
(* logged in to with, who was told to be registered is not taken for a new user, and a      *)
(* social login stays out of the register screen (login.tsx, register.tsx,                  *)
(* use-registration-flow.ts, use-auth.ts).                                                   *)
THEOREM SignUpIsKept == SignInSpec => []SignUpHolds
<1>1. SignInInv => SignUpHolds
      BY DEF SignInInv, SignUpHolds
<1> QED BY <1>1, SignInKeeps, PTL

-----------------------------------------------------------------------------
(* Types of signing up: whatever the phone and the server hold of a Firebase account is one   *)
(* that was made, and what is under way at the server was consented to.                       *)
Uid(u) == u \in 0..Len(made)
UidOrNull(u) == u \in -1..Len(made)
ValuesWithin ==
  /\ \A i \in Identities : Uid(row[i]) /\ Uid(entry[i].uid)
  /\ UidOrNull(me) /\ Uid(poll.uid) /\ UidOrNull(poll.read)
  /\ form.phase = "idle" => form = Still
SetsWithin == verified \subseteq 1..Len(made) /\ unsure \subseteq 1..Len(made) /\ dropped \subseteq 1..Len(made)
Consented == (call.uid # Unknown => call.consent \in Usable) /\ \A c \in strays : c.consent \in Usable
CountsWithin == Len(made) <= MaxAccounts /\ step \in {"form", "waiting"} /\ bothers \in 0..MaxBothers
SignInWithin == ValuesWithin /\ SetsWithin /\ Consented /\ CountsWithin

LEMMA UidsOfNow ==
  ASSUME SignInTyped, UidsFit
  PROVE  /\ Len(made) \in Nat /\ Uid(session) /\ Uid(call.uid) /\ Uid(known) /\ (form.phase # "idle" => Uid(form.uid))
         /\ \A i \in Identities : Uid(logins[i])
         /\ \A c \in strays : c.uid \in 1..Len(made)
BY DEF SignInTyped, UidsFit, LoginMade, Uid, Unknown

(* Accounts are only added, one at a time. *)
LEMMA AccountsAreAdded ==
  ASSUME SignInTyped, UidsFit, CountsWithin, SignInNext
  PROVE  /\ Len(made') \in Nat /\ Len(made) \in Nat /\ Len(made) <= Len(made') /\ Len(made') <= MaxAccounts
         /\ verified' \subseteq verified \union {logins["mail"], Len(made')}
         /\ Unknown \notin verified' \ verified
<1>1. made' = made \/ \E i \in Identities : Makes(i)
  <2>1. ASSUME NEW w \in Identities, SignsIn(w) PROVE made' = made \/ Makes(w)
        BY <2>1 DEF SignsIn, Accepted
  <2>2. CASE Submits
        BY <2>2, SocialOrMail DEF Submits
  <2>3. ASSUME NEW w \in Identities, Fetched(w) \/ FetchCancelled(w) \/ FetchFails(w) \/ Leaves(w) PROVE made' = made
        BY <2>3 DEF Fetched, FetchCancelled, FetchFails, Leaves, world
  <2>4. CASE \/ PollReads \/ PollAnswers \/ OpensLink \/ ElsewhereRegisters
             \/ OpensSheet \/ Continues \/ SnapshotSaved \/ SnapshotNotSaved \/ DismissesSheet \/ SnapshotAges
        BY <2>4 DEF PollReads, PollAnswers, OpensLink, ElsewhereRegisters, OpensSheet, Continues, SnapshotSaved,
                    SnapshotNotSaved, DismissesSheet, SnapshotAges, world
  <2>5. CASE \/ Confirms \/ ChangesEmail \/ Completes \/ ServerRegisters \/ ServerRefuses \/ StrayArrives
             \/ Welcomed \/ RegisterRefused \/ RollsBack \/ CompleteRefused \/ Rechecks \/ NoAnswer \/ AppRestarts
        BY <2>5 DEF Confirms, ChangesEmail, Completes, ServerRegisters, ServerRefuses, StrayArrives, Welcomed,
                    RegisterRefused, RollsBack, CompleteRefused, Rechecks, NoAnswer, AppRestarts, world
  <2> QED BY <2>1, <2>2, <2>3, <2>4, <2>5 DEF SignInNext
<1>2. made \in Seq(Identities) /\ Len(made) \in Nat /\ Len(made) <= MaxAccounts /\ MaxAccounts \in Nat
      BY SignInAssumption DEF SignInTyped, CountsWithin
<1>3. ASSUME NEW i \in Identities, Makes(i)
      PROVE  Len(made') = Len(made) + 1 /\ Len(made) < MaxAccounts
      BY <1>2, <1>3 DEF Makes
<1>4. \/ verified' = verified
      \/ verified' = verified \union {logins["mail"]} /\ logins["mail"] # Unknown
      \/ verified' = verified \union {Len(made) + 1} /\ Len(made') = Len(made) + 1
  <2>1. ASSUME NEW i \in Identities, Makes(i)
        PROVE  verified' = verified \/ (verified' = verified \union {Len(made) + 1} /\ Len(made') = Len(made) + 1)
        BY <1>3, <2>1 DEF Makes
  <2>2. ASSUME NEW w \in Identities, SignsIn(w) PROVE verified' = verified \/ Makes(w)
        BY <2>2 DEF SignsIn, Accepted
  <2>3. CASE Submits
    <3>1. verified' = verified \/ Makes("mail")
          BY <2>3 DEF Submits
    <3> QED BY <2>1, <3>1, SocialOrMail
  <2>4. ASSUME NEW w \in Identities, Fetched(w) \/ FetchCancelled(w) \/ FetchFails(w) \/ Leaves(w)
        PROVE  verified' = verified
        BY <2>4 DEF Fetched, FetchCancelled, FetchFails, Leaves, world
  <2>5. CASE \/ PollReads \/ PollAnswers \/ OpensLink \/ ElsewhereRegisters
             \/ OpensSheet \/ Continues \/ SnapshotSaved \/ SnapshotNotSaved \/ DismissesSheet \/ SnapshotAges
        BY <2>5 DEF PollReads, PollAnswers, OpensLink, ElsewhereRegisters, OpensSheet, Continues, SnapshotSaved,
                    SnapshotNotSaved, DismissesSheet, SnapshotAges, world
  <2>6. CASE \/ Confirms \/ ChangesEmail \/ Completes \/ ServerRegisters \/ ServerRefuses \/ StrayArrives
             \/ Welcomed \/ RegisterRefused \/ RollsBack \/ CompleteRefused \/ Rechecks \/ NoAnswer \/ AppRestarts
        BY <2>6 DEF Confirms, ChangesEmail, Completes, ServerRegisters, ServerRefuses, StrayArrives, Welcomed,
                    RegisterRefused, RollsBack, CompleteRefused, Rechecks, NoAnswer, AppRestarts, world
  <2> QED BY <2>1, <2>2, <2>3, <2>4, <2>5, <2>6 DEF SignInNext
<1>5. Len(made') \in Nat /\ Len(made) <= Len(made') /\ Len(made') <= MaxAccounts
      BY <1>1, <1>2, <1>3
<1>6. Len(made) + 1 # Unknown
      BY <1>2 DEF Unknown
<1> QED BY <1>2, <1>4, <1>5, <1>6

(* What the phone and the server record of a uid is one they had, or the session's.           *)
LEMMA RecordedUids ==
  ASSUME SignInTyped, UidsFit, ValuesWithin, SignInNext
  PROVE  /\ \A i \in Identities : Uid(row'[i])
         /\ \A i \in Identities : entry'[i].uid = logins'[i] \/ Uid(entry'[i].uid)
<1> USE SocialOrMail, UidsOfNow
<1>1. row \in [Identities -> Nat] /\ entry \in [Identities -> EntryRecords]
      BY DEF SignInTyped
<1>2. \A i \in Identities : Uid(row[i]) /\ Uid(entry[i].uid)
      BY DEF ValuesWithin
<1>3. Uid(Unknown) /\ Still.uid = Unknown
      BY DEF Uid, Unknown, Still
<1>4. ASSUME NEW w \in Identities, NEW p, Then(w, p) PROVE \A i \in Identities : Uid(entry'[i].uid)
  <2>1. entry' = [entry EXCEPT ![w] = IF p = "idle" THEN Still ELSE [entry[w] EXCEPT !.phase = p]]
        BY <1>4 DEF Then
  <2>2. [entry[w] EXCEPT !.phase = p].uid = entry[w].uid
        BY <1>1 DEF EntryRecords
  <2> QED BY <1>1, <1>2, <1>3, <2>1, <2>2
<1>5. CASE \E w \in Identities : SignsIn(w) \/ Fetched(w) \/ FetchCancelled(w) \/ FetchFails(w) \/ Leaves(w)
  <2> PICK w \in Identities : SignsIn(w) \/ Fetched(w) \/ FetchCancelled(w) \/ FetchFails(w) \/ Leaves(w)
      BY <1>5
  <2>1. row' = row
        BY DEF SignsIn, Fetched, FetchCancelled, FetchFails, Leaves, world
  <2>2. CASE SignsIn(w)
        BY <1>1, <1>2, <2>1, <2>2 DEF SignsIn
  <2>3. CASE Fetched(w) \/ FetchFails(w) \/ Leaves(w)
    <3>1. \E p : Then(w, p)
          BY <2>3 DEF Fetched, FetchFails, Leaves
    <3> QED BY <1>2, <1>4, <2>1, <3>1
  <2>4. CASE FetchCancelled(w)
    <3>1. (\E p : Then(w, p)) \/ entry' = [entry EXCEPT ![w].uid = session]
          BY <2>4 DEF FetchCancelled
    <3>2. CASE entry' = [entry EXCEPT ![w].uid = session]
      <4>1. \A i \in Identities : entry'[i].uid \in {entry[i].uid, session}
            BY <1>1, <3>2 DEF EntryRecords
      <4> QED BY <1>2, <2>1, <4>1
    <3> QED BY <1>2, <1>4, <2>1, <3>1, <3>2
  <2> QED BY <2>2, <2>3, <2>4
<1>6. CASE \/ PollReads \/ PollAnswers \/ OpensLink \/ OpensSheet \/ Continues \/ SnapshotNotSaved \/ SnapshotAges
           \/ Submits \/ Confirms \/ ChangesEmail \/ Completes
  <2>1. row' = row /\ entry' = entry
        BY <1>6 DEF PollReads, PollAnswers, OpensLink, OpensSheet, Continues, SnapshotNotSaved, SnapshotAges, Submits,
                    Confirms, ChangesEmail, Completes, world
  <2> QED BY <1>2, <2>1
<1>7. CASE ServerRefuses \/ Welcomed \/ RegisterRefused \/ RollsBack \/ CompleteRefused \/ Rechecks \/ NoAnswer
  <2>1. row' = row /\ entry' = entry
        BY <1>7 DEF ServerRefuses, Welcomed, RegisterRefused, RollsBack, CompleteRefused, Rechecks, NoAnswer, world
  <2> QED BY <1>2, <2>1
<1>8. CASE ElsewhereRegisters \/ ServerRegisters \/ StrayArrives
  <2>1. entry' = entry
        BY <1>8 DEF ElsewhereRegisters, ServerRegisters, StrayArrives
  <2>2. row' = row \/ \E i \in Identities : \E u : row' = [row EXCEPT ![i] = u] /\ Uid(u)
    <3>1. CASE ElsewhereRegisters
          BY <3>1 DEF ElsewhereRegisters
    <3>2. CASE ServerRegisters
      <4>1. call.uid # Unknown /\ made[call.uid] \in Identities
            BY <3>2 DEF ServerRegisters, Pending, UidsFit, LoginMade, SignInTyped
      <4> QED BY <3>2, <4>1 DEF ServerRegisters
    <3>3. CASE StrayArrives
      <4>1. PICK c \in strays : row' = row \/ row' = [row EXCEPT ![made[c.uid]] = c.uid]
            BY <3>3 DEF StrayArrives
      <4>2. c.uid \in 1..Len(made) /\ made[c.uid] \in Identities
            BY DEF SignInTyped
      <4>3. Uid(c.uid)
            BY <4>2 DEF Uid
      <4> QED BY <4>1, <4>2, <4>3
    <3> QED BY <1>8, <3>1, <3>2, <3>3
  <2>3. \A i \in Identities : Uid(row'[i])
        BY <1>1, <1>2, <2>2
  <2> QED BY <1>2, <2>1, <2>3
<1>9. CASE SnapshotSaved \/ DismissesSheet
  <2>1. row' = row /\ (entry' = entry \/ \E p : Then("social", p))
        BY <1>9 DEF SnapshotSaved, DismissesSheet, world
  <2> QED BY <1>2, <1>4, <2>1
<1>10. CASE AppRestarts
  <2>1. row' = row /\ entry' = [i \in Identities |-> Still]
        BY <1>10 DEF AppRestarts, world
  <2> QED BY <1>2, <1>3, <2>1
<1> QED BY <1>5, <1>6, <1>7, <1>8, <1>9, <1>10 DEF SignInNext

(* The query about auth.me asks for the session and answers with it, or with nobody.          *)
LEMMA QueriedUids ==
  ASSUME SignInTyped, UidsFit, ValuesWithin, SignInNext
  PROVE  /\ UidOrNull(me')
         /\ poll'.uid = session' \/ Uid(poll'.uid)
         /\ UidOrNull(poll'.read)
<1> USE UidsOfNow
<1>1. UidOrNull(me) /\ Uid(poll.uid) /\ UidOrNull(poll.read) /\ poll \in PollRecords
      BY DEF ValuesWithin, SignInTyped
<1>2. Uid(Unknown) /\ UidOrNull(Unknown) /\ (\A u : Uid(u) => UidOrNull(u) /\ UidOrNull(Profile(u)))
      BY DEF Uid, UidOrNull, Unknown, Profile, Null
<1>3. NoPoll.uid = Unknown /\ NoPoll.read = Unknown /\ \A u : Asked(u).uid = u /\ Asked(u).read = Unknown
      BY DEF NoPoll, Asked
<1> DEFINE P == /\ UidOrNull(me') /\ UidOrNull(poll'.read)
                /\ poll'.uid = session' \/ Uid(poll'.uid)
<1>4. UNCHANGED <<me, poll>> => P
      BY <1>1
<1>5. ASSUME NEW u, SessionBecomes(u) PROVE P
  <2>1. me' \in {me, Unknown} /\ session' = u /\ poll' \in {NoPoll, Asked(u), poll}
        BY <1>5 DEF SessionBecomes
  <2> QED BY <1>1, <1>2, <1>3, <2>1
<1>6. UidOrNull(me') /\ (poll' = NoPoll \/ poll' = poll) => P
      BY <1>1, <1>2, <1>3
<1> HIDE DEF P
<1>7. CASE \E w \in Identities : SignsIn(w) \/ Fetched(w) \/ FetchCancelled(w) \/ FetchFails(w) \/ Leaves(w)
  <2> PICK w \in Identities : SignsIn(w) \/ Fetched(w) \/ FetchCancelled(w) \/ FetchFails(w) \/ Leaves(w)
      BY <1>7
  <2>1. CASE SignsIn(w) \/ Leaves(w)
    <3>1. \E u : SessionBecomes(u)
          BY <2>1 DEF SignsIn, Leaves
    <3> QED BY <1>5, <3>1 DEF P
  <2>2. CASE Fetched(w)
    <3>1. UidOrNull(me') /\ poll' = NoPoll
          BY <1>2, <2>2 DEF Fetched
    <3> QED BY <1>6, <3>1 DEF P
  <2>3. CASE FetchCancelled(w) \/ FetchFails(w)
    <3>1. UNCHANGED <<me, poll>>
          BY <2>3 DEF FetchCancelled, FetchFails
    <3> QED BY <1>4, <3>1 DEF P
  <2> QED BY <2>1, <2>2, <2>3
<1>8. CASE \/ OpensLink \/ ElsewhereRegisters \/ OpensSheet \/ Continues \/ SnapshotSaved \/ SnapshotNotSaved
           \/ DismissesSheet \/ SnapshotAges \/ Confirms
  <2>1. UNCHANGED <<me, poll>>
        BY <1>8 DEF OpensLink, ElsewhereRegisters, OpensSheet, Continues, SnapshotSaved, SnapshotNotSaved,
                    DismissesSheet, SnapshotAges, Confirms
  <2> QED BY <1>4, <2>1 DEF P
<1>9. CASE ServerRegisters \/ ServerRefuses \/ StrayArrives \/ RegisterRefused \/ CompleteRefused \/ NoAnswer
  <2>1. UNCHANGED <<me, poll>>
        BY <1>9 DEF ServerRegisters, ServerRefuses, StrayArrives, RegisterRefused, CompleteRefused, NoAnswer
  <2> QED BY <1>4, <2>1 DEF P
<1>10. CASE PollReads
  <2>1. poll' = [poll EXCEPT !.read = Profile(poll.uid)] /\ me' = me
        BY <1>10 DEF PollReads
  <2>2. poll'.uid = poll.uid /\ poll'.read = Profile(poll.uid)
        BY <1>1, <2>1 DEF PollRecords
  <2> QED BY <1>1, <1>2, <2>1, <2>2
<1>11. CASE PollAnswers \/ Welcomed
  <2>1. me' \in {poll.read, call.uid} /\ poll' = NoPoll
        BY <1>11 DEF PollAnswers, Welcomed, Cancelled
  <2>2. UidOrNull(me')
        BY <1>1, <1>2, <2>1
  <2> QED BY <1>6, <2>1, <2>2 DEF P
<1>12. CASE Submits \/ ChangesEmail \/ Completes \/ RollsBack
  <2>1. (\E u : SessionBecomes(u)) \/ UNCHANGED <<me, poll>>
        BY <1>12 DEF Submits, ChangesEmail, Completes, RollsBack
  <2> QED BY <1>4, <1>5, <2>1 DEF P
<1>13. CASE Rechecks
  <2>1. (\E u : SessionBecomes(u)) \/ (me' = session /\ poll' = NoPoll) \/ UNCHANGED <<me, poll>>
        BY <1>13 DEF Rechecks
  <2>2. me' = session /\ poll' = NoPoll => P
        BY <1>2, <1>6
  <2> QED BY <1>4, <1>5, <2>1, <2>2 DEF P
<1>14. CASE AppRestarts
  <2>1. me' \in {Unknown, Profile(session)} /\ poll' = NoPoll
        BY <1>14 DEF AppRestarts
  <2>2. UidOrNull(me')
        BY <1>2, <2>1
  <2> QED BY <1>6, <2>1, <2>2 DEF P
<1> QED BY <1>7, <1>8, <1>9, <1>10, <1>11, <1>12, <1>13, <1>14 DEF SignInNext, P

(* A form that rests has forgotten its account, and a registration takes the stored consent,  *)
(* which was looked at.                                                                       *)
LEMMA ConsentIsUsable ==
  ASSUME SignInTyped, UidsFit, form.phase = "idle" => form = Still, Consented, SignInNext
  PROVE  Consented' /\ (form'.phase = "idle" => form' = Still)
<1>1. form \in FormRecords /\ call \in Registrations /\ NoCall.uid = Unknown
      BY DEF SignInTyped, NoCall
<1>2. Abandoned \subseteq strays \union {c \in StrayRecords : c.consent \in Usable}
  <2>1. Pending => [uid |-> call.uid, consent |-> call.consent] \in {c \in StrayRecords : c.consent \in Usable}
        BY <1>1 DEF Pending, Consented, Registrations, StrayRecords
  <2> QED BY <2>1 DEF Abandoned
<1>3. \A c \in Abandoned : c.consent \in Usable
      BY <1>2 DEF Consented
<1>4. ASSUME NEW u, NEW by \in {"register", "complete"}, Finishes(u, by), strays' = strays
      PROVE  Consented' /\ (form'.phase = "idle" => form' = Still)
  <2>1. CASE snapshot \in Usable
    <3>1. form' = [phase |-> by, uid |-> u] /\ call' = [uid |-> u, consent |-> snapshot, answer |-> "none"]
          BY <1>4, <2>1 DEF Finishes, Requests
    <3> QED BY <1>4, <2>1, <3>1 DEF Consented, Usable
  <2>2. CASE snapshot \notin Usable
    <3>1. form' = form /\ call' = call
          BY <1>4, <2>2 DEF Finishes
    <3> QED BY <1>4, <3>1 DEF Consented, Usable
  <2> QED BY <2>1, <2>2
<1>5. ASSUME UNCHANGED <<form, call, strays>> PROVE Consented' /\ (form'.phase = "idle" => form' = Still)
      BY <1>5 DEF Consented, Usable
<1>6. CASE \E w \in Identities : SignsIn(w) \/ Fetched(w) \/ FetchCancelled(w) \/ FetchFails(w) \/ Leaves(w)
  <2> PICK w \in Identities : SignsIn(w) \/ Fetched(w) \/ FetchCancelled(w) \/ FetchFails(w) \/ Leaves(w)
      BY <1>6
  <2>1. UNCHANGED <<form, call, strays>>
        BY DEF SignsIn, Fetched, FetchCancelled, FetchFails, Leaves, server
  <2> QED BY <1>5, <2>1
<1>7. CASE \/ PollReads \/ PollAnswers \/ OpensLink \/ ElsewhereRegisters \/ OpensSheet \/ Continues
           \/ SnapshotSaved \/ SnapshotNotSaved \/ DismissesSheet \/ SnapshotAges \/ ChangesEmail
  <2>1. UNCHANGED <<form, call, strays>>
        BY <1>7 DEF PollReads, PollAnswers, OpensLink, ElsewhereRegisters, OpensSheet, Continues, SnapshotSaved,
                    SnapshotNotSaved, DismissesSheet, SnapshotAges, ChangesEmail, server
  <2> QED BY <1>5, <2>1
<1>8. CASE Submits \/ Confirms \/ Completes
  <2>1. \/ UNCHANGED <<form, call, strays>>
        \/ strays' = strays /\ \E u : \E by \in {"register", "complete"} : Finishes(u, by)
    <3>1. CASE Submits
          BY <3>1 DEF Submits
    <3>2. CASE Confirms
          BY <3>2 DEF Confirms
    <3>3. CASE Completes
          BY <3>3 DEF Completes
    <3> QED BY <1>8, <3>1, <3>2, <3>3
  <2> QED BY <1>4, <1>5, <2>1
<1>9. CASE ServerRegisters \/ ServerRefuses
  <2>1. form' = form /\ strays' = strays /\ \E a : Answers(a)
        BY <1>9 DEF ServerRegisters, ServerRefuses
  <2>2. call'.uid = call.uid /\ call'.consent = call.consent
        BY <1>1, <2>1 DEF Answers, Registrations
  <2> QED BY <2>1, <2>2 DEF Consented, Usable
<1>10. CASE StrayArrives
  <2>1. form' = form /\ call' = call /\ strays' \subseteq strays
        BY <1>10 DEF StrayArrives
  <2> QED BY <2>1 DEF Consented, Usable
<1>11. CASE Welcomed \/ RegisterRefused \/ CompleteRefused
  <2>1. call' = NoCall /\ strays' = strays
        BY <1>11 DEF Welcomed, RegisterRefused, CompleteRefused
  <2>2. form' = Still \/ form' = [form EXCEPT !.phase = "rollback"] \/ form' = [form EXCEPT !.phase = "recheck"]
        BY <1>11 DEF Welcomed, RegisterRefused, CompleteRefused
  <2>3. form'.phase = "idle" => form' = Still
        BY <1>1, <2>2 DEF FormRecords
  <2> QED BY <1>1, <2>1, <2>3 DEF Consented, Usable
<1>12. CASE RollsBack \/ Rechecks
  <2>1. form' = Still /\ call' = call /\ strays' = strays
        BY <1>12 DEF RollsBack, Rechecks, server
  <2> QED BY <2>1 DEF Consented, Usable
<1>13. CASE NoAnswer \/ AppRestarts
  <2>1. form' = Still /\ call' = NoCall /\ strays' = Abandoned
        BY <1>13 DEF NoAnswer, AppRestarts
  <2> QED BY <1>1, <1>3, <2>1 DEF Consented, Usable
<1> QED BY <1>6, <1>7, <1>8, <1>9, <1>10, <1>11, <1>12, <1>13 DEF SignInNext

(* Doubts and deletions are about accounts that were made.                                    *)
LEMMA DoubtedUids ==
  ASSUME SignInTyped, UidsFit, SetsWithin, SignInNext
  PROVE  unsure' \subseteq 1..Len(made) /\ dropped' \subseteq 1..Len(made)
<1>1. (call.uid # Unknown => call.uid \in 1..Len(made)) /\ (session # Unknown => session \in 1..Len(made))
      BY DEF UidsFit, LoginMade
<1>2. CASE \E w \in Identities : SignsIn(w) \/ Fetched(w) \/ FetchCancelled(w) \/ FetchFails(w) \/ Leaves(w)
  <2> PICK w \in Identities : SignsIn(w) \/ Fetched(w) \/ FetchCancelled(w) \/ FetchFails(w) \/ Leaves(w)
      BY <1>2
  <2>1. UNCHANGED <<unsure, dropped>>
        BY DEF SignsIn, Fetched, FetchCancelled, FetchFails, Leaves, past
  <2> QED BY <2>1 DEF SetsWithin
<1>3. CASE \/ PollReads \/ PollAnswers \/ OpensLink \/ OpensSheet \/ Continues \/ SnapshotSaved
           \/ SnapshotNotSaved \/ DismissesSheet \/ SnapshotAges \/ Submits \/ Confirms \/ Completes
  <2>1. UNCHANGED <<unsure, dropped>>
        BY <1>3 DEF PollReads, PollAnswers, OpensLink, OpensSheet, Continues, SnapshotSaved, SnapshotNotSaved,
                    DismissesSheet, SnapshotAges, Submits, Confirms, Completes, past
  <2> QED BY <2>1 DEF SetsWithin
<1>4. CASE \/ ServerRegisters \/ StrayArrives \/ Welcomed \/ RegisterRefused \/ RollsBack \/ CompleteRefused \/ Rechecks
  <2>1. UNCHANGED <<unsure, dropped>>
        BY <1>4 DEF ServerRegisters, StrayArrives, Welcomed, RegisterRefused, RollsBack, CompleteRefused, Rechecks, past
  <2> QED BY <2>1 DEF SetsWithin
<1>5. CASE ElsewhereRegisters
  <2>1. PICK i \in Identities : logins[i] \in verified /\ unsure' \in {unsure, unsure \union {logins[i]}}
        BY <1>5 DEF ElsewhereRegisters
  <2>2. dropped' = dropped
        BY <1>5 DEF ElsewhereRegisters
  <2> QED BY <2>1, <2>2 DEF SetsWithin
<1>6. CASE ServerRefuses \/ NoAnswer \/ AppRestarts
  <2>1. dropped' = dropped /\ (unsure' = unsure \/ (call.uid # Unknown /\ unsure' = unsure \union {call.uid}))
        BY <1>6 DEF ServerRefuses, NoAnswer, AppRestarts, Pending, Doubtful
  <2> QED BY <1>1, <2>1 DEF SetsWithin
<1>7. CASE ChangesEmail
  <2>1. unsure' = unsure /\ (dropped' = dropped \/ (session # Unknown /\ dropped' = dropped \union {session}))
        BY <1>7 DEF ChangesEmail
  <2> QED BY <1>1, <2>1 DEF SetsWithin
<1> QED BY <1>2, <1>3, <1>4, <1>5, <1>6, <1>7 DEF SignInNext

(* The steps of the register screen, and the bothers.                                         *)
LEMMA StepAndBothers ==
  ASSUME CountsWithin, SignInNext
  PROVE  step' \in {"form", "waiting"} /\ bothers' \in 0..MaxBothers
<1>1. Bother => bothers' \in 0..MaxBothers
      BY SignInAssumption DEF Bother, CountsWithin
<1>2. step' \in {step, "form", "waiting"} /\ (bothers' = bothers \/ Bother)
  <2>1. ASSUME NEW w \in Identities, SignsIn(w) \/ Fetched(w) \/ FetchCancelled(w) \/ FetchFails(w) \/ Leaves(w)
        PROVE  step' = step /\ (bothers' = bothers \/ Bother)
        BY <2>1 DEF SignsIn, Fetched, FetchCancelled, FetchFails, Leaves, device
  <2>2. CASE \/ PollReads \/ PollAnswers \/ OpensLink \/ ElsewhereRegisters \/ OpensSheet \/ Continues
             \/ SnapshotNotSaved \/ DismissesSheet \/ SnapshotAges
        BY <2>2 DEF PollReads, PollAnswers, OpensLink, ElsewhereRegisters, OpensSheet, Continues, SnapshotNotSaved,
                    DismissesSheet, SnapshotAges, device
  <2>3. CASE SnapshotSaved \/ Submits \/ Confirms \/ ChangesEmail \/ Completes
        BY <2>3 DEF SnapshotSaved, OpensRegister, Submits, Confirms, ChangesEmail, Completes
  <2>4. CASE ServerRegisters \/ ServerRefuses \/ StrayArrives \/ Welcomed \/ RegisterRefused
        BY <2>4 DEF ServerRegisters, ServerRefuses, StrayArrives, Welcomed, RegisterRefused, device
  <2>5. CASE RollsBack \/ CompleteRefused \/ Rechecks \/ NoAnswer \/ AppRestarts
        BY <2>5 DEF RollsBack, CompleteRefused, Rechecks, NoAnswer, AppRestarts, device
  <2> QED BY <2>1, <2>2, <2>3, <2>4, <2>5 DEF SignInNext
<1> QED BY <1>1, <1>2 DEF CountsWithin

(* The state of signing up keeps its shape: every uid that the session, the query, the forms, *)
(* the requests on their way and the profiles name is of an account that Firebase made.       *)
THEOREM SignInStaysTyped == SignInSpec => []SignInTypeOK
<1>1. SignInInit => SignInWithin
  <2> SUFFICES ASSUME SignInInit PROVE SignInWithin
      OBVIOUS
  <2>1. Len(made) = 0
        BY DEF SignInInit
  <2>2. ValuesWithin
        BY <2>1 DEF SignInInit, ValuesWithin, Uid, UidOrNull, Unknown, Still, NoPoll
  <2>3. SetsWithin /\ Consented
        BY <2>1 DEF SignInInit, SetsWithin, Consented, NoCall
  <2>4. CountsWithin
        BY <2>1, SignInAssumption DEF SignInInit, CountsWithin
  <2> QED BY <2>2, <2>3, <2>4 DEF SignInWithin
<1>2. SignInInv /\ SignInInv' /\ SignInWithin /\ [SignInNext]_signInVars => SignInWithin'
  <2> SUFFICES ASSUME SignInInv, SignInInv', SignInWithin, [SignInNext]_signInVars PROVE SignInWithin'
      OBVIOUS
  <2>1. CASE SignInNext
    <3> USE <2>1
    <3>1. SignInTyped /\ UidsFit /\ ValuesWithin /\ SetsWithin /\ Consented /\ CountsWithin
          BY DEF SignInInv, SignInWithin
    <3>2. /\ Len(made') \in Nat /\ Len(made) \in Nat /\ Len(made) <= Len(made') /\ Len(made') <= MaxAccounts
          /\ verified' \subseteq verified \union {logins["mail"], Len(made')}
          /\ Unknown \notin verified' \ verified
          BY <3>1, AccountsAreAdded
    <3>3. Uid(session)' /\ \A i \in Identities : Uid(logins[i])'
      <4>1. SignInTyped' /\ UidsFit'
            BY DEF SignInInv
      <4>2. /\ session' # Unknown => session' \in 1..Len(made')
            /\ \A i \in Identities : logins'[i] # Unknown => logins'[i] \in 1..Len(made')
            BY <4>1 DEF UidsFit, LoginMade
      <4>3. Unknown \in 0..Len(made') /\ 1..Len(made') \subseteq 0..Len(made')
            BY <3>2 DEF Unknown
      <4> QED BY <4>2, <4>3 DEF Uid
    <3>4. \A u : (Uid(u) => u \in 0..Len(made')) /\ (UidOrNull(u) => u \in -1..Len(made'))
          BY <3>2 DEF Uid, UidOrNull
    <3>5. ValuesWithin'
      <4>1. /\ \A i \in Identities : Uid(row'[i])
            /\ \A i \in Identities : entry'[i].uid = logins'[i] \/ Uid(entry'[i].uid)
            BY <3>1, RecordedUids
      <4>2. /\ UidOrNull(me') /\ UidOrNull(poll'.read)
            /\ poll'.uid = session' \/ Uid(poll'.uid)
            BY <3>1, QueriedUids
      <4>3. form'.phase = "idle" => form' = Still
            BY <3>1, ConsentIsUsable DEF ValuesWithin
      <4>4. session' \in 0..Len(made') /\ \A i \in Identities : logins'[i] \in 0..Len(made')
            BY <3>3 DEF Uid
      <4>5. \A i \in Identities : row'[i] \in 0..Len(made') /\ entry'[i].uid \in 0..Len(made')
            BY <3>4, <4>1, <4>4
      <4>6. me' \in -1..Len(made') /\ poll'.read \in -1..Len(made') /\ poll'.uid \in 0..Len(made')
            BY <3>4, <4>2, <4>4
      <4> QED BY <4>3, <4>5, <4>6 DEF ValuesWithin, Uid, UidOrNull, Still
    <3>6. SetsWithin'
      <4>1. 1..Len(made) \subseteq 1..Len(made') /\ Unknown = 0
            BY <3>2 DEF Unknown
      <4>2. unsure' \subseteq 1..Len(made) /\ dropped' \subseteq 1..Len(made)
            BY <3>1, DoubtedUids
      <4>3. logins["mail"] \in 0..Len(made)
            BY <3>1, UidsOfNow, SocialOrMail DEF Uid
      <4>4. \A u \in verified' : u \in 1..Len(made')
        <5> SUFFICES ASSUME NEW u \in verified' PROVE u \in 1..Len(made')
            OBVIOUS
        <5>1. CASE u \in verified
              BY <3>1, <4>1, <5>1 DEF SetsWithin
        <5>2. CASE u \notin verified
              BY <3>2, <4>1, <4>3, <5>2
        <5> QED BY <5>1, <5>2
      <4> QED BY <4>1, <4>2, <4>4 DEF SetsWithin
    <3>7. Consented'
          BY <3>1, ConsentIsUsable DEF ValuesWithin
    <3>8. CountsWithin'
          BY <3>1, <3>2, StepAndBothers DEF CountsWithin
    <3> QED BY <3>5, <3>6, <3>7, <3>8 DEF SignInWithin
  <2>2. CASE UNCHANGED signInVars
    <3>1. ValuesWithin' /\ SetsWithin'
          BY <2>2 DEF signInVars, SignInWithin, ValuesWithin, SetsWithin, Uid, UidOrNull
    <3>2. Consented' /\ CountsWithin'
          BY <2>2 DEF signInVars, SignInWithin, Consented, CountsWithin, Usable
    <3> QED BY <3>1, <3>2 DEF SignInWithin
  <2> QED BY <2>1, <2>2
<1>3. SignInInv /\ SignInWithin => SignInTypeOK
  <2> SUFFICES ASSUME SignInInv, SignInWithin PROVE SignInTypeOK
      OBVIOUS
  <2> USE SocialOrMail
  <2>1. SignInTyped /\ UidsFit /\ ValuesWithin /\ SetsWithin /\ Consented /\ CountsWithin
        BY DEF SignInInv, SignInWithin
  <2>2. /\ Len(made) \in Nat /\ Uid(session) /\ Uid(call.uid) /\ Uid(known)
        /\ \A i \in Identities : Uid(logins[i])
        /\ \A c \in strays : c.uid \in 1..Len(made)
        BY <2>1, UidsOfNow
  <2>3. Uid(form.uid)
    <3>1. form.phase = "idle" => form.uid = 0
          BY <2>1 DEF ValuesWithin, Still, Unknown
    <3> QED BY <2>1, <2>2, <3>1, UidsOfNow DEF Uid
  <2>4. logins \in [Identities -> 0..Len(made)] /\ row \in [Identities -> 0..Len(made)]
        BY <2>1, <2>2 DEF SignInTyped, ValuesWithin, Uid
  <2>5. entry \in [Identities -> [phase : {"idle", "fetch", "asking", "leaving"}, uid : 0..Len(made)]]
    <3>1. entry = [i \in Identities |-> entry[i]] /\ \A i \in Identities : entry[i] \in EntryRecords
          BY <2>1 DEF SignInTyped
    <3>2. \A i \in Identities : entry[i] \in [phase : {"idle", "fetch", "asking", "leaving"}, uid : 0..Len(made)]
          BY <2>1, <3>1 DEF EntryRecords, ValuesWithin, Uid
    <3> QED BY <3>1, <3>2
  <2>6. poll \in [uid : 0..Len(made), read : -1..Len(made)]
        BY <2>1 DEF SignInTyped, PollRecords, ValuesWithin, Uid, UidOrNull
  <2>7. form \in [phase : {"idle", "register", "complete", "rollback", "recheck"}, uid : 0..Len(made)]
        BY <2>1, <2>3 DEF SignInTyped, FormRecords, Uid
  <2>8. call \in [uid : 0..Len(made), consent : {"none", "current", "ahead"},
                  answer : {"none", "ok", "conflict", "consent", "refused"}]
        BY <2>1, <2>2 DEF SignInTyped, Registrations, Uid
  <2>9. strays \subseteq [uid : 1..Len(made), consent : {"current", "ahead"}]
        BY <2>1, <2>2 DEF SignInTyped, StrayRecords, Consented, Usable
  <2>10. session \in 0..Len(made) /\ known \in 0..Len(made) /\ me \in -1..Len(made)
        BY <2>1, <2>2 DEF ValuesWithin, Uid, UidOrNull
  <2>11. {created, sheet, awaited, strayed} \subseteq BOOLEAN
        BY <2>1 DEF SignInTyped
  <2>12. /\ verified \subseteq 1..Len(made) /\ unsure \union dropped \subseteq 1..Len(made)
         /\ Len(made) <= MaxAccounts /\ step \in {"form", "waiting"} /\ bothers \in 0..MaxBothers
        BY <2>1 DEF SetsWithin, CountsWithin
  <2>13. /\ made \in Seq(Identities) /\ screen \in {"login", "register", "complete", "main"} /\ saving \in 0..2
         /\ snapshot \in {"none", "current", "old", "ahead"}
        BY <2>1 DEF SignInTyped, Screens, Snapshots
  <2> QED BY <2>4, <2>5, <2>6, <2>7, <2>8, <2>9, <2>10, <2>11, <2>12, <2>13 DEF SignInTypeOK
<1> QED BY <1>1, <1>2, <1>3, SignInKeeps, PTL DEF SignInSpec
=============================================================================
