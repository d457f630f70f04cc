-------------------------- MODULE DuelClientProofs --------------------------
(***************************************************************************)
(* Proofs about DuelClient for any number of duels, calls and letters: the *)
(* screens of a duel follow the duel, and close for a reason; and about    *)
(* GameScreen for any number of rounds and drops of the connection: what   *)
(* the screen of a game shows is the round that is played.                 *)
(*                                                                         *)
(* The argument is the order of delivery.  Whatever the server says about  *)
(* a duel is delivered in the order it was said, so the ending of a duel   *)
(* that is shown is still on its way, behind everything that could open    *)
(* its screens again.                                                      *)
(*                                                                         *)
(* The types of the screens need a count: the signals shown, on their way  *)
(* and still owed are no more than the rounds that were given the leave.   *)
(***************************************************************************)
EXTENDS DuelClient, GameScreen, SequenceTheorems, FiniteSetTheorems, TLAPS

-----------------------------------------------------------------------------
(* The duel screens.  What is on its way about a duel: its invitation, the acknowledgement  *)
(* of its request, its acceptance and its ending.                                           *)
Invites(m, d) == m.kind = "requested" /\ m.duel = d
Grants(m, d) == m.kind = "ok" /\ m.of = "request" /\ m.duel = d
Accepts(m, d) == m.kind = "accepted" /\ m.duel = d
EndsIt(m, d) == m.kind \in Endings /\ m.duel = d
BringsUp(m, d) == Invites(m, d) \/ Grants(m, d) \/ Accepts(m, d)
Inbox == 1..Len(inbox)

CallRecords == [kind : {"request", "accept", "reject"}, foe : Foes \union {NoFoe},
          duel : Nat, armed : BOOLEAN, due : BOOLEAN]
DuelRecords == [stage : {"none", "PENDING", "ACCEPTED", "over"}, foe : Foes \union {NoFoe}, mine : BOOLEAN, invite : BOOLEAN]
Overlays == [duel : Nat, role : {"none", "challenger", "recipient"},
             enemy : Foes \union {NoFoe}, shown : SUBSET {"request", "pending", "game"}]
Codes == {"none", "REQUEST", "SHIELDED", "OTHER", "ANSWER"}
Letters == [kind : {"requested", "accepted", "exception", "ok", "error"} \union Endings, duel : Nat, code : Codes,
            of : Foes \union {NoFoe, "none", "request", "accept"}]

ClientTyped ==
  /\ overlay \in Overlays /\ challenge \in Foes \union {NoFoe}
  /\ calls \subseteq CallRecords /\ inbox \in Seq(Letters)
  /\ duels \in [DuelNos -> DuelRecords] /\ astray \in BOOLEAN
  /\ overlay.duel # 0 => overlay.duel \in DuelNos /\ duels[overlay.duel].stage # "none"
  /\ overlay.duel = 0 <=> overlay.shown = {}

(* What is on its way is about a duel that is so, in the order it was said in. *)
FitsIn(m, ds) ==
  /\ m.kind \in Endings \union {"requested", "accepted"} \/ (m.kind = "ok" /\ m.of = "request")
       => m.duel \in DuelNos /\ ds[m.duel].stage # "none"
  /\ m.kind \in Endings => ds[m.duel].stage = "over"
  /\ m.kind = "accepted" => ds[m.duel].stage \in {"ACCEPTED", "over"}
  /\ m.kind = "requested" =>
       /\ m.of \in Foes \union {NoFoe}
       /\ ds[m.duel].stage \in {"PENDING", "ACCEPTED"} => m.of = ds[m.duel].foe
  /\ m.kind = "exception" => m.code \in {"REQUEST", "SHIELDED", "OTHER", "ANSWER"}
LettersFit == \A i \in Inbox : FitsIn(inbox[i], duels)

Precedes(m, n, d) ==
  /\ EndsIt(m, d) => ~Accepts(n, d) /\ ~Grants(n, d)
  /\ Accepts(m, d) \/ Grants(m, d) => ~Grants(n, d)
  /\ Invites(m, d) => ~Invites(n, d)
LettersInOrder == \A d \in DuelNos : \A i, j \in Inbox : i < j => Precedes(inbox[i], inbox[j], d)

(* What opens a duel that is over has its ending behind it. *)
EndFollows(i, d) == \E j \in Inbox : i < j /\ EndsIt(inbox[j], d)
EndsFollow ==
  \A d \in DuelNos : \A i \in Inbox :
    BringsUp(inbox[i], d) /\ duels[d].stage = "over" => d \in missed \/ EndFollows(i, d)
ShownEndFollows ==
  overlay.duel # 0 /\ duels[overlay.duel].stage = "over" => EndsIn(overlay.duel, inbox) \/ overlay.duel \in missed

Said(d) == \E i \in Inbox : Accepts(inbox[i], d) \/ Grants(inbox[i], d)
Confirmed(d) == \E i \in Inbox : Grants(inbox[i], d)

(* An invitation is there once, and until it is answered. *)
InviteIn(d) == \E i \in Inbox : Invites(inbox[i], d)
Invited(d) == duels[d].invite \/ InviteIn(d) \/ ("request" \in overlay.shown /\ overlay.duel = d)
InvitesFit ==
  \A d \in DuelNos :
    /\ Invited(d) => /\ ~duels[d].mine /\ duels[d].stage \in {"PENDING", "over"}
                     /\ ~Said(d)
                     /\ \A c \in calls : c.duel # d
    /\ duels[d].invite => ~InviteIn(d)
    /\ duels[d].invite \/ InviteIn(d) => overlay.duel # d

CallsFit ==
  /\ \A c \in calls : c.duel # 0 => c.duel \in DuelNos /\ duels[c.duel].stage # "none"
  /\ \A c \in calls : c.kind = "request" =>
       /\ c.foe \in Foes
       /\ c.duel # 0 => ~c.due /\ (Running(c.duel) => c.foe = duels[c.duel].foe)
  /\ \A c \in calls : c.kind # "request" => c.duel # 0
  /\ \A c \in calls : (c.armed \/ c.kind = "reject" \/ astray) /\ ~(c.armed /\ c.kind = "reject")
  /\ \A d \in DuelNos : Confirmed(d) => overlay.duel # d

(* Who has not let go of a duel: at most one that is engaged is not on the screens, and     *)
(* then it is the one his request has made.                                                 *)
Engaged(d) ==
  \/ duels[d].stage = "PENDING" /\ duels[d].mine
  \/ duels[d].stage = "ACCEPTED"
  \/ Said(d)
Made(c, d) == c.kind = "request" /\ c.duel = d /\ c.armed /\ ~c.due /\ challenge = c.foe
Asking(c) == c.kind = "request" /\ c.armed /\ c.due
EngagedFits ==
  ~astray =>
    /\ \A d \in DuelNos : Engaged(d) => overlay.duel = d \/ \E c \in calls : Made(c, d)
    /\ \A d, e \in DuelNos : Engaged(d) /\ Engaged(e) => d = e \/ overlay.duel \in {d, e}
    /\ \A c \in calls : Asking(c) => challenge = c.foe /\ \A d \in DuelNos : Engaged(d) => overlay.duel = d
    /\ \A c \in calls : c.kind = "accept" /\ c.due /\ duels[c.duel].stage = "PENDING" => overlay.duel = c.duel
EnemyFits == overlay.duel # 0 /\ Running(overlay.duel) => overlay.enemy = duels[overlay.duel].foe \/ astray

ClientInv ==
  /\ ClientTyped /\ LettersFit /\ LettersInOrder /\ EndsFollow /\ ShownEndFollows /\ InvitesFit /\ CallsFit
  /\ EngagedFits /\ EnemyFits

LEMMA DuelNosFit == DuelNos \subseteq Nat \ {0} /\ MaxDuels \in Nat
BY DuelClientAssumption DEF DuelNos

LEMMA ClientInitially == ClientInit => ClientInv
<1> SUFFICES ASSUME ClientInit PROVE ClientInv
  OBVIOUS
<1>1. /\ overlay = Closed /\ Closed \in Overlays /\ overlay.duel = 0 /\ overlay.shown = {}
      /\ calls = {} /\ inbox = <<>> /\ Len(inbox) = 0 /\ Inbox = {}
      /\ NoDuel \in DuelRecords /\ NoDuel.stage = "none" /\ NoDuel.invite = FALSE
      /\ \A d \in DuelNos : duels[d] = NoDuel
  BY DEF ClientInit, Closed, Overlays, NoDuel, DuelRecords, Inbox
<1>2. ClientTyped
  <2>1. astray \in BOOLEAN /\ challenge = NoFoe /\ duels \in [DuelNos -> DuelRecords]
    BY <1>1, Zenon DEF ClientInit
  <2> QED
    BY <1>1, <2>1, EmptySeq DEF ClientTyped
<1>3. LettersFit /\ LettersInOrder /\ EndsFollow /\ ShownEndFollows
  BY <1>1 DEF LettersFit, LettersInOrder, EndsFollow, ShownEndFollows
<1>4. InvitesFit /\ CallsFit
  BY <1>1 DEF InvitesFit, Invited, InviteIn, CallsFit, Confirmed
<1>5. EngagedFits /\ EnemyFits
  BY <1>1 DEF EngagedFits, EnemyFits, Engaged, Said
<1> QED
  BY <1>2, <1>3, <1>4, <1>5 DEF ClientInv

(* Letters are added behind the others. *)
LEMMA Written ==
  ASSUME ClientInv, NEW ms \in Seq(Letters), inbox' = inbox \o ms
  PROVE  /\ inbox' \in Seq(Letters) /\ Len(inbox') = Len(inbox) + Len(ms) /\ Len(inbox) \in Nat /\ Len(ms) \in Nat
         /\ \A i \in Inbox : i \in 1..Len(inbox') /\ inbox'[i] = inbox[i]
         /\ \A k \in 1..Len(ms) : Len(inbox) + k \in 1..Len(inbox') /\ inbox'[Len(inbox) + k] = ms[k]
         /\ \A i \in 1..Len(inbox') :
              i \in Inbox \/ \E k \in 1..Len(ms) : i = Len(inbox) + k /\ inbox'[i] = ms[k]
<1>1. inbox \in Seq(Letters) /\ Len(inbox) \in Nat /\ Len(ms) \in Nat
  BY DEF ClientInv, ClientTyped
<1>2. inbox' \in Seq(Letters) /\ Len(inbox') = Len(inbox) + Len(ms)
  BY <1>1, ConcatProperties
<1>3. \A i \in 1..Len(inbox) + Len(ms) :
        (inbox \o ms)[i] = IF i <= Len(inbox) THEN inbox[i] ELSE ms[i - Len(inbox)]
  BY <1>1, ConcatProperties
<1>4. \A i \in Inbox : i \in 1..Len(inbox') /\ inbox'[i] = inbox[i]
  BY <1>1, <1>2, <1>3 DEF Inbox
<1>5. \A k \in 1..Len(ms) : Len(inbox) + k \in 1..Len(inbox') /\ inbox'[Len(inbox) + k] = ms[k]
  <2> TAKE k \in 1..Len(ms)
  <2>1. Len(inbox) + k \in 1..Len(inbox') /\ ~(Len(inbox) + k <= Len(inbox)) /\ (Len(inbox) + k) - Len(inbox) = k
    BY <1>1, <1>2
  <2> QED
    BY <1>2, <1>3, <2>1
<1>6. \A i \in 1..Len(inbox') :
        i \in Inbox \/ \E k \in 1..Len(ms) : i = Len(inbox) + k /\ inbox'[i] = ms[k]
  <2> SUFFICES ASSUME NEW i \in 1..Len(inbox'), i \notin Inbox
               PROVE  \E k \in 1..Len(ms) : i = Len(inbox) + k /\ inbox'[i] = ms[k]
    OBVIOUS
  <2>1. i - Len(inbox) \in 1..Len(ms) /\ i = Len(inbox) + (i - Len(inbox))
    BY <1>1, <1>2 DEF Inbox
  <2> QED
    BY <1>5, <2>1
<1> QED
  BY <1>1, <1>2, <1>4, <1>5, <1>6

(* How a duel goes on. *)
StillRuns(e) ==
  /\ duels[e].stage # "none" => duels'[e].stage # "none"
  /\ duels[e].stage = "over" => duels'[e].stage = "over"
  /\ duels[e].stage = "ACCEPTED" => duels'[e].stage \in {"ACCEPTED", "over"}
  /\ duels[e].stage # "none" /\ duels'[e].stage \in {"PENDING", "ACCEPTED"}
       => duels[e].stage \in {"PENDING", "ACCEPTED"} /\ duels'[e].foe = duels[e].foe

(* What holds of the letters after the server has written some and changed its duels. *)
LEMMA LettersWritten ==
  ASSUME ClientInv, NEW ms \in Seq(Letters), inbox' = inbox \o ms, missed \subseteq missed', overlay' = overlay,
         \A e \in DuelNos : StillRuns(e),
         \A k \in 1..Len(ms) : FitsIn(ms[k], duels'),
         \A e \in DuelNos : \A k \in 1..Len(ms) : \A i \in Inbox : Precedes(inbox[i], ms[k], e),
         \A e \in DuelNos : \A k, l \in 1..Len(ms) : k < l => Precedes(ms[k], ms[l], e),
         \A e \in DuelNos : duels'[e].stage = "over" =>
           \/ duels[e].stage = "over" /\ \A k \in 1..Len(ms) : ~BringsUp(ms[k], e)
           \/ e \in missed'
           \/ \E k \in 1..Len(ms) : EndsIt(ms[k], e) /\ \A l \in 1..Len(ms) : BringsUp(ms[l], e) => l < k
  PROVE  LettersFit' /\ LettersInOrder' /\ EndsFollow' /\ ShownEndFollows'
<1> USE DEF ClientInv
<1>w. /\ inbox' \in Seq(Letters) /\ Len(inbox') = Len(inbox) + Len(ms) /\ Len(inbox) \in Nat /\ Len(ms) \in Nat
      /\ \A i \in Inbox : i \in 1..Len(inbox') /\ inbox'[i] = inbox[i]
      /\ \A k \in 1..Len(ms) : Len(inbox) + k \in 1..Len(inbox') /\ inbox'[Len(inbox) + k] = ms[k]
      /\ \A i \in 1..Len(inbox') :
           i \in Inbox \/ \E k \in 1..Len(ms) : i = Len(inbox) + k /\ inbox'[i] = ms[k]
  BY Written
<1>1. LettersFit'
  <2>1. \A i \in Inbox : FitsIn(inbox[i], duels)
    BY DEF LettersFit
  <2>2. \A i \in 1..Len(inbox') : FitsIn(inbox'[i], duels')
    <3> TAKE i \in 1..Len(inbox')
    <3>1. CASE i \in Inbox
      <4>1. FitsIn(inbox[i], duels) /\ inbox'[i] = inbox[i]
        BY <1>w, <2>1, <3>1
      <4> QED
        BY <4>1 DEF FitsIn, Endings, StillRuns
    <3>2. CASE i \notin Inbox
      BY <1>w, <3>2
    <3> QED
      BY <3>1, <3>2
  <2> QED
    BY <2>2 DEF LettersFit, Inbox
<1>2. LettersInOrder'
  <2> SUFFICES ASSUME NEW d \in DuelNos, NEW i \in 1..Len(inbox'), NEW j \in 1..Len(inbox'), i < j
               PROVE  Precedes(inbox'[i], inbox'[j], d)
    BY DEF LettersInOrder, Inbox, Precedes, EndsIt, Accepts, Grants, Invites
  <2>1. CASE j \in Inbox
    <3>1. i \in Inbox
      BY <1>w, <2>1 DEF Inbox
    <3> QED
      BY <1>w, <2>1, <3>1 DEF LettersInOrder
  <2>2. CASE j \notin Inbox
    <3>1. PICK l \in 1..Len(ms) : j = Len(inbox) + l /\ inbox'[j] = ms[l]
      BY <1>w, <2>2
    <3>2. CASE i \in Inbox
      BY <1>w, <3>1, <3>2
    <3>3. CASE i \notin Inbox
      <4>1. PICK k \in 1..Len(ms) : i = Len(inbox) + k /\ inbox'[i] = ms[k]
        BY <1>w, <3>3
      <4>2. k < l
        BY <1>w, <3>1, <4>1
      <4> QED
        BY <3>1, <4>1, <4>2
    <3> QED
      BY <3>2, <3>3
  <2> QED
    BY <2>1, <2>2
<1>3. EndsFollow'
  <2> SUFFICES ASSUME NEW d \in DuelNos, NEW i \in 1..Len(inbox'),
                      BringsUp(inbox'[i], d), duels'[d].stage = "over", d \notin missed'
               PROVE  \E j \in 1..Len(inbox') : i < j /\ EndsIt(inbox'[j], d)
    BY DEF EndsFollow, EndFollows, Inbox, BringsUp, EndsIt, Accepts, Grants, Invites
  <2>1. CASE duels[d].stage = "over" /\ \A k \in 1..Len(ms) : ~BringsUp(ms[k], d)
    <3>1. i \in Inbox /\ inbox'[i] = inbox[i]
      BY <1>w, <2>1
    <3>2. PICK j \in Inbox : i < j /\ EndsIt(inbox[j], d)
      BY <2>1, <3>1 DEF EndsFollow, EndFollows
    <3> QED
      BY <1>w, <3>2
  <2>2. ASSUME NEW k \in 1..Len(ms), EndsIt(ms[k], d), \A l \in 1..Len(ms) : BringsUp(ms[l], d) => l < k
        PROVE  \E j \in 1..Len(inbox') : i < j /\ EndsIt(inbox'[j], d)
    <3>1. i < Len(inbox) + k
      BY <1>w, <2>2 DEF Inbox
    <3> QED
      BY <1>w, <2>2, <3>1
  <2> QED
    BY <2>1, <2>2
<1>4. ShownEndFollows'
  <2> SUFFICES ASSUME overlay.duel # 0, duels'[overlay.duel].stage = "over", overlay.duel \notin missed'
               PROVE  EndsIn(overlay.duel, inbox')
    BY DEF ShownEndFollows, EndsIn
  <2>1. overlay.duel \in DuelNos
    BY DEF ClientTyped
  <2>2. CASE duels[overlay.duel].stage = "over"
    <3>1. PICK i \in Inbox : inbox[i].duel = overlay.duel /\ inbox[i].kind \in Endings
      BY <2>2 DEF ShownEndFollows, EndsIn, Inbox
    <3> QED
      BY <1>w, <3>1 DEF EndsIn
  <2>3. CASE \E k \in 1..Len(ms) : EndsIt(ms[k], overlay.duel)
    <3>1. PICK k \in 1..Len(ms) : EndsIt(ms[k], overlay.duel)
      BY <2>3
    <3>2. Len(inbox) + k \in 1..Len(inbox') /\ inbox'[Len(inbox) + k] = ms[k]
      BY <1>w
    <3> QED
      BY <3>1, <3>2 DEF EndsIn, EndsIt
  <2> QED
    BY <2>1, <2>2, <2>3
<1> QED
  BY <1>1, <1>2, <1>3, <1>4

(* The letter at the head is taken. *)
LEMMA LettersTaken ==
  ASSUME ClientInv, Took
  PROVE  /\ inbox' \in Seq(Letters) /\ UNCHANGED <<duels, missed>>
         /\ Message \in Letters /\ FitsIn(Message, duels) /\ 1 \in Inbox /\ Message = inbox[1]
         /\ LettersFit' /\ LettersInOrder' /\ EndsFollow'
         /\ \A i \in 1..Len(inbox') : i + 1 \in Inbox /\ inbox'[i] = inbox[i + 1]
         /\ \A i \in 1..Len(inbox') : \A d \in DuelNos : Precedes(Message, inbox'[i], d)
         /\ \A d \in DuelNos : EndsIn(d, inbox) => EndsIn(d, inbox') \/ EndsIt(Message, d)
         /\ \A d \in DuelNos : BringsUp(Message, d) /\ duels[d].stage = "over" => d \in missed \/ EndsIn(d, inbox')
<1> USE DEF ClientInv
<1>1. inbox \in Seq(Letters) /\ inbox # <<>> /\ inbox' = Tail(inbox) /\ UNCHANGED <<duels, missed>>
  BY DEF ClientTyped, Took
<1>2. /\ inbox' \in Seq(Letters) /\ Len(inbox) \in Nat /\ Len(inbox') \in Nat /\ Len(inbox) = Len(inbox') + 1
      /\ Message = inbox[1] /\ Message \in Letters
      /\ \A i \in 1..Len(inbox') : inbox'[i] = inbox[i + 1]
  BY <1>1, HeadTailProperties DEF Message
<1>3. /\ 1 \in Inbox /\ \A i \in 1..Len(inbox') : i + 1 \in Inbox
      /\ \A j \in Inbox : j = 1 \/ (j - 1 \in 1..Len(inbox') /\ inbox'[j - 1] = inbox[j])
  BY <1>2 DEF Inbox
<1>4. LettersFit' /\ LettersInOrder'
  <2>1. \A i \in 1..Len(inbox') : FitsIn(inbox[i + 1], duels)
    BY <1>3 DEF LettersFit
  <2>2. \A i \in 1..Len(inbox') : FitsIn(inbox'[i], duels')
    <3> TAKE i \in 1..Len(inbox')
    <3>1. FitsIn(inbox[i + 1], duels) /\ inbox'[i] = inbox[i + 1]
      BY <1>2, <2>1
    <3> QED
      BY <1>1, <3>1
  <2>3. ASSUME NEW d \in DuelNos, NEW i \in 1..Len(inbox'), NEW j \in 1..Len(inbox'), i < j
        PROVE  Precedes(inbox'[i], inbox'[j], d)
    <3>1. i + 1 \in Inbox /\ j + 1 \in Inbox /\ i + 1 < j + 1
      BY <1>2, <1>3, <2>3
    <3>2. Precedes(inbox[i + 1], inbox[j + 1], d)
      BY <3>1 DEF LettersInOrder
    <3> QED
      BY <1>2, <3>2
  <2>4. LettersInOrder'
    BY <2>3 DEF LettersInOrder, Inbox, Precedes, EndsIt, Accepts, Grants, Invites
  <2> QED
    BY <2>2, <2>4 DEF LettersFit, Inbox
<1>5. EndsFollow'
  <2> SUFFICES ASSUME NEW d \in DuelNos, NEW i \in 1..Len(inbox'),
                      BringsUp(inbox'[i], d), duels'[d].stage = "over", d \notin missed'
               PROVE  \E j \in 1..Len(inbox') : i < j /\ EndsIt(inbox'[j], d)
    BY DEF EndsFollow, EndFollows, Inbox, BringsUp, EndsIt, Accepts, Grants, Invites
  <2>1. PICK j \in Inbox : i + 1 < j /\ EndsIt(inbox[j], d)
    BY <1>1, <1>2, <1>3 DEF EndsFollow, EndFollows
  <2>2. j - 1 \in 1..Len(inbox') /\ i < j - 1 /\ inbox'[j - 1] = inbox[j]
    BY <1>2, <1>3, <2>1 DEF Inbox
  <2> QED
    BY <2>1, <2>2
<1>6. \A i \in 1..Len(inbox') : \A d \in DuelNos : Precedes(Message, inbox'[i], d)
  BY <1>2, <1>3 DEF LettersInOrder
<1>7. \A d \in DuelNos : EndsIn(d, inbox) => EndsIn(d, inbox') \/ EndsIt(Message, d)
  BY <1>2, <1>3 DEF EndsIn, EndsIt, Inbox
<1>8. \A d \in DuelNos : BringsUp(Message, d) /\ duels[d].stage = "over" => d \in missed \/ EndsIn(d, inbox')
  <2> SUFFICES ASSUME NEW d \in DuelNos, BringsUp(Message, d), duels[d].stage = "over", d \notin missed
               PROVE  EndsIn(d, inbox')
    OBVIOUS
  <2>1. PICK j \in Inbox : 1 < j /\ EndsIt(inbox[j], d)
    BY <1>2, <1>3 DEF EndsFollow, EndFollows
  <2>2. j - 1 \in 1..Len(inbox') /\ inbox'[j - 1] = inbox[j]
    BY <1>3, <2>1
  <2> QED
    BY <2>1, <2>2 DEF EndsIn, EndsIt
<1> QED
  BY <1>1, <1>2, <1>3, <1>4, <1>5, <1>6, <1>7, <1>8 DEF LettersFit

LEMMA CallFits ==
  \A kind \in {"request", "accept", "reject"}, f \in Foes \union {NoFoe}, d \in Nat :
    /\ Call(kind, f, d) \in CallRecords /\ Call(kind, f, d).kind = kind /\ Call(kind, f, d).foe = f
    /\ Call(kind, f, d).duel = d /\ Call(kind, f, d).due = TRUE 
    /\ (kind # "reject" => Call(kind, f, d).armed = TRUE) /\ (kind = "reject" => Call(kind, f, d).armed = FALSE)
<1> TAKE kind \in {"request", "accept", "reject"}, f \in Foes \union {NoFoe}, d \in Nat
<1> DEFINE b == kind # "reject"
           r == [kind |-> kind, foe |-> f, duel |-> d, armed |-> b, due |-> TRUE]
<1>1. b \in BOOLEAN /\ Call(kind, f, d) = r
  BY DEF Call
<1> HIDE DEF b
<1>2. r \in CallRecords /\ r.kind = kind /\ r.foe = f /\ r.duel = d /\ r.due = TRUE /\ r.armed = b
  BY <1>1 DEF CallRecords
<1> HIDE DEF r
<1>3. Call(kind, f, d) \in CallRecords /\ Call(kind, f, d).kind = kind /\ Call(kind, f, d).foe = f
      /\ Call(kind, f, d).duel = d /\ Call(kind, f, d).due = TRUE /\ Call(kind, f, d).armed = b
  BY <1>1, <1>2
<1>4. (kind # "reject" => b = TRUE) /\ (kind = "reject" => b = FALSE)
  BY DEF b
<1> QED
  BY <1>3, <1>4

LEMMA ClosedFits == Closed \in Overlays /\ Closed.duel = 0 /\ Closed.shown = {}
BY DEF Closed, Overlays

(* What the player does, a call that lapses, and the connection that comes back. *)
LEMMA PlayerFits ==
  ASSUME ClientInv,
         \/ \E f \in Foes : Challenge(f) \/ PruneStale(f) \/ HandleEncounter(f)
         \/ HandleAccept \/ HandleReject \/ (\E c \in calls : TimesOut(c)) \/ Reconnect
  PROVE  ClientInv'
<1> USE DEF ClientInv
<1>1. UNCHANGED <<inbox, duels, missed>>
  BY DEF Challenge, PruneStale, HandleEncounter, HandleAccept, HandleReject, TimesOut, Reconnect
<1>2. LettersFit' /\ LettersInOrder' /\ EndsFollow'
  BY <1>1 DEF LettersFit, LettersInOrder, EndsFollow, EndFollows, Inbox
<1>3. \A d \in DuelNos : /\ Engaged(d)' <=> Engaged(d)
                         /\ InviteIn(d)' <=> InviteIn(d)
                         /\ Said(d)' <=> Said(d)
                         /\ Confirmed(d)' <=> Confirmed(d)
  BY <1>1 DEF Engaged, InviteIn, Said, Confirmed, Inbox
<1>4. CASE UNCHANGED <<overlay, challenge, calls, astray>>
  <2>1. ClientTyped' /\ ShownEndFollows' /\ InvitesFit' /\ CallsFit' /\ EnemyFits'
    BY <1>1, <1>3, <1>4 DEF ClientTyped, ShownEndFollows, InvitesFit, Invited, CallsFit, EnemyFits, Running
  <2>2. EngagedFits'
    BY <1>1, <1>3, <1>4 DEF EngagedFits, Made, Asking
  <2> QED
    BY <1>2, <2>1, <2>2
<1>5. CASE \E f \in Foes : Challenge(f)
  <2> PICK f \in Foes : Challenge(f)
    BY <1>5
  <2>1. PICK n \in CallRecords : /\ calls' = calls \union {n} /\ n.kind = "request" /\ n.foe = f /\ n.duel = 0 /\ n.due
                            /\ n.armed
    <3> DEFINE m == Call("request", f, 0)
    <3>1. m \in CallRecords /\ m.kind = "request" /\ m.foe = f /\ m.duel = 0 /\ m.due = TRUE /\ m.armed
      BY CallFits
    <3>2. calls' = calls \union {m}
      BY DEF Challenge
    <3> HIDE DEF m
    <3> QED
      BY <3>1, <3>2, Zenon
  <2>2. challenge = NoFoe /\ challenge' = f /\ UNCHANGED <<overlay, astray>> /\ overlay.duel = 0
    BY DEF Challenge, ClientTyped
  <2>3. \A c \in calls : c.kind = "request" => c.foe # challenge
    BY <2>2, DuelClientAssumption DEF CallsFit
  <2>4. ClientTyped' /\ ShownEndFollows' /\ EnemyFits'
    BY <1>1, <1>3, <2>1, <2>2 DEF ClientTyped, ShownEndFollows, EnemyFits
  <2>5. InvitesFit'
    BY <1>1, <1>3, <2>1, <2>2, DuelNosFit DEF InvitesFit, Invited
  <2>6. CallsFit'
    BY <1>1, <1>3, <2>1, <2>2 DEF CallsFit, Running
  <2>7. EngagedFits'
    <3>1. ~astray => \A d \in DuelNos : ~Engaged(d)
      BY <2>2, <2>3, DuelNosFit DEF EngagedFits, Made
    <3> QED
      BY <1>1, <1>3, <2>1, <2>2, <2>3, <3>1 DEF EngagedFits, Asking
  <2> QED
    BY <1>2, <2>4, <2>5, <2>6, <2>7
<1>6. CASE HandleAccept
  <2>1. PICK n \in CallRecords : /\ calls' = calls \union {n} /\ n.kind = "accept" /\ n.duel = overlay.duel /\ n.due
                            /\ n.armed
    <3> DEFINE m == Call("accept", NoFoe, overlay.duel)
    <3>1. overlay.duel \in Nat
      BY DEF ClientTyped, Overlays
    <3>2. m \in CallRecords /\ m.kind = "accept" /\ m.duel = overlay.duel /\ m.due = TRUE /\ m.armed
      BY <3>1, CallFits
    <3>3. calls' = calls \union {m}
      BY <1>6 DEF HandleAccept
    <3> HIDE DEF m
    <3> QED
      BY <3>2, <3>3, Zenon
  <2>2. /\ UNCHANGED <<challenge, astray>> /\ overlay' \in Overlays /\ overlay'.duel = overlay.duel
        /\ overlay'.enemy = overlay.enemy /\ "request" \notin overlay'.shown /\ overlay'.shown # {}
        /\ overlay.duel # 0
    BY <1>6 DEF HandleAccept, ClientTyped, Overlays
  <2>3. ClientTyped' /\ ShownEndFollows' /\ EnemyFits'
    BY <1>1, <1>3, <2>1, <2>2 DEF ClientTyped, ShownEndFollows, EnemyFits, Running
  <2>4. InvitesFit'
    BY <1>1, <1>3, <2>1, <2>2 DEF InvitesFit, Invited
  <2>5. CallsFit'
    BY <1>1, <1>3, <2>1, <2>2 DEF CallsFit, Running, ClientTyped
  <2>6. EngagedFits'
    BY <1>1, <1>3, <2>1, <2>2 DEF EngagedFits, Made, Asking
  <2> QED
    BY <1>2, <2>3, <2>4, <2>5, <2>6
<1>7. CASE HandleReject
  <2>1. PICK n \in CallRecords : /\ calls' = calls \union {n} /\ n.kind = "reject" /\ n.duel = overlay.duel
                            /\ ~n.armed
    <3> DEFINE m == Call("reject", NoFoe, overlay.duel)
    <3>1. overlay.duel \in Nat
      BY DEF ClientTyped, Overlays
    <3>2. m \in CallRecords /\ m.kind = "reject" /\ m.duel = overlay.duel /\ ~m.armed
      BY <3>1, CallFits
    <3>3. calls' = calls \union {m}
      BY <1>7 DEF HandleReject
    <3> HIDE DEF m
    <3> QED
      BY <3>2, <3>3, Zenon
  <2>2. /\ UNCHANGED <<challenge, astray>> /\ overlay' \in Overlays /\ overlay'.duel = 0 /\ overlay'.shown = {}
        /\ "request" \in overlay.shown /\ overlay.duel \in DuelNos
    BY <1>7, ClosedFits DEF HandleReject, ClientTyped
  <2>3. Invited(overlay.duel) /\ ~Engaged(overlay.duel)
    BY <2>2 DEF InvitesFit, Invited, Engaged
  <2>4. ClientTyped' /\ ShownEndFollows' /\ EnemyFits'
    BY <1>1, <1>3, <2>1, <2>2 DEF ClientTyped, ShownEndFollows, EnemyFits
  <2>5. InvitesFit'
    BY <1>1, <1>3, <2>1, <2>2, DuelNosFit DEF InvitesFit, Invited
  <2>6. CallsFit'
    BY <1>1, <1>3, <2>1, <2>2, DuelNosFit DEF CallsFit, Running, ClientTyped
  <2>7. EngagedFits'
    BY <1>1, <1>3, <2>1, <2>2, <2>3 DEF EngagedFits, Made, Asking, InvitesFit
  <2> QED
    BY <1>2, <2>4, <2>5, <2>6, <2>7
<1>8. CASE \E c \in calls : TimesOut(c)
  <2> PICK c \in calls : TimesOut(c)
    BY <1>8
  <2> DEFINE n == [c EXCEPT !.armed = FALSE]
  <2>0. c \in CallRecords
    BY DEF ClientTyped
  <2>1. n \in CallRecords /\ n.kind = c.kind /\ n.foe = c.foe /\ n.duel = c.duel /\ n.due = c.due /\ n.armed = FALSE
    BY <2>0 DEF CallRecords
  <2>2. /\ astray' = TRUE /\ \A k \in calls' : k \in calls \/ k = n
        /\ challenge' \in {challenge, NoFoe} /\ (overlay' = overlay \/ overlay' = Closed)
    BY DEF TimesOut, Unawaited, Disarmed
  <2> HIDE DEF n
  <2>3. ClientTyped' /\ ShownEndFollows' /\ EnemyFits' /\ EngagedFits'
    BY <1>1, <1>3, <2>1, <2>2, ClosedFits DEF ClientTyped, ShownEndFollows, EnemyFits, EngagedFits
  <2>4. InvitesFit'
    BY <1>1, <1>3, <2>1, <2>2, ClosedFits, DuelNosFit DEF InvitesFit, Invited
  <2>5. CallsFit'
    <3>2. \A k \in calls' : (k.armed \/ k.kind = "reject" \/ astray') /\ ~(k.armed /\ k.kind = "reject")
      <4>1. \A k \in calls : ~(k.armed /\ k.kind = "reject")
        BY DEF CallsFit
      <4>2. \A k \in calls' : ~(k.armed /\ k.kind = "reject")
        BY <2>1, <2>2, <4>1
      <4>3. astray'
        BY <2>2
      <4> QED
        BY <4>2, <4>3
    <3>3. \A k \in calls' : k.duel # 0 => k.duel \in DuelNos /\ duels[k.duel].stage # "none"
      BY <2>1, <2>2 DEF CallsFit
    <3>4. \A k \in calls' : k.kind = "request" =>
            k.foe \in Foes /\ (k.duel # 0 => ~k.due /\ (Running(k.duel) => k.foe = duels[k.duel].foe))
      BY <2>1, <2>2 DEF CallsFit
    <3>5. \A k \in calls' : k.kind # "request" => k.duel # 0
      BY <2>1, <2>2 DEF CallsFit
    <3>6. \A d \in DuelNos : Confirmed(d)' => overlay'.duel # d
      BY <1>3, <2>2, ClosedFits, DuelNosFit DEF CallsFit
    <3> QED
      BY <1>1, <3>2, <3>3, <3>4, <3>5, <3>6 DEF CallsFit, Running
  <2> QED
    BY <1>2, <2>3, <2>4, <2>5
<1> QED
  BY <1>4, <1>5, <1>6, <1>7, <1>8 DEF PruneStale, HandleEncounter, Reconnect

(* Whatever is still on its way was before. *)
LEMMA LessUnderWay ==
  ASSUME ClientInv, Took, NEW d \in DuelNos
  PROVE  /\ Engaged(d)' => Engaged(d)
         /\ InviteIn(d)' => InviteIn(d)
         /\ Said(d)' => Said(d)
         /\ Confirmed(d)' => Confirmed(d)
<1>1. UNCHANGED duels /\ \A i \in 1..Len(inbox') : i + 1 \in Inbox /\ inbox'[i] = inbox[i + 1]
  BY LettersTaken
<1>2. InviteIn(d)' => InviteIn(d)
  BY <1>1 DEF InviteIn, Invites, Inbox
<1>3. Said(d)' => Said(d)
  BY <1>1 DEF Said, Accepts, Grants, Inbox
<1>4. Confirmed(d)' => Confirmed(d)
  BY <1>1 DEF Confirmed, Grants, Inbox
<1> QED
  BY <1>1, <1>2, <1>3, <1>4 DEF Engaged

LEMMA InvitesTaken ==
  ASSUME ClientInv, Took, calls' \subseteq calls,
         \A d \in DuelNos : "request" \in overlay'.shown /\ overlay'.duel = d => Invited(d),
         \A d \in DuelNos : duels[d].invite \/ InviteIn(d)' => overlay'.duel # d
  PROVE  InvitesFit'
<1>1. UNCHANGED duels
  BY LettersTaken
<1>2. \A d \in DuelNos :
        /\ Engaged(d)' => Engaged(d)
        /\ InviteIn(d)' => InviteIn(d)
        /\ Said(d)' => Said(d)
        /\ Confirmed(d)' => Confirmed(d)
  BY LessUnderWay
<1>3. \A d \in DuelNos : Invited(d)' => Invited(d)
  BY <1>1, <1>2 DEF Invited
<1>4. InvitesFit
  BY DEF ClientInv
<1> QED
  BY <1>1, <1>2, <1>3, <1>4 DEF InvitesFit

LEMMA TakenQuietly ==
  ASSUME ClientInv, Took, challenge' \in Foes \union {NoFoe}, challenge' = challenge \/ astray',
         overlay' \in Overlays, overlay'.duel = overlay.duel, overlay'.enemy = overlay.enemy,
         "request" \in overlay'.shown => "request" \in overlay.shown, overlay'.shown = {} <=> overlay.shown = {},
         astray' \in BOOLEAN, astray => astray', calls' \subseteq calls,
         \A c \in calls : c.kind = "request" => c \in calls' \/ astray',
         overlay.duel # 0 => ~EndsIt(Message, overlay.duel)
  PROVE  ClientInv'
<1>u. \A d \in DuelNos :
        /\ Engaged(d)' => Engaged(d)
        /\ InviteIn(d)' => InviteIn(d)
        /\ Said(d)' => Said(d)
        /\ Confirmed(d)' => Confirmed(d)
  BY LessUnderWay
<1> USE DEF ClientInv
<1>1. LettersFit' /\ LettersInOrder' /\ EndsFollow' /\ UNCHANGED <<duels, missed>> /\ inbox' \in Seq(Letters)
  BY LettersTaken
<1>2. ClientTyped'
  BY <1>1 DEF ClientTyped
<1>3. ShownEndFollows'
  BY <1>1, LettersTaken DEF ShownEndFollows, ClientTyped
<1>4. InvitesFit'
  <2>1. \A d \in DuelNos : "request" \in overlay'.shown /\ overlay'.duel = d => Invited(d)
    BY DEF Invited
  <2>2. \A d \in DuelNos : duels[d].invite \/ InviteIn(d)' => overlay'.duel # d
    BY <1>u DEF InvitesFit
  <2> QED
    BY <2>1, <2>2, InvitesTaken
<1>5. CallsFit'
  BY <1>1, <1>u DEF CallsFit, Running
<1>6. EngagedFits'
  <2> SUFFICES ASSUME ~astray' PROVE EngagedFits'
    BY DEF EngagedFits
  <2>1. \A d \in DuelNos : Engaged(d)' => Engaged(d)
    BY <1>u
  <2>2. \A d \in DuelNos : (\E c \in calls : Made(c, d)) => \E c \in calls' : Made(c, d)'
    BY DEF Made
  <2> QED
    BY <1>1, <2>1, <2>2 DEF EngagedFits, Asking
<1>7. EnemyFits'
  BY <1>1 DEF EnemyFits, Running
<1> QED
  BY <1>1, <1>2, <1>3, <1>4, <1>5, <1>6, <1>7

LEMMA TakenClosing ==
  ASSUME ClientInv, Took, UNCHANGED challenge, overlay' = Closed, calls' \subseteq calls,
         astray' \in BOOLEAN, astray => astray', EngagedFits'
  PROVE  ClientInv'
<1> USE DEF ClientInv
<1>1. LettersFit' /\ LettersInOrder' /\ EndsFollow' /\ UNCHANGED <<duels, missed>> /\ inbox' \in Seq(Letters)
  BY LettersTaken
<1>2. ClientTyped' /\ ShownEndFollows' /\ EnemyFits'
  BY <1>1, ClosedFits DEF ClientTyped, ShownEndFollows, EnemyFits
<1>3. InvitesFit'
  BY ClosedFits, DuelNosFit, InvitesTaken
<1>4. CallsFit'
  BY <1>1, ClosedFits, DuelNosFit DEF CallsFit, Running
<1> QED
  BY <1>1, <1>2, <1>3, <1>4

(* The screens open, free as they were, for a duel a letter is about. *)
LEMMA TakenOpening ==
  ASSUME ClientInv, Took, NEW d \in DuelNos, BringsUp(Message, d), overlay.duel = 0,
         overlay' \in Overlays, overlay'.duel = d, overlay'.shown # {},
         "request" \in overlay'.shown => Invites(Message, d),
         challenge' \in Foes \union {NoFoe}, astray' = astray, calls' \subseteq calls,
         \A c \in calls : c.kind = "request" => c \in calls' \/ c.duel = d,
         challenge' = challenge \/ Engaged(d),
         Running(d) => overlay'.enemy = duels[d].foe \/ astray
  PROVE  ClientInv'
<1>u. \A e \in DuelNos :
        /\ Engaged(e)' => Engaged(e)
        /\ InviteIn(e)' => InviteIn(e)
        /\ Said(e)' => Said(e)
        /\ Confirmed(e)' => Confirmed(e)
  BY LessUnderWay
<1> USE DEF ClientInv
<1>1. LettersFit' /\ LettersInOrder' /\ EndsFollow' /\ UNCHANGED <<duels, missed>> /\ inbox' \in Seq(Letters)
      /\ 1 \in Inbox /\ Message = inbox[1] /\ FitsIn(Message, duels)
  BY LettersTaken
<1>2. ClientTyped'
  BY <1>1, DuelNosFit DEF ClientTyped, FitsIn, BringsUp, Invites, Grants, Accepts
<1>3. ShownEndFollows'
  BY <1>1, LettersTaken DEF ShownEndFollows
<1>4. \A i \in 1..Len(inbox') : Precedes(Message, inbox'[i], d)
  BY LettersTaken
<1>5. ~InviteIn(d)' /\ (InviteIn(d) \/ Engaged(d)) /\ ~duels[d].invite
  <2>1. CASE Invites(Message, d)
    <3>1. InviteIn(d)
      BY <1>1, <2>1 DEF InviteIn
    <3>2. ~InviteIn(d)'
      BY <1>4, <2>1 DEF InviteIn, Inbox, Precedes, Invites
    <3> QED
      BY <3>1, <3>2 DEF InvitesFit
  <2>2. CASE ~Invites(Message, d)
    <3>1. Engaged(d) /\ ~Invited(d)
      BY <1>1, <2>2 DEF BringsUp, Engaged, Said, InvitesFit
    <3> QED
      BY <3>1, LessUnderWay DEF Invited
  <2> QED
    BY <2>1, <2>2
<1>6. InvitesFit'
  <2>1. \A e \in DuelNos : "request" \in overlay'.shown /\ overlay'.duel = e => Invited(e)
    BY <1>1 DEF Invited, InviteIn
  <2>2. \A e \in DuelNos : duels[e].invite \/ InviteIn(e)' => overlay'.duel # e
    BY <1>5
  <2> QED
    BY <2>1, <2>2, InvitesTaken
<1>7. CallsFit'
  <2>1. ~Confirmed(d)'
    <3>1. CASE Invites(Message, d)
      <4>1. Invited(d) /\ (Confirmed(d) => Said(d))
        BY <1>1, <3>1 DEF Invited, InviteIn, Confirmed, Said
      <4> QED
        BY <1>u, <4>1 DEF InvitesFit
    <3>2. CASE ~Invites(Message, d)
      <4>1. \A i \in 1..Len(inbox') : ~Grants(inbox'[i], d)
        BY <1>4, <3>2 DEF BringsUp, Precedes
      <4> QED
        BY <4>1 DEF Confirmed, Grants, Inbox
    <3> QED
      BY <3>1, <3>2
  <2> QED
    BY <1>1, <1>u, <2>1 DEF CallsFit, Running
<1>8. EngagedFits'
  <2> SUFFICES ASSUME ~astray PROVE EngagedFits'
    BY DEF EngagedFits
  <2>1. \A e \in DuelNos : Engaged(e)' => Engaged(e)
    BY <1>u
  <2>2. \A e, f \in DuelNos : Engaged(e) /\ Engaged(f) => e = f
    BY DuelNosFit DEF EngagedFits
  <2>3. \A e \in DuelNos : Engaged(e) => \E c \in calls : Made(c, e)
    BY DuelNosFit DEF EngagedFits
  <2>4. \A c \in calls : Asking(c) => challenge = c.foe /\ \A e \in DuelNos : ~Engaged(e)
    BY DuelNosFit DEF EngagedFits
  <2>5. \A c \in calls : ~(c.kind = "accept" /\ c.due /\ duels[c.duel].stage = "PENDING")
    BY DEF EngagedFits, CallsFit
  <2>6. \A e \in DuelNos : Engaged(e)' => overlay'.duel = e \/ \E c \in calls' : Made(c, e)'
    <3> SUFFICES ASSUME NEW e \in DuelNos, Engaged(e)', e # d PROVE \E c \in calls' : Made(c, e)'
      OBVIOUS
    <3>1. challenge' = challenge
      BY <2>1, <2>2
    <3>2. PICK c \in calls : Made(c, e)
      BY <2>1, <2>3
    <3>3. c \in calls'
      BY <3>2 DEF Made
    <3> QED
      BY <3>1, <3>2, <3>3 DEF Made
  <2>7. \A c \in calls' : Asking(c) => challenge' = c.foe
    BY <2>4
  <2> QED
    BY <1>1, <2>1, <2>2, <2>4, <2>5, <2>6, <2>7 DEF EngagedFits, Asking
<1>9. EnemyFits'
  BY <1>1 DEF EnemyFits, Running
<1> QED
  BY <1>1, <1>2, <1>3, <1>6, <1>7, <1>8, <1>9

(* The screens close with the end of their duel. *)
LEMMA EndingFits ==
  ASSUME ClientInv, HandleEnding
  PROVE  ClientInv'
<1>1. Took /\ Message.kind \in Endings /\ UNCHANGED <<challenge, calls, astray>>
  BY DEF HandleEnding
<1>2. FitsIn(Message, duels) /\ \A i \in 1..Len(inbox') : \A d \in DuelNos : Precedes(Message, inbox'[i], d)
  BY <1>1, LettersTaken
<1>3. Message.duel \in DuelNos /\ duels[Message.duel].stage = "over" /\ UNCHANGED duels
  BY <1>1, <1>2, LettersTaken DEF FitsIn, Endings
<1>4. CASE overlay.duel # Message.duel
  <2>1. overlay' = overlay /\ overlay \in Overlays /\ challenge \in Foes \union {NoFoe} /\ astray \in BOOLEAN
    BY <1>4 DEF HandleEnding, ClientInv, ClientTyped
  <2> QED
    BY <1>1, <1>4, <2>1, TakenQuietly DEF EndsIt
<1>5. CASE overlay.duel = Message.duel
  <2> PICK d \in DuelNos : d = overlay.duel
    BY <1>3, <1>5
  <2>1. overlay' = Closed /\ d \in DuelNos /\ astray \in BOOLEAN
    BY <1>3, <1>5 DEF HandleEnding, ClientInv, ClientTyped
  <2>2. \A e \in DuelNos : Engaged(e)' => Engaged(e)
    BY <1>1, LessUnderWay
  <2>3. ~Said(d)'
    <3>1. \A i \in 1..Len(inbox') : ~Accepts(inbox'[i], d) /\ ~Grants(inbox'[i], d)
      BY <1>1, <1>2, <1>5, <2>1 DEF Precedes, EndsIt
    <3> QED
      BY <3>1 DEF Said, Accepts, Grants, Inbox
  <2>4. ~Engaged(d)'
    BY <1>3, <1>5, <2>3 DEF Engaged
  <2>5. EngagedFits'
    <3> SUFFICES ASSUME ~astray PROVE EngagedFits'
      BY <1>1 DEF EngagedFits
    <3> USE DEF ClientInv
    <3>1. \A e \in DuelNos : Engaged(e)' => \E c \in calls : Made(c, e)
      BY <2>2, <2>4 DEF EngagedFits
    <3>2. \A e, f \in DuelNos : Engaged(e)' /\ Engaged(f)' => e = f
      BY <2>2, <2>4 DEF EngagedFits
    <3>3. \A c \in calls : Asking(c) => challenge = c.foe /\ \A e \in DuelNos : ~Engaged(e)'
      BY <2>2, <2>4 DEF EngagedFits
    <3>4. \A c \in calls : ~(c.kind = "accept" /\ c.due /\ duels[c.duel].stage = "PENDING")
      BY <1>3, <1>5 DEF EngagedFits
    <3> QED
      BY <1>1, <1>3, <3>1, <3>2, <3>3, <3>4 DEF EngagedFits, Made, Asking
  <2> QED
    BY <1>1, <2>1, <2>5, TakenClosing
<1> QED
  BY <1>4, <1>5

(* An invitation and an acceptance. *)
LEMMA OfferFits ==
  ASSUME ClientInv, HandleDuelRequested \/ HandleDuelAccepted
  PROVE  ClientInv'
<1> DEFINE d == Message.duel
<1>0. /\ Took /\ UNCHANGED <<calls, astray>> /\ Message.kind \in {"requested", "accepted"}
      /\ overlay \in Overlays /\ challenge \in Foes \union {NoFoe} /\ astray \in BOOLEAN
      /\ (overlay.duel = 0 <=> overlay.shown = {})
  BY DEF HandleDuelRequested, HandleDuelAccepted, ClientInv, ClientTyped
<1>1. FitsIn(Message, duels) /\ Message \in Letters /\ 1 \in Inbox /\ Message = inbox[1]
  BY <1>0, LettersTaken
<1>2. d \in DuelNos /\ d \in Nat /\ d # 0 /\ \A e : ~EndsIt(Message, e)
  BY <1>0, <1>1, DuelNosFit DEF FitsIn, EndsIt, Endings
<1> HIDE DEF d
<1>3. CASE UNCHANGED <<overlay, challenge>>
  BY <1>0, <1>2, <1>3, TakenQuietly
<1>4. CASE HandleDuelRequested /\ ~(IsDuelBusy \/ challenge # NoFoe)
  <2>1. /\ Invites(Message, d) /\ overlay.duel = 0 /\ UNCHANGED challenge
        /\ overlay' = [duel |-> d, role |-> "recipient", enemy |-> Message.of, shown |-> {"request"}]
    BY <1>4 DEF HandleDuelRequested, IsDuelBusy, Invites, d
  <2>2. Message.of \in Foes \union {NoFoe} /\ (Running(d) => Message.of = duels[d].foe)
    BY <1>1, <2>1 DEF FitsIn, Invites, Running
  <2>3. overlay' \in Overlays /\ overlay'.duel = d /\ overlay'.shown # {} /\ overlay'.enemy = Message.of
    BY <1>2, <2>1, <2>2 DEF Overlays
  <2>4. BringsUp(Message, d)
    BY <2>1 DEF BringsUp
  <2> QED
    BY <1>0, <1>2, <2>1, <2>2, <2>3, <2>4, TakenOpening
<1>5. CASE HandleDuelAccepted /\ overlay.duel = d /\ overlay' = [overlay EXCEPT !.shown = {"game"}]
           /\ UNCHANGED challenge
  <2>1. /\ overlay' \in Overlays /\ overlay'.duel = overlay.duel /\ overlay'.enemy = overlay.enemy
        /\ "request" \notin overlay'.shown /\ overlay'.shown # {} /\ overlay.shown # {}
    BY <1>0, <1>2, <1>5 DEF Overlays
  <2> QED
    BY <1>0, <1>2, <1>5, <2>1, TakenQuietly
<1>6. CASE HandleDuelAccepted /\ overlay.duel # d /\ Adopts /\ challenge' = NoFoe
           /\ overlay' = [duel |-> d, role |-> "challenger", enemy |-> challenge, shown |-> {"game"}]
  <2>1. Accepts(Message, d) /\ overlay.duel = 0 /\ BringsUp(Message, d)
    BY <1>6 DEF HandleDuelAccepted, Adopts, Accepts, BringsUp, d
  <2>2. /\ overlay' \in Overlays /\ overlay'.duel = d /\ overlay'.shown # {} /\ overlay'.enemy = challenge
        /\ "request" \notin overlay'.shown
    BY <1>0, <1>2, <1>6 DEF Overlays
  <2>3. Engaged(d)
    BY <1>1, <2>1 DEF Engaged, Said
  <2>4. Running(d) => challenge = duels[d].foe \/ astray
    <3> SUFFICES ASSUME Running(d), ~astray PROVE challenge = duels[d].foe
      OBVIOUS
    <3>1. PICK c \in calls : Made(c, d)
      BY <1>2, <2>1, <2>3 DEF ClientInv, EngagedFits
    <3> QED
      BY <1>2, <3>1 DEF ClientInv, CallsFit, Made
  <2> QED
    BY <1>0, <1>2, <1>6, <2>1, <2>2, <2>3, <2>4, TakenOpening
<1>7. HandleDuelRequested => (UNCHANGED <<overlay, challenge>> \/ ~(IsDuelBusy \/ challenge # NoFoe))
  BY DEF HandleDuelRequested
<1>8. HandleDuelAccepted =>
        \/ UNCHANGED <<overlay, challenge>>
        \/ overlay.duel = d /\ overlay' = [overlay EXCEPT !.shown = {"game"}] /\ UNCHANGED challenge
        \/ /\ overlay.duel # d /\ Adopts /\ challenge' = NoFoe
           /\ overlay' = [duel |-> d, role |-> "challenger", enemy |-> challenge, shown |-> {"game"}]
  BY DEF HandleDuelAccepted, d
<1> QED
  BY <1>3, <1>4, <1>5, <1>6, <1>7, <1>8

(* The answers to the player's own calls, and the refusals that name no duel. *)
LEMMA ReplyFits ==
  ASSUME ClientInv, HandleException \/ HandleRequestAck \/ HandleAcceptAck
  PROVE  ClientInv'
<1> DEFINE d == Message.duel
<1>0. /\ Took /\ Message.kind \in {"exception", "ok", "error"}
      /\ overlay \in Overlays /\ challenge \in Foes \union {NoFoe} /\ astray \in BOOLEAN
      /\ (overlay.duel = 0 <=> overlay.shown = {})
  BY DEF HandleException, HandleRequestAck, HandleAcceptAck, ClientInv, ClientTyped
<1>1. FitsIn(Message, duels) /\ Message \in Letters /\ 1 \in Inbox /\ Message = inbox[1]
      /\ \A e : ~EndsIt(Message, e)
  BY <1>0, LettersTaken DEF EndsIt, Endings
<1>2. CASE UNCHANGED <<overlay, challenge, calls, astray>>
  BY <1>0, <1>1, <1>2, TakenQuietly
<1>3. CASE overlay' = Closed /\ astray' = TRUE /\ UNCHANGED challenge /\ calls' \subseteq calls
  <2>1. EngagedFits'
    BY <1>3 DEF EngagedFits
  <2> QED
    BY <1>0, <1>3, <2>1, TakenClosing
<1>4. CASE HandleAcceptAck /\ UNCHANGED <<overlay, astray>>
  <2>1. UNCHANGED challenge /\ calls' \subseteq calls /\ \A c \in calls : c.kind = "request" => c \in calls'
    BY <1>4 DEF HandleAcceptAck, Awaited
  <2> QED
    BY <1>0, <1>1, <1>4, <2>1, TakenQuietly
<1>5. ASSUME HandleRequestAck, NEW c \in Awaited("request", d), calls' = calls \ {c}, challenge' = NoFoe,
             overlay.duel \notin {0, d}, astray' = TRUE, overlay' = overlay
      PROVE  ClientInv'
  <2>1. calls' \subseteq calls
    BY <1>5
  <2> QED
    BY <1>0, <1>1, <1>5, <2>1, TakenQuietly
<1>6. ASSUME HandleRequestAck, NEW c \in Awaited("request", d), calls' = calls \ {c}, challenge' = NoFoe,
             overlay.duel \in {0, d}, UNCHANGED astray,
             overlay' = [duel |-> d, role |-> "challenger", enemy |-> c.foe,
                         shown |-> IF "game" \in overlay.shown THEN overlay.shown
                                   ELSE overlay.shown \union {"pending"}]
      PROVE  ClientInv'
  <2>1. Grants(Message, d) /\ d \in DuelNos /\ d \in Nat /\ d # 0
    BY <1>1, <1>6, DuelNosFit DEF HandleRequestAck, Grants, FitsIn
  <2>2. Confirmed(d) /\ Engaged(d) /\ BringsUp(Message, d)
    BY <1>1, <2>1 DEF Confirmed, Engaged, Said, BringsUp
  <2>3. overlay.duel = 0 /\ overlay.shown = {}
    BY <1>0, <1>6, <2>1, <2>2 DEF ClientInv, CallsFit
  <2>4. c \in calls /\ c \in CallRecords /\ c.kind = "request" /\ c.duel = d
    BY DEF Awaited, ClientInv, ClientTyped
  <2>5. c.foe \in Foes /\ (Running(d) => c.foe = duels[d].foe)
    BY <2>1, <2>4 DEF ClientInv, CallsFit
  <2>6. /\ overlay' \in Overlays /\ overlay'.duel = d /\ overlay'.shown # {} /\ overlay'.enemy = c.foe
        /\ "request" \notin overlay'.shown
    <3>1. overlay' = [duel |-> d, role |-> "challenger", enemy |-> c.foe, shown |-> {"pending"}]
      BY <1>6, <2>3
    <3> QED
      BY <2>1, <2>5, <3>1 DEF Overlays
  <2>7. calls' \subseteq calls /\ \A k \in calls : k.kind = "request" => k \in calls' \/ k.duel = d
    BY <1>6, <2>4
  <2> QED
    BY <1>0, <1>6, <2>1, <2>2, <2>3, <2>5, <2>6, <2>7, TakenOpening
<1>7. HandleException => \/ UNCHANGED <<overlay, challenge, calls, astray>>
                         \/ overlay' = Closed /\ astray' = TRUE /\ UNCHANGED challenge /\ calls' \subseteq calls
  BY DEF HandleException
<1>8. HandleAcceptAck => \/ UNCHANGED <<overlay, astray>>
                         \/ overlay' = Closed /\ astray' = TRUE /\ UNCHANGED challenge /\ calls' \subseteq calls
  BY DEF HandleAcceptAck
<1>9. HandleRequestAck =>
        \/ UNCHANGED <<overlay, challenge, calls, astray>>
        \/ \E c \in Awaited("request", d) :
             /\ calls' = calls \ {c} /\ challenge' = NoFoe
             /\ \/ overlay.duel \notin {0, d} /\ astray' = TRUE /\ overlay' = overlay
                \/ /\ overlay.duel \in {0, d} /\ UNCHANGED astray
                   /\ overlay' = [duel |-> d, role |-> "challenger", enemy |-> c.foe,
                                  shown |-> IF "game" \in overlay.shown THEN overlay.shown
                                            ELSE overlay.shown \union {"pending"}]
  BY Zenon DEF HandleRequestAck
<1> HIDE DEF d
<1>10. CASE HandleRequestAck
  BY <1>2, <1>5, <1>6, <1>9, <1>10
<1> QED
  BY <1>2, <1>3, <1>4, <1>7, <1>8, <1>10


(* A call the server has handled, or that is lost, is at most awaited. *)
CallsKept ==
  /\ calls' \subseteq CallRecords
  /\ \A n \in calls' : \E c \in calls :
       /\ n.kind = c.kind /\ n.foe = c.foe /\ n.duel = c.duel /\ n.armed = c.armed
       /\ n = c \/ n.due = FALSE
  /\ \A c \in calls : c \in calls' \/ c.due

LEMMA HandledKept ==
  ASSUME ClientInv, NEW c \in calls, c.due
  PROVE  /\ Handled(c) \subseteq CallRecords
         /\ \A n \in Handled(c) : \E k \in calls :
              /\ n.kind = k.kind /\ n.foe = k.foe /\ n.duel = k.duel /\ n.armed = k.armed
              /\ n = k \/ n.due = FALSE
         /\ \A k \in calls : k \in Handled(c) \/ k.due
<1> DEFINE n == [c EXCEPT !.due = FALSE]
<1>1. c \in CallRecords /\ calls \subseteq CallRecords
  BY DEF ClientInv, ClientTyped
<1>2. n \in CallRecords /\ n.kind = c.kind /\ n.foe = c.foe /\ n.duel = c.duel /\ n.armed = c.armed /\ n.due = FALSE
  BY <1>1 DEF CallRecords
<1>3. Handled(c) = (calls \ {c}) \union IF c.armed THEN {n} ELSE {}
  BY DEF Handled
<1> HIDE DEF n
<1>4. \A k \in Handled(c) : k \in calls \/ k = n
  BY <1>3
<1>5. \A k \in calls : k \in Handled(c) \/ k = c
  BY <1>3
<1> QED
  BY <1>1, <1>2, <1>4, <1>5

LEMMA CallsFitOn ==
  ASSUME ClientInv, UNCHANGED <<overlay, astray>>, CallsKept, \A e \in DuelNos : StillRuns(e),
         \A e \in DuelNos : Confirmed(e)' => Confirmed(e)
  PROVE  CallsFit'
<1>1. CallsFit
  BY DEF ClientInv
<1>2. \A n \in calls' : n.duel # 0 => n.duel \in DuelNos /\ duels'[n.duel].stage # "none"
  BY <1>1 DEF CallsKept, CallsFit, StillRuns
<1>3. \A n \in calls' : n.kind = "request" =>
        /\ n.foe \in Foes
        /\ n.duel # 0 => ~n.due /\ (duels'[n.duel].stage \in {"PENDING", "ACCEPTED"} => n.foe = duels'[n.duel].foe)
  <2> SUFFICES ASSUME NEW n \in calls', n.kind = "request"
               PROVE  /\ n.foe \in Foes
                      /\ n.duel # 0 => ~n.due /\ (duels'[n.duel].stage \in {"PENDING", "ACCEPTED"} => n.foe = duels'[n.duel].foe)
    OBVIOUS
  <2>1. PICK c \in calls : n.kind = c.kind /\ n.foe = c.foe /\ n.duel = c.duel /\ (n = c \/ n.due = FALSE)
    BY DEF CallsKept
  <2>2. c.foe \in Foes /\ (c.duel # 0 => ~c.due /\ c.duel \in DuelNos /\ duels[c.duel].stage # "none"
                           /\ (duels[c.duel].stage \in {"PENDING", "ACCEPTED"} => c.foe = duels[c.duel].foe))
    BY <1>1, <2>1 DEF CallsFit, Running
  <2> QED
    BY <2>1, <2>2 DEF StillRuns
<1>4. \A n \in calls' : (n.kind # "request" => n.duel # 0) /\ (n.armed \/ n.kind = "reject" \/ astray') /\ ~(n.armed /\ n.kind = "reject")
  BY <1>1 DEF CallsKept, CallsFit
<1>5. \A e \in DuelNos : Confirmed(e)' => overlay'.duel # e
  BY <1>1 DEF CallsFit
<1> QED
  BY <1>2, <1>3, <1>4, <1>5 DEF CallsFit, Running

LEMMA InvitesFitOn ==
  ASSUME ClientInv, UNCHANGED overlay, CallsKept,
         \A e \in DuelNos :
           /\ InviteIn(e)' => InviteIn(e)
           /\ duels'[e].invite => duels[e].invite
           /\ Invited(e) => ~duels'[e].mine /\ duels'[e].stage \in {"PENDING", "over"} /\ ~Said(e)'
  PROVE  InvitesFit'
<1>1. InvitesFit
  BY DEF ClientInv
<1>2. \A e \in DuelNos : Invited(e)' => Invited(e)
  BY DEF Invited
<1>3. \A e \in DuelNos : Invited(e) => \A n \in calls' : n.duel # e
  BY <1>1 DEF InvitesFit, CallsKept
<1> QED
  BY <1>1, <1>2, <1>3 DEF InvitesFit

LEMMA EngagedFitsOn ==
  ASSUME ClientInv, UNCHANGED <<overlay, challenge, astray>>, CallsKept,
         \A e \in DuelNos : Engaged(e)' => Engaged(e) \/ overlay.duel = e,
         \A e \in DuelNos : duels'[e].stage = "PENDING" => duels[e].stage \in {"none", "PENDING"}
  PROVE  EngagedFits'
<1> SUFFICES ASSUME ~astray PROVE EngagedFits'
  BY DEF EngagedFits
<1>1. EngagedFits /\ CallsFit
  BY DEF ClientInv
<1>2. \A e \in DuelNos : Engaged(e)' => overlay.duel = e \/ \E n \in calls' : Made(n, e)'
  <2>1. \A c \in calls : \A e \in DuelNos : Made(c, e) => c \in calls'
    BY DEF CallsKept, Made
  <2> QED
    BY <1>1, <2>1 DEF EngagedFits, Made
<1>3. \A d, e \in DuelNos : Engaged(d)' /\ Engaged(e)' => d = e \/ overlay.duel \in {d, e}
  BY <1>1 DEF EngagedFits
<1>4. \A n \in calls' : Asking(n) => n \in calls
  BY DEF CallsKept, Asking
<1>5. \A n \in calls' : Asking(n) => challenge = n.foe /\ \A e \in DuelNos : Engaged(e)' => overlay.duel = e
  BY <1>1, <1>4 DEF EngagedFits
<1>6. \A n \in calls' : n.kind = "accept" /\ n.due /\ duels'[n.duel].stage = "PENDING" => overlay.duel = n.duel
  <2> SUFFICES ASSUME NEW n \in calls', n.kind = "accept", n.due, duels'[n.duel].stage = "PENDING"
               PROVE  overlay.duel = n.duel
    OBVIOUS
  <2>1. n \in calls
    BY DEF CallsKept
  <2>2. n.duel \in DuelNos /\ duels[n.duel].stage = "PENDING"
    BY <1>1, <2>1 DEF CallsFit
  <2> QED
    BY <1>1, <2>1, <2>2 DEF EngagedFits
<1> QED
  BY <1>2, <1>3, <1>5, <1>6 DEF EngagedFits, Asking

(* Types, and the enemy shown, when the server's duels go on. *)
LEMMA ShownFitsOn ==
  ASSUME ClientInv, UNCHANGED <<overlay, challenge, astray>>, \A e \in DuelNos : StillRuns(e),
         calls' \subseteq CallRecords, inbox' \in Seq(Letters), duels' \in [DuelNos -> DuelRecords]
  PROVE  ClientTyped' /\ EnemyFits'
<1>1. ClientTyped /\ EnemyFits
  BY DEF ClientInv
<1>2. ClientTyped'
  BY <1>1 DEF ClientTyped, StillRuns
<1>3. EnemyFits'
  BY <1>1 DEF EnemyFits, Running, StillRuns, ClientTyped
<1> QED
  BY <1>2, <1>3

(* What the letters written add to what is under way. *)
LEMMA MoreUnderWay ==
  ASSUME ClientInv, NEW ms \in Seq(Letters), inbox' = inbox \o ms, NEW d \in DuelNos
  PROVE  /\ InviteIn(d)' <=> InviteIn(d) \/ \E k \in 1..Len(ms) : Invites(ms[k], d)
         /\ Said(d)' <=> Said(d) \/ \E k \in 1..Len(ms) : Accepts(ms[k], d) \/ Grants(ms[k], d)
         /\ Confirmed(d)' <=> Confirmed(d) \/ \E k \in 1..Len(ms) : Grants(ms[k], d)
<1>w. /\ \A i \in Inbox : i \in 1..Len(inbox') /\ inbox'[i] = inbox[i]
      /\ \A k \in 1..Len(ms) : \E i \in 1..Len(inbox') : inbox'[i] = ms[k]
      /\ \A i \in 1..Len(inbox') : i \in Inbox \/ \E k \in 1..Len(ms) : inbox'[i] = ms[k]
  BY Written
<1>i. Inbox' = 1..Len(inbox')
  BY DEF Inbox
<1>1. InviteIn(d)' <=> InviteIn(d) \/ \E k \in 1..Len(ms) : Invites(ms[k], d)
  <2>1. InviteIn(d)' <=> \E i \in 1..Len(inbox') : Invites(inbox'[i], d)
    BY <1>i DEF InviteIn, Invites
  <2> QED
    BY <1>w, <2>1 DEF InviteIn
<1>2. Said(d)' <=> Said(d) \/ \E k \in 1..Len(ms) : Accepts(ms[k], d) \/ Grants(ms[k], d)
  <2>1. Said(d)' <=> \E i \in 1..Len(inbox') : Accepts(inbox'[i], d) \/ Grants(inbox'[i], d)
    BY <1>i DEF Said, Accepts, Grants
  <2> QED
    BY <1>w, <2>1 DEF Said
<1>3. Confirmed(d)' <=> Confirmed(d) \/ \E k \in 1..Len(ms) : Grants(ms[k], d)
  <2>1. Confirmed(d)' <=> \E i \in 1..Len(inbox') : Grants(inbox'[i], d)
    BY <1>i DEF Confirmed, Grants
  <2> QED
    BY <1>w, <2>1 DEF Confirmed
<1> QED
  BY <1>1, <1>2, <1>3

(* The letters, as they are written. *)
LEMMA EventIs ==
  ASSUME NEW d \in Nat, NEW k \in {"accepted", "rejected", "expired", "completed", "voided"}
  PROVE  \E m \in Letters : m = Event(k, d) /\ m.kind = k /\ m.duel = d
<1>1. Event(k, d) \in Letters /\ Event(k, d).kind = k /\ Event(k, d).duel = d
  BY DEF Event, Letters, Codes, Endings
<1> QED
  BY <1>1, Zenon

LEMMA AckIs ==
  ASSUME NEW d \in Nat, NEW k \in {"request", "accept"}, NEW ok \in BOOLEAN
  PROVE  \E m \in Letters : m = Ack(k, d, ok) /\ m.kind \in {"ok", "error"} /\ (ok => m.kind = "ok")
                          /\ m.of = k /\ m.duel = d
<1> DEFINE v == IF ok THEN "ok" ELSE "error"
<1>0. ok => v = "ok"
  OBVIOUS
<1>1. v \in {"ok", "error"} /\ Ack(k, d, ok) = [kind |-> v, duel |-> d, code |-> "none", of |-> k]
  BY DEF Ack
<1> HIDE DEF v
<1>2. /\ Ack(k, d, ok) \in Letters /\ Ack(k, d, ok).kind = v /\ Ack(k, d, ok).of = k /\ Ack(k, d, ok).duel = d
  BY <1>1 DEF Letters, Codes
<1> QED
  BY <1>0, <1>1, <1>2, Zenon

LEMMA ConfirmationIs ==
  ASSUME NEW d \in Nat
  PROVE  \E m \in Letters : m = Ack("request", d, TRUE) /\ m.kind = "ok" /\ m.of = "request" /\ m.duel = d
<1>1. Ack("request", d, TRUE) = [kind |-> "ok", duel |-> d, code |-> "none", of |-> "request"]
  BY DEF Ack
<1>2. LET m == [kind |-> "ok", duel |-> d, code |-> "none", of |-> "request"]
      IN  m \in Letters /\ m.kind = "ok" /\ m.of = "request" /\ m.duel = d
  BY DEF Letters, Codes
<1> QED
  BY <1>1, <1>2, Zenon

LEMMA RefusalIs ==
  ASSUME NEW code \in {"REQUEST", "SHIELDED", "OTHER", "ANSWER"}
  PROVE  \E m \in Letters : m = Throws(code) /\ m.kind = "exception" /\ m.code = code
<1>1. Throws(code) \in Letters /\ Throws(code).kind = "exception" /\ Throws(code).code = code
  BY DEF Throws, Letters, Codes
<1> QED
  BY <1>1, Zenon

(* One letter is written, or none. *)
LEMMA OneMore ==
  ASSUME ClientInv, NEW m \in Letters, inbox' = Append(inbox, m)
  PROVE  /\ <<m>> \in Seq(Letters) /\ inbox' = inbox \o <<m>> /\ Len(<<m>>) = 1 /\ <<m>>[1] = m
         /\ \A d \in DuelNos : /\ InviteIn(d)' <=> InviteIn(d) \/ Invites(m, d)
                               /\ Said(d)' <=> Said(d) \/ Accepts(m, d) \/ Grants(m, d)
                               /\ Confirmed(d)' <=> Confirmed(d) \/ Grants(m, d)
<1> DEFINE ms == <<m>>
<1>1. ms \in Seq(Letters) /\ Len(ms) = 1 /\ ms[1] = m /\ 1..1 = {1}
  OBVIOUS
<1>2. inbox \in Seq(Letters)
  BY DEF ClientInv, ClientTyped
<1>3. inbox' = inbox \o ms
  BY <1>2, AppendIsConcat
<1> HIDE DEF ms
<1>4. \A d \in DuelNos :
        /\ InviteIn(d)' <=> InviteIn(d) \/ \E k \in 1..Len(ms) : Invites(ms[k], d)
        /\ Said(d)' <=> Said(d) \/ \E k \in 1..Len(ms) : Accepts(ms[k], d) \/ Grants(ms[k], d)
        /\ Confirmed(d)' <=> Confirmed(d) \/ \E k \in 1..Len(ms) : Grants(ms[k], d)
  BY <1>1, <1>3, MoreUnderWay
<1>5. \A d \in DuelNos : /\ InviteIn(d)' <=> InviteIn(d) \/ Invites(m, d)
                         /\ Said(d)' <=> Said(d) \/ Accepts(m, d) \/ Grants(m, d)
                         /\ Confirmed(d)' <=> Confirmed(d) \/ Grants(m, d)
  BY <1>1, <1>4
<1> QED
  BY <1>1, <1>3, <1>5 DEF ms

LEMMA OneWritten ==
  ASSUME ClientInv, UNCHANGED <<overlay, challenge, astray, missed>>, NEW m \in Letters, inbox' = Append(inbox, m),
         duels' \in [DuelNos -> DuelRecords], calls' \subseteq CallRecords, \A e \in DuelNos : StillRuns(e),
         FitsIn(m, duels'), \A e \in DuelNos : \A i \in Inbox : Precedes(inbox[i], m, e),
         \A e \in DuelNos : duels'[e].stage = "over" => EndsIt(m, e) \/ (duels[e].stage = "over" /\ ~BringsUp(m, e)),
         InvitesFit', CallsFit', EngagedFits'
  PROVE  ClientInv'
<1> DEFINE ms == <<m>>
<1>1. ms \in Seq(Letters) /\ inbox' = inbox \o ms /\ Len(ms) = 1 /\ ms[1] = m /\ 1..1 = {1}
  BY OneMore
<1> HIDE DEF ms
<1>2. inbox' \in Seq(Letters)
  BY <1>1, Written
<1>3. \A e \in DuelNos : EndsIt(m, e) => ~BringsUp(m, e)
  BY DEF EndsIt, BringsUp, Endings, Invites, Grants, Accepts
<1>4. LettersFit' /\ LettersInOrder' /\ EndsFollow' /\ ShownEndFollows'
  <2>1. \A k \in 1..Len(ms) : FitsIn(ms[k], duels')
    BY <1>1
  <2>2. \A e \in DuelNos : \A k \in 1..Len(ms) : \A i \in Inbox : Precedes(inbox[i], ms[k], e)
    BY <1>1
  <2>3. \A e \in DuelNos : \A k, l \in 1..Len(ms) : k < l => Precedes(ms[k], ms[l], e)
    BY <1>1
  <2>4. \A e \in DuelNos : duels'[e].stage = "over" =>
          \/ duels[e].stage = "over" /\ \A k \in 1..Len(ms) : ~BringsUp(ms[k], e)
          \/ e \in missed'
          \/ \E k \in 1..Len(ms) : EndsIt(ms[k], e) /\ \A l \in 1..Len(ms) : BringsUp(ms[l], e) => l < k
    BY <1>1, <1>3
  <2> QED
    BY <1>1, <2>1, <2>2, <2>3, <2>4, LettersWritten
<1>5. ClientTyped' /\ EnemyFits'
  BY <1>2, ShownFitsOn
<1> QED
  BY <1>4, <1>5 DEF ClientInv

LEMMA NoneWritten ==
  ASSUME ClientInv, UNCHANGED <<overlay, challenge, astray, inbox>>, missed \subseteq missed',
         duels' \in [DuelNos -> DuelRecords], calls' \subseteq CallRecords, \A e \in DuelNos : StillRuns(e),
         \A e \in DuelNos : duels'[e].stage = "over" => duels[e].stage = "over" \/ e \in missed',
         InvitesFit', CallsFit', EngagedFits'
  PROVE  ClientInv'
<1> DEFINE ms == <<>>
<1>1. inbox \in Seq(Letters)
  BY DEF ClientInv, ClientTyped
<1>2. ms \in Seq(Letters) /\ Len(ms) = 0 /\ 1..0 = {} /\ inbox' = inbox \o ms
  BY <1>1, ConcatEmptySeq, EmptySeq
<1> HIDE DEF ms
<1>3. LettersFit' /\ LettersInOrder' /\ EndsFollow' /\ ShownEndFollows'
  BY <1>2, LettersWritten
<1>4. ClientTyped' /\ EnemyFits'
  BY <1>1, ShownFitsOn
<1> QED
  BY <1>3, <1>4 DEF ClientInv

(* A call is refused. *)
LEMMA RefusalFits ==
  ASSUME ClientInv, UNCHANGED <<overlay, challenge, astray, duels, missed>>, NEW c \in calls, c.due,
         calls' = Handled(c), NEW code \in {"REQUEST", "SHIELDED", "OTHER", "ANSWER"},
         inbox' = Append(inbox, Throws(code))
  PROVE  ClientInv'
<1>1. PICK m \in Letters : m = Throws(code) /\ m.kind = "exception" /\ m.code = code
  BY RefusalIs
<1>2. CallsKept
  BY HandledKept DEF CallsKept
<1>3. \A d \in DuelNos : ~Invites(m, d) /\ ~Accepts(m, d) /\ ~Grants(m, d) /\ ~BringsUp(m, d)
  BY <1>1 DEF Invites, Accepts, Grants, BringsUp
<1>4. \A d \in DuelNos : (InviteIn(d)' <=> InviteIn(d)) /\ (Said(d)' <=> Said(d)) /\ (Confirmed(d)' <=> Confirmed(d))
  BY <1>1, <1>3, OneMore
<1>5. \A e \in DuelNos : StillRuns(e) /\ (Engaged(e)' <=> Engaged(e))
  BY <1>4 DEF StillRuns, Engaged
<1>6. CallsFit' /\ EngagedFits'
  BY <1>2, <1>4, <1>5, CallsFitOn, EngagedFitsOn
<1>7. InvitesFit'
  <2>1. \A e \in DuelNos : Invited(e) => ~duels[e].mine /\ duels[e].stage \in {"PENDING", "over"} /\ ~Said(e)
    BY DEF ClientInv, InvitesFit
  <2> QED
    BY <1>2, <1>4, <2>1, InvitesFitOn
<1>8. duels \in [DuelNos -> DuelRecords] /\ calls' \subseteq CallRecords
  BY <1>2 DEF ClientInv, ClientTyped, CallsKept
<1>9. FitsIn(m, duels) /\ \A e \in DuelNos : \A i \in Inbox : Precedes(inbox[i], m, e)
  BY <1>1, <1>3 DEF FitsIn, Precedes, Endings
<1> QED
  BY <1>1, <1>3, <1>5, <1>6, <1>7, <1>8, <1>9, OneWritten


(* A duel of the server's takes a step. *)
LEMMA DuelMoves ==
  ASSUME ClientInv, NEW d \in DuelNos, NEW n \in DuelRecords, duels' = [duels EXCEPT ![d] = n]
  PROVE  /\ duels' \in [DuelNos -> DuelRecords] /\ duels'[d] = n
         /\ \A e \in DuelNos : e # d => duels'[e] = duels[e]
BY DEF ClientInv, ClientTyped

LEMMA OverFits ==
  ASSUME NEW r \in DuelRecords
  PROVE  /\ OverNow(r) \in DuelRecords /\ OverNow(r).stage = "over" /\ OverNow(r).mine = FALSE
         /\ OverNow(r).invite = r.invite
<1> DEFINE v == r.invite
<1>1. v \in BOOLEAN
  BY DEF DuelRecords
<1>2. OverNow(r) = [NoDuel EXCEPT !.stage = "over", !.invite = v]
  BY DEF OverNow
<1> HIDE DEF v
<1>3. OverNow(r) \in DuelRecords /\ OverNow(r).stage = "over" /\ OverNow(r).mine = FALSE /\ OverNow(r).invite = v
  BY <1>1, <1>2 DEF DuelRecords, NoDuel
<1> QED
  BY <1>3 DEF v

LEMMA AcceptedFits ==
  ASSUME NEW r \in DuelRecords
  PROVE  LET n == [r EXCEPT !.stage = "ACCEPTED"]
         IN  n \in DuelRecords /\ n.stage = "ACCEPTED" /\ n.foe = r.foe /\ n.mine = r.mine /\ n.invite = r.invite
BY DEF DuelRecords

(* Of a duel that is not there yet nothing is on its way, and no call is about it. *)
LEMMA NothingOfUnborn ==
  ASSUME ClientInv, NEW d \in DuelNos, duels[d].stage = "none"
  PROVE  /\ \A i \in Inbox : ~Invites(inbox[i], d) /\ ~Accepts(inbox[i], d) /\ ~Grants(inbox[i], d)
                             /\ ~EndsIt(inbox[i], d)
         /\ ~InviteIn(d) /\ ~Said(d) /\ ~Confirmed(d) /\ ~Engaged(d) /\ overlay.duel # d
         /\ \A c \in calls : c.duel # d
<1>1. \A i \in Inbox : ~Invites(inbox[i], d) /\ ~Accepts(inbox[i], d) /\ ~Grants(inbox[i], d)
                       /\ ~EndsIt(inbox[i], d)
  BY DEF ClientInv, LettersFit, FitsIn, Invites, Accepts, Grants, EndsIt, Endings
<1>2. ~InviteIn(d) /\ ~Said(d) /\ ~Confirmed(d)
  BY <1>1 DEF InviteIn, Said, Confirmed
<1>3. ~Engaged(d)
  BY <1>2 DEF Engaged
<1>4. overlay.duel # d
  BY DuelNosFit DEF ClientInv, ClientTyped
<1>5. \A c \in calls : c.duel # d
  BY DuelNosFit DEF ClientInv, CallsFit
<1> QED
  BY <1>1, <1>2, <1>3, <1>4, <1>5

(* The request that makes a duel. *)
LEMMA RequestFits ==
  ASSUME ClientInv, UNCHANGED <<overlay, challenge, astray, missed>>,
         NEW c \in calls, c.kind = "request", c.due, NEW d \in DuelNos, duels[d].stage = "none",
         duels' = [duels EXCEPT ![d] = [stage |-> "PENDING", foe |-> c.foe, mine |-> TRUE, invite |-> FALSE]],
         inbox' = Append(inbox, Ack("request", d, TRUE)),
         calls' = (calls \ {c}) \union IF c.armed THEN {[c EXCEPT !.due = FALSE, !.duel = d]} ELSE {}
  PROVE  ClientInv'
<1> DEFINE n == [stage |-> "PENDING", foe |-> c.foe, mine |-> TRUE, invite |-> FALSE]
           w == [c EXCEPT !.due = FALSE, !.duel = d]
<1>0. c \in CallRecords /\ calls \subseteq CallRecords /\ d \in Nat /\ d # 0 /\ c.foe \in Foes
  BY DuelNosFit DEF ClientInv, ClientTyped, CallsFit
<1>1. n \in DuelRecords /\ n.stage = "PENDING" /\ n.foe = c.foe /\ n.mine = TRUE /\ n.invite = FALSE
  BY <1>0 DEF DuelRecords
<1>2. w \in CallRecords /\ w.kind = "request" /\ w.foe = c.foe /\ w.duel = d /\ w.armed = c.armed /\ w.due = FALSE
  BY <1>0 DEF CallRecords
<1> HIDE DEF n, w
<1>3. duels' = [duels EXCEPT ![d] = n]
  BY DEF n
<1>4. /\ duels' \in [DuelNos -> DuelRecords] /\ duels'[d] = n
      /\ \A e \in DuelNos : e # d => duels'[e] = duels[e]
  BY <1>1, <1>3, DuelMoves
<1>5. /\ \A k \in calls' : (k \in calls /\ k # c) \/ (k = w /\ c.armed)
      /\ \A k \in calls : k # c => k \in calls'
      /\ c.armed => w \in calls'
  BY DEF w
<1>6. PICK m \in Letters : m = Ack("request", d, TRUE) /\ m.kind = "ok" /\ m.of = "request" /\ m.duel = d
  BY <1>0, ConfirmationIs
<1>7. /\ Grants(m, d) /\ \A e \in DuelNos : e # d => ~Grants(m, e) /\ ~BringsUp(m, e)
      /\ \A e \in DuelNos : ~Invites(m, e) /\ ~Accepts(m, e)
  BY <1>6 DEF Grants, Invites, Accepts, BringsUp
<1>8. /\ \A i \in Inbox : ~Invites(inbox[i], d) /\ ~Accepts(inbox[i], d) /\ ~Grants(inbox[i], d)
                          /\ ~EndsIt(inbox[i], d)
      /\ ~InviteIn(d) /\ ~Said(d) /\ ~Confirmed(d) /\ ~Engaged(d) /\ overlay.duel # d
      /\ \A k \in calls : k.duel # d
  BY NothingOfUnborn
<1>9. \A e \in DuelNos : /\ InviteIn(e)' <=> InviteIn(e)
                         /\ e # d => (Said(e)' <=> Said(e)) /\ (Confirmed(e)' <=> Confirmed(e))
  BY <1>6, <1>7, OneMore
<1>10. \A e \in DuelNos : StillRuns(e) /\ (e # d => (Engaged(e)' <=> Engaged(e)))
  BY <1>1, <1>4, <1>9 DEF StillRuns, Engaged
<1>11. InvitesFit'
  <2>1. ~Invited(d)'
    BY <1>1, <1>4, <1>8, <1>9 DEF Invited
  <2>2. \A e \in DuelNos : e # d => (Invited(e)' <=> Invited(e))
    BY <1>4, <1>9 DEF Invited
  <2>3. \A e \in DuelNos : e # d /\ Invited(e) => \A k \in calls' : k.duel # e
    BY <1>2, <1>5 DEF ClientInv, InvitesFit
  <2> QED
    BY <1>1, <1>4, <1>8, <1>9, <2>1, <2>2, <2>3 DEF ClientInv, InvitesFit
<1>12. CallsFit'
  <2>1. \A k \in calls' : k.duel # 0 => k.duel \in DuelNos /\ duels'[k.duel].stage # "none"
    BY <1>1, <1>2, <1>4, <1>5 DEF ClientInv, CallsFit
  <2>2. \A k \in calls' : k.kind = "request" =>
          /\ k.foe \in Foes
          /\ k.duel # 0 => ~k.due /\ (duels'[k.duel].stage \in {"PENDING", "ACCEPTED"} => k.foe = duels'[k.duel].foe)
    BY <1>0, <1>1, <1>2, <1>4, <1>5, <1>8 DEF ClientInv, CallsFit, Running
  <2>3. \A k \in calls' : (k.kind # "request" => k.duel # 0) /\ (k.armed \/ k.kind = "reject" \/ astray') /\ ~(k.armed /\ k.kind = "reject")
    BY <1>0, <1>2, <1>5 DEF ClientInv, CallsFit
  <2>4. \A e \in DuelNos : Confirmed(e)' => overlay'.duel # e
    BY <1>8, <1>9 DEF ClientInv, CallsFit
  <2> QED
    BY <2>1, <2>2, <2>3, <2>4 DEF CallsFit, Running
<1>13. EngagedFits'
  <2> SUFFICES ASSUME ~astray PROVE EngagedFits'
    BY DEF EngagedFits
  <2> USE DEF ClientInv
  <2>1. c.armed /\ Asking(c) /\ c.duel = 0
    BY DEF CallsFit, Asking
  <2>2. challenge = c.foe /\ \A e \in DuelNos : Engaged(e) => overlay.duel = e
    BY <2>1 DEF EngagedFits
  <2>3. \A e \in DuelNos : Engaged(e)' => overlay.duel = e \/ \E k \in calls' : Made(k, e)'
    <3>1. Made(w, d)' /\ w \in calls'
      BY <1>2, <1>5, <2>1, <2>2 DEF Made
    <3> QED
      BY <1>10, <2>2, <3>1
  <2>4. \A e, f \in DuelNos : Engaged(e)' /\ Engaged(f)' => e = f \/ overlay.duel \in {e, f}
    BY <1>10, <2>2
  <2>5. \A k \in calls' : ~Asking(k)
    <3> SUFFICES ASSUME NEW k \in calls', Asking(k) PROVE FALSE
      OBVIOUS
    <3>1. k \in calls /\ k # c /\ k \in CallRecords
      BY <1>0, <1>2, <1>5 DEF Asking
    <3>2. k.foe = c.foe /\ k.kind = c.kind /\ k.duel = c.duel
      BY <2>1, <2>2, <3>1 DEF EngagedFits, CallsFit, Asking
    <3>3. k.armed = c.armed /\ k.due = c.due
      BY <1>0, <2>1, <3>1 DEF Asking, CallRecords
    <3>4. \A x \in CallRecords : x = [kind |-> x.kind, foe |-> x.foe, duel |-> x.duel, armed |-> x.armed, due |-> x.due]
      BY DEF CallRecords
    <3> QED
      BY <1>0, <3>1, <3>2, <3>3, <3>4, Zenon
  <2>6. \A k \in calls' : k.kind = "accept" /\ k.due /\ duels'[k.duel].stage = "PENDING" => overlay.duel = k.duel
    <3> SUFFICES ASSUME NEW k \in calls', k.kind = "accept", k.due, duels'[k.duel].stage = "PENDING"
                 PROVE  overlay.duel = k.duel
      OBVIOUS
    <3>1. k \in calls /\ k.duel \in DuelNos /\ k.duel # d
      BY <1>2, <1>5, <1>8 DEF CallsFit
    <3> QED
      BY <1>4, <3>1 DEF EngagedFits
  <2> QED
    BY <2>3, <2>4, <2>5, <2>6 DEF EngagedFits, Asking
<1>14. FitsIn(m, duels') /\ \A e \in DuelNos : \A i \in Inbox : Precedes(inbox[i], m, e)
  BY <1>1, <1>4, <1>6, <1>7, <1>8 DEF FitsIn, Precedes, Endings
<1>15. calls' \subseteq CallRecords
  BY <1>0, <1>2, <1>5
<1>16. \A e \in DuelNos : duels'[e].stage = "over" => duels[e].stage = "over" /\ ~BringsUp(m, e)
  BY <1>1, <1>4, <1>7
<1> QED
  BY <1>4, <1>6, <1>10, <1>11, <1>12, <1>13, <1>14, <1>15, <1>16, OneWritten


(* The acceptance, the end of a game that could not start, and the acknowledgement. *)
IsTold(ms, e, v, w, end) ==
  /\ Len(ms) \in Nat \ {0} /\ ms[1] = e
  /\ \A k \in 1..Len(ms) : k = 1 \/ ms[k] = w \/ (end = "over" /\ ms[k] = v)
  /\ end = "over" => \E k \in 1..Len(ms) : ms[k] = v /\ k # 1

LEMMA LettersAssociate ==
  ASSUME NEW s \in Seq(Letters), NEW t \in Seq(Letters), NEW u \in Seq(Letters)
  PROVE  (s \o t) \o u = s \o (t \o u)
  BY ConcatAssociative

LEMMA ThreeWritten ==
  ASSUME ClientInv, NEW e \in Letters, NEW v \in Letters, NEW w \in Letters, NEW end,
         inbox' = inbox \o <<e>> \o (IF end = "over" THEN <<v>> ELSE <<>>) \o <<w>>
  PROVE  \E ms \in Seq(Letters) : inbox' = inbox \o ms /\ IsTold(ms, e, v, w, end)
<1> DEFINE x == IF end = "over" THEN <<v>> ELSE <<>>
<1>0. (x = <<v>> <=> end = "over") /\ x \in {<<>>, <<v>>} /\ inbox' = inbox \o <<e>> \o x \o <<w>>
  OBVIOUS
<1> HIDE DEF x
<1> DEFINE a == <<e>>
           y == a \o x
           z == <<w>>
           ms == y \o z
<1>1. a \in Seq(Letters) /\ Len(a) = 1 /\ a[1] = e
  OBVIOUS
<1>2. z \in Seq(Letters) /\ Len(z) = 1 /\ z[1] = w
  OBVIOUS
<1>3. x \in Seq(Letters) /\ ((Len(x) = 1 /\ x[1] = v /\ x = <<v>>) \/ (Len(x) = 0 /\ x # <<v>>))
  <2>1. <<v>> \in Seq(Letters) /\ Len(<<v>>) = 1 /\ <<v>>[1] = v /\ <<>> \in Seq(Letters) /\ Len(<<>>) = 0
    OBVIOUS
  <2>2. <<>> # <<v>>
    OBVIOUS
  <2>3. x = <<v>> \/ x = <<>>
    BY <1>0
  <2> QED
    BY <2>1, <2>2, <2>3
<1>4. inbox \in Seq(Letters) /\ inbox' = inbox \o a \o x \o z
  BY <1>0 DEF ClientInv, ClientTyped
<1> HIDE DEF a, z
<1>5. /\ y \in Seq(Letters) /\ Len(y) = 1 + Len(x) /\ y[1] = e
      /\ Len(x) = 1 => y[2] = v
  <2>1. /\ y \in Seq(Letters) /\ Len(y) = Len(a) + Len(x)
        /\ \A i \in 1..Len(a) + Len(x) : y[i] = IF i <= Len(a) THEN a[i] ELSE x[i - Len(a)]
    BY <1>1, <1>3, ConcatProperties
  <2> HIDE DEF y
  <2> QED
    BY <1>1, <1>3, <2>1
<1>6. inbox' = inbox \o ms
  <2>1. inbox \o a \o x = inbox \o y
    BY <1>1, <1>3, <1>4, LettersAssociate
  <2>2. inbox' = (inbox \o y) \o z
    BY <1>4, <2>1
  <2> HIDE DEF y
  <2>3. (inbox \o y) \o z = inbox \o (y \o z)
    BY <1>2, <1>4, <1>5, LettersAssociate
  <2> QED
    BY <2>2, <2>3
<1> HIDE DEF y
<1>7. /\ ms \in Seq(Letters) /\ Len(ms) = Len(y) + 1
      /\ \A i \in 1..Len(y) : i \in 1..Len(ms) /\ ms[i] = y[i]
      /\ \A i \in 1..Len(ms) : i \in 1..Len(y) \/ ms[i] = w
  <2>1. /\ ms \in Seq(Letters) /\ Len(ms) = Len(y) + Len(z)
        /\ \A i \in 1..Len(y) + Len(z) : ms[i] = IF i <= Len(y) THEN y[i] ELSE z[i - Len(y)]
    BY <1>2, <1>5, ConcatProperties
  <2> HIDE DEF ms
  <2> QED
    BY <1>2, <1>3, <1>5, <2>1
<1> HIDE DEF ms
<1>8. Len(ms) \in Nat \ {0} /\ ms[1] = e
  BY <1>3, <1>5, <1>7
<1>9. \A k \in 1..Len(ms) : k = 1 \/ ms[k] = w \/ (x = <<v>> /\ ms[k] = v)
  <2>1. CASE Len(x) = 0
    <3>1. 1..Len(y) = {1}
      BY <1>5, <2>1
    <3> QED
      BY <1>7, <3>1
  <2>2. CASE Len(x) = 1
    <3>1. 1..Len(y) = {1, 2} /\ ms[2] = v /\ x = <<v>>
      BY <1>3, <1>5, <1>7, <2>2
    <3> QED
      BY <1>7, <3>1
  <2> QED
    BY <1>3, <2>1, <2>2
<1>10. x = <<v>> => 2 \in 1..Len(ms) /\ ms[2] = v /\ 2 # 1
  <2> SUFFICES ASSUME x = <<v>> PROVE 2 \in 1..Len(ms) /\ ms[2] = v
    OBVIOUS
  <2>1. Len(x) = 1 /\ Len(y) = 2 /\ 2 \in 1..Len(y)
    BY <1>3, <1>5
  <2> QED
    BY <1>5, <1>7, <2>1
<1>11. IsTold(ms, e, v, w, end)
  BY <1>0, <1>8, <1>9, <1>10 DEF IsTold
<1> QED
  BY <1>6, <1>7, <1>11

LEMMA AcceptFits ==
  ASSUME ClientInv, UNCHANGED <<overlay, challenge, astray, missed>>,
         NEW c \in calls, c.kind = "accept", c.due, calls' = Handled(c),
         NEW d \in DuelNos, d = c.duel, duels[d].stage = "PENDING", NEW end \in {"ACCEPTED", "over", "stuck"},
         duels' = [duels EXCEPT ![d] = IF end = "over" THEN OverNow(@) ELSE [@ EXCEPT !.stage = "ACCEPTED"]],
         NEW m \in Letters, m.kind = "accepted" /\ m.duel = d, NEW v \in Letters, v.kind = "voided" /\ v.duel = d,
         NEW w \in Letters, w.kind \in {"ok", "error"} /\ w.of = "accept",
         NEW ms \in Seq(Letters), inbox' = inbox \o ms, IsTold(ms, m, v, w, end)
  PROVE  ClientInv'
<1> DEFINE n == IF end = "over" THEN OverNow(duels[d]) ELSE [duels[d] EXCEPT !.stage = "ACCEPTED"]
<1>t. /\ Len(ms) \in Nat \ {0} /\ ms[1] = m
      /\ \A k \in 1..Len(ms) : k = 1 \/ ms[k] = w \/ (end = "over" /\ ms[k] = v)
      /\ end = "over" => \E k \in 1..Len(ms) : ms[k] = v /\ k # 1
  BY DEF IsTold
<1>0. duels[d] \in DuelRecords /\ d \in Nat /\ duels \in [DuelNos -> DuelRecords]
  BY DuelNosFit DEF ClientInv, ClientTyped
<1>1. /\ n \in DuelRecords /\ (n.stage = "over" <=> end = "over") /\ n.stage \in {"ACCEPTED", "over"}
      /\ n.stage = "ACCEPTED" => n.foe = duels[d].foe
      /\ n.invite = duels[d].invite
  BY <1>0, OverFits, AcceptedFits
<1>2. duels' = [duels EXCEPT ![d] = n]
  OBVIOUS
<1> HIDE DEF n
<1>3. /\ duels' \in [DuelNos -> DuelRecords] /\ duels'[d] = n
      /\ \A e \in DuelNos : e # d => duels'[e] = duels[e]
  BY <1>1, <1>2, DuelMoves
<1>4. CallsKept
  BY HandledKept DEF CallsKept
<1>5. overlay.duel = d \/ astray
  BY DEF ClientInv, EngagedFits
<1>6. ~Invited(d)
  BY DEF ClientInv, InvitesFit
<1>8. \A e \in DuelNos :
        /\ (Accepts(m, e) <=> e = d)
        /\ ~Invites(m, e) /\ ~Grants(m, e) /\ ~EndsIt(m, e)
        /\ ~BringsUp(w, e) /\ ~EndsIt(w, e) /\ ~Invites(w, e) /\ ~Grants(w, e) /\ ~Accepts(w, e)
        /\ (EndsIt(v, e) <=> e = d)
        /\ ~BringsUp(v, e) /\ ~Invites(v, e) /\ ~Grants(v, e) /\ ~Accepts(v, e)
  BY DEF Accepts, Invites, Grants, EndsIt, BringsUp, Endings
<1>9. \A e \in DuelNos : /\ \A k \in 1..Len(ms) : ~Invites(ms[k], e) /\ ~Grants(ms[k], e)
                         /\ \A k \in 1..Len(ms) : Accepts(ms[k], e) => e = d
                         /\ \A k \in 1..Len(ms) : BringsUp(ms[k], e) => k = 1 /\ e = d
                         /\ \A k \in 1..Len(ms) : EndsIt(ms[k], e) => k # 1
  BY <1>t, <1>8 DEF BringsUp
<1>10. \A e \in DuelNos : /\ InviteIn(e)' <=> InviteIn(e)
                          /\ Confirmed(e)' <=> Confirmed(e)
                          /\ Said(e)' => Said(e) \/ e = d
  <2>1. \A e \in DuelNos :
          /\ InviteIn(e)' <=> InviteIn(e) \/ \E k \in 1..Len(ms) : Invites(ms[k], e)
          /\ Said(e)' <=> Said(e) \/ \E k \in 1..Len(ms) : Accepts(ms[k], e) \/ Grants(ms[k], e)
          /\ Confirmed(e)' <=> Confirmed(e) \/ \E k \in 1..Len(ms) : Grants(ms[k], e)
    BY MoreUnderWay
  <2> QED
    BY <1>9, <2>1
<1>11. \A e \in DuelNos : StillRuns(e)
  BY <1>1, <1>3 DEF StillRuns
<1>12. CallsFit'
  BY <1>4, <1>10, <1>11, CallsFitOn
<1>13. EngagedFits'
  <2> SUFFICES ASSUME ~astray PROVE EngagedFits'
    BY DEF EngagedFits
  <2>1. \A e \in DuelNos : Engaged(e)' => Engaged(e) \/ overlay.duel = e
    BY <1>3, <1>5, <1>10 DEF Engaged
  <2> QED
    BY <1>1, <1>3, <1>4, <2>1, EngagedFitsOn
<1>14. InvitesFit'
  <2>1. \A e \in DuelNos : Invited(e) => ~duels[e].mine /\ duels[e].stage \in {"PENDING", "over"} /\ ~Said(e)
    BY DEF ClientInv, InvitesFit
  <2>2. \A e \in DuelNos : Invited(e) => ~duels'[e].mine /\ duels'[e].stage \in {"PENDING", "over"} /\ ~Said(e)'
    BY <1>3, <1>6, <1>10, <2>1
  <2>3. \A e \in DuelNos : duels'[e].invite => duels[e].invite
    BY <1>1, <1>3
  <2> QED
    BY <1>4, <1>10, <2>2, <2>3, InvitesFitOn
<1>15. LettersFit' /\ LettersInOrder' /\ EndsFollow' /\ ShownEndFollows'
  <2>1. \A k \in 1..Len(ms) : FitsIn(ms[k], duels')
    <3>1. FitsIn(m, duels') /\ FitsIn(w, duels') /\ (end = "over" => FitsIn(v, duels'))
      BY <1>1, <1>3 DEF FitsIn, Endings
    <3> QED
      BY <1>t, <3>1
  <2>2. \A e \in DuelNos : \A k \in 1..Len(ms) : \A i \in Inbox : Precedes(inbox[i], ms[k], e)
    <3>1. \A i \in Inbox : ~EndsIt(inbox[i], d)
      BY DEF ClientInv, LettersFit, FitsIn, EndsIt
    <3> QED
      BY <1>9, <3>1 DEF Precedes
  <2>3. \A e \in DuelNos : \A k, l \in 1..Len(ms) : k < l => Precedes(ms[k], ms[l], e)
    <3>1. \A e \in DuelNos : \A k, l \in 1..Len(ms) : k < l => ~Accepts(ms[l], e)
      BY <1>t, <1>9 DEF BringsUp
    <3> QED
      BY <1>9, <3>1 DEF Precedes
  <2>4. \A e \in DuelNos : duels'[e].stage = "over" =>
          \/ duels[e].stage = "over" /\ \A k \in 1..Len(ms) : ~BringsUp(ms[k], e)
          \/ e \in missed'
          \/ \E k \in 1..Len(ms) : EndsIt(ms[k], e) /\ \A l \in 1..Len(ms) : BringsUp(ms[l], e) => l < k
    <3>1. \A e \in DuelNos : e # d /\ duels'[e].stage = "over" =>
            duels[e].stage = "over" /\ \A k \in 1..Len(ms) : ~BringsUp(ms[k], e)
      BY <1>3, <1>9
    <3>2. ASSUME duels'[d].stage = "over"
          PROVE  \E k \in 1..Len(ms) : EndsIt(ms[k], d) /\ \A l \in 1..Len(ms) : BringsUp(ms[l], d) => l < k
      <4>1. PICK k \in 1..Len(ms) : ms[k] = v /\ k # 1
        BY <1>1, <1>3, <1>t, <3>2
      <4>2. EndsIt(ms[k], d) /\ \A l \in 1..Len(ms) : BringsUp(ms[l], d) => l < k
        BY <1>t, <1>8, <1>9, <4>1
      <4> QED
        BY <4>2
    <3> QED
      BY <3>1, <3>2
  <2> QED
    BY <1>11, <2>1, <2>2, <2>3, <2>4, LettersWritten
<1>16. ClientTyped' /\ EnemyFits'
  <2>1. inbox' \in Seq(Letters)
    BY Written
  <2> QED
    BY <1>3, <1>4, <1>11, <2>1, ShownFitsOn DEF CallsKept
<1> QED
  BY <1>12, <1>13, <1>14, <1>15, <1>16 DEF ClientInv


(* An acceptance or an ending, sent or lost. *)
LEMMA EventFits ==
  ASSUME ClientInv, UNCHANGED <<overlay, challenge, astray>>, CallsKept, NEW d \in DuelNos, NEW n \in DuelRecords,
         duels' = [duels EXCEPT ![d] = n], n.invite = duels[d].invite, NEW m \in Letters, m.duel = d,
         \/ m.kind \in Endings /\ n.stage = "over" /\ n.mine = FALSE /\ Running(d)
         \/ /\ m.kind = "accepted" /\ n.stage = "ACCEPTED" /\ n.foe = duels[d].foe
            /\ duels[d].stage = "PENDING" /\ duels[d].mine,
         \/ inbox' = Append(inbox, m) /\ UNCHANGED missed
         \/ inbox' = inbox /\ missed \subseteq missed' /\ (m.kind \in Endings => d \in missed')
  PROVE  ClientInv'
<1>1. /\ duels' \in [DuelNos -> DuelRecords] /\ duels'[d] = n
      /\ \A e \in DuelNos : e # d => duels'[e] = duels[e]
  BY DuelMoves
<1>2. \A e \in DuelNos : StillRuns(e)
  BY <1>1 DEF StillRuns, Running, Endings
<1>3. \A e \in DuelNos :
        /\ ~Invites(m, e) /\ ~Grants(m, e)
        /\ (EndsIt(m, e) <=> e = d /\ m.kind \in Endings)
        /\ (Accepts(m, e) <=> e = d /\ m.kind = "accepted")
        /\ (BringsUp(m, e) <=> e = d /\ m.kind = "accepted")
  BY DEF Invites, Grants, EndsIt, Accepts, BringsUp, Endings
<1>4. \A e \in DuelNos : /\ InviteIn(e)' <=> InviteIn(e)
                         /\ Confirmed(e)' <=> Confirmed(e)
                         /\ Said(e)' => Said(e) \/ (e = d /\ m.kind = "accepted")
  <2>1. CASE inbox' = Append(inbox, m)
    <3>1. \A e \in DuelNos : /\ InviteIn(e)' <=> InviteIn(e) \/ Invites(m, e)
                             /\ Said(e)' <=> Said(e) \/ Accepts(m, e) \/ Grants(m, e)
                             /\ Confirmed(e)' <=> Confirmed(e) \/ Grants(m, e)
      BY <2>1, OneMore
    <3> QED
      BY <1>3, <3>1
  <2>2. CASE inbox' = inbox
    BY <2>2 DEF InviteIn, Confirmed, Said, Inbox
  <2> QED
    BY <2>1, <2>2
<1>5. m.kind \in Endings => m.kind # "accepted"
  BY DEF Endings
<1>6. CallsFit'
  BY <1>2, <1>4, CallsFitOn
<1>7. EngagedFits'
  <2>1. \A e \in DuelNos : Engaged(e)' => Engaged(e)
    BY <1>1, <1>4, <1>5 DEF Engaged
  <2>2. \A e \in DuelNos : duels'[e].stage = "PENDING" => duels[e].stage = "PENDING"
    BY <1>1
  <2> QED
    BY <2>1, <2>2, EngagedFitsOn
<1>8. InvitesFit'
  <2>1. \A e \in DuelNos : Invited(e) => ~duels[e].mine /\ duels[e].stage \in {"PENDING", "over"} /\ ~Said(e)
    BY DEF ClientInv, InvitesFit
  <2>2. \A e \in DuelNos : Invited(e) => ~duels'[e].mine /\ duels'[e].stage \in {"PENDING", "over"} /\ ~Said(e)'
    BY <1>1, <1>4, <1>5, <2>1
  <2>3. \A e \in DuelNos : duels'[e].invite => duels[e].invite
    BY <1>1
  <2> QED
    BY <1>4, <2>2, <2>3, InvitesFitOn
<1>9. calls' \subseteq CallRecords
  BY DEF CallsKept
<1>10. CASE inbox' = Append(inbox, m) /\ UNCHANGED missed
  <2>1. FitsIn(m, duels')
    BY <1>1 DEF FitsIn, Endings
  <2>2. \A e \in DuelNos : \A i \in Inbox : Precedes(inbox[i], m, e)
    <3>1. m.kind = "accepted" => \A i \in Inbox : ~EndsIt(inbox[i], d)
      BY <1>5 DEF ClientInv, LettersFit, FitsIn, EndsIt
    <3> QED
      BY <1>3, <3>1 DEF Precedes
  <2>3. \A e \in DuelNos : duels'[e].stage = "over" => EndsIt(m, e) \/ (duels[e].stage = "over" /\ ~BringsUp(m, e))
    BY <1>1, <1>3
  <2> QED
    BY <1>1, <1>2, <1>6, <1>7, <1>8, <1>9, <1>10, <2>1, <2>2, <2>3, OneWritten
<1>11. CASE inbox' = inbox /\ missed \subseteq missed' /\ (m.kind \in Endings => d \in missed')
  <2>1. \A e \in DuelNos : duels'[e].stage = "over" => duels[e].stage = "over" \/ e \in missed'
    BY <1>1, <1>11
  <2> QED
    BY <1>1, <1>2, <1>6, <1>7, <1>8, <1>9, <1>11, <2>1, NoneWritten
<1> QED
  BY <1>10, <1>11

LEMMA NoCallChanges ==
  ASSUME ClientInv, UNCHANGED calls
  PROVE  CallsKept
BY DEF ClientInv, ClientTyped, CallsKept

(* The opponent asks. *)
LEMMA FoeChallengesFits ==
  ASSUME ClientInv, NEW f \in Foes, FoeChallenges(f)
  PROVE  ClientInv'
<1> PICK d \in DuelNos :
      /\ duels[d].stage = "none"
      /\ duels' = [duels EXCEPT ![d] = [stage |-> "PENDING", foe |-> f, mine |-> FALSE, invite |-> TRUE]]
  BY DEF FoeChallenges, Unborn
<1>0. UNCHANGED <<overlay, challenge, calls, inbox, missed, astray>>
  BY DEF FoeChallenges
<1> DEFINE n == [stage |-> "PENDING", foe |-> f, mine |-> FALSE, invite |-> TRUE]
<1>1. n \in DuelRecords /\ n.stage = "PENDING" /\ n.foe = f /\ n.mine = FALSE /\ n.invite = TRUE
  BY DEF DuelRecords
<1>2. duels' = [duels EXCEPT ![d] = n]
  OBVIOUS
<1> HIDE DEF n
<1>3. /\ duels' \in [DuelNos -> DuelRecords] /\ duels'[d] = n
      /\ \A e \in DuelNos : e # d => duels'[e] = duels[e]
  BY <1>1, <1>2, DuelMoves
<1>4. CallsKept
  BY <1>0, NoCallChanges
<1>5. /\ ~InviteIn(d) /\ ~Said(d) /\ ~Confirmed(d) /\ ~Engaged(d) /\ overlay.duel # d
      /\ \A c \in calls : c.duel # d
  BY NothingOfUnborn
<1>6. \A e \in DuelNos : (InviteIn(e)' <=> InviteIn(e)) /\ (Said(e)' <=> Said(e)) /\ (Confirmed(e)' <=> Confirmed(e))
  BY <1>0 DEF InviteIn, Said, Confirmed, Inbox
<1>7. \A e \in DuelNos : StillRuns(e) /\ (Engaged(e)' <=> Engaged(e))
  BY <1>1, <1>3, <1>5, <1>6 DEF StillRuns, Engaged
<1>8. CallsFit'
  BY <1>0, <1>4, <1>6, <1>7, CallsFitOn
<1>9. EngagedFits'
  <2>1. \A e \in DuelNos : duels'[e].stage = "PENDING" => duels[e].stage \in {"none", "PENDING"}
    BY <1>3
  <2> QED
    BY <1>0, <1>4, <1>7, <2>1, EngagedFitsOn
<1>10. InvitesFit'
  <2>1. \A e \in DuelNos : e # d => (Invited(e)' <=> Invited(e))
    BY <1>0, <1>3, <1>6 DEF Invited
  <2> QED
    BY <1>0, <1>1, <1>3, <1>5, <1>6, <2>1 DEF ClientInv, InvitesFit
<1>11. \A e \in DuelNos : duels'[e].stage = "over" => duels[e].stage = "over" \/ e \in missed'
  BY <1>1, <1>3
<1>12. calls' \subseteq CallRecords
  BY <1>4 DEF CallsKept
<1> QED
  BY <1>0, <1>3, <1>7, <1>8, <1>9, <1>10, <1>11, <1>12, NoneWritten

(* The invitation leaves, if the duel still waits for its answer. *)
LEMMA DeliverInviteFits ==
  ASSUME ClientInv, NEW d \in DuelNos, DeliverInvite(d)
  PROVE  ClientInv'
<1> DEFINE n == [duels[d] EXCEPT !.invite = FALSE]
<1>0. UNCHANGED <<overlay, challenge, calls, missed, astray>> /\ duels[d].invite
  BY DEF DeliverInvite
<1>d. duels[d] \in DuelRecords /\ duels \in [DuelNos -> DuelRecords] /\ d \in Nat
  BY DuelNosFit DEF ClientInv, ClientTyped
<1>1. n \in DuelRecords /\ n.stage = duels[d].stage /\ n.foe = duels[d].foe /\ n.mine = duels[d].mine /\ n.invite = FALSE
  BY <1>d DEF DuelRecords
<1>2. duels' = [duels EXCEPT ![d] = n]
  BY DEF DeliverInvite
<1> HIDE DEF n
<1>3. /\ duels' \in [DuelNos -> DuelRecords] /\ duels'[d] = n
      /\ \A e \in DuelNos : e # d => duels'[e] = duels[e]
  BY <1>1, <1>2, DuelMoves
<1>4. CallsKept
  BY <1>0, NoCallChanges
<1>5. /\ Invited(d) /\ ~InviteIn(d) /\ ~Said(d) /\ ~duels[d].mine /\ duels[d].stage \in {"PENDING", "over"}
      /\ overlay.duel # d /\ \A c \in calls : c.duel # d
  BY <1>0 DEF Invited, ClientInv, InvitesFit
<1>6. \A e \in DuelNos : StillRuns(e)
  BY <1>1, <1>3 DEF StillRuns
<1>i. ASSUME \A e \in DuelNos : /\ InviteIn(e)' => InviteIn(e) \/ e = d
                                /\ (Said(e)' <=> Said(e)) /\ (Confirmed(e)' <=> Confirmed(e))
      PROVE  InvitesFit' /\ CallsFit' /\ EngagedFits'
  <2>1. CallsFit'
    BY <1>0, <1>4, <1>6, <1>i, CallsFitOn
  <2>2. EngagedFits'
    <3>1. \A e \in DuelNos : Engaged(e)' => Engaged(e)
      BY <1>1, <1>3, <1>i DEF Engaged
    <3>2. \A e \in DuelNos : duels'[e].stage = "PENDING" => duels[e].stage = "PENDING"
      BY <1>1, <1>3
    <3> QED
      BY <1>0, <1>4, <3>1, <3>2, EngagedFitsOn
  <2>3. InvitesFit'
    <3>1. \A e \in DuelNos : e # d => (Invited(e)' => Invited(e))
      BY <1>0, <1>3, <1>i DEF Invited
    <3> QED
      BY <1>0, <1>1, <1>3, <1>5, <1>i, <3>1 DEF ClientInv, InvitesFit
  <2> QED
    BY <2>1, <2>2, <2>3
<1>o. calls' \subseteq CallRecords /\ \A e \in DuelNos : duels'[e].stage = "over" => duels[e].stage = "over"
  BY <1>1, <1>3, <1>4 DEF CallsKept
<1>7. CASE linked /\ Deliverable(d)
  <2> DEFINE m == Invitation(d)
  <2>1. m = [kind |-> "requested", duel |-> d, code |-> "none", of |-> duels[d].foe] /\ duels[d].foe \in Foes \union {NoFoe}
    BY <1>d DEF Invitation, DuelRecords
  <2> HIDE DEF m
  <2>2. m \in Letters /\ m.kind = "requested" /\ m.duel = d /\ m.of = duels[d].foe
    BY <1>d, <2>1 DEF Letters, Codes
  <2>3. inbox' = Append(inbox, m) /\ duels[d].stage = "PENDING"
    BY <1>7 DEF DeliverInvite, Deliverable, m
  <2>4. \A e \in DuelNos : /\ Invites(m, e) <=> e = d
                           /\ ~Accepts(m, e) /\ ~Grants(m, e) /\ ~EndsIt(m, e)
                           /\ BringsUp(m, e) => e = d
    BY <2>2 DEF Invites, Accepts, Grants, EndsIt, BringsUp, Endings
  <2>5. \A e \in DuelNos : /\ InviteIn(e)' <=> InviteIn(e) \/ Invites(m, e)
                           /\ Said(e)' <=> Said(e) \/ Accepts(m, e) \/ Grants(m, e)
                           /\ Confirmed(e)' <=> Confirmed(e) \/ Grants(m, e)
    BY <2>2, <2>3, OneMore
  <2>6. InvitesFit' /\ CallsFit' /\ EngagedFits'
    BY <1>i, <2>4, <2>5
  <2>7. FitsIn(m, duels')
    BY <1>1, <1>3, <2>1, <2>2, <2>3 DEF FitsIn, Endings
  <2>8. \A e \in DuelNos : \A i \in Inbox : Precedes(inbox[i], m, e)
    <3>1. \A i \in Inbox : ~Invites(inbox[i], d)
      BY <1>5 DEF InviteIn
    <3> QED
      BY <2>4, <3>1 DEF Precedes
  <2>9. \A e \in DuelNos : duels'[e].stage = "over" => duels[e].stage = "over" /\ ~BringsUp(m, e)
    BY <1>1, <1>3, <2>3, <2>4
  <2> QED
    BY <1>0, <1>3, <1>6, <1>o, <2>2, <2>3, <2>6, <2>7, <2>8, <2>9, OneWritten
<1>8. CASE ~(linked /\ Deliverable(d))
  <2>1. inbox' = inbox
    BY <1>8 DEF DeliverInvite
  <2>2. \A e \in DuelNos : /\ InviteIn(e)' <=> InviteIn(e)
                           /\ (Said(e)' <=> Said(e)) /\ (Confirmed(e)' <=> Confirmed(e))
    BY <2>1 DEF InviteIn, Said, Confirmed, Inbox
  <2>3. InvitesFit' /\ CallsFit' /\ EngagedFits'
    BY <1>i, <2>2
  <2> QED
    BY <1>0, <1>3, <1>6, <1>o, <2>1, <2>3, NoneWritten
<1> QED
  BY <1>7, <1>8


(* The opponent answers; the duel ends. *)
LEMMA NotifiedOne ==
  ASSUME NEW m, m.duel \in DuelNos, NotifyPlayer(<<m>>)
  PROVE  \/ inbox' = inbox \o <<m>> /\ UNCHANGED missed
         \/ inbox' = inbox /\ missed \subseteq missed' /\ (m.kind \in Endings => m.duel \in missed')
<1>1. 1 \in 1..Len(<<m>>) /\ <<m>>[1] = m
  OBVIOUS
<1>2. m.kind \in Endings => EndsIn(m.duel, <<m>>)
  BY <1>1 DEF EndsIn
<1> QED
  BY <1>2 DEF NotifyPlayer

LEMMA FoeAnswersFits ==
  ASSUME ClientInv, NEW d \in DuelNos, FoeAnswers(d)
  PROVE  ClientInv'
<1>0. /\ UNCHANGED <<overlay, challenge, calls, astray>> /\ d \in Nat
      /\ duels[d] \in DuelRecords /\ duels[d].stage = "PENDING" /\ duels[d].mine /\ inbox \in Seq(Letters)
  BY DuelNosFit DEF FoeAnswers, ClientInv, ClientTyped
<1>1. CallsKept
  BY <1>0, NoCallChanges
<1>2. ASSUME duels' = [duels EXCEPT ![d] = [@ EXCEPT !.stage = "ACCEPTED"]], NotifyPlayer(<<Event("accepted", d)>>)
      PROVE  ClientInv'
  <2>1. PICK m \in Letters : m = Event("accepted", d) /\ m.kind = "accepted" /\ m.duel = d
    BY <1>0, EventIs
  <2>2. \/ inbox' = Append(inbox, m) /\ UNCHANGED missed
        \/ inbox' = inbox /\ missed \subseteq missed' /\ (m.kind \in Endings => d \in missed')
    BY <1>0, <1>2, <2>1, NotifiedOne, AppendIsConcat
  <2>3. PICK n \in DuelRecords : /\ duels' = [duels EXCEPT ![d] = n] /\ n.stage = "ACCEPTED" /\ n.foe = duels[d].foe
                            /\ n.invite = duels[d].invite
    <3> DEFINE n == [duels[d] EXCEPT !.stage = "ACCEPTED"]
    <3>1. n \in DuelRecords /\ n.stage = "ACCEPTED" /\ n.foe = duels[d].foe /\ n.invite = duels[d].invite
      BY <1>0, AcceptedFits
    <3>2. duels' = [duels EXCEPT ![d] = n]
      BY <1>2
    <3> HIDE DEF n
    <3> QED
      BY <3>1, <3>2, Zenon
  <2> QED
    BY <1>0, <1>1, <2>1, <2>2, <2>3, EventFits
<1>3. ASSUME duels' = [duels EXCEPT ![d] = OverNow(@)], NotifyPlayer(<<Event("rejected", d)>>)
      PROVE  ClientInv'
  <2>1. PICK m \in Letters : m = Event("rejected", d) /\ m.kind = "rejected" /\ m.duel = d
    BY <1>0, EventIs
  <2>2. \/ inbox' = Append(inbox, m) /\ UNCHANGED missed
        \/ inbox' = inbox /\ missed \subseteq missed' /\ (m.kind \in Endings => d \in missed')
    BY <1>0, <1>3, <2>1, NotifiedOne, AppendIsConcat
  <2>3. OverNow(duels[d]) \in DuelRecords /\ OverNow(duels[d]).stage = "over" /\ OverNow(duels[d]).mine = FALSE
        /\ OverNow(duels[d]).invite = duels[d].invite /\ duels' = [duels EXCEPT ![d] = OverNow(duels[d])]
    BY <1>0, <1>3, OverFits
  <2>4. m.kind \in Endings /\ Running(d)
    BY <1>0, <2>1 DEF Endings, Running
  <2> QED
    BY <1>0, <1>1, <2>1, <2>2, <2>3, <2>4, EventFits
<1>4. \/ duels' = [duels EXCEPT ![d] = [@ EXCEPT !.stage = "ACCEPTED"]] /\ NotifyPlayer(<<Event("accepted", d)>>)
      \/ duels' = [duels EXCEPT ![d] = OverNow(@)] /\ NotifyPlayer(<<Event("rejected", d)>>)
  BY Zenon DEF FoeAnswers
<1> QED
  BY <1>2, <1>3, <1>4

LEMMA EndDuelFits ==
  ASSUME ClientInv, NEW d \in DuelNos, EndDuel(d)
  PROVE  ClientInv'
<1>0. /\ UNCHANGED <<overlay, challenge, calls, astray>> /\ d \in Nat
      /\ duels[d] \in DuelRecords /\ Running(d) /\ inbox \in Seq(Letters)
  BY DuelNosFit DEF EndDuel, ClientInv, ClientTyped
<1>1. CallsKept
  BY <1>0, NoCallChanges
<1>2. PICK kind \in {"expired", "completed", "voided"} : NotifyPlayer(<<Event(kind, d)>>)
  BY DEF EndDuel
<1>3. PICK m \in Letters : m = Event(kind, d) /\ m.kind = kind /\ m.duel = d
  BY <1>0, EventIs
<1>4. \/ inbox' = Append(inbox, m) /\ UNCHANGED missed
      \/ inbox' = inbox /\ missed \subseteq missed' /\ (m.kind \in Endings => d \in missed')
  BY <1>0, <1>2, <1>3, NotifiedOne, AppendIsConcat
<1>5. OverNow(duels[d]) \in DuelRecords /\ OverNow(duels[d]).stage = "over" /\ OverNow(duels[d]).mine = FALSE
      /\ OverNow(duels[d]).invite = duels[d].invite /\ duels' = [duels EXCEPT ![d] = OverNow(duels[d])]
  BY <1>0, OverFits DEF EndDuel
<1>6. m.kind \in Endings
  BY <1>3 DEF Endings
<1> QED
  BY <1>0, <1>1, <1>3, <1>4, <1>5, <1>6, EventFits

(* The server handles a call. *)
LEMMA ServeFits ==
  ASSUME ClientInv, NEW c \in calls, ServeRequest(c) \/ ServeAnswer(c)
  PROVE  ClientInv'
<1>0. UNCHANGED <<overlay, challenge, missed, astray>> /\ c.due /\ inbox \in Seq(Letters)
  BY DEF ServeRequest, ServeAnswer, ClientInv, ClientTyped
<1>1. CASE ServeRequest(c)
  <2>1. ASSUME NEW code \in {"REQUEST", "SHIELDED", "OTHER"}, inbox' = Append(inbox, Throws(code)),
               calls' = Handled(c), UNCHANGED duels
        PROVE  ClientInv'
    BY <1>0, <2>1, RefusalFits
  <2>2. ASSUME NEW d \in DuelNos, Unborn(d),
               duels' = [duels EXCEPT ![d] = [stage |-> "PENDING", foe |-> c.foe, mine |-> TRUE, invite |-> FALSE]],
               inbox' = Append(inbox, Ack("request", d, TRUE)),
               calls' = (calls \ {c}) \union IF c.armed THEN {[c EXCEPT !.due = FALSE, !.duel = d]} ELSE {}
        PROVE  ClientInv'
    <3>1. c.kind = "request" /\ duels[d].stage = "none"
      BY <1>1, <2>2 DEF ServeRequest, Unborn
    <3> QED
      BY <1>0, <2>2, <3>1, RequestFits
  <2> QED
    BY <1>1, <2>1, <2>2 DEF ServeRequest
<1>2. CASE ServeAnswer(c)
  <2> DEFINE d == c.duel
  <2>0. c.kind \in {"accept", "reject"} /\ calls' = Handled(c)
    BY <1>2 DEF ServeAnswer
  <2>1. d \in DuelNos /\ d \in Nat /\ duels[d] \in DuelRecords
    BY <2>0, DuelNosFit DEF ClientInv, ClientTyped, CallsFit
  <2> HIDE DEF d
  <2>2. CASE inbox' = Append(inbox, Throws("ANSWER")) /\ UNCHANGED duels
    BY <1>0, <2>0, <2>2, RefusalFits
  <2>3. ASSUME duels[d].stage = "PENDING", c.kind = "accept", NEW end \in {"ACCEPTED", "over", "stuck"},
               duels' = [duels EXCEPT ![d] = IF end = "over" THEN OverNow(@) ELSE [@ EXCEPT !.stage = "ACCEPTED"]],
               inbox' = inbox \o <<Event("accepted", d)>>
                              \o (IF end = "over" THEN <<Event("voided", d)>> ELSE <<>>)
                              \o <<Ack("accept", d, end = "ACCEPTED")>>
        PROVE  ClientInv'
    <3>a. PICK m \in Letters : m = Event("accepted", d) /\ m.kind = "accepted" /\ m.duel = d
      BY <2>1, EventIs
    <3>v. PICK v \in Letters : v = Event("voided", d) /\ v.kind = "voided" /\ v.duel = d
      BY <2>1, EventIs
    <3>w. PICK w \in Letters : w = Ack("accept", d, end = "ACCEPTED") /\ w.kind \in {"ok", "error"} /\ w.of = "accept"
      <4> DEFINE ok == end = "ACCEPTED"
      <4>1. ok \in BOOLEAN
        OBVIOUS
      <4> HIDE DEF ok
      <4>2. PICK w \in Letters : w = Ack("accept", d, ok) /\ w.kind \in {"ok", "error"} /\ w.of = "accept"
        BY <2>1, <4>1, AckIs
      <4> USE DEF ok
      <4> QED
        BY <4>2
    <3>1. inbox' = inbox \o <<m>> \o (IF end = "over" THEN <<v>> ELSE <<>>) \o <<w>>
      BY <2>3, <3>a, <3>v, <3>w
    <3>2. PICK ms \in Seq(Letters) : inbox' = inbox \o ms /\ IsTold(ms, m, v, w, end)
      BY <3>1, ThreeWritten
    <3> QED
      BY <1>0, <2>0, <2>1, <2>3, <3>a, <3>v, <3>w, <3>2, AcceptFits DEF d
  <2>4. CASE duels[d].stage = "PENDING" /\ duels' = [duels EXCEPT ![d] = OverNow(@)]
             /\ inbox' = Append(inbox, Event("rejected", d))
    <3>1. PICK m \in Letters : m = Event("rejected", d) /\ m.kind = "rejected" /\ m.duel = d
      BY <2>1, EventIs
    <3>2. OverNow(duels[d]) \in DuelRecords /\ OverNow(duels[d]).stage = "over" /\ OverNow(duels[d]).mine = FALSE
          /\ OverNow(duels[d]).invite = duels[d].invite /\ duels' = [duels EXCEPT ![d] = OverNow(duels[d])]
      BY <2>1, <2>4, OverFits
    <3>3. m.kind \in Endings /\ Running(d) /\ inbox' = Append(inbox, m) /\ CallsKept
      BY <1>0, <2>0, <2>4, <3>1, HandledKept DEF Endings, Running, CallsKept
    <3> QED
      BY <1>0, <2>1, <3>1, <3>2, <3>3, EventFits
  <2> QED
    BY <1>2, <2>2, <2>3, <2>4, Zenon DEF ServeAnswer, d
<1> QED
  BY <1>1, <1>2

(* The connection drops. *)
LEMMA DropLinkFits ==
  ASSUME ClientInv, DropLink
  PROVE  ClientInv'
<1>0. /\ UNCHANGED <<overlay, challenge, duels, astray>> /\ inbox' = <<>> /\ missed \subseteq missed'
      /\ \A d \in DuelNos : EndsIn(d, inbox) => d \in missed'
  BY DEF DropLink
<1>1. PICK lost \in SUBSET {c \in calls : c.due} :
        calls' = (calls \ lost) \union {[c EXCEPT !.due = FALSE] : c \in {k \in lost : k.armed}}
  BY DEF DropLink
<1>2. CallsKept
  <2>1. calls \subseteq CallRecords
    BY DEF ClientInv, ClientTyped
  <2>2. \A c \in calls : LET n == [c EXCEPT !.due = FALSE]
                         IN  n \in CallRecords /\ n.kind = c.kind /\ n.foe = c.foe /\ n.duel = c.duel /\ n.armed = c.armed
                             /\ n.due = FALSE
    BY <2>1 DEF CallRecords
  <2>3. \A n \in calls' : n \in calls \/ \E c \in calls : n = [c EXCEPT !.due = FALSE]
    BY <1>1
  <2>4. \A c \in calls : c \in calls' \/ c.due
    BY <1>1
  <2>5. calls' \subseteq CallRecords
    BY <2>1, <2>2, <2>3
  <2>6. ASSUME NEW n \in calls'
        PROVE  \E c \in calls : /\ n.kind = c.kind /\ n.foe = c.foe /\ n.duel = c.duel /\ n.armed = c.armed
                                /\ n = c \/ n.due = FALSE
    <3>1. CASE n \in calls
      BY <3>1
    <3>2. CASE n \notin calls
      <4>1. PICK c \in calls : n = [c EXCEPT !.due = FALSE]
        BY <2>3, <3>2
      <4>2. n.kind = c.kind /\ n.foe = c.foe /\ n.duel = c.duel /\ n.armed = c.armed /\ n.due = FALSE
        BY <2>2, <4>1
      <4> QED
        BY <4>2
    <3> QED
      BY <3>1, <3>2
  <2> QED
    BY <2>4, <2>5, <2>6 DEF CallsKept
<1>3. inbox' \in Seq(Letters) /\ Inbox' = {}
  BY <1>0, EmptySeq DEF Inbox
<1>4. \A d \in DuelNos : ~InviteIn(d)' /\ ~Said(d)' /\ ~Confirmed(d)'
  BY <1>3 DEF InviteIn, Said, Confirmed
<1>5. \A d \in DuelNos : StillRuns(d) /\ (Engaged(d)' => Engaged(d))
  BY <1>0, <1>4 DEF StillRuns, Engaged
<1>6. LettersFit' /\ LettersInOrder' /\ EndsFollow'
  BY <1>3 DEF LettersFit, LettersInOrder, EndsFollow
<1>7. ShownEndFollows'
  BY <1>0 DEF ClientInv, ClientTyped, ShownEndFollows
<1>8. ClientTyped' /\ EnemyFits'
  BY <1>0, <1>2, <1>3, <1>5, ShownFitsOn DEF ClientInv, ClientTyped, CallsKept
<1>9. CallsFit' /\ EngagedFits'
  BY <1>0, <1>2, <1>4, <1>5, CallsFitOn, EngagedFitsOn
<1>10. InvitesFit'
  <2>1. \A e \in DuelNos : Invited(e) => ~duels[e].mine /\ duels[e].stage \in {"PENDING", "over"}
    BY DEF ClientInv, InvitesFit
  <2> QED
    BY <1>0, <1>2, <1>4, <2>1, InvitesFitOn
<1> QED
  BY <1>6, <1>7, <1>8, <1>9, <1>10 DEF ClientInv

LEMMA ClientStays == ClientInv /\ UNCHANGED clientVars => ClientInv'
BY DEF clientVars, ClientInv, ClientTyped, LettersFit, LettersInOrder, EndsFollow, EndFollows, ShownEndFollows,
       InvitesFit, Invited, InviteIn, Said, CallsFit, Confirmed, EngagedFits, Engaged, Made, EnemyFits, Inbox, Running

LEMMA ClientSteps ==
  ASSUME ClientInv, [ClientNext]_clientVars
  PROVE  ClientInv'
<1>1. CASE UNCHANGED clientVars
  BY <1>1, ClientStays
<1>2. CASE \E f \in Foes : Challenge(f) \/ PruneStale(f) \/ HandleEncounter(f)
  BY <1>2, PlayerFits
<1>3. CASE \E f \in Foes : FoeChallenges(f)
  BY <1>3, FoeChallengesFits
<1>4. CASE HandleAccept \/ HandleReject \/ Reconnect \/ \E c \in calls : TimesOut(c)
  BY <1>4, PlayerFits
<1>5. CASE \E c \in calls : ServeRequest(c) \/ ServeAnswer(c)
  BY <1>5, ServeFits
<1>6. CASE \E d \in DuelNos : DeliverInvite(d) \/ FoeAnswers(d) \/ EndDuel(d)
  BY <1>6, DeliverInviteFits, FoeAnswersFits, EndDuelFits
<1>7. CASE DropLink
  BY <1>7, DropLinkFits
<1>8. CASE HandleDuelRequested \/ HandleDuelAccepted \/ HandleEnding
  BY <1>8, OfferFits, EndingFits
<1>9. CASE HandleException \/ HandleRequestAck \/ HandleAcceptAck
  BY <1>9, ReplyFits
<1> QED
  BY <1>1, <1>2, <1>3, <1>4, <1>5, <1>6, <1>7, <1>8, <1>9, Zenon DEF ClientNext

LEMMA ClientKeeps == ClientSpec => []ClientInv
<1>1. ClientInit => ClientInv
  BY ClientInitially
<1>2. ClientInv /\ [ClientNext]_clientVars => ClientInv'
  BY ClientSteps
<1> QED
  BY <1>1, <1>2, PTL DEF ClientSpec

(* A duel shown on the screens that has ended has its ending still to be handled            *)
(* (handleDuelRejected, -Expired, -Completed, -Voided of SocketProvider), unless a drop of  *)
(* the link lost it; and the enemy shown is the opponent in that duel, unless the client    *)
(* had let go of a duel of its own before (deliverDuelInvite, handleDuelAccepted).          *)
THEOREM ScreensFollowTheDuel == ClientSpec => []OverlayFollowsDuel
<1>1. ClientInv => OverlayFollowsDuel
  BY DEF ClientInv, ShownEndFollows, EnemyFits, OverlayFollowsDuel
<1> QED
  BY <1>1, ClientKeeps, PTL

(* Who is listed is a player: so is the enemy of a duel the client has asked for, whom its  *)
(* ending lists again.                                                                      *)
ListedWithin ==
  /\ listed \subseteq Foes /\ (overlay.role = "challenger" => overlay.enemy \in Foes)
  /\ linked \in BOOLEAN /\ tries \in 0..MaxChallenges /\ lapses \in 0..MaxLapses /\ missed \subseteq DuelNos

LEMMA ListedKeeps ==
  ASSUME ClientInv, ListedWithin, ClientNext
  PROVE  ListedWithin'
<1>1. /\ overlay \in Overlays /\ calls \subseteq CallRecords
      /\ \A c \in calls : c.kind = "request" => c.foe \in Foes
  BY DEF ClientInv, ClientTyped, CallsFit
<1>2. MaxChallenges \in Nat /\ MaxLapses \in Nat
  BY DuelClientAssumption
<1>3. Closed.role = "none"
  BY DEF Closed
<1>4. ASSUME Took, listed' \subseteq Foes, overlay'.role = "challenger" => overlay'.enemy \in Foes PROVE ListedWithin'
  BY <1>4 DEF Took, ListedWithin
<1>5. CASE \E f \in Foes : Challenge(f) \/ PruneStale(f) \/ HandleEncounter(f) \/ FoeChallenges(f)
  BY <1>2, <1>5 DEF Challenge, PruneStale, HandleEncounter, FoeChallenges, ListedWithin
<1>6. CASE HandleAccept \/ HandleReject
  <2>1. overlay' = Closed \/ (overlay'.role = overlay.role /\ overlay'.enemy = overlay.enemy)
    BY <1>1, <1>6 DEF HandleAccept, HandleReject, Overlays
  <2> QED
    BY <1>3, <1>6, <2>1 DEF HandleAccept, HandleReject, ListedWithin
<1>7. ASSUME NEW c \in calls, TimesOut(c) \/ ServeRequest(c) \/ ServeAnswer(c) PROVE ListedWithin'
  <2>1. CASE TimesOut(c)
    <3>1. lapses' \in 0..MaxLapses
      BY <1>2, <2>1 DEF TimesOut, Lapse, ListedWithin
    <3>2. overlay' = Closed \/ overlay' = overlay
      BY <2>1 DEF TimesOut
    <3> QED
      BY <1>3, <2>1, <3>1, <3>2 DEF TimesOut, ListedWithin
  <2>2. CASE ServeRequest(c) \/ ServeAnswer(c)
    BY <2>2 DEF ServeRequest, ServeAnswer, ListedWithin
  <2> QED
    BY <1>7, <2>1, <2>2
<1>8. ASSUME NEW d \in DuelNos, DeliverInvite(d) \/ FoeAnswers(d) \/ EndDuel(d) PROVE ListedWithin'
  <2>1. missed' \subseteq DuelNos
    BY <1>8 DEF DeliverInvite, FoeAnswers, EndDuel, NotifyPlayer, ListedWithin
  <2>2. UNCHANGED <<overlay, listed, linked, tries, lapses>>
    BY <1>8 DEF DeliverInvite, FoeAnswers, EndDuel
  <2> QED
    BY <2>1, <2>2 DEF ListedWithin
<1>9. CASE DropLink \/ Reconnect
  <2>1. /\ linked' \in BOOLEAN /\ UNCHANGED <<overlay, listed, tries>>
        /\ lapses' = lapses \/ (lapses > 0 /\ lapses' = lapses - 1)
    BY <1>9 DEF DropLink, Reconnect, Lapse
  <2>2. missed' \subseteq DuelNos
    BY <1>9 DEF DropLink, Reconnect, ListedWithin
  <2>3. lapses' \in 0..MaxLapses
    BY <1>2, <2>1 DEF ListedWithin
  <2> QED
    BY <2>1, <2>2, <2>3 DEF ListedWithin
<1>10. CASE HandleDuelRequested \/ HandleException \/ HandleAcceptAck
  <2>1. Took /\ UNCHANGED listed
    BY <1>10 DEF HandleDuelRequested, HandleException, HandleAcceptAck
  <2>2. overlay' = overlay \/ overlay' = Closed \/ overlay'.role = "recipient"
    BY <1>10 DEF HandleDuelRequested, HandleException, HandleAcceptAck
  <2> QED
    BY <1>3, <1>4, <2>1, <2>2 DEF ListedWithin
<1>11. CASE HandleDuelAccepted
  <2>1. Took /\ listed' \subseteq Foes
    BY <1>11 DEF HandleDuelAccepted, ListedWithin
  <2>2. CASE overlay.duel = Message.duel
    <3>1. overlay' = [overlay EXCEPT !.shown = {"game"}]
      BY <1>11, <2>2 DEF HandleDuelAccepted
    <3>2. overlay'.role = overlay.role /\ overlay'.enemy = overlay.enemy
      BY <1>1, <3>1 DEF Overlays
    <3> QED
      BY <1>4, <2>1, <3>2 DEF ListedWithin
  <2>3. CASE overlay.duel # Message.duel
    <3>1. overlay' = overlay \/ (overlay'.enemy = challenge /\ challenge \in listed)
      BY <1>11, <2>3 DEF HandleDuelAccepted, Adopts
    <3> QED
      BY <1>4, <2>1, <3>1 DEF ListedWithin
  <2> QED
    BY <2>2, <2>3
<1>12. CASE HandleEnding
  <2>1. Took /\ listed' \subseteq Foes /\ (overlay' = overlay \/ overlay' = Closed)
    BY <1>12 DEF HandleEnding, ListedWithin
  <2> QED
    BY <1>3, <1>4, <2>1 DEF ListedWithin
<1>13. CASE HandleRequestAck
  <2>1. Took /\ listed' \subseteq Foes
    BY <1>13 DEF HandleRequestAck, ListedWithin
  <2>2. overlay' = overlay \/ \E c \in calls : c.kind = "request" /\ overlay'.enemy = c.foe
    BY <1>13 DEF HandleRequestAck, Awaited
  <2> QED
    BY <1>1, <1>4, <2>1, <2>2 DEF ListedWithin
<1> QED
  BY <1>5, <1>6, <1>7, <1>8, <1>9, <1>10, <1>11, <1>12, <1>13, Zenon DEF ClientNext

(* useBattleStore and useOverlayStore keep their shapes: a duel shown or called about is    *)
(* one the server has numbered, and only players are listed, also after an ending has       *)
(* listed the enemy again (restoreChallengedEnemy).                                         *)
THEOREM ClientStaysTyped == ClientSpec => []ClientTypeOK
<1>1. ClientInit => ListedWithin
  BY DuelClientAssumption DEF ClientInit, ListedWithin, Closed
<1>2. ClientInv /\ ListedWithin /\ [ClientNext]_clientVars => ListedWithin'
  <2>1. ListedWithin /\ UNCHANGED clientVars => ListedWithin'
    BY DEF clientVars, ListedWithin
  <2> QED
    BY <2>1, ListedKeeps
<1>3. ClientInv /\ ListedWithin => ClientTypeOK
  <2> SUFFICES ASSUME ClientInv, ListedWithin
               PROVE  ClientTypeOK
    OBVIOUS
  <2>1. /\ overlay \in Overlays /\ calls \subseteq CallRecords
        /\ overlay.duel # 0 => overlay.duel \in DuelNos
        /\ \A c \in calls : c.duel # 0 => c.duel \in DuelNos
    BY DEF ClientInv, ClientTyped, CallsFit
  <2>2. 0 \in 0..MaxDuels /\ DuelNos \subseteq 0..MaxDuels
    BY DuelNosFit DEF DuelNos
  <2>3. overlay \in [duel : 0..MaxDuels, role : {"none", "challenger", "recipient"},
                     enemy : Foes \union {NoFoe}, shown : SUBSET {"request", "pending", "game"}]
    BY <2>1, <2>2 DEF Overlays
  <2>4. calls \subseteq [kind : {"request", "accept", "reject"}, foe : Foes \union {NoFoe},
                       duel : 0..MaxDuels, armed : BOOLEAN, due : BOOLEAN]
    BY <2>1, <2>2 DEF CallRecords
  <2> QED
    BY <2>3, <2>4 DEF ClientInv, ClientTyped, DuelRecords, ListedWithin, ClientTypeOK
<1> QED
  BY <1>1, <1>2, <1>3, ClientKeeps, PTL DEF ClientSpec


(* What closes the screens of a duel that runs. *)
Closes(d) ==
  \/ \E c \in calls' \ calls : c.kind = "reject" /\ c.duel = d
  \/ inbox # <<>> /\ inbox' = Tail(inbox) /\ Message.code \in {"ANSWER", "SHIELDED"}
  \/ \E c \in calls : c.kind = "accept" /\ c.armed /\ c \notin calls'

LEMMA ClosingSteps ==
  ASSUME ClientInv, ClientNext, NEW d \in DuelNos, overlay.duel = d, overlay'.duel # d, Running(d)
  PROVE  Closes(d)
<1> USE DEF ClientInv
<1>0. d # 0 /\ calls \subseteq CallRecords
  BY DuelNosFit DEF ClientTyped
<1>1. CASE HandleReject
  <2> DEFINE n == Call("reject", NoFoe, d)
  <2>0. d \in Nat
    BY DuelNosFit
  <2>1. n.kind = "reject" /\ n.duel = d
    BY <2>0, CallFits
  <2>2. calls' = calls \union {n}
    BY <1>1 DEF HandleReject
  <2> HIDE DEF n
  <2>3. n \notin calls
    BY <1>1, <2>1 DEF HandleReject, InvitesFit, Invited
  <2> QED
    BY <2>1, <2>2, <2>3 DEF Closes
<1>2. ASSUME NEW c \in calls, TimesOut(c)
      PROVE  Closes(d)
  <2>1. c.kind = "accept" /\ c.armed
    <3>1. c.kind # "request" /\ c.armed
      BY <1>2 DEF TimesOut
    <3> QED
      BY <1>0, <3>1 DEF CallsFit, CallRecords
  <2>2. c \notin calls'
    <3> DEFINE n == [c EXCEPT !.armed = FALSE]
    <3>1. n.armed = FALSE
      BY <1>0 DEF CallRecords
    <3>2. calls' = (calls \ {c}) \union (IF c.due THEN {n} ELSE {})
      BY <1>2 DEF TimesOut, Unawaited, Disarmed
    <3> HIDE DEF n
    <3>3. n # c
      BY <2>1, <3>1
    <3> QED
      BY <3>2, <3>3
  <2> QED
    BY <2>1, <2>2 DEF Closes
<1>3. CASE HandleDuelRequested \/ HandleDuelAccepted
  <2>1. overlay' # overlay => overlay.duel = 0 \/ overlay'.duel = overlay.duel
    BY <1>3 DEF HandleDuelRequested, HandleDuelAccepted, IsDuelBusy, Adopts, ClientTyped, Overlays
  <2> QED
    BY <1>0, <2>1
<1>4. CASE HandleEnding
  <2>1. Took /\ Message.kind \in Endings /\ Message.duel = d
    BY <1>4 DEF HandleEnding
  <2>2. FitsIn(Message, duels)
    BY <2>1, LettersTaken
  <2> QED
    BY <2>1, <2>2 DEF FitsIn, Running
<1>5. CASE HandleException
  <2>1. Took /\ Message.kind = "exception" /\ Resets(Message.code)
    BY <1>5 DEF HandleException
  <2>2. FitsIn(Message, duels)
    BY <2>1, LettersTaken
  <2>3. Message.code \in {"ANSWER", "SHIELDED"}
    BY <2>1, <2>2 DEF FitsIn, Resets, Endings
  <2> QED
    BY <2>1, <2>3 DEF Took, Closes
<1>6. CASE HandleRequestAck
  <2>1. overlay' = overlay \/ (overlay.duel \in {0, Message.duel} /\ overlay'.duel = Message.duel)
    BY <1>6 DEF HandleRequestAck
  <2> QED
    BY <1>0, <2>1
<1>7. CASE HandleAcceptAck
  <2>1. PICK c \in calls : c.kind = "accept" /\ c.armed /\ c \notin calls'
    BY <1>7 DEF HandleAcceptAck, Awaited
  <2> QED
    BY <2>1 DEF Closes
<1>8. CASE HandleAccept
  BY <1>8 DEF HandleAccept, ClientTyped, Overlays
<1>9. CASE UNCHANGED overlay
  BY <1>9
<1>10. \/ HandleReject \/ HandleAccept \/ (\E c \in calls : TimesOut(c)) \/ UNCHANGED overlay
       \/ HandleDuelRequested \/ HandleDuelAccepted \/ HandleEnding
       \/ HandleException \/ HandleRequestAck \/ HandleAcceptAck
  BY Zenon DEF ClientNext, Challenge, PruneStale, HandleEncounter, FoeChallenges, ServeRequest, ServeAnswer,
     DeliverInvite, FoeAnswers, EndDuel, DropLink, Reconnect
<1> QED
  BY <1>1, <1>2, <1>3, <1>4, <1>5, <1>6, <1>7, <1>8, <1>9, <1>10

(* No step takes a duel that runs off the screens but a refusal of the player               *)
(* (handleReject), an acceptance of his that came to nothing (handleAccept), or the         *)
(* exception that answers it (handleException).                                             *)
THEOREM ScreensCloseForAReason == ClientSpec => ClosedForAReason
<1> DEFINE Reasoned == \A d \in DuelNos : overlay.duel = d /\ overlay'.duel # d /\ Running(d) => Closes(d)
<1>1. ClientInv /\ [ClientNext]_clientVars => [Reasoned]_clientVars
  BY ClosingSteps
<1>2. ClientSpec => [][Reasoned]_clientVars
  BY <1>1, ClientKeeps, PTL DEF ClientSpec
<1> QED
  BY <1>2 DEF ClosedForAReason, Closes

-----------------------------------------------------------------------------
(* The screen of a game.  In a round that is played there is at most one of: the start that *)
(* has not arrived, the leave to play, a submission, its refusal, and the score the server  *)
(* holds.  Starts arrive in the order of their rounds, and none is ahead of the server.      *)
PacketRecords == [type : {"accepted", "start", "go", "opponent", "result", "over", "DUEL", "NOT_ACTIVE",
                          "ROUND_MISMATCH", "INVALID_SCORE", "ALREADY_SUBMITTED"},
                  duel : Nat, round : Nat, kind : Kinds \union {"none"}]
Submissions == [duel : Nat, round : Nat, many : BOOLEAN, tap : {"early", "shown", "other"}]
RoundsShown == [kind : Kinds \union {"none"}, round : Nat, mine : BOOLEAN, theirs : BOOLEAN]
Boards == [duel : Nat, signal : Nat, of : RoundsShown]
Pieces == [kind : Kinds \union {"none"}, round : Nat, base : Nat, timer : BOOLEAN, early : BOOLEAN,
           phase : {"none", "ready", "playing", "waiting", "tooSoon", "go", "asking"}]
Matches == [no : Nat, round : Nat \ {0}, kind : Kinds, running : BOOLEAN, go : BOOLEAN, theirs : BOOLEAN,
            mine : {"none", "falseStart", "valid"}, tap : {"none", "early", "shown", "other"}]
GameTyped ==
  /\ match \in Matches /\ owed \subseteq PacketRecords /\ packets \in Seq(PacketRecords)
  /\ uplink \in Seq(Submissions) /\ connected \in BOOLEAN /\ cutOff \in BOOLEAN
  /\ board \in Boards /\ piece \in Pieces

IsStart(p) == p.type = "start"
IsRefusal(p) == p.type = "INVALID_SCORE"
InTime(m, p) ==
  /\ p.duel = m.no /\ p.round <= m.round
  /\ p.type = "go" => p.round # 0 /\ (p.round = m.round => m.go)
  /\ p.type = "opponent" /\ p.round = m.round => m.theirs
LinkFits(m, q, b) ==
  /\ \A i \in 1..Len(q) :
       /\ q[i].type \in {"accepted", "start", "go", "opponent", "result", "INVALID_SCORE", "ROUND_MISMATCH"}
       /\ q[i].type \in {"accepted", "start", "result", "go", "opponent"} => InTime(m, q[i])
       /\ IsStart(q[i]) => b.of.round < q[i].round
  /\ \A i, j \in 1..Len(q) : i < j /\ IsStart(q[i]) /\ IsStart(q[j]) => q[i].round < q[j].round
  /\ b.duel \in {0, m.no} /\ b.of.round <= m.round
  /\ b.of.round = m.round /\ b.of.theirs => m.theirs
UplinkFits(m, u) ==
  \A i \in 1..Len(u) : /\ u[i].duel = m.no /\ u[i].round <= m.round
                       /\ u[i].tap = "shown" /\ u[i].round = m.round => m.go
NoneSent(m, u) == \A i \in 1..Len(u) : u[i].round # m.round
NoneRefused(q) == \A i \in 1..Len(q) : ~IsRefusal(q[i])
OneTry(m, q, u, b) ==
  /\ (\E i \in 1..Len(q) : IsStart(q[i]) /\ q[i].round = m.round) \/ (b.of.round = m.round /\ ~b.of.mine)
       => NoneSent(m, u) /\ NoneRefused(q) /\ m.mine = "none"
  /\ ~NoneSent(m, u) => NoneRefused(q) /\ m.mine = "none"
  /\ ~NoneRefused(q) => m.mine = "none"
  /\ \A i, j \in 1..Len(u) : u[i].round = m.round /\ u[j].round = m.round => i = j
  /\ \A i, j \in 1..Len(q) : IsRefusal(q[i]) /\ IsRefusal(q[j]) => i = j
WithReason(m, q, u, b, cut) ==
  b.of.round = m.round /\ b.of.mine /\ m.mine = "none" => cut \/ ~NoneSent(m, u) \/ ~NoneRefused(q)
SignalFits(m, b, c) == c.kind # "none" /\ c.round = m.round /\ b.signal # c.base => m.go
PieceFits(b, c) ==
  /\ c.kind # "none" => c.kind = b.of.kind /\ c.round = b.of.round /\ ~b.of.mine /\ c.base <= b.signal
  /\ c.phase = "go" => c.kind = "REACTION" /\ c.base < b.signal
  /\ c.kind = "none" => c.phase = "none" /\ ~c.timer
BoardFits(b) == b.duel = 0 => b.of.round = 0
QueueFits(o, q) ==
  /\ \A i \in 1..Len(q) : q[i].type # "ALREADY_SUBMITTED" /\ (IsStart(q[i]) => q[i].duel # 0)
  /\ \A p \in o : p.type \in {"go", "opponent"}
PlayFits(m, o, q, u, b, c, cut) ==
  m.running => /\ m.no # 0
               /\ \A p \in o : InTime(m, p)
               /\ LinkFits(m, q, b) /\ UplinkFits(m, u) /\ OneTry(m, q, u, b)
               /\ WithReason(m, q, u, b, cut) /\ SignalFits(m, b, c)
Honest(m) == m.mine = "falseStart" => m.tap # "shown"
GameInv ==
  /\ GameTyped /\ BoardFits(board) /\ QueueFits(owed, packets) /\ PieceFits(board, piece) /\ Honest(match)
  /\ PlayFits(match, owed, packets, uplink, board, piece, cutOff)

LEMMA Grown ==
  ASSUME NEW S, NEW q \in Seq(S), NEW x \in S
  PROVE  /\ Append(q, x) \in Seq(S) /\ Len(Append(q, x)) = Len(q) + 1 /\ Len(q) \in Nat
         /\ \A i \in 1..Len(q) : Append(q, x)[i] = q[i] /\ q[i] \in S
         /\ Append(q, x)[Len(q) + 1] = x
         /\ \A i \in 1..Len(q) + 1 : i \in 1..Len(q) \/ i = Len(q) + 1
         /\ q \o <<x>> = Append(q, x)
OBVIOUS

LEMMA Taken ==
  ASSUME NEW S, NEW q \in Seq(S), q # <<>>
  PROVE  /\ Tail(q) \in Seq(S) /\ Len(Tail(q)) = Len(q) - 1 /\ Len(q) \in Nat \ {0} /\ Head(q) = q[1] /\ q[1] \in S
         /\ 1 \in 1..Len(q)
         /\ \A i \in 1..Len(q) - 1 : Tail(q)[i] = q[i + 1] /\ i + 1 \in 1..Len(q) /\ i \in 1..Len(q)
OBVIOUS

-----------------------------------------------------------------------------
(* What a packet does to the board. *)
Stays(b, p, d) == ~IsRefusal(p) /\ d = b
OpensRound(b, p, d) == p.type = "accepted" /\ b.duel = 0 /\ d.duel = p.duel /\ d.signal = b.signal /\ d.of = b.of
Starts(b, p, d) ==
  /\ IsStart(p) /\ b.duel = p.duel /\ d.duel = b.duel /\ d.signal = b.signal
  /\ d.of.round = p.round /\ ~d.of.mine /\ ~d.of.theirs
Signals(b, p, d) ==
  p.type = "go" /\ b.duel = p.duel /\ b.of.round = p.round /\ d.duel = b.duel /\ d.signal = b.signal + 1 /\ d.of = b.of
Nudges(b, p, d) ==
  /\ p.type = "opponent" /\ b.duel = p.duel /\ b.of.round = p.round /\ d.duel = b.duel /\ d.signal = b.signal
  /\ d.of.round = b.of.round /\ d.of.mine = b.of.mine
Clears(b, p, d) ==
  /\ p.type \in {"result", "over", "DUEL"} /\ d.duel \in {0, b.duel} /\ d.signal = b.signal
  /\ d.of.round = 0 /\ ~d.of.mine /\ ~d.of.theirs
LetsRetry(b, p, d) ==
  /\ IsRefusal(p) /\ d.duel = b.duel /\ d.signal = b.signal
  /\ d.of.round = b.of.round /\ ~d.of.mine /\ d.of.theirs = b.of.theirs
Delivered(b, p, d) ==
  \/ Stays(b, p, d) \/ OpensRound(b, p, d) \/ Starts(b, p, d) \/ Signals(b, p, d)
  \/ Nudges(b, p, d) \/ Clears(b, p, d) \/ LetsRetry(b, p, d)

LEMMA NoRoundIsShown == NoRound \in RoundsShown /\ NoRound.round = 0 /\ ~NoRound.mine /\ ~NoRound.theirs /\ NoRound.kind = "none"
BY DEF NoRound, RoundsShown

LEMMA ClearedIs ==
  ASSUME NEW b \in Boards
  PROVE  /\ Cleared(b) \in Boards /\ Cleared(b).duel = b.duel /\ Cleared(b).signal = b.signal /\ Cleared(b).of = NoRound
         /\ Emptied(b) \in Boards /\ Emptied(b).duel = 0 /\ Emptied(b).signal = b.signal /\ Emptied(b).of = NoRound
<1> DEFINE d == Cleared(b)
<1>1. d \in Boards /\ d.duel = b.duel /\ d.signal = b.signal /\ d.of = NoRound
      BY NoRoundIsShown DEF Cleared, Boards
<1> HIDE DEF d
<1>2. Emptied(b) = [d EXCEPT !.duel = 0]
      BY DEF Emptied, d
<1>3. Emptied(b) \in Boards /\ Emptied(b).duel = 0 /\ Emptied(b).signal = d.signal /\ Emptied(b).of = d.of
      BY <1>1, <1>2 DEF Boards
<1> QED BY <1>1, <1>3 DEF d

LEMMA AppliedDelivers ==
  ASSUME NEW b \in Boards, NEW p \in PacketRecords
  PROVE  Applied(b, p) \in Boards /\ Delivered(b, p, Applied(b, p))
<1> DEFINE d == Applied(b, p)
<1>1. CASE p.type = "accepted"
  <2>1. d = IF b.duel = 0 THEN [b EXCEPT !.duel = p.duel] ELSE b
        BY <1>1 DEF Applied, Retriable
  <2> HIDE DEF d
  <2>2. CASE b.duel = 0
    <3>1. d \in Boards /\ OpensRound(b, p, d)
          BY <1>1, <2>1, <2>2 DEF Boards, PacketRecords, OpensRound
    <3> QED BY <3>1 DEF Delivered, d
  <2>3. CASE b.duel # 0
    <3>1. Stays(b, p, d)
          BY <1>1, <2>1, <2>3 DEF Stays, IsRefusal
    <3> QED BY <2>1, <2>3, <3>1 DEF Delivered, d
  <2> QED BY <2>2, <2>3
<1>2. CASE p.type = "start"
  <2> DEFINE r == [NoRound EXCEPT !.kind = p.kind, !.round = p.round]
  <2>1. d = IF b.duel # p.duel THEN b ELSE [b EXCEPT !.of = r]
        BY <1>2 DEF Applied, Retriable
  <2>2. r \in RoundsShown /\ r.round = p.round /\ ~r.mine /\ ~r.theirs
        BY NoRoundIsShown DEF RoundsShown, PacketRecords
  <2> HIDE DEF d, r
  <2>3. CASE b.duel = p.duel
    <3>1. d \in Boards /\ d.duel = b.duel /\ d.signal = b.signal /\ d.of = r
          BY <2>1, <2>2, <2>3 DEF Boards
    <3>2. Starts(b, p, d)
          BY <1>2, <2>2, <2>3, <3>1 DEF Starts, IsStart
    <3> QED BY <3>1, <3>2 DEF Delivered, d
  <2>4. CASE b.duel # p.duel
    <3>1. Stays(b, p, d)
          BY <1>2, <2>1, <2>4 DEF Stays, IsRefusal
    <3> QED BY <2>1, <2>4, <3>1 DEF Delivered, d
  <2> QED BY <2>3, <2>4
<1>3. CASE p.type = "go"
  <2>1. d = IF IsOurRound(b, p) THEN [b EXCEPT !.signal = b.signal + 1] ELSE b
        BY <1>3 DEF Applied, Boards, Retriable
  <2> HIDE DEF d
  <2>2. CASE IsOurRound(b, p)
    <3>1. d \in Boards /\ d.duel = b.duel /\ d.signal = b.signal + 1 /\ d.of = b.of
          BY <2>1, <2>2 DEF Boards
    <3>2. Signals(b, p, d)
          BY <1>3, <2>2, <3>1 DEF Signals, IsOurRound
    <3> QED BY <3>1, <3>2 DEF Delivered, d
  <2>3. CASE ~IsOurRound(b, p)
    <3>1. Stays(b, p, d)
          BY <1>3, <2>1, <2>3 DEF Stays, IsRefusal
    <3> QED BY <2>1, <2>3, <3>1 DEF Delivered, d
  <2> QED BY <2>2, <2>3
<1>4. CASE p.type = "opponent"
  <2> DEFINE r == [b.of EXCEPT !.theirs = TRUE]
  <2>1. d = IF IsOurRound(b, p) THEN [b EXCEPT !.of = r] ELSE b
        BY <1>4 DEF Applied, Boards, Retriable
  <2>2. r \in RoundsShown /\ r.round = b.of.round /\ r.mine = b.of.mine
        BY DEF RoundsShown, Boards
  <2> HIDE DEF d, r
  <2>3. CASE IsOurRound(b, p)
    <3>1. d \in Boards /\ d.duel = b.duel /\ d.signal = b.signal /\ d.of = r
          BY <2>1, <2>2, <2>3 DEF Boards
    <3>2. Nudges(b, p, d)
          BY <1>4, <2>2, <2>3, <3>1 DEF Nudges, IsOurRound
    <3> QED BY <3>1, <3>2 DEF Delivered, d
  <2>4. CASE ~IsOurRound(b, p)
    <3>1. Stays(b, p, d)
          BY <1>4, <2>1, <2>4 DEF Stays, IsRefusal
    <3> QED BY <2>1, <2>4, <3>1 DEF Delivered, d
  <2> QED BY <2>3, <2>4
<1>5. CASE p.type \in {"result", "over", "DUEL"}
  <2>1. d = b \/ d = Cleared(b) \/ d = Emptied(b)
        BY <1>5 DEF Applied, Retriable
  <2> HIDE DEF d
  <2>2. CASE d = b
    <3>1. Stays(b, p, d)
          BY <1>5, <2>2 DEF Stays, IsRefusal
    <3> QED BY <2>2, <3>1 DEF Delivered, d
  <2>3. CASE d # b
    <3>1. d \in Boards /\ d.duel \in {0, b.duel} /\ d.signal = b.signal /\ d.of = NoRound
          BY <2>1, <2>3, ClearedIs
    <3>2. Clears(b, p, d)
          BY <1>5, <3>1, NoRoundIsShown DEF Clears
    <3> QED BY <3>1, <3>2 DEF Delivered, d
  <2> QED BY <2>2, <2>3
<1>6. CASE p.type = "INVALID_SCORE"
  <2> DEFINE r == [b.of EXCEPT !.mine = FALSE]
  <2>1. d = [b EXCEPT !.of = r]
        BY <1>6 DEF Applied, Boards, Retriable
  <2>2. r \in RoundsShown /\ r.round = b.of.round /\ ~r.mine /\ r.theirs = b.of.theirs
        BY DEF RoundsShown, Boards
  <2> HIDE DEF d, r
  <2>3. d \in Boards /\ d.duel = b.duel /\ d.signal = b.signal /\ d.of = r
        BY <2>1, <2>2 DEF Boards
  <2>4. LetsRetry(b, p, d)
        BY <1>6, <2>2, <2>3 DEF LetsRetry, IsRefusal
  <2> QED BY <2>3, <2>4 DEF Delivered, d
<1>7. CASE p.type \in {"NOT_ACTIVE", "ROUND_MISMATCH", "ALREADY_SUBMITTED"}
  <2>1. d = b
        BY <1>7 DEF Applied, Retriable
  <2>2. Stays(b, p, d)
        BY <1>7, <2>1 DEF Stays, IsRefusal
  <2> QED BY <2>1, <2>2 DEF Delivered
<1>8. p.type \in {"accepted", "start", "go", "opponent", "result", "over", "DUEL", "NOT_ACTIVE",
                   "ROUND_MISMATCH", "INVALID_SCORE", "ALREADY_SUBMITTED"}
      BY DEF PacketRecords
<1> QED BY <1>1, <1>2, <1>3, <1>4, <1>5, <1>6, <1>7, <1>8

(* The piece that is mounted was so before anything but its own signal came: no start is on *)
(* its way, and the board shows its round or none.                                           *)
Middle(m, q, b, c) ==
  c.kind # "none" /\ c.round = m.round =>
    /\ \A i \in 1..Len(q) : ~IsStart(q[i])
    /\ b.of.round \in {0, m.round}
    /\ b.signal # c.base => m.go

LEMMA DeliveryKeeps ==
  ASSUME NEW m \in Matches, NEW q \in Seq(PacketRecords), NEW u \in Seq(Submissions), NEW b \in Boards,
         NEW d \in Boards, NEW c \in Pieces, NEW cut \in BOOLEAN,
         q # <<>>, Delivered(b, Head(q), d), m.no # 0, BoardFits(b),
         LinkFits(m, q, b), OneTry(m, q, u, b), WithReason(m, q, u, b, cut), Middle(m, q, b, c)
  PROVE  /\ LinkFits(m, Tail(q), d) /\ OneTry(m, Tail(q), u, d) /\ WithReason(m, Tail(q), u, d, cut) /\ Middle(m, Tail(q), d, c)
<1> DEFINE p == Head(q)
           r == Tail(q)
<1>1. /\ r \in Seq(PacketRecords) /\ Len(r) = Len(q) - 1 /\ Len(q) \in Nat \ {0} /\ p = q[1] /\ p \in PacketRecords
      /\ 1 \in 1..Len(q)
      /\ \A i \in 1..Len(r) : r[i] = q[i + 1] /\ i + 1 \in 1..Len(q)
      BY Taken
<1>2. Delivered(b, p, d)
      OBVIOUS
<1> HIDE DEF p, r
<1>3. /\ p.type \in {"accepted", "start", "go", "opponent", "result", "INVALID_SCORE", "ROUND_MISMATCH"}
      /\ p.type \in {"accepted", "start", "result", "go", "opponent"} => InTime(m, p)
      /\ IsStart(p) => b.of.round < p.round
      BY <1>1 DEF LinkFits
<1>4. /\ b.duel \in {0, m.no} /\ b.of.round <= m.round
      /\ b.of.round = m.round /\ b.of.theirs => m.theirs
      BY DEF LinkFits
<1>5. m.round \in Nat \ {0} /\ m.no \in Nat /\ b.of.round \in Nat /\ d.of.round \in Nat /\ p.round \in Nat /\ p.duel \in Nat
      BY <1>1 DEF Matches, Boards, RoundsShown, PacketRecords
<1>6. \A i \in 1..Len(r) :
       /\ r[i].type \in {"accepted", "start", "go", "opponent", "result", "INVALID_SCORE", "ROUND_MISMATCH"}
       /\ r[i].type \in {"accepted", "start", "result", "go", "opponent"} => InTime(m, r[i])
       /\ IsStart(r[i]) => b.of.round < r[i].round
       /\ IsStart(p) /\ IsStart(r[i]) => p.round < r[i].round
       /\ r[i].round \in Nat
  <2> TAKE i \in 1..Len(r)
  <2>1. r[i] = q[i + 1] /\ i + 1 \in 1..Len(q) /\ 1 < i + 1
        BY <1>1
  <2>2. q[i + 1].round \in Nat
    <3>1. q[i + 1] \in PacketRecords
          BY <2>1
    <3> QED BY <3>1 DEF PacketRecords
  <2> QED BY <1>1, <2>1, <2>2 DEF LinkFits
<1>7. \A i, j \in 1..Len(r) : i < j /\ IsStart(r[i]) /\ IsStart(r[j]) => r[i].round < r[j].round
  <2> TAKE i, j \in 1..Len(r)
  <2>1. r[i] = q[i + 1] /\ i + 1 \in 1..Len(q) /\ r[j] = q[j + 1] /\ j + 1 \in 1..Len(q) /\ (i < j => i + 1 < j + 1)
        BY <1>1
  <2> QED BY <2>1 DEF LinkFits
<1>8. d.duel \in {0, m.no} /\ d.of.round <= m.round /\ (d.of.round = m.round /\ d.of.theirs => m.theirs)
  <2>1. CASE Stays(b, p, d) \/ OpensRound(b, p, d) \/ Signals(b, p, d) \/ LetsRetry(b, p, d)
        BY <1>3, <1>4, <2>1 DEF Stays, OpensRound, Signals, LetsRetry, InTime
  <2>2. CASE Starts(b, p, d) \/ Clears(b, p, d)
        BY <1>3, <1>4, <1>5, <2>2 DEF Starts, Clears, InTime, IsStart
  <2>3. CASE Nudges(b, p, d)
        BY <1>3, <1>4, <2>3 DEF Nudges, InTime
  <2> QED BY <1>2, <2>1, <2>2, <2>3 DEF Delivered
<1>9. \A i \in 1..Len(r) : IsStart(r[i]) => d.of.round < r[i].round
  <2> SUFFICES ASSUME NEW i \in 1..Len(r), IsStart(r[i]) PROVE d.of.round < r[i].round
      OBVIOUS
  <2>1. d.of.round = b.of.round \/ d.of.round = 0 \/ (IsStart(p) /\ d.of.round = p.round)
        BY <1>2 DEF Delivered, Stays, OpensRound, Signals, LetsRetry, Starts, Clears, Nudges
  <2>2. b.of.round < r[i].round /\ (IsStart(p) => p.round < r[i].round) /\ r[i].round \in Nat
        BY <1>6
  <2> QED BY <1>5, <2>1, <2>2
<1>10. LinkFits(m, r, d)
      BY <1>6, <1>7, <1>8, <1>9 DEF LinkFits
<1>11. NoneRefused(q) => NoneRefused(r)
      BY <1>1 DEF NoneRefused
<1>12. ~NoneRefused(r) => ~NoneRefused(q) /\ ~IsRefusal(p)
  <2> SUFFICES ASSUME NEW i \in 1..Len(r), IsRefusal(r[i]) PROVE ~NoneRefused(q) /\ ~IsRefusal(p)
      BY DEF NoneRefused
  <2>1. r[i] = q[i + 1] /\ i + 1 \in 1..Len(q) /\ i + 1 # 1
        BY <1>1
  <2> QED BY <1>1, <2>1 DEF NoneRefused, OneTry
<1>13. IsRefusal(p) => ~NoneRefused(q) /\ NoneRefused(r)
      BY <1>1, <1>12 DEF NoneRefused
<1>14. ~IsRefusal(p) => (NoneRefused(r) <=> NoneRefused(q))
  <2> SUFFICES ASSUME ~IsRefusal(p), NoneRefused(r) PROVE NoneRefused(q)
      BY <1>11
  <2>1. \A i \in 1..Len(q) : i = 1 \/ (i - 1 \in 1..Len(r) /\ q[i] = r[i - 1])
        BY <1>1
  <2> QED BY <1>1, <2>1 DEF NoneRefused
<1>15. (\E i \in 1..Len(r) : IsStart(r[i]) /\ r[i].round = m.round) => \E i \in 1..Len(q) : IsStart(q[i]) /\ q[i].round = m.round
      BY <1>1
<1>16. IsStart(p) /\ p.round = m.round => \E i \in 1..Len(q) : IsStart(q[i]) /\ q[i].round = m.round
      BY <1>1
<1> DEFINE coming == \E i \in 1..Len(q) : IsStart(q[i]) /\ q[i].round = m.round
           still == \E i \in 1..Len(r) : IsStart(r[i]) /\ r[i].round = m.round
<1>17. /\ coming \/ (b.of.round = m.round /\ ~b.of.mine) => NoneSent(m, u) /\ NoneRefused(q) /\ m.mine = "none"
       /\ ~NoneSent(m, u) => NoneRefused(q) /\ m.mine = "none"
       /\ ~NoneRefused(q) => m.mine = "none"
      BY DEF OneTry
<1>18. still => coming
      BY <1>15
<1>19. IsStart(p) /\ p.round = m.round => coming
      BY <1>16
<1> HIDE DEF coming, still
<1>20. still \/ (d.of.round = m.round /\ ~d.of.mine) => NoneSent(m, u) /\ NoneRefused(r) /\ m.mine = "none"
  <2>1. CASE Stays(b, p, d) \/ OpensRound(b, p, d) \/ Signals(b, p, d) \/ Nudges(b, p, d)
        BY <1>11, <1>17, <1>18, <2>1 DEF Stays, OpensRound, Signals, Nudges
  <2>2. CASE Starts(b, p, d)
        BY <1>11, <1>17, <1>18, <1>19, <2>2 DEF Starts
  <2>3. CASE Clears(b, p, d)
        BY <1>5, <1>11, <1>17, <1>18, <2>3 DEF Clears
  <2>4. CASE LetsRetry(b, p, d)
        BY <1>13, <1>17, <1>18, <2>4 DEF LetsRetry
  <2> QED BY <1>2, <2>1, <2>2, <2>3, <2>4 DEF Delivered
<1>21. \A i, j \in 1..Len(r) : IsRefusal(r[i]) /\ IsRefusal(r[j]) => i = j
  <2> TAKE i, j \in 1..Len(r)
  <2>1. r[i] = q[i + 1] /\ i + 1 \in 1..Len(q) /\ r[j] = q[j + 1] /\ j + 1 \in 1..Len(q) /\ (i + 1 = j + 1 => i = j)
        BY <1>1
  <2> QED BY <2>1 DEF OneTry
<1>22. OneTry(m, r, u, d)
      BY <1>11, <1>17, <1>20, <1>21 DEF OneTry, still
<1>23. WithReason(m, r, u, d, cut)
  <2>1. CASE Stays(b, p, d) \/ OpensRound(b, p, d) \/ Signals(b, p, d) \/ Nudges(b, p, d)
    <3>1. ~IsRefusal(p) /\ d.of.round = b.of.round /\ d.of.mine = b.of.mine
          BY <2>1 DEF Stays, OpensRound, Signals, Nudges, IsRefusal
    <3> QED BY <1>14, <3>1 DEF WithReason
  <2>2. CASE Starts(b, p, d) \/ Clears(b, p, d) \/ LetsRetry(b, p, d)
        BY <2>2 DEF Starts, Clears, LetsRetry, WithReason
  <2> QED BY <1>2, <2>1, <2>2 DEF Delivered
<1>24. Middle(m, r, d, c)
  <2> SUFFICES ASSUME c.kind # "none", c.round = m.round
               PROVE  /\ \A i \in 1..Len(r) : ~IsStart(r[i])
                      /\ d.of.round \in {0, m.round}
                      /\ d.signal # c.base => m.go
      BY DEF Middle
  <2>1. (\A i \in 1..Len(q) : ~IsStart(q[i])) /\ b.of.round \in {0, m.round} /\ (b.signal # c.base => m.go)
        BY DEF Middle
  <2>2. (\A i \in 1..Len(r) : ~IsStart(r[i])) /\ ~IsStart(p)
        BY <1>1, <2>1
  <2>3. d.of.round \in {0, b.of.round}
        BY <1>2, <2>2 DEF Delivered, Stays, OpensRound, Signals, LetsRetry, Starts, Clears, Nudges
  <2>4. CASE Signals(b, p, d)
    <3>1. p.round = b.of.round /\ p.duel = b.duel /\ p.type = "go" /\ p.duel = m.no
          BY <1>3, <2>4 DEF Signals, InTime
    <3>2. b.of.round = m.round
          BY <1>3, <2>1, <3>1 DEF InTime
    <3>3. b.of.round = m.round => m.go
          BY <1>3, <3>1 DEF InTime
    <3> QED BY <2>1, <2>2, <2>3, <3>2, <3>3
  <2>5. CASE ~Signals(b, p, d)
        BY <1>2, <2>1, <2>2, <2>3, <2>5 DEF Delivered, Stays, OpensRound, Signals, LetsRetry, Starts, Clears, Nudges
  <2> QED BY <2>4, <2>5
<1> QED BY <1>10, <1>22, <1>23, <1>24 DEF r

(* What the board holds besides: its signals are only counted on. *)
LEMMA DeliveryFits ==
  ASSUME NEW b \in Boards, NEW d \in Boards, NEW p \in PacketRecords, Delivered(b, p, d), BoardFits(b),
         IsStart(p) => p.duel # 0
  PROVE  BoardFits(d) /\ b.signal <= d.signal
<1>1. b.signal \in Nat /\ d.signal \in Nat /\ b.of.round \in Nat
      BY DEF Boards, RoundsShown
<1>2. CASE Stays(b, p, d) \/ OpensRound(b, p, d) \/ Signals(b, p, d) \/ Nudges(b, p, d) \/ LetsRetry(b, p, d)
      BY <1>1, <1>2 DEF Stays, OpensRound, Signals, Nudges, LetsRetry, BoardFits
<1>3. CASE Starts(b, p, d) \/ Clears(b, p, d)
      BY <1>1, <1>3 DEF Starts, Clears, BoardFits
<1> QED BY <1>2, <1>3 DEF Delivered

LEMMA RenderingFits ==
  ASSUME NEW m \in Matches, NEW q, NEW a \in Boards, NEW b \in Boards, piece \in Pieces, PieceFits(a, piece),
         a.signal <= b.signal
  PROVE  /\ Rendered(b) \in Pieces /\ PieceFits(b, Rendered(b))
         /\ Middle(m, q, b, piece) => SignalFits(m, b, Rendered(b))
         /\ b.of.mine => Rendered(b).kind = "none"
<1> DEFINE c == Rendered(b)
<1>1. b.of \in RoundsShown /\ b.signal \in Nat /\ a.signal \in Nat /\ piece.base \in Nat
      BY DEF Boards, Pieces
<1>2. CASE b.of.kind = "none" \/ b.of.mine
  <2>1. c = NoPiece
        BY <1>2 DEF Rendered
  <2>2. NoPiece \in Pieces /\ NoPiece.kind = "none" /\ NoPiece.phase = "none" /\ ~NoPiece.timer
        BY DEF NoPiece, Pieces
  <2> QED BY <1>2, <2>1, <2>2 DEF PieceFits, SignalFits
<1>3. CASE ~(b.of.kind = "none" \/ b.of.mine) /\ <<piece.kind, piece.round>> # <<b.of.kind, b.of.round>>
  <2>1. c = Mounted(b)
        BY <1>3 DEF Rendered
  <2>2. PICK ph : ph = CASE b.of.kind = "TAP" -> "ready" [] b.of.kind = "REACTION" -> "waiting" [] OTHER -> "asking"
        OBVIOUS
  <2>3. ph \in {"ready", "waiting", "asking"}
        BY <2>2
  <2>4. c = [NoPiece EXCEPT !.kind = b.of.kind, !.round = b.of.round, !.base = b.signal, !.phase = ph]
        BY <2>1, <2>2 DEF Mounted
  <2> HIDE DEF c
  <2>5. c \in Pieces /\ c.kind = b.of.kind /\ c.round = b.of.round /\ c.base = b.signal /\ c.phase = ph
        BY <1>1, <2>3, <2>4 DEF NoPiece, Pieces, RoundsShown
  <2>6. PieceFits(b, c) /\ SignalFits(m, b, c)
        BY <1>1, <1>3, <2>3, <2>5 DEF PieceFits, SignalFits
  <2> QED BY <1>3, <2>5, <2>6 DEF c
<1>4. CASE ~(b.of.kind = "none" \/ b.of.mine) /\ <<piece.kind, piece.round>> = <<b.of.kind, b.of.round>>
  <2>1. piece.kind = b.of.kind /\ piece.round = b.of.round /\ b.of.kind # "none" /\ ~b.of.mine
        BY <1>4
  <2>2. c = IF piece.kind = "REACTION" /\ b.signal # piece.base THEN [piece EXCEPT !.phase = "go"] ELSE piece
        BY <1>4 DEF Rendered
  <2> HIDE DEF c
  <2>3. piece.base <= a.signal
        BY <2>1 DEF PieceFits
  <2>4. piece.base <= b.signal
        BY <1>1, <2>3
  <2>5. c \in Pieces /\ c.kind = piece.kind /\ c.round = piece.round /\ c.base = piece.base
        BY <2>2 DEF Pieces
  <2>6. c.phase = "go" => c.kind = "REACTION" /\ c.base < b.signal
    <3>1. CASE piece.kind = "REACTION" /\ b.signal # piece.base
          BY <1>1, <2>4, <2>5, <3>1
    <3>2. CASE ~(piece.kind = "REACTION" /\ b.signal # piece.base)
      <4>1. c = piece
            BY <2>2, <3>2
      <4>2. piece.phase = "go" => piece.kind = "REACTION" /\ piece.base < a.signal
            BY DEF PieceFits
      <4> QED BY <1>1, <4>1, <4>2
    <3> QED BY <3>1, <3>2
  <2>7. PieceFits(b, c)
        BY <2>1, <2>4, <2>5, <2>6 DEF PieceFits
  <2>8. Middle(m, q, b, piece) => SignalFits(m, b, c)
        BY <2>1, <2>5 DEF Middle, SignalFits
  <2> QED BY <2>1, <2>5, <2>7, <2>8 DEF c
<1> QED BY <1>2, <1>3, <1>4

LEMMA ReceivesKeeps ==
  ASSUME GameInv, Receives
  PROVE  GameInv'
<1> DEFINE q == packets
           r == Tail(packets)
           s == Tail(Tail(packets))
           b == board
           d == Applied(board, Head(packets))
           e == Applied(d, packets[2])
<1>1. /\ match \in Matches /\ packets \in Seq(PacketRecords) /\ uplink \in Seq(Submissions) /\ board \in Boards
      /\ piece \in Pieces /\ cutOff \in BOOLEAN /\ owed \subseteq PacketRecords /\ connected \in BOOLEAN
      BY DEF GameInv, GameTyped
<1>2. BoardFits(board) /\ QueueFits(owed, packets) /\ PieceFits(board, piece) /\ Honest(match)
      BY DEF GameInv
<1>3. packets # <<>> /\ UNCHANGED <<match, owed, uplink, connected, cutOff>> /\ piece' = Rendered(board')
      BY DEF Receives, serverVars, wire
<1>4. \/ packets' = r /\ board' = d
      \/ Len(packets) > 1 /\ packets' = s /\ board' = e
      BY DEF Receives
<1>5. /\ r \in Seq(PacketRecords) /\ Len(r) = Len(q) - 1 /\ Len(q) \in Nat \ {0} /\ Head(q) = q[1] /\ q[1] \in PacketRecords
      /\ 1 \in 1..Len(q)
      /\ \A i \in 1..Len(q) - 1 : r[i] = q[i + 1] /\ i + 1 \in 1..Len(q) /\ i \in 1..Len(q)
      BY <1>1, <1>3, Taken
<1>6. d \in Boards /\ Delivered(b, Head(q), d)
      BY <1>1, <1>5, AppliedDelivers
<1>7. IsStart(q[1]) => q[1].duel # 0
      BY <1>2, <1>5 DEF QueueFits
<1>8. BoardFits(d) /\ b.signal <= d.signal
      BY <1>1, <1>2, <1>5, <1>6, <1>7, DeliveryFits
<1>9. QueueFits(owed, r)
      BY <1>2, <1>5 DEF QueueFits
<1> DEFINE Good(h, x) == /\ LinkFits(match, h, x) /\ OneTry(match, h, uplink, x)
                         /\ WithReason(match, h, uplink, x, cutOff) /\ Middle(match, h, x, piece)
<1>10. match.running => Good(q, b) /\ match.no # 0
  <2> SUFFICES ASSUME match.running PROVE Good(q, b) /\ match.no # 0
      OBVIOUS
  <2>1. /\ LinkFits(match, q, b) /\ OneTry(match, q, uplink, b) /\ WithReason(match, q, uplink, b, cutOff)
        /\ SignalFits(match, b, piece) /\ match.no # 0
        BY DEF GameInv, PlayFits
  <2>2. Middle(match, q, b, piece)
    <3> SUFFICES ASSUME piece.kind # "none", piece.round = match.round
                 PROVE  /\ \A i \in 1..Len(q) : ~IsStart(q[i])
                        /\ b.of.round \in {0, match.round}
                        /\ b.signal # piece.base => match.go
        BY DEF Middle
    <3>1. b.of.round = match.round
          BY <1>2 DEF PieceFits
    <3>2. \A i \in 1..Len(q) : ~IsStart(q[i])
      <4> SUFFICES ASSUME NEW i \in 1..Len(q), IsStart(q[i]) PROVE FALSE
          OBVIOUS
      <4>1. b.of.round < q[i].round /\ q[i].round <= match.round
            BY <2>1 DEF LinkFits, InTime, IsStart
      <4>2. q[i] \in PacketRecords
            BY <1>1
      <4> QED BY <1>1, <3>1, <4>1, <4>2 DEF Matches, PacketRecords
    <3> QED BY <2>1, <3>1, <3>2 DEF SignalFits
  <2> QED BY <2>1, <2>2
<1>11. match.running => Good(r, d)
      BY <1>1, <1>2, <1>3, <1>6, <1>10, DeliveryKeeps
<1> SUFFICES ASSUME NEW h \in Seq(PacketRecords), NEW x \in Boards, packets' = h, board' = x,
                    BoardFits(x), b.signal <= x.signal, QueueFits(owed, h), match.running => Good(h, x)
             PROVE  GameInv'
  <2>1. CASE packets' = r /\ board' = d
        BY <1>5, <1>6, <1>8, <1>9, <1>11, <2>1
  <2>2. CASE Len(packets) > 1 /\ packets' = s /\ board' = e
    <3>1. r # <<>> /\ Head(r) = packets[2] /\ packets[2] \in PacketRecords
      <4>1. Len(r) >= 1 /\ 1 \in 1..Len(q) - 1 /\ 2 \in 1..Len(q)
            BY <1>5, <2>2
      <4>2. r[1] = q[2] /\ q[2] \in PacketRecords
            BY <1>1, <1>5, <4>1
      <4>3. r # <<>>
            BY <4>1, SMTT(20)
      <4>4. Head(r) = r[1]
            BY <1>5, <4>3, Taken
      <4> QED BY <4>2, <4>3, <4>4
    <3>2. /\ s \in Seq(PacketRecords) /\ Len(s) = Len(r) - 1 /\ Head(r) = r[1] /\ 1 \in 1..Len(r)
          /\ \A i \in 1..Len(r) - 1 : s[i] = r[i + 1] /\ i + 1 \in 1..Len(r)
          BY <1>5, <3>1, Taken
    <3>3. e \in Boards /\ Delivered(d, Head(r), e)
          BY <1>6, <3>1, AppliedDelivers
    <3>4. IsStart(Head(r)) => Head(r).duel # 0
          BY <1>9, <3>2 DEF QueueFits
    <3>5. BoardFits(e) /\ d.signal <= e.signal
          BY <1>6, <1>8, <3>1, <3>3, <3>4, DeliveryFits
    <3>6. b.signal <= e.signal
          BY <1>1, <1>6, <1>8, <3>3, <3>5 DEF Boards
    <3>7. QueueFits(owed, s)
          BY <1>9, <3>2 DEF QueueFits
    <3>8. match.running => Good(s, e)
      <4>1. s = Tail(r)
            OBVIOUS
      <4>2. r \in Seq(PacketRecords)
            BY <1>5
      <4> HIDE DEF s, r, d, e
      <4> SUFFICES ASSUME match.running PROVE Good(s, e)
          OBVIOUS
      <4>3. /\ LinkFits(match, r, d) /\ OneTry(match, r, uplink, d)
            /\ WithReason(match, r, uplink, d, cutOff) /\ Middle(match, r, d, piece)
            BY <1>11
      <4>4. match.no # 0
            BY <1>10
      <4> QED BY <1>1, <1>6, <1>8, <3>1, <3>3, <4>1, <4>2, <4>3, <4>4, DeliveryKeeps
    <3> QED BY <2>2, <3>2, <3>3, <3>5, <3>6, <3>7, <3>8
  <2> QED BY <1>4, <2>1, <2>2
<1> HIDE DEF q, r, s, b, d, e, Good
<1>12. /\ piece' \in Pieces /\ PieceFits(x, piece')
       /\ Middle(match, h, x, piece) => SignalFits(match, x, piece')
  <2>1. board \in Boards /\ board.signal <= x.signal /\ PieceFits(board, piece)
        BY <1>1, <1>2 DEF b
  <2> QED BY <1>1, <1>3, <2>1, RenderingFits
<1>13. GameTyped'
      BY <1>1, <1>3, <1>12 DEF GameTyped
<1>14. PlayFits(match, owed, h, uplink, x, piece', cutOff)
      BY <1>10, <1>12 DEF GameInv, PlayFits, Good
<1> QED BY <1>2, <1>3, <1>12, <1>13, <1>14 DEF GameInv

-----------------------------------------------------------------------------
(* The player. *)
LEMMA SubmitKeeps ==
  ASSUME GameInv, NEW many \in BOOLEAN, HandleSubmit(many), piece.kind # "none"
  PROVE  GameInv'
<1>1. /\ match \in Matches /\ packets \in Seq(PacketRecords) /\ uplink \in Seq(Submissions) /\ board \in Boards
      /\ piece \in Pieces /\ cutOff \in BOOLEAN /\ owed \subseteq PacketRecords /\ connected \in BOOLEAN
      BY DEF GameInv, GameTyped
<1>2. BoardFits(board) /\ QueueFits(owed, packets) /\ PieceFits(board, piece) /\ Honest(match)
      BY DEF GameInv
<1> DEFINE tap == IF piece.early THEN "early" ELSE IF piece.phase = "go" THEN "shown" ELSE "other"
           x == [duel |-> board.duel, round |-> board.of.round, many |-> many, tap |-> tap]
           u == Append(uplink, x)
           r == [board.of EXCEPT !.mine = TRUE]
           d == [board EXCEPT !.of = r]
<1>3. board.duel # 0 /\ ~board.of.mine /\ UNCHANGED <<match, owed, packets, connected, cutOff>>
      BY DEF HandleSubmit, serverVars, wire
<1>4. board' = d /\ piece' = Rendered(board') /\ uplink' = u
      BY <1>1 DEF HandleSubmit, Boards
<1>5. r \in RoundsShown /\ r.mine /\ r.round = board.of.round /\ r.theirs = board.of.theirs
      BY <1>1 DEF Boards, RoundsShown
<1>6. d \in Boards /\ d.duel = board.duel /\ d.signal = board.signal /\ d.of = r
      BY <1>1, <1>5 DEF Boards
<1>7. x \in Submissions /\ x.duel = board.duel /\ x.round = board.of.round /\ (x.tap = "shown" => piece.phase = "go")
      BY <1>1 DEF Submissions, Boards, RoundsShown
<1> HIDE DEF x, r, d, tap
<1>8. /\ u \in Seq(Submissions) /\ Len(u) = Len(uplink) + 1 /\ Len(uplink) \in Nat
      /\ \A i \in 1..Len(uplink) : u[i] = uplink[i]
      /\ u[Len(uplink) + 1] = x
      /\ \A i \in 1..Len(u) : i \in 1..Len(uplink) \/ i = Len(uplink) + 1
      BY <1>1, <1>7, Grown
<1> HIDE DEF u
<1>9. board.signal <= d.signal
      BY <1>1, <1>6 DEF Boards
<1>10. piece' \in Pieces /\ PieceFits(d, piece') /\ piece'.kind = "none"
      BY <1>1, <1>2, <1>4, <1>5, <1>6, <1>9, RenderingFits
<1>11. GameTyped'
      BY <1>1, <1>3, <1>4, <1>6, <1>8, <1>10 DEF GameTyped
<1>12. BoardFits(d)
      BY <1>2, <1>5, <1>6 DEF BoardFits
<1>13. PlayFits(match, owed, packets, u, d, piece', cutOff)
  <2> SUFFICES ASSUME match.running
               PROVE  /\ LinkFits(match, packets, d) /\ UplinkFits(match, u) /\ OneTry(match, packets, u, d)
                      /\ WithReason(match, packets, u, d, cutOff) /\ SignalFits(match, d, piece')
      BY DEF GameInv, PlayFits
  <2>1. /\ LinkFits(match, packets, board) /\ UplinkFits(match, uplink) /\ OneTry(match, packets, uplink, board)
        /\ SignalFits(match, board, piece)
        BY DEF GameInv, PlayFits
  <2>2. LinkFits(match, packets, d)
        BY <1>5, <1>6, <2>1 DEF LinkFits
  <2>3. x.duel = match.no /\ x.round <= match.round
        BY <1>3, <1>7, <2>1 DEF LinkFits
  <2>4. x.tap = "shown" /\ x.round = match.round => match.go
    <3> SUFFICES ASSUME x.tap = "shown", x.round = match.round PROVE match.go
        OBVIOUS
    <3>1. piece.phase = "go" /\ piece.round = match.round
          BY <1>2, <1>7 DEF PieceFits
    <3>2. board.signal # piece.base
          BY <1>1, <1>2, <3>1 DEF PieceFits, Boards, Pieces
    <3> QED BY <2>1, <3>1, <3>2 DEF SignalFits
  <2>5. UplinkFits(match, u)
        BY <1>8, <2>1, <2>3, <2>4 DEF UplinkFits
  <2>6. board.of.round = match.round => NoneSent(match, uplink) /\ NoneRefused(packets) /\ match.mine = "none"
        BY <1>3, <2>1 DEF OneTry
  <2>7. NoneSent(match, u) <=> NoneSent(match, uplink) /\ board.of.round # match.round
        BY <1>7, <1>8 DEF NoneSent
  <2>8. \A i, j \in 1..Len(u) : u[i].round = match.round /\ u[j].round = match.round => i = j
    <3> SUFFICES ASSUME NEW i \in 1..Len(u), NEW j \in 1..Len(u), u[i].round = match.round, u[j].round = match.round
                 PROVE  i = j
        OBVIOUS
    <3>1. CASE board.of.round = match.round
      <4>1. \A k \in 1..Len(uplink) : uplink[k].round # match.round
            BY <2>6, <3>1 DEF NoneSent
      <4> QED BY <1>8, <4>1
    <3>2. CASE board.of.round # match.round
      <4>1. i \in 1..Len(uplink) /\ j \in 1..Len(uplink)
            BY <1>7, <1>8, <3>2
      <4> QED BY <1>8, <2>1, <4>1 DEF OneTry
    <3> QED BY <3>1, <3>2
  <2>9. ~(\E i \in 1..Len(packets) : IsStart(packets[i]) /\ packets[i].round = match.round) \/ board.of.round # match.round
    <3> SUFFICES ASSUME NEW i \in 1..Len(packets), IsStart(packets[i]), packets[i].round = match.round,
                        board.of.round = match.round
                 PROVE  FALSE
        OBVIOUS
    <3> QED BY <1>1, <2>1 DEF LinkFits, Matches
  <2>10. OneTry(match, packets, u, d)
        BY <1>5, <1>6, <2>1, <2>6, <2>7, <2>8, <2>9 DEF OneTry
  <2>11. WithReason(match, packets, u, d, cutOff)
    <3>1. CASE board.of.round = match.round
          BY <2>7, <3>1 DEF WithReason
    <3>2. CASE board.of.round # match.round
          BY <1>5, <1>6, <3>2 DEF WithReason
    <3> QED BY <3>1, <3>2
  <2>12. SignalFits(match, d, piece')
        BY <1>10 DEF SignalFits
  <2> QED BY <2>2, <2>5, <2>10, <2>11, <2>12
<1> QED BY <1>2, <1>3, <1>4, <1>10, <1>11, <1>12, <1>13 DEF GameInv

LEMMA PlayerKeeps ==
  ASSUME GameInv, TapsTooSoon \/ FalseStartTimer \/ TapsAtSignal \/ StartsTapping \/ TappingEnds \/ Selects
  PROVE  GameInv'
<1>1. piece \in Pieces /\ PieceFits(board, piece) /\ match \in Matches
      BY DEF GameInv, GameTyped
<1>2. CASE TapsTooSoon \/ StartsTapping
  <2>1. PICK c : c = piece'
        OBVIOUS
  <2>2. UNCHANGED <<match, owed, packets, uplink, board, connected, cutOff>>
        BY <1>2 DEF TapsTooSoon, StartsTapping, serverVars, wire
  <2>3. /\ c \in Pieces /\ c.kind = piece.kind /\ c.round = piece.round /\ c.base = piece.base
        /\ c.phase \in {"tooSoon", "playing"} /\ piece.kind # "none" /\ piece.phase \in {"waiting", "ready"}
    <3>1. CASE TapsTooSoon
      <4>1. PICK early \in BOOLEAN : early <=> ~match.go
            OBVIOUS
      <4>2. (~match.go) \in BOOLEAN
            OBVIOUS
      <4>3. c = [piece EXCEPT !.phase = "tooSoon", !.timer = TRUE, !.early = early] /\ piece.phase = "waiting"
            BY <2>1, <3>1, <4>1, <4>2 DEF TapsTooSoon
      <4>4. piece.kind # "none"
            BY <1>1, <4>3 DEF PieceFits
      <4> QED BY <1>1, <4>3, <4>4 DEF Pieces
    <3>2. CASE StartsTapping
      <4>1. c = [piece EXCEPT !.phase = "playing"] /\ piece.phase = "ready"
            BY <2>1, <3>2 DEF StartsTapping
      <4>2. piece.kind # "none"
            BY <1>1, <4>1 DEF PieceFits
      <4> QED BY <1>1, <4>1, <4>2 DEF Pieces
    <3> QED BY <1>2, <3>1, <3>2
  <2>4. PieceFits(board, c)
        BY <1>1, <2>3 DEF PieceFits
  <2>5. \A m : SignalFits(m, board, piece) => SignalFits(m, board, c)
        BY <2>3 DEF SignalFits
  <2>6. PlayFits(match, owed, packets, uplink, board, c, cutOff)
        BY <2>5 DEF GameInv, PlayFits
  <2>7. GameTyped'
        BY <2>1, <2>2, <2>3 DEF GameInv, GameTyped
  <2> QED BY <2>1, <2>2, <2>4, <2>6, <2>7 DEF GameInv
<1>3. CASE FalseStartTimer \/ TapsAtSignal \/ TappingEnds \/ Selects
  <2>1. PICK many \in BOOLEAN : HandleSubmit(many)
        BY <1>3 DEF FalseStartTimer, TapsAtSignal, TappingEnds, Selects
  <2>2. piece.kind # "none"
    <3>1. CASE FalseStartTimer
          BY <1>1, <3>1 DEF FalseStartTimer, PieceFits
    <3>2. CASE TapsAtSignal \/ TappingEnds \/ Selects
          BY <1>1, <3>2 DEF TapsAtSignal, TappingEnds, Selects, PieceFits
    <3> QED BY <1>3, <3>1, <3>2
  <2> QED BY <2>1, <2>2, SubmitKeeps
<1> QED BY <1>2, <1>3

-----------------------------------------------------------------------------
(* The server. *)
LEMMA PacketIs ==
  ASSUME NEW type, NEW n \in Nat, NEW r \in Nat,
         type \in {"accepted", "start", "go", "opponent", "result", "over", "DUEL", "NOT_ACTIVE",
                   "ROUND_MISMATCH", "INVALID_SCORE", "ALREADY_SUBMITTED"}
  PROVE  /\ Packet(type, n, r) \in PacketRecords
         /\ Packet(type, n, r).type = type /\ Packet(type, n, r).duel = n /\ Packet(type, n, r).round = r
BY DEF Packet, PacketRecords

LEMMA StartIs ==
  ASSUME NEW m \in Matches
  PROVE  /\ StartOf(m) \in PacketRecords /\ IsStart(StartOf(m)) /\ ~IsRefusal(StartOf(m))
         /\ StartOf(m).type = "start" /\ StartOf(m).duel = m.no /\ StartOf(m).round = m.round
BY DEF StartOf, PacketRecords, Matches, IsStart, IsRefusal

LEMMA OpenedIs ==
  ASSUME NEW n \in Nat, NEW r \in Nat \ {0}, NEW k \in Kinds
  PROVE  /\ Opened(n, r, k) \in Matches /\ Opened(n, r, k).no = n /\ Opened(n, r, k).round = r /\ Opened(n, r, k).running
         /\ Opened(n, r, k).mine = "none"
BY DEF Opened, Matches

LEMMA EndedIs ==
  ASSUME NEW n \in Nat
  PROVE  \A m : m.no = n => Ended(m) \in Matches /\ Ended(m).no = n /\ ~Ended(m).running /\ Ended(m).mine = "none"
<1> TAKE m
<1> HAVE m.no = n
<1> DEFINE o == Opened(n, 1, "TAP")
<1>1. o \in Matches /\ o.no = n /\ o.mine = "none"
      BY OpenedIs DEF Kinds
<1>2. Ended(m) = [o EXCEPT !.running = FALSE]
      BY DEF Ended
<1> HIDE DEF o
<1> QED BY <1>1, <1>2 DEF Matches

(* One more packet that is not a start. *)
LEMMA LinkGrows ==
  ASSUME NEW m \in Matches, NEW q \in Seq(PacketRecords), NEW p \in PacketRecords, NEW b \in Boards,
         p.type \in {"accepted", "go", "opponent", "result", "INVALID_SCORE", "ROUND_MISMATCH"},
         p.type \in {"accepted", "go", "opponent", "result"} => InTime(m, p), LinkFits(m, q, b)
  PROVE  /\ LinkFits(m, Append(q, p), b)
         /\ (\E i \in 1..Len(Append(q, p)) : IsStart(Append(q, p)[i]) /\ Append(q, p)[i].round = m.round)
               <=> \E i \in 1..Len(q) : IsStart(q[i]) /\ q[i].round = m.round
<1> DEFINE r == Append(q, p)
<1>1. /\ Len(r) = Len(q) + 1 /\ Len(q) \in Nat /\ r[Len(q) + 1] = p
      /\ \A i \in 1..Len(q) : r[i] = q[i] /\ i \in 1..Len(r)
      /\ \A i \in 1..Len(r) : i \in 1..Len(q) \/ i = Len(q) + 1
      BY Grown
<1> HIDE DEF r
<1>2. ~IsStart(p)
      BY DEF IsStart
<1>3. \A i \in 1..Len(r) : IsStart(r[i]) => i \in 1..Len(q) /\ r[i] = q[i]
      BY <1>1, <1>2
<1>4. \A i \in 1..Len(r) :
       /\ r[i].type \in {"accepted", "start", "go", "opponent", "result", "INVALID_SCORE", "ROUND_MISMATCH"}
       /\ r[i].type \in {"accepted", "start", "result", "go", "opponent"} => InTime(m, r[i])
       /\ IsStart(r[i]) => b.of.round < r[i].round
  <2> TAKE i \in 1..Len(r)
  <2>1. CASE i \in 1..Len(q)
        BY <1>1, <2>1 DEF LinkFits
  <2>2. CASE i = Len(q) + 1
    <3>1. r[i] = p /\ p.type # "start"
          BY <1>1, <1>2, <2>2 DEF IsStart
    <3> QED BY <1>2, <3>1
  <2> QED BY <1>1, <2>1, <2>2
<1>5. \A i, j \in 1..Len(r) : i < j /\ IsStart(r[i]) /\ IsStart(r[j]) => r[i].round < r[j].round
      BY <1>3 DEF LinkFits
<1>6. LinkFits(m, r, b)
      BY <1>4, <1>5 DEF LinkFits
<1>7. (\E i \in 1..Len(r) : IsStart(r[i]) /\ r[i].round = m.round) <=> \E i \in 1..Len(q) : IsStart(q[i]) /\ q[i].round = m.round
      BY <1>1, <1>3
<1> QED BY <1>6, <1>7 DEF r

(* A packet that is neither a start nor a refusal changes nothing of what is waited for. *)
LEMMA QueueGrows ==
  ASSUME NEW m \in Matches, NEW q \in Seq(PacketRecords), NEW p \in PacketRecords, NEW u, NEW b \in Boards, NEW cut,
         p.type \in {"accepted", "go", "opponent", "result", "ROUND_MISMATCH"},
         p.type # "ROUND_MISMATCH" => InTime(m, p),
         LinkFits(m, q, b), OneTry(m, q, u, b), WithReason(m, q, u, b, cut)
  PROVE  /\ LinkFits(m, Append(q, p), b) /\ OneTry(m, Append(q, p), u, b) /\ WithReason(m, Append(q, p), u, b, cut)
<1> DEFINE r == Append(q, p)
<1>1. /\ Len(r) = Len(q) + 1 /\ Len(q) \in Nat /\ r[Len(q) + 1] = p
      /\ \A i \in 1..Len(q) : r[i] = q[i] /\ i \in 1..Len(r)
      /\ \A i \in 1..Len(r) : i \in 1..Len(q) \/ i = Len(q) + 1
      BY Grown
<1>2. /\ LinkFits(m, r, b)
      /\ (\E i \in 1..Len(r) : IsStart(r[i]) /\ r[i].round = m.round) <=> \E i \in 1..Len(q) : IsStart(q[i]) /\ q[i].round = m.round
      BY LinkGrows
<1> HIDE DEF r
<1>3. \A i \in 1..Len(r) : IsRefusal(r[i]) => i \in 1..Len(q) /\ r[i] = q[i]
      BY <1>1 DEF IsRefusal
<1>4. NoneRefused(q) <=> NoneRefused(r)
      BY <1>1, <1>3 DEF NoneRefused
<1>5. \A i, j \in 1..Len(r) : IsRefusal(r[i]) /\ IsRefusal(r[j]) => i = j
      BY <1>3 DEF OneTry
<1>6. OneTry(m, r, u, b)
      BY <1>2, <1>4, <1>5 DEF OneTry
<1>7. WithReason(m, r, u, b, cut)
      BY <1>4 DEF WithReason
<1> QED BY <1>2, <1>6, <1>7 DEF r

LEMMA NextMatchKeeps ==
  ASSUME GameInv, NextMatch
  PROVE  GameInv'
<1>1. /\ match \in Matches /\ board \in Boards /\ piece \in Pieces /\ BoardFits(board) /\ PieceFits(board, piece)
      BY DEF GameInv, GameTyped
<1>2. /\ board.duel = 0 /\ owed = {} /\ uplink = <<>>
      /\ cutOff' = FALSE /\ UNCHANGED <<owed, uplink, connected, board, piece>>
      BY DEF NextMatch
<1>3. PICK k \in Kinds : match' = Opened(match.no + 1, 1, k)
      BY DEF NextMatch
<1>4. packets' = <<Packet("accepted", match'.no, 0), StartOf(match')>>
      BY DEF NextMatch
<1>5. match.no \in Nat /\ match.no + 1 \in Nat /\ match.no + 1 # 0
      BY <1>1 DEF Matches
<1> DEFINE m == Opened(match.no + 1, 1, k)
           a == Packet("accepted", m.no, 0)
           s == StartOf(m)
           q == <<a, s>>
<1>6. m \in Matches /\ m.no = match.no + 1 /\ m.round = 1 /\ m.running /\ m.mine = "none"
      BY <1>5, OpenedIs
<1> HIDE DEF m
<1>7. a \in PacketRecords /\ a.type = "accepted" /\ a.duel = m.no /\ a.round = 0
      BY <1>5, <1>6, PacketIs
<1>8. s \in PacketRecords /\ s.type = "start" /\ s.duel = m.no /\ s.round = 1 /\ IsStart(s) /\ ~IsRefusal(s)
      BY <1>6, StartIs
<1>9. match' = m /\ packets' = q
      BY <1>3, <1>4 DEF m
<1> HIDE DEF a, s
<1>10. q \in Seq(PacketRecords) /\ Len(q) = 2 /\ q[1] = a /\ q[2] = s
       BY <1>7, <1>8
<1>11. \A i \in 1..Len(q) : i = 1 \/ i = 2
       BY <1>10
<1> HIDE DEF q
<1>12. ~IsStart(a) /\ ~IsRefusal(a)
       BY <1>7 DEF IsStart, IsRefusal
<1>13. board.of.round = 0
       BY <1>1, <1>2 DEF BoardFits
<1>14. LinkFits(m, q, board)
  <2>1. InTime(m, a) /\ InTime(m, s)
        BY <1>6, <1>7, <1>8 DEF InTime
  <2>2. \A i \in 1..Len(q) : IsStart(q[i]) => i = 2
        BY <1>10, <1>11, <1>12
  <2>3. \A i, j \in 1..Len(q) : i < j /\ IsStart(q[i]) /\ IsStart(q[j]) => q[i].round < q[j].round
        BY <2>2
  <2> QED BY <1>2, <1>6, <1>7, <1>8, <1>10, <1>11, <1>12, <1>13, <2>1, <2>3 DEF LinkFits
<1>15. NoneRefused(q)
       BY <1>8, <1>10, <1>11, <1>12 DEF NoneRefused
<1>16. NoneSent(m, <<>>) /\ UplinkFits(m, <<>>)
       BY DEF NoneSent, UplinkFits
<1>17. OneTry(m, q, <<>>, board) /\ WithReason(m, q, <<>>, board, FALSE)
       BY <1>6, <1>13, <1>15, <1>16 DEF OneTry, WithReason, NoneRefused
<1>18. SignalFits(m, board, piece)
       BY <1>1, <1>6, <1>13 DEF SignalFits, PieceFits
<1>19. PlayFits(m, {}, q, <<>>, board, piece, FALSE)
       BY <1>5, <1>6, <1>14, <1>16, <1>17, <1>18 DEF PlayFits
<1>20. QueueFits({}, q)
       BY <1>5, <1>6, <1>7, <1>8, <1>10, <1>11, <1>12 DEF QueueFits
<1>21. GameTyped'
       BY <1>2, <1>6, <1>9, <1>10 DEF GameInv, GameTyped
<1>22. Honest(m)
       BY <1>6 DEF Honest
<1> QED BY <1>1, <1>2, <1>9, <1>19, <1>20, <1>21, <1>22 DEF GameInv

(* The server only comes to know more of a round. *)
LEMMA KnowsMore ==
  ASSUME NEW m \in Matches, NEW n \in Matches, n.no = m.no, n.round = m.round, n.running = m.running, n.mine = m.mine,
         m.go => n.go, m.theirs => n.theirs, NEW o, NEW q, NEW u, NEW b, NEW c, NEW cut,
         PlayFits(m, o, q, u, b, c, cut)
  PROVE  PlayFits(n, o, q, u, b, c, cut)
<1> SUFFICES ASSUME m.running
             PROVE  /\ \A p \in o : InTime(n, p)
                    /\ LinkFits(n, q, b) /\ UplinkFits(n, u) /\ OneTry(n, q, u, b)
                    /\ WithReason(n, q, u, b, cut) /\ SignalFits(n, b, c)
    BY DEF PlayFits
<1>1. \A p : InTime(m, p) => InTime(n, p)
      BY DEF InTime
<1>2. LinkFits(n, q, b)
      BY <1>1 DEF PlayFits, LinkFits
<1>3. NoneSent(n, u) <=> NoneSent(m, u)
      BY DEF NoneSent
<1>4. UplinkFits(n, u)
      BY DEF PlayFits, UplinkFits
<1>5. OneTry(n, q, u, b) /\ WithReason(n, q, u, b, cut)
      BY <1>3 DEF PlayFits, OneTry, WithReason
<1>6. SignalFits(n, b, c)
      BY DEF PlayFits, SignalFits
<1> QED BY <1>1, <1>2, <1>4, <1>5, <1>6 DEF PlayFits

LEMMA ReasonsKeep ==
  ASSUME GameInv, MarksGo \/ OpponentSubmits
  PROVE  GameInv'
<1>1. match \in Matches /\ match.running /\ UNCHANGED <<packets, uplink, board, piece, connected, cutOff>>
      BY DEF GameInv, GameTyped, MarksGo, OpponentSubmits, wire
<1>2. PICK type \in {"go", "opponent"} :
        /\ type = "go" => match' = [match EXCEPT !.go = TRUE]
        /\ type = "opponent" => match' = [match EXCEPT !.theirs = TRUE]
        /\ owed' = owed \union {Packet(type, match.no, match.round)}
      BY DEF MarksGo, OpponentSubmits
<1> DEFINE p == Packet(type, match.no, match.round)
<1>3. PICK n : n = match'
      OBVIOUS
<1>4. /\ n \in Matches /\ n.no = match.no /\ n.round = match.round /\ n.running = match.running /\ n.mine = match.mine
      /\ n.tap = match.tap /\ (match.go => n.go) /\ (match.theirs => n.theirs)
      /\ (type = "go" => n.go) /\ (type = "opponent" => n.theirs)
      BY <1>1, <1>2, <1>3 DEF Matches
<1>5. p \in PacketRecords /\ p.type = type /\ p.duel = match.no /\ p.round = match.round /\ match.round \in Nat \ {0}
      BY <1>1, PacketIs DEF Matches
<1> HIDE DEF p
<1>6. InTime(n, p)
      BY <1>4, <1>5 DEF InTime
<1>7. PlayFits(n, owed, packets, uplink, board, piece, cutOff)
      BY <1>1, <1>4, KnowsMore DEF GameInv
<1>8. owed' = owed \union {p}
      BY <1>2 DEF p
<1>9. PlayFits(n, owed', packets, uplink, board, piece, cutOff)
      BY <1>6, <1>7, <1>8 DEF PlayFits
<1>10. QueueFits(owed', packets)
       BY <1>5, <1>8 DEF GameInv, QueueFits
<1>11. GameTyped'
       BY <1>1, <1>3, <1>4, <1>5, <1>8 DEF GameInv, GameTyped
<1>12. Honest(n)
       BY <1>4 DEF GameInv, Honest
<1> QED BY <1>1, <1>3, <1>9, <1>10, <1>11, <1>12 DEF GameInv

LEMMA EmitsKeeps ==
  ASSUME GameInv, EmitsOwed
  PROVE  GameInv'
<1>1. PICK p \in owed : owed' = owed \ {p} /\ packets' = Sent(<<p>>) /\ ToldLess(<<p>>)
      BY DEF EmitsOwed
<1>2. UNCHANGED <<match, uplink, connected, board, piece, drops>>
      BY DEF EmitsOwed
<1>3. /\ match \in Matches /\ packets \in Seq(PacketRecords) /\ p \in PacketRecords /\ board \in Boards
      /\ connected \in BOOLEAN /\ cutOff \in BOOLEAN /\ p.type \in {"go", "opponent"}
      BY DEF GameInv, GameTyped, QueueFits
<1>4. /\ packets \o <<p>> = Append(packets, p) /\ Append(packets, p) \in Seq(PacketRecords)
      /\ Len(Append(packets, p)) = Len(packets) + 1
      /\ \A i \in 1..Len(packets) : Append(packets, p)[i] = packets[i]
      /\ Append(packets, p)[Len(packets) + 1] = p
      /\ \A i \in 1..Len(packets) + 1 : i \in 1..Len(packets) \/ i = Len(packets) + 1
      BY <1>3, Grown
<1>5. packets' = IF connected THEN Append(packets, p) ELSE packets
      BY <1>1, <1>4 DEF Sent
<1>6. cutOff' \in BOOLEAN /\ (cutOff => cutOff')
      BY <1>1, <1>3 DEF ToldLess
<1>7. GameTyped'
      BY <1>1, <1>2, <1>4, <1>5, <1>6 DEF GameInv, GameTyped
<1>8. ~IsStart(p)
      BY <1>3 DEF IsStart
<1>9. QueueFits(owed', packets')
  <2>1. \A i \in 1..Len(packets') : (i \in 1..Len(packets) /\ packets'[i] = packets[i]) \/ packets'[i] = p
        BY <1>4, <1>5
  <2> QED BY <1>1, <1>3, <1>8, <2>1 DEF GameInv, QueueFits
<1>10. PlayFits(match, owed', packets', uplink, board, piece, cutOff')
  <2> SUFFICES ASSUME match.running
               PROVE  /\ \A o \in owed' : InTime(match, o)
                      /\ LinkFits(match, packets', board) /\ UplinkFits(match, uplink) /\ OneTry(match, packets', uplink, board)
                      /\ WithReason(match, packets', uplink, board, cutOff') /\ SignalFits(match, board, piece)
      BY DEF GameInv, PlayFits
  <2>1. /\ \A o \in owed : InTime(match, o)
        /\ LinkFits(match, packets, board) /\ UplinkFits(match, uplink) /\ OneTry(match, packets, uplink, board)
        /\ WithReason(match, packets, uplink, board, cutOff) /\ SignalFits(match, board, piece)
        BY DEF GameInv, PlayFits
  <2>2. LinkFits(match, packets', board) /\ OneTry(match, packets', uplink, board) /\ WithReason(match, packets', uplink, board, cutOff)
    <3>1. CASE connected
      <4>1. InTime(match, p)
            BY <2>1
      <4> QED BY <1>3, <1>5, <2>1, <3>1, <4>1, QueueGrows
    <3>2. CASE ~connected
          BY <1>5, <2>1, <3>2
    <3> QED BY <3>1, <3>2
  <2>3. WithReason(match, packets', uplink, board, cutOff')
        BY <1>6, <2>2 DEF WithReason
  <2> QED BY <1>1, <2>1, <2>2, <2>3
<1> QED BY <1>2, <1>7, <1>9, <1>10 DEF GameInv

LEMMA ArrivesKeeps ==
  ASSUME GameInv, Arrives
  PROVE  GameInv'
<1> DEFINE h == Head(uplink)
           v == Tail(uplink)
<1>1. /\ match \in Matches /\ packets \in Seq(PacketRecords) /\ uplink \in Seq(Submissions) /\ board \in Boards
      /\ piece \in Pieces /\ QueueFits(owed, packets) /\ Honest(match)
      BY DEF GameInv, GameTyped
<1>2. uplink # <<>> /\ uplink' = v /\ UNCHANGED <<owed, board, piece, connected, cutOff>>
      BY DEF Arrives, wire
<1>3. \/ \E code \in Refusals(h) : packets' = Append(packets, Packet(code, 0, 0)) /\ match' = match
      \/ /\ Refusals(h) = {} /\ match' = [match EXCEPT !.mine = Judged, !.tap = h.tap]
         /\ packets' = packets
      BY DEF Arrives
<1>4. /\ v \in Seq(Submissions) /\ Len(v) = Len(uplink) - 1 /\ Len(uplink) \in Nat \ {0} /\ h = uplink[1] /\ uplink[1] \in Submissions
      /\ 1 \in 1..Len(uplink)
      /\ \A i \in 1..Len(uplink) - 1 : v[i] = uplink[i + 1] /\ i + 1 \in 1..Len(uplink) /\ i \in 1..Len(uplink)
      BY <1>1, <1>2, Taken
<1> HIDE DEF h, v
<1>5. match.running => /\ LinkFits(match, packets, board) /\ UplinkFits(match, uplink) /\ OneTry(match, packets, uplink, board)
                       /\ WithReason(match, packets, uplink, board, cutOff) /\ SignalFits(match, board, piece)
      BY DEF GameInv, PlayFits
<1>6. match.running => UplinkFits(match, v) /\ h.duel = match.no /\ (h.tap = "shown" /\ h.round = match.round => match.go)
  <2> SUFFICES ASSUME match.running
               PROVE  UplinkFits(match, v) /\ h.duel = match.no /\ (h.tap = "shown" /\ h.round = match.round => match.go)
      OBVIOUS
  <2>1. \A i \in 1..Len(v) : v[i] = uplink[i + 1] /\ i + 1 \in 1..Len(uplink)
        BY <1>4
  <2>2. UplinkFits(match, v)
        BY <1>5, <2>1 DEF UplinkFits
  <2>3. h.duel = match.no /\ (h.tap = "shown" /\ h.round = match.round => match.go)
        BY <1>4, <1>5 DEF UplinkFits
  <2> QED BY <2>2, <2>3
<1>7. NoneSent(match, uplink) => NoneSent(match, v)
      BY <1>4 DEF NoneSent
<1>8. h.round # match.round => (NoneSent(match, v) <=> NoneSent(match, uplink))
  <2> SUFFICES ASSUME h.round # match.round, NoneSent(match, v) PROVE NoneSent(match, uplink)
      BY <1>7
  <2>1. \A i \in 1..Len(uplink) : i = 1 \/ (i - 1 \in 1..Len(v) /\ uplink[i] = v[i - 1])
        BY <1>4
  <2> QED BY <1>4, <2>1 DEF NoneSent
<1>9. match.running /\ h.round = match.round =>
         ~NoneSent(match, uplink) /\ NoneSent(match, v) /\ NoneRefused(packets) /\ match.mine = "none"
  <2> SUFFICES ASSUME match.running, h.round = match.round
               PROVE  ~NoneSent(match, uplink) /\ NoneSent(match, v) /\ NoneRefused(packets) /\ match.mine = "none"
      OBVIOUS
  <2>1. ~NoneSent(match, uplink)
        BY <1>4 DEF NoneSent
  <2>2. \A i \in 1..Len(v) : v[i].round # match.round
    <3> SUFFICES ASSUME NEW i \in 1..Len(v), v[i].round = match.round PROVE FALSE
        OBVIOUS
    <3>1. v[i] = uplink[i + 1] /\ i + 1 \in 1..Len(uplink) /\ i + 1 # 1
          BY <1>4
    <3> QED BY <1>4, <1>5, <3>1 DEF OneTry
  <2> QED BY <1>5, <2>1, <2>2 DEF OneTry, NoneSent
<1>10. match.running => \A i, j \in 1..Len(v) : v[i].round = match.round /\ v[j].round = match.round => i = j
  <2> SUFFICES ASSUME match.running, NEW i \in 1..Len(v), NEW j \in 1..Len(v), v[i].round = match.round, v[j].round = match.round
               PROVE  i = j
      OBVIOUS
  <2>1. v[i] = uplink[i + 1] /\ i + 1 \in 1..Len(uplink) /\ v[j] = uplink[j + 1] /\ j + 1 \in 1..Len(uplink) /\ (i + 1 = j + 1 => i = j)
        BY <1>4
  <2> QED BY <1>5, <2>1 DEF OneTry
<1>11. CASE Refusals(h) = {} /\ match' = [match EXCEPT !.mine = Judged, !.tap = h.tap] /\ packets' = packets
  <2>1. match.running /\ h.round = match.round
        BY <1>11 DEF Refusals
  <2>2. PICK n : n = match'
        OBVIOUS
  <2>3. h.tap \in {"early", "shown", "other"} /\ Judged \in {"falseStart", "valid"} /\ (Judged = "falseStart" => ~match.go)
        BY <1>4 DEF Submissions, Judged
  <2>4. /\ n \in Matches /\ n.no = match.no /\ n.round = match.round /\ n.running = match.running /\ n.mine = Judged /\ n.tap = h.tap
        /\ n.go = match.go /\ n.theirs = match.theirs
        BY <1>1, <1>11, <2>2, <2>3 DEF Matches
  <2>5. Honest(n)
        BY <1>6, <2>1, <2>3, <2>4 DEF Honest
  <2>6. GameTyped'
        BY <1>2, <1>4, <1>11, <2>2, <2>4 DEF GameInv, GameTyped
  <2>7. PlayFits(n, owed, packets, v, board, piece, cutOff)
    <3>1. match.no # 0 /\ \A p \in owed : InTime(match, p)
          BY <2>1 DEF GameInv, PlayFits
    <3>2. \A p : InTime(match, p) <=> InTime(n, p)
          BY <2>4 DEF InTime
    <3>3. LinkFits(n, packets, board)
          BY <1>5, <2>1, <2>4, <3>2 DEF LinkFits
    <3>4. UplinkFits(n, v)
          BY <1>6, <2>1, <2>4 DEF UplinkFits
    <3>5. NoneSent(n, v) /\ NoneRefused(packets)
          BY <1>9, <2>1, <2>4 DEF NoneSent
    <3>6. ~(\E i \in 1..Len(packets) : IsStart(packets[i]) /\ packets[i].round = match.round) /\ ~(board.of.round = match.round /\ ~board.of.mine)
          BY <1>5, <1>9, <2>1 DEF OneTry
    <3>7. \A i, j \in 1..Len(packets) : IsRefusal(packets[i]) /\ IsRefusal(packets[j]) => i = j
          BY <1>5, <2>1 DEF OneTry
    <3>8. OneTry(n, packets, v, board)
          BY <1>10, <2>1, <2>4, <3>5, <3>6, <3>7 DEF OneTry
    <3>9. WithReason(n, packets, v, board, cutOff)
          BY <2>3, <2>4 DEF WithReason
    <3>10. SignalFits(n, board, piece)
          BY <1>5, <2>1, <2>4 DEF SignalFits
    <3> QED BY <2>4, <3>1, <3>2, <3>3, <3>4, <3>8, <3>9, <3>10 DEF PlayFits
  <2> QED BY <1>2, <1>11, <2>2, <2>5, <2>6, <2>7 DEF GameInv
<1>12. CASE \E code \in Refusals(h) : packets' = Append(packets, Packet(code, 0, 0)) /\ match' = match
  <2>1. PICK code \in Refusals(h) : packets' = Append(packets, Packet(code, 0, 0)) /\ match' = match
        BY <1>12
  <2>2. code \in {"NOT_ACTIVE", "DUEL", "ROUND_MISMATCH", "INVALID_SCORE", "ALREADY_SUBMITTED"}
        BY DEF Refusals
  <2> DEFINE p == Packet(code, 0, 0)
             q == Append(packets, p)
  <2>3. p \in PacketRecords /\ p.type = code
        BY <2>2, PacketIs
  <2>4. ~IsStart(p)
        BY <2>2, <2>3 DEF IsStart
  <2>5. code # "ALREADY_SUBMITTED"
    <3> SUFFICES ASSUME code = "ALREADY_SUBMITTED" PROVE FALSE
        OBVIOUS
    <3>1. match.running /\ h.round = match.round /\ match.mine # "none"
          BY DEF Refusals
    <3> QED BY <1>9, <3>1
  <2>6. match.running => (code = "ROUND_MISMATCH" /\ h.round # match.round) \/ (code = "INVALID_SCORE" /\ h.round = match.round)
        BY <1>6, <2>5 DEF Refusals
  <2> HIDE DEF p
  <2>7. /\ q \in Seq(PacketRecords) /\ Len(q) = Len(packets) + 1 /\ Len(packets) \in Nat
        /\ \A i \in 1..Len(packets) : q[i] = packets[i]
        /\ q[Len(packets) + 1] = p
        /\ \A i \in 1..Len(packets) + 1 : i \in 1..Len(packets) \/ i = Len(packets) + 1
        BY <1>1, <2>3, Grown
  <2>8. QueueFits(owed, q)
    <3>1. \A i \in 1..Len(q) : (i \in 1..Len(packets) /\ q[i] = packets[i]) \/ q[i] = p
          BY <2>7
    <3> QED BY <1>1, <2>3, <2>4, <2>5, <3>1 DEF QueueFits
  <2>9. GameTyped'
        BY <1>2, <1>4, <2>1, <2>7 DEF GameInv, GameTyped, p
  <2>10. PlayFits(match, owed, q, v, board, piece, cutOff)
    <3> SUFFICES ASSUME match.running
                 PROVE  LinkFits(match, q, board) /\ OneTry(match, q, v, board) /\ WithReason(match, q, v, board, cutOff)
        BY <1>5, <1>6 DEF GameInv, PlayFits
    <3>1. CASE code = "ROUND_MISMATCH" /\ h.round # match.round
      <4>1. LinkFits(match, q, board) /\ OneTry(match, q, uplink, board) /\ WithReason(match, q, uplink, board, cutOff)
            BY <1>1, <1>5, <2>3, <3>1, QueueGrows
      <4> HIDE DEF q
      <4>2. NoneSent(match, v) <=> NoneSent(match, uplink)
            BY <1>8, <3>1
      <4>3. OneTry(match, q, v, board)
            BY <1>10, <4>1, <4>2 DEF OneTry
      <4>4. WithReason(match, q, v, board, cutOff)
            BY <4>1, <4>2 DEF WithReason
      <4> QED BY <4>1, <4>3, <4>4
    <3>2. CASE code = "INVALID_SCORE" /\ h.round = match.round
      <4>1. /\ LinkFits(match, q, board)
            /\ (\E i \in 1..Len(q) : IsStart(q[i]) /\ q[i].round = match.round)
                 <=> \E i \in 1..Len(packets) : IsStart(packets[i]) /\ packets[i].round = match.round
            BY <1>1, <1>5, <2>3, <3>2, LinkGrows
      <4> HIDE DEF q
      <4>2. ~NoneSent(match, uplink) /\ NoneSent(match, v) /\ NoneRefused(packets) /\ match.mine = "none"
            BY <1>9, <3>2
      <4>3. ~(\E i \in 1..Len(packets) : IsStart(packets[i]) /\ packets[i].round = match.round) /\ ~(board.of.round = match.round /\ ~board.of.mine)
            BY <1>5, <4>2 DEF OneTry
      <4>4. \A i \in 1..Len(q) : IsRefusal(q[i]) => i = Len(packets) + 1
            BY <2>7, <4>2 DEF NoneRefused
      <4>5. \A i, j \in 1..Len(q) : IsRefusal(q[i]) /\ IsRefusal(q[j]) => i = j
            BY <4>4
      <4>6. OneTry(match, q, v, board)
            BY <1>10, <4>1, <4>2, <4>3, <4>5 DEF OneTry
      <4>7. ~NoneRefused(q)
        <5>1. IsRefusal(q[Len(packets) + 1]) /\ Len(packets) + 1 \in 1..Len(q)
              BY <2>3, <2>7, <3>2 DEF IsRefusal
        <5> QED BY <5>1 DEF NoneRefused
      <4>8. WithReason(match, q, v, board, cutOff)
            BY <4>7 DEF WithReason
      <4> QED BY <4>1, <4>6, <4>8
    <3> QED BY <2>6, <3>1, <3>2
  <2> QED BY <1>1, <1>2, <2>1, <2>8, <2>9, <2>10 DEF GameInv, p
<1> QED BY <1>3, <1>11, <1>12

LEMMA SettlesKeeps ==
  ASSUME GameInv, Settles
  PROVE  GameInv'
<1>1. /\ match \in Matches /\ packets \in Seq(PacketRecords) /\ uplink \in Seq(Submissions) /\ board \in Boards
      /\ piece \in Pieces /\ QueueFits(owed, packets) /\ Honest(match) /\ cutOff \in BOOLEAN
      BY DEF GameInv, GameTyped
<1>2. match.running /\ UNCHANGED <<owed, uplink, connected, board, piece>>
      BY DEF Settles
<1>3. match.no \in Nat /\ match.round \in Nat \ {0} /\ match.no # 0
      BY <1>1, <1>2 DEF Matches, GameInv, PlayFits
<1>4. CASE match' = Ended(match) /\ packets' = Append(packets, Packet("over", match.no, 0)) /\ UNCHANGED cutOff
  <2> DEFINE p == Packet("over", match.no, 0)
             q == Append(packets, p)
  <2>1. match' \in Matches /\ ~match'.running /\ match'.mine = "none"
        BY <1>3, <1>4, EndedIs
  <2>2. p \in PacketRecords /\ p.type = "over" /\ ~IsStart(p)
        BY <1>3, PacketIs DEF IsStart
  <2>3. packets' = q
        BY <1>4
  <2> HIDE DEF p
  <2>4. q \in Seq(PacketRecords) /\ \A i \in 1..Len(q) : (i \in 1..Len(packets) /\ q[i] = packets[i]) \/ q[i] = p
        BY <1>1, <2>2, Grown
  <2> HIDE DEF q
  <2>5. QueueFits(owed, q)
        BY <1>1, <2>2, <2>4 DEF QueueFits
  <2>6. GameTyped'
        BY <1>2, <1>4, <2>1, <2>3, <2>4 DEF GameInv, GameTyped
  <2>7. Honest(match') /\ PlayFits(match', owed, q, uplink, board, piece, cutOff)
        BY <2>1 DEF Honest, PlayFits
  <2> QED BY <1>2, <1>4, <2>3, <2>5, <2>6, <2>7 DEF GameInv
<1>5. CASE /\ match.mine # "none"
           /\ \E k \in Kinds : match' = Opened(match.no, match.round + 1, k)
           /\ LET ps == <<Packet("result", match.no, match.round), StartOf(match')>> IN
              packets' = Sent(ps) /\ ToldLess(ps)
  <2>1. PICK k \in Kinds : match' = Opened(match.no, match.round + 1, k)
        BY <1>5
  <2> DEFINE m == Opened(match.no, match.round + 1, k)
             a == Packet("result", match.no, match.round)
             s == StartOf(m)
             r == Append(packets, a)
             q == Append(r, s)
  <2>2. m \in Matches /\ m.no = match.no /\ m.round = match.round + 1 /\ m.running /\ m.mine = "none"
        BY <1>3, OpenedIs
  <2> HIDE DEF m
  <2>3. a \in PacketRecords /\ a.type = "result" /\ a.duel = match.no /\ a.round = match.round
        BY <1>3, PacketIs
  <2>4. s \in PacketRecords /\ s.type = "start" /\ s.duel = match.no /\ s.round = match.round + 1 /\ IsStart(s) /\ ~IsRefusal(s)
        BY <2>2, StartIs
  <2>5. packets' = Sent(<<a, s>>) /\ ToldLess(<<a, s>>) /\ match' = m
        BY <1>5, <2>1 DEF m
  <2> HIDE DEF a, s
  <2>6. packets' = (IF connected THEN packets \o <<a, s>> ELSE packets) /\ cutOff' \in BOOLEAN
        BY <1>1, <2>5 DEF Sent, ToldLess, GameInv, GameTyped
  <2>7. packets \o <<a, s>> = q
        BY <1>1, <2>3, <2>4
  <2>8. /\ r \in Seq(PacketRecords) /\ Len(r) = Len(packets) + 1 /\ Len(packets) \in Nat
        /\ \A i \in 1..Len(packets) : r[i] = packets[i]
        /\ r[Len(packets) + 1] = a
        /\ \A i \in 1..Len(r) : i \in 1..Len(packets) \/ i = Len(packets) + 1
        BY <1>1, <2>3, Grown
  <2> HIDE DEF r
  <2>9. /\ q \in Seq(PacketRecords) /\ Len(q) = Len(r) + 1 /\ Len(r) \in Nat
        /\ \A i \in 1..Len(r) : q[i] = r[i]
        /\ q[Len(r) + 1] = s
        /\ \A i \in 1..Len(q) : i \in 1..Len(r) \/ i = Len(r) + 1
        BY <2>4, <2>8, Grown
  <2> HIDE DEF q
  <2>10. /\ LinkFits(match, packets, board) /\ UplinkFits(match, uplink) /\ OneTry(match, packets, uplink, board)
         /\ \A p \in owed : InTime(match, p)
         BY <1>2 DEF GameInv, PlayFits
  <2>11. \A p \in PacketRecords : InTime(match, p) => InTime(m, p) /\ p.round # m.round
         BY <1>3, <2>2 DEF InTime, PacketRecords
  <2>12. board.of.round <= match.round /\ board.of.round \in Nat /\ board.of.round < m.round
         BY <1>1, <1>3, <2>2, <2>10 DEF LinkFits, Boards, RoundsShown
  <2>13. NoneRefused(packets)
         BY <1>5, <2>10 DEF OneTry
  <2>14. NoneSent(m, uplink) /\ UplinkFits(m, uplink)
    <3>1. \A i \in 1..Len(uplink) : uplink[i] \in Submissions
          BY <1>1
    <3>2. \A i \in 1..Len(uplink) : uplink[i].round <= match.round /\ uplink[i].round \in Nat /\ uplink[i].duel = match.no
          BY <2>10, <3>1 DEF UplinkFits, Submissions
    <3>3. \A i \in 1..Len(uplink) : uplink[i].round <= m.round /\ uplink[i].round # m.round
          BY <1>3, <2>2, <3>2
    <3> QED BY <2>2, <3>2, <3>3 DEF NoneSent, UplinkFits
  <2>15. \A p \in owed : InTime(m, p)
         BY <2>10, <2>11 DEF GameInv, GameTyped
  <2>16. SignalFits(m, board, piece)
         BY <2>12, <1>1 DEF GameInv, PieceFits, SignalFits
  <2>17. WithReason(m, packets', uplink, board, cutOff')
         BY <2>12 DEF WithReason
  <2>18. \A i \in 1..Len(packets) :
           /\ packets[i] \in PacketRecords
           /\ packets[i].type \in {"accepted", "start", "go", "opponent", "result", "INVALID_SCORE", "ROUND_MISMATCH"}
           /\ packets[i].type \in {"accepted", "start", "result", "go", "opponent"} => InTime(m, packets[i])
           /\ IsStart(packets[i]) => board.of.round < packets[i].round /\ packets[i].round < m.round
    <3> TAKE i \in 1..Len(packets)
    <3>1. packets[i] \in PacketRecords
          BY <1>1
    <3>2. /\ packets[i].type \in {"accepted", "start", "go", "opponent", "result", "INVALID_SCORE", "ROUND_MISMATCH"}
          /\ packets[i].type \in {"accepted", "start", "result", "go", "opponent"} => InTime(match, packets[i])
          /\ IsStart(packets[i]) => board.of.round < packets[i].round
          BY <2>10 DEF LinkFits
    <3>3. IsStart(packets[i]) => InTime(match, packets[i])
          BY <3>2 DEF IsStart
    <3>4. IsStart(packets[i]) => packets[i].round < m.round
          BY <1>3, <2>2, <3>1, <3>3 DEF InTime, PacketRecords
    <3> QED BY <2>11, <3>1, <3>2, <3>4
  <2>19. LinkFits(m, packets, board)
         BY <1>3, <2>2, <2>10, <2>12, <2>18 DEF LinkFits
  <2>20. CASE connected
    <3>1. InTime(m, a) /\ ~IsStart(a) /\ ~IsRefusal(a)
          BY <1>3, <2>2, <2>3 DEF InTime, IsStart, IsRefusal
    <3>2. InTime(m, s)
          BY <1>3, <2>2, <2>4 DEF InTime
    <3>3. LinkFits(m, r, board)
      <4>1. LinkFits(m, Append(packets, a), board)
            BY <1>1, <2>2, <2>3, <2>19, <3>1, LinkGrows
      <4> QED BY <4>1 DEF r
    <3>4. \A i \in 1..Len(q) : (i \in 1..Len(r) /\ q[i] = r[i]) \/ (i = Len(r) + 1 /\ q[i] = s)
          BY <2>9
    <3>5. \A i \in 1..Len(r) : IsStart(r[i]) => r[i].round < m.round
      <4> SUFFICES ASSUME NEW i \in 1..Len(r), IsStart(r[i]) PROVE r[i].round < m.round
          OBVIOUS
      <4>1. i \in 1..Len(packets) /\ r[i] = packets[i]
            BY <2>8, <3>1
      <4> QED BY <2>18, <4>1
    <3>6. \A i \in 1..Len(q) :
           /\ q[i].type \in {"accepted", "start", "go", "opponent", "result", "INVALID_SCORE", "ROUND_MISMATCH"}
           /\ q[i].type \in {"accepted", "start", "result", "go", "opponent"} => InTime(m, q[i])
           /\ IsStart(q[i]) => board.of.round < q[i].round
      <4> TAKE i \in 1..Len(q)
      <4>1. CASE i \in 1..Len(r) /\ q[i] = r[i]
            BY <3>3, <4>1 DEF LinkFits
      <4>2. CASE q[i] = s
        <5>1. q[i].type = "start" /\ InTime(m, q[i]) /\ q[i].round = m.round
              BY <2>2, <2>4, <3>2, <4>2
        <5> QED BY <2>12, <5>1
      <4> QED BY <3>4, <4>1, <4>2
    <3>7. \A i, j \in 1..Len(q) : i < j /\ IsStart(q[i]) /\ IsStart(q[j]) => q[i].round < q[j].round
      <4> SUFFICES ASSUME NEW i \in 1..Len(q), NEW j \in 1..Len(q), i < j, IsStart(q[i]), IsStart(q[j])
                   PROVE  q[i].round < q[j].round
          OBVIOUS
      <4>1. i \in 1..Len(r) /\ q[i] = r[i]
            BY <2>9
      <4>2. CASE j \in 1..Len(r) /\ q[j] = r[j]
            BY <3>3, <4>1, <4>2 DEF LinkFits
      <4>3. CASE q[j] = s
            BY <2>2, <2>4, <3>5, <4>1, <4>3
      <4> QED BY <3>4, <4>2, <4>3
    <3>8. LinkFits(m, q, board)
          BY <2>19, <3>6, <3>7 DEF LinkFits
    <3>9. \A i \in 1..Len(q) : ~IsRefusal(q[i])
      <4> TAKE i \in 1..Len(q)
      <4>1. q[i] = s \/ q[i] = a \/ (i \in 1..Len(packets) /\ q[i] = packets[i])
            BY <2>8, <3>4
      <4> QED BY <2>4, <2>13, <3>1, <4>1 DEF NoneRefused
    <3>10. OneTry(m, q, uplink, board)
           BY <2>2, <2>14, <3>9 DEF OneTry, NoneRefused, NoneSent
    <3>11. packets' = q
           BY <2>6, <2>7, <2>20
    <3>12. PlayFits(m, owed, q, uplink, board, piece, cutOff')
           BY <1>3, <2>2, <2>14, <2>15, <2>16, <2>17, <3>8, <3>10, <3>11 DEF PlayFits
    <3>13. QueueFits(owed, q)
      <4>1. \A i \in 1..Len(q) : q[i] = s \/ q[i] = a \/ (i \in 1..Len(packets) /\ q[i] = packets[i])
            BY <2>8, <3>4
      <4> QED BY <1>1, <1>3, <2>3, <2>4, <3>1, <4>1 DEF QueueFits
    <3>14. GameTyped'
           BY <1>2, <2>2, <2>5, <2>6, <2>9, <3>11 DEF GameInv, GameTyped
    <3>15. Honest(m)
           BY <2>2 DEF Honest
    <3> QED BY <1>2, <2>5, <3>11, <3>12, <3>13, <3>14, <3>15 DEF GameInv
  <2>21. CASE ~connected
    <3>1. packets' = packets
          BY <2>6, <2>21
    <3>2. ~(\E i \in 1..Len(packets) : IsStart(packets[i]) /\ packets[i].round = m.round)
      <4> SUFFICES ASSUME NEW i \in 1..Len(packets), IsStart(packets[i]), packets[i].round = m.round PROVE FALSE
          OBVIOUS
      <4>1. packets[i].round < m.round
            BY <2>18
      <4> QED BY <1>3, <2>2, <4>1
    <3>3. OneTry(m, packets, uplink, board)
          BY <2>2, <2>13, <2>14 DEF OneTry, NoneRefused, NoneSent
    <3>4. PlayFits(m, owed, packets, uplink, board, piece, cutOff')
          BY <1>3, <2>2, <2>14, <2>15, <2>16, <2>17, <2>19, <3>1, <3>3 DEF PlayFits
    <3>5. GameTyped'
          BY <1>2, <2>2, <2>5, <2>6, <3>1 DEF GameInv, GameTyped
    <3>6. Honest(m)
          BY <2>2 DEF Honest
    <3> QED BY <1>1, <1>2, <2>5, <3>1, <3>4, <3>5, <3>6 DEF GameInv
  <2> QED BY <2>20, <2>21 DEF GameInv, GameTyped
<1> QED BY <1>4, <1>5 DEF Settles

LEMMA LinkKeeps ==
  ASSUME GameInv, DropsLink \/ Reconnects
  PROVE  GameInv'
<1>1. /\ match \in Matches /\ packets \in Seq(PacketRecords) /\ uplink \in Seq(Submissions)
      /\ QueueFits(owed, packets) /\ connected \in BOOLEAN
      BY DEF GameInv, GameTyped
<1>2. UNCHANGED <<match, owed, board, piece>>
      BY DEF DropsLink, Reconnects, serverVars
<1>3. CASE Reconnects
  <2>1. connected' = TRUE /\ UNCHANGED <<packets, uplink, cutOff>>
        BY <1>3 DEF Reconnects
  <2> QED BY <1>2, <2>1 DEF GameInv, GameTyped
<1>4. CASE DropsLink
  <2> DEFINE p == Packet("over", match.no, 0)
  <2>1. /\ connected' = FALSE /\ cutOff' = TRUE /\ uplink' \in {uplink, <<>>}
        /\ packets' = IF \E i \in 1..Len(packets) : packets[i].type = "over" THEN <<p>> ELSE <<>>
        BY <1>4 DEF DropsLink
  <2>2. p \in PacketRecords /\ p.type = "over" /\ ~IsStart(p)
        BY <1>1, PacketIs DEF Matches, IsStart
  <2> HIDE DEF p
  <2>3. uplink' \in Seq(Submissions) /\ packets' \in Seq(PacketRecords) /\ (packets' = <<>> \/ packets' = <<p>>)
    <3>1. <<>> \in Seq(PacketRecords) /\ <<p>> \in Seq(PacketRecords) /\ <<>> \in Seq(Submissions)
          BY <2>2
    <3> QED BY <1>1, <2>1, <3>1
  <2>4. QueueFits(owed, packets')
    <3>1. \A i \in 1..Len(packets') : packets'[i] = p
          BY <2>3
    <3> QED BY <1>1, <2>2, <3>1 DEF QueueFits
  <2>5. GameTyped'
        BY <1>2, <2>1, <2>3 DEF GameInv, GameTyped
  <2>6. PlayFits(match, owed, packets', uplink', board, piece, cutOff')
    <3> SUFFICES ASSUME match.running
                 PROVE  /\ LinkFits(match, packets', board) /\ UplinkFits(match, uplink') /\ OneTry(match, packets', uplink', board)
                        /\ WithReason(match, packets', uplink', board, cutOff')
        BY DEF GameInv, PlayFits
    <3>1. /\ LinkFits(match, packets, board) /\ UplinkFits(match, uplink) /\ OneTry(match, packets, uplink, board)
          BY DEF GameInv, PlayFits
    <3>2. packets' = <<>>
          BY <2>1, <3>1 DEF LinkFits
    <3>3. Len(packets') = 0
          BY <3>2
    <3>4. UplinkFits(match, uplink') /\ (NoneSent(match, uplink) => NoneSent(match, uplink'))
          BY <2>1, <3>1 DEF UplinkFits, NoneSent
    <3>5. \A i, j \in 1..Len(uplink') : uplink'[i].round = match.round /\ uplink'[j].round = match.round => i = j
          BY <2>1, <3>1 DEF OneTry
    <3>6. LinkFits(match, packets', board)
          BY <3>1, <3>3 DEF LinkFits
    <3>7. NoneRefused(packets')
          BY <3>3 DEF NoneRefused
    <3>8. OneTry(match, packets', uplink', board)
          BY <3>1, <3>3, <3>4, <3>5, <3>7 DEF OneTry
    <3>9. WithReason(match, packets', uplink', board, cutOff')
          BY <2>1 DEF WithReason
    <3> QED BY <3>4, <3>6, <3>8, <3>9
  <2> QED BY <1>2, <2>4, <2>5, <2>6 DEF GameInv
<1> QED BY <1>3, <1>4

LEMMA GameInitially == GameScreenInit => GameInv
<1> SUFFICES ASSUME GameScreenInit PROVE GameInv
    OBVIOUS
<1>1. Opened(0, 1, "TAP").no = 0
      BY DEF Opened
<1>2. match \in Matches /\ ~match.running /\ match.mine = "none"
      BY <1>1, EndedIs DEF GameScreenInit
<1>3. owed = {} /\ packets = <<>> /\ uplink = <<>> /\ connected = TRUE /\ cutOff = FALSE /\ piece = NoPiece
      BY DEF GameScreenInit
<1>4. NoPiece \in Pieces /\ NoPiece.kind = "none" /\ NoPiece.phase = "none" /\ ~NoPiece.timer
      BY DEF NoPiece, Pieces
<1>5. board \in Boards /\ board.of = NoRound
      BY NoRoundIsShown DEF GameScreenInit, Boards
<1>6. GameTyped
  <2>1. <<>> \in Seq(PacketRecords) /\ <<>> \in Seq(Submissions)
        OBVIOUS
  <2> QED BY <1>2, <1>3, <1>4, <1>5, <2>1 DEF GameTyped
<1>7. BoardFits(board) /\ PieceFits(board, piece)
      BY <1>3, <1>4, <1>5, NoRoundIsShown DEF BoardFits, PieceFits
<1>8. QueueFits(owed, packets) /\ Honest(match) /\ PlayFits(match, owed, packets, uplink, board, piece, cutOff)
      BY <1>2, <1>3 DEF QueueFits, Honest, PlayFits
<1> QED BY <1>6, <1>7, <1>8 DEF GameInv

LEMMA GameKeeps == GameScreenSpec => []GameInv
<1>1. GameInv /\ [GameScreenNext]_gameVars => GameInv'
  <2> SUFFICES ASSUME GameInv, [GameScreenNext]_gameVars PROVE GameInv'
      OBVIOUS
  <2>1. CASE GameScreenNext
        BY <2>1, NextMatchKeeps, ReasonsKeep, EmitsKeeps, ArrivesKeeps, SettlesKeeps, LinkKeeps, ReceivesKeeps, PlayerKeeps
           DEF GameScreenNext
  <2>2. CASE UNCHANGED gameVars
        BY <2>2 DEF gameVars, GameInv, GameTyped
  <2> QED BY <2>1, <2>2
<1> QED BY <1>1, GameInitially, PTL DEF GameScreenSpec

(* The screen shows the round that is played and lets the player play it once, for every     *)
(* number of duels, rounds and drops (MiniGame.tsx, useOverlayStore, SocketProvider).        *)
THEOREM ScreenPlays == GameScreenSpec => []ScreenPlaysTheRound
<1>1. GameInv => ScreenPlaysTheRound
  <2> SUFFICES ASSUME GameInv PROVE ScreenPlaysTheRound
      OBVIOUS
  <2>1. match.running => /\ LinkFits(match, packets, board) /\ UplinkFits(match, uplink)
                         /\ WithReason(match, packets, uplink, board, cutOff) /\ SignalFits(match, board, piece)
        BY DEF GameInv, PlayFits
  <2>2. PieceFits(board, piece) /\ Honest(match) /\ QueueFits(owed, packets) /\ piece \in Pieces /\ board \in Boards
        BY DEF GameInv, GameTyped
  <2>3. GoShownIsGo
    <3>1. InRound /\ piece.phase = "go" => match.go
          BY <2>1, <2>2 DEF InRound, PieceFits, SignalFits, Pieces, Boards
    <3> QED BY <2>2, <3>1 DEF GoShownIsGo, Honest
  <2>4. NudgedInTime
        BY <2>1 DEF NudgedInTime, InRound, LinkFits
  <2>5. WaitsForAReason
    <3>1. InRound /\ board.of.mine /\ match.mine = "none" => cutOff \/ ~NoneSent(match, uplink) \/ ~NoneRefused(packets)
          BY <2>1 DEF InRound, WithReason
    <3>2. InRound /\ ~NoneSent(match, uplink) => \E i \in 1..Len(uplink) : uplink[i].duel = match.no /\ uplink[i].round = match.round
          BY <2>1 DEF InRound, NoneSent, UplinkFits
    <3>3. ~NoneRefused(packets) => \E i \in 1..Len(packets) : packets[i].type \in {"INVALID_SCORE", "DUEL"}
          BY DEF NoneRefused, IsRefusal
    <3>4. \A i \in 1..Len(packets) : packets[i].type # "ALREADY_SUBMITTED"
          BY <2>2 DEF QueueFits
    <3> QED BY <3>1, <3>2, <3>3, <3>4 DEF WaitsForAReason
  <2> QED BY <2>3, <2>4, <2>5 DEF ScreenPlaysTheRound
<1> QED BY <1>1, GameKeeps, PTL

-----------------------------------------------------------------------------
(* How far the counts of the screen go.  A round gets its signal once, so the signals the    *)
(* screen has counted, and those owed to it or on their way, are no more than the rounds     *)
(* that have been given the leave to play.                                                   *)
IsGo(p) == p.type = "go"
GoesIn(q) == {i \in 1..Len(q) : IsGo(q[i])}
GoesOf(o) == {p \in o : IsGo(p)}
Before(n) == (n - 1) * MaxRounds
Given(m) == IF m.running THEN Before(m.no) + m.round - (IF m.go THEN 0 ELSE 1) ELSE Before(m.no + 1)

LEMMA GoesFinite ==
  ASSUME NEW q \in Seq(PacketRecords)
  PROVE  IsFiniteSet(GoesIn(q)) /\ Cardinality(GoesIn(q)) \in Nat
<1>1. IsFiniteSet(1..Len(q)) /\ GoesIn(q) \in SUBSET (1..Len(q))
  BY FS_Interval DEF GoesIn
<1> QED
  BY <1>1, FS_Subset, FS_CardinalityType

LEMMA GoesAppended ==
  ASSUME NEW q \in Seq(PacketRecords), NEW p \in PacketRecords
  PROVE  Cardinality(GoesIn(Append(q, p))) = Cardinality(GoesIn(q)) + (IF IsGo(p) THEN 1 ELSE 0)
<1>1. IsFiniteSet(GoesIn(q)) /\ Cardinality(GoesIn(q)) \in Nat
  BY GoesFinite
<1>2. /\ Len(Append(q, p)) = Len(q) + 1 /\ Len(q) \in Nat /\ Append(q, p)[Len(q) + 1] = p
      /\ \A i \in 1..Len(q) : Append(q, p)[i] = q[i]
  BY Grown
<1>3. Len(q) + 1 \notin GoesIn(q)
  BY <1>2 DEF GoesIn
<1>4. CASE IsGo(p)
  <2>1. GoesIn(Append(q, p)) = GoesIn(q) \union {Len(q) + 1}
    BY <1>2, <1>4 DEF GoesIn
  <2> QED
    BY <1>1, <1>3, <1>4, <2>1, FS_AddElement
<1>5. CASE ~IsGo(p)
  <2>1. GoesIn(Append(q, p)) = GoesIn(q)
    BY <1>2, <1>5 DEF GoesIn
  <2> QED
    BY <1>1, <1>5, <2>1
<1> QED
  BY <1>4, <1>5

LEMMA Shifted ==
  ASSUME NEW S \in SUBSET Int, NEW T, IsFiniteSet(T), \A i \in S : i + 1 \in T
  PROVE  IsFiniteSet(S) /\ Cardinality(S) <= Cardinality(T)
<1> DEFINE f == [i \in S |-> i + 1]
<1>1. f \in [S -> T] /\ \A i, j \in S : f[i] = f[j] => i = j
  OBVIOUS
<1> HIDE DEF f
<1>2. f \in Injection(S, T)
  BY <1>1 DEF Injection, IsInjective
<1> QED
  BY <1>2, FS_Injection

LEMMA GoesTaken ==
  ASSUME NEW q \in Seq(PacketRecords), q # <<>>
  PROVE  Cardinality(GoesIn(Tail(q))) + (IF IsGo(Head(q)) THEN 1 ELSE 0) <= Cardinality(GoesIn(q))
<1> DEFINE r == Tail(q)
           rest == GoesIn(q) \ {1}
<1>1. IsFiniteSet(GoesIn(q)) /\ Cardinality(GoesIn(q)) \in Nat
  BY GoesFinite
<1>2. /\ r \in Seq(PacketRecords) /\ Len(r) = Len(q) - 1 /\ Len(q) \in Nat \ {0} /\ Head(q) = q[1] /\ 1 \in 1..Len(q)
      /\ \A i \in 1..Len(q) - 1 : r[i] = q[i + 1] /\ i + 1 \in 1..Len(q)
  BY Taken
<1>3. IsFiniteSet(rest) /\ Cardinality(rest) = IF 1 \in GoesIn(q) THEN Cardinality(GoesIn(q)) - 1 ELSE Cardinality(GoesIn(q))
  BY <1>1, FS_RemoveElement
<1>4. IsGo(Head(q)) <=> 1 \in GoesIn(q)
  BY <1>2 DEF GoesIn
<1>5. GoesIn(r) \in SUBSET Int /\ \A i \in GoesIn(r) : i + 1 \in rest
  <2>1. \A i \in GoesIn(r) : i \in 1..Len(q) - 1 /\ IsGo(r[i])
    BY <1>2 DEF GoesIn
  <2>2. ASSUME NEW i \in GoesIn(r) PROVE i \in Int /\ i + 1 \in rest
    <3>1. i \in 1..Len(q) - 1 /\ IsGo(q[i + 1]) /\ i + 1 \in 1..Len(q)
      BY <1>2, <2>1
    <3>2. i + 1 \in GoesIn(q)
      BY <3>1 DEF GoesIn
    <3> QED
      BY <1>2, <3>1, <3>2
  <2> QED
    BY <2>2
<1>6. Cardinality(GoesIn(r)) <= Cardinality(rest) /\ Cardinality(GoesIn(r)) \in Nat
  <2> HIDE DEF rest, r
  <2>1. IsFiniteSet(GoesIn(r)) /\ Cardinality(GoesIn(r)) <= Cardinality(rest)
    BY <1>3, <1>5, Shifted
  <2> QED
    BY <2>1, FS_CardinalityType
<1> QED
  BY <1>1, <1>3, <1>4, <1>6

LEMMA NoGoesIn == GoesIn(<<>>) = {} /\ \A p : ~IsGo(p) => GoesIn(<<p>>) = {}
<1>1. Len(<<>>) = 0 /\ \A p : Len(<<p>>) = 1 /\ <<p>>[1] = p
  OBVIOUS
<1> QED
  BY <1>1 DEF GoesIn

(* What a packet does to the counts. *)
LEMMA DeliveryCounts ==
  ASSUME NEW b \in Boards, NEW p \in PacketRecords, p.duel <= MaxGames, p.round <= MaxRounds,
         b.duel <= MaxGames, b.of.round <= MaxRounds
  PROVE  LET d == Applied(b, p) IN
         /\ d \in Boards /\ d.duel <= MaxGames /\ d.of.round <= MaxRounds
         /\ d.signal <= b.signal + (IF IsGo(p) THEN 1 ELSE 0)
<1> DEFINE d == Applied(b, p)
<1>1. d \in Boards /\ Delivered(b, p, d)
  BY AppliedDelivers
<1>2. 0 <= MaxGames /\ 0 <= MaxRounds /\ MaxGames \in Nat /\ MaxRounds \in Nat
  BY GameScreenAssumption
<1> HIDE DEF d
<1>3. b.signal \in Nat /\ d.signal \in Nat
  BY <1>1 DEF Boards
<1>4. d.duel \in {b.duel, p.duel, 0} /\ d.of.round \in {b.of.round, p.round, 0}
  BY <1>1 DEF Delivered, Stays, OpensRound, Starts, Signals, Nudges, Clears, LetsRetry
<1>5. d.signal = b.signal \/ (IsGo(p) /\ d.signal = b.signal + 1)
  BY <1>1 DEF Delivered, Stays, OpensRound, Starts, Signals, Nudges, Clears, LetsRetry, IsGo
<1> QED
  BY <1>1, <1>2, <1>3, <1>4, <1>5 DEF d

LEMMA BeforeIs ==
  ASSUME NEW n \in Nat
  PROVE  /\ MaxRounds \in Nat \ {0} /\ Before(n) \in Int /\ Before(n + 1) \in Nat
         /\ Before(n + 1) = Before(n) + MaxRounds
         /\ n <= MaxGames => Before(n + 1) <= MaxGames * MaxRounds
<1>1. MaxRounds \in Nat /\ MaxGames \in Nat /\ MaxRounds # 0
  BY GameScreenAssumption
<1>2. (n - 1) * MaxRounds \in Int /\ n * MaxRounds \in Nat /\ n * MaxRounds = (n - 1) * MaxRounds + MaxRounds
  BY <1>1
<1>3. n <= MaxGames => n * MaxRounds <= MaxGames * MaxRounds
  <2>1. n <= MaxGames => MaxGames * MaxRounds = n * MaxRounds + (MaxGames - n) * MaxRounds
    BY <1>1
  <2>2. n <= MaxGames => (MaxGames - n) * MaxRounds >= 0
    BY <1>1
  <2>3. (MaxGames - n) * MaxRounds \in Int /\ MaxGames * MaxRounds \in Int
    BY <1>1
  <2> QED
    BY <1>2, <2>1, <2>2, <2>3
<1>4. (n + 1) - 1 = n
  OBVIOUS
<1> QED
  BY <1>1, <1>2, <1>3, <1>4 DEF Before

LEMMA GivenIs ==
  ASSUME NEW m \in Matches, m.round <= MaxRounds, m.no <= MaxGames
  PROVE  Given(m) \in Int /\ Given(m) <= Before(m.no + 1) /\ Before(m.no + 1) <= MaxGames * MaxRounds
<1>1. m.no \in Nat /\ m.round \in Nat \ {0} /\ m.go \in BOOLEAN /\ m.running \in BOOLEAN
  BY DEF Matches
<1>2. /\ Before(m.no) \in Int /\ Before(m.no + 1) \in Nat /\ Before(m.no + 1) = Before(m.no) + MaxRounds
      /\ MaxRounds \in Nat /\ Before(m.no + 1) <= MaxGames * MaxRounds
  BY <1>1, BeforeIs
<1> QED
  BY <1>1, <1>2 DEF Given

WithinGame(p) == p.duel <= MaxGames /\ p.round <= MaxRounds
CountFits(m, o, q, b) == b.signal + Cardinality(GoesIn(q)) + Cardinality(GoesOf(o)) <= Given(m)
GameWithin ==
  /\ match.no <= MaxGames /\ match.round <= MaxRounds /\ drops \in 0..MaxDrops
  /\ \A p \in owed : WithinGame(p)
  /\ \A i \in 1..Len(packets) : WithinGame(packets[i])
  /\ board.duel <= MaxGames /\ board.of.round <= MaxRounds
  /\ IsFiniteSet(owed) /\ CountFits(match, owed, packets, board)

LEMMA GoesOwed ==
  ASSUME NEW o, IsFiniteSet(o), NEW p
  PROVE  /\ IsFiniteSet(GoesOf(o)) /\ Cardinality(GoesOf(o)) \in Nat
         /\ IsFiniteSet(o \union {p}) /\ IsFiniteSet(o \ {p})
         /\ Cardinality(GoesOf(o \union {p})) <= Cardinality(GoesOf(o)) + (IF IsGo(p) THEN 1 ELSE 0)
         /\ Cardinality(GoesOf(o \union {p})) \in Nat /\ Cardinality(GoesOf(o \ {p})) \in Nat
         /\ p \in o => Cardinality(GoesOf(o \ {p})) = Cardinality(GoesOf(o)) - (IF IsGo(p) THEN 1 ELSE 0)
<1>1. IsFiniteSet(GoesOf(o)) /\ Cardinality(GoesOf(o)) \in Nat
  <2>1. GoesOf(o) \in SUBSET o
    BY DEF GoesOf
  <2> QED
    BY <2>1, FS_Subset, FS_CardinalityType
<1>2. IsFiniteSet(o \union {p}) /\ IsFiniteSet(o \ {p})
  BY FS_AddElement, FS_RemoveElement
<1>3. /\ IsFiniteSet(GoesOf(o) \union {p}) /\ IsFiniteSet(GoesOf(o) \ {p})
      /\ Cardinality(GoesOf(o) \union {p}) = IF p \in GoesOf(o) THEN Cardinality(GoesOf(o)) ELSE Cardinality(GoesOf(o)) + 1
      /\ Cardinality(GoesOf(o) \ {p}) = IF p \in GoesOf(o) THEN Cardinality(GoesOf(o)) - 1 ELSE Cardinality(GoesOf(o))
  BY <1>1, FS_AddElement, FS_RemoveElement
<1>4. Cardinality(GoesOf(o) \ {p}) \in Nat /\ Cardinality(GoesOf(o) \union {p}) \in Nat
  BY <1>3, FS_CardinalityType
<1>5. GoesOf(o \ {p}) = GoesOf(o) \ {p}
  BY DEF GoesOf
<1>6. GoesOf(o \union {p}) = IF IsGo(p) THEN GoesOf(o) \union {p} ELSE GoesOf(o)
  BY DEF GoesOf
<1>7. p \in o => (p \in GoesOf(o) <=> IsGo(p))
  BY DEF GoesOf
<1>8. Cardinality(GoesOf(o \union {p})) <= Cardinality(GoesOf(o)) + (IF IsGo(p) THEN 1 ELSE 0)
      /\ Cardinality(GoesOf(o \union {p})) \in Nat
  BY <1>1, <1>3, <1>4, <1>6
<1>9. p \in o => Cardinality(GoesOf(o \ {p})) = Cardinality(GoesOf(o)) - (IF IsGo(p) THEN 1 ELSE 0)
  BY <1>1, <1>3, <1>5, <1>7
<1> QED
  BY <1>1, <1>2, <1>4, <1>5, <1>8, <1>9

LEMMA WithinGameIs ==
  /\ \A n, r : n <= MaxGames /\ r <= MaxRounds => \A type : WithinGame(Packet(type, n, r)) /\ (type # "go" => ~IsGo(Packet(type, n, r)))
  /\ \A m : m.no <= MaxGames /\ m.round <= MaxRounds => WithinGame(StartOf(m)) /\ ~IsGo(StartOf(m))
BY DEF WithinGame, Packet, IsGo, StartOf

(* One more packet, or two. *)
LEMMA RangeGrows ==
  ASSUME NEW q \in Seq(PacketRecords), NEW p \in PacketRecords, WithinGame(p), \A i \in 1..Len(q) : WithinGame(q[i])
  PROVE  \A i \in 1..Len(Append(q, p)) : WithinGame(Append(q, p)[i])
BY Grown

LEMMA ServerWithin ==
  ASSUME GameInv, GameWithin, NextMatch \/ MarksGo \/ OpponentSubmits \/ Settles
  PROVE  GameWithin'
<1> DEFINE n == match.no
           C == Cardinality(GoesIn(packets))
           O == Cardinality(GoesOf(owed))
<1>1. /\ match \in Matches /\ packets \in Seq(PacketRecords) /\ owed \subseteq PacketRecords /\ board \in Boards
  BY DEF GameInv, GameTyped
<1>2. /\ n <= MaxGames /\ match.round <= MaxRounds /\ IsFiniteSet(owed)
      /\ \A i \in 1..Len(packets) : WithinGame(packets[i])
      /\ \A p \in owed : WithinGame(p)
      /\ board.signal + C + O <= Given(match)
  BY DEF GameWithin, CountFits
<1>3. /\ C \in Nat /\ O \in Nat /\ board.signal \in Nat /\ n \in Nat /\ match.round \in Nat \ {0}
      /\ MaxRounds \in Nat \ {0} /\ MaxGames \in Nat \ {0} /\ board.signal + C + O <= Given(match)
  BY <1>1, <1>2, GoesFinite, GoesOwed, GameScreenAssumption DEF Boards, Matches
<1>4. /\ Before(n) \in Int /\ Before(n + 1) \in Nat /\ Before(n + 1) = Before(n) + MaxRounds /\ Given(match) \in Int
      /\ Given(match) <= Before(n + 1)
  BY <1>1, <1>2, <1>3, BeforeIs, GivenIs
<1>5. UNCHANGED <<board, drops>>
  BY DEF NextMatch, MarksGo, OpponentSubmits, Settles, wire
<1>6. ASSUME match'.no <= MaxGames, match'.round <= MaxRounds, IsFiniteSet(owed'),
             \A p \in owed' : WithinGame(p), \A i \in 1..Len(packets') : WithinGame(packets'[i]),
             board.signal + Cardinality(GoesIn(packets')) + Cardinality(GoesOf(owed')) <= Given(match')
      PROVE  GameWithin'
  BY <1>5, <1>6 DEF GameWithin, CountFits
<1> HIDE DEF C, O, n
<1>7. CASE NextMatch
  <2>1. PICK k \in Kinds : match' = Opened(n + 1, 1, k)
    BY <1>7 DEF NextMatch, n
  <2>2. match' \in Matches /\ match'.no = n + 1 /\ match'.round = 1 /\ match'.running /\ match'.go = FALSE
    BY <1>3, <2>1, OpenedIs DEF Opened
  <2>3. n < MaxGames /\ ~match.running /\ owed' = owed /\ packets' = <<Packet("accepted", n + 1, 0), StartOf(match')>>
    BY <1>7, <2>2 DEF NextMatch, n
  <2>4. Len(packets') = 2 /\ packets'[1] = Packet("accepted", n + 1, 0) /\ packets'[2] = StartOf(match')
    BY <2>3
  <2>5. n + 1 <= MaxGames /\ 0 <= MaxRounds /\ 1 <= MaxRounds
    BY <1>3, <2>3
  <2>6. WithinGame(packets'[1]) /\ WithinGame(packets'[2]) /\ ~IsGo(packets'[1]) /\ ~IsGo(packets'[2])
    BY <2>2, <2>4, <2>5, WithinGameIs
  <2>7. GoesIn(packets') = {} /\ \A i \in 1..Len(packets') : WithinGame(packets'[i])
    <3>1. \A i \in 1..Len(packets') : i = 1 \/ i = 2
      BY <2>4
    <3> QED
      BY <2>6, <3>1 DEF GoesIn
  <2>8. Cardinality(GoesIn(packets')) = 0
    BY <2>7, FS_EmptySet
  <2>9. Given(match') = Before(n + 1)
    BY <1>4, <2>2 DEF Given
  <2>10. board.signal + Cardinality(GoesIn(packets')) + O <= Given(match')
    BY <1>3, <1>4, <2>8, <2>9
  <2> QED
    BY <1>2, <1>6, <2>2, <2>3, <2>5, <2>7, <2>10 DEF O
<1>8. CASE MarksGo
  <2> DEFINE p == Packet("go", n, match.round)
  <2>1. /\ match' = [match EXCEPT !.go = TRUE] /\ match.running /\ ~match.go /\ packets' = packets
        /\ owed' = owed \union {p}
    BY <1>8 DEF MarksGo, n
  <2>2. match'.no = n /\ match'.round = match.round /\ match'.running /\ match'.go
    BY <1>1, <2>1 DEF Matches, n
  <2>3. WithinGame(p)
    BY <1>2, <1>3, WithinGameIs
  <2> HIDE DEF p
  <2>4. IsFiniteSet(owed') /\ Cardinality(GoesOf(owed')) \in Nat /\ Cardinality(GoesOf(owed')) <= O + 1
    <3>1. /\ IsFiniteSet(owed \union {p}) /\ Cardinality(GoesOf(owed \union {p})) \in Nat
          /\ Cardinality(GoesOf(owed \union {p})) <= O + (IF IsGo(p) THEN 1 ELSE 0)
      BY <1>2, GoesOwed DEF O
    <3>2. Cardinality(GoesOf(owed \union {p})) <= O + 1
      BY <1>3, <3>1
    <3> QED
      BY <2>1, <3>1, <3>2
  <2>5. Given(match) = Before(n) + match.round - 1 /\ Given(match') = Before(n) + match.round
    BY <1>3, <1>4, <2>1, <2>2 DEF Given, n
  <2>6. board.signal + C + Cardinality(GoesOf(owed')) <= Given(match')
    BY <1>3, <1>4, <2>4, <2>5
  <2> QED
    BY <1>2, <1>6, <2>1, <2>2, <2>3, <2>4, <2>6 DEF C
<1>9. CASE OpponentSubmits
  <2> DEFINE p == Packet("opponent", n, match.round)
  <2>1. match' = [match EXCEPT !.theirs = TRUE] /\ packets' = packets /\ owed' = owed \union {p}
    BY <1>9 DEF OpponentSubmits, n
  <2>2. match'.no = match.no /\ match'.round = match.round /\ match'.running = match.running /\ match'.go = match.go
    BY <1>1, <2>1 DEF Matches
  <2>3. WithinGame(p) /\ ~IsGo(p)
    BY <1>2, <1>3, WithinGameIs
  <2> HIDE DEF p
  <2>4. IsFiniteSet(owed') /\ Cardinality(GoesOf(owed')) \in Nat /\ Cardinality(GoesOf(owed')) <= O
    <3>1. /\ IsFiniteSet(owed \union {p}) /\ Cardinality(GoesOf(owed \union {p})) \in Nat
          /\ Cardinality(GoesOf(owed \union {p})) <= O + (IF IsGo(p) THEN 1 ELSE 0)
      BY <1>2, GoesOwed DEF O
    <3>2. Cardinality(GoesOf(owed \union {p})) <= O
      BY <1>3, <2>3, <3>1
    <3> QED
      BY <2>1, <3>1, <3>2
  <2>5. Given(match') = Given(match)
    BY <2>2 DEF Given
  <2>6. board.signal + C + Cardinality(GoesOf(owed')) <= Given(match')
    BY <1>3, <1>4, <2>4, <2>5
  <2> QED
    BY <1>2, <1>6, <2>1, <2>2, <2>3, <2>4, <2>6 DEF C, n
<1>10. CASE Settles
  <2>1. match.running /\ owed' = owed
    BY <1>10 DEF Settles
  <2>2. CASE match' = Ended(match) /\ packets' = Append(packets, Packet("over", n, 0))
    <3> DEFINE p == Packet("over", n, 0)
    <3>1. p \in PacketRecords /\ WithinGame(p) /\ ~IsGo(p)
      <4>1. 0 \in Nat /\ 0 <= MaxRounds
        BY <1>3
      <4>2. p \in PacketRecords
        BY <1>3, <4>1, PacketIs
      <4> QED
        BY <1>2, <4>1, <4>2, WithinGameIs
    <3> HIDE DEF p
    <3>2. packets' = Append(packets, p)
      BY <2>2 DEF p
    <3>3. Cardinality(GoesIn(packets')) = C + 0 /\ \A i \in 1..Len(packets') : WithinGame(packets'[i])
      BY <1>1, <1>2, <3>1, <3>2, GoesAppended, RangeGrows DEF C
    <3>4. match'.no = n /\ match'.round = 1 /\ ~match'.running
      BY <2>2 DEF Ended, Opened, n
    <3>5. Given(match') = Before(n + 1) /\ 1 <= MaxRounds
      BY <1>3, <3>4 DEF Given
    <3>6. board.signal + Cardinality(GoesIn(packets')) + O <= Given(match')
      BY <1>3, <1>4, <3>3, <3>5
    <3> QED
      BY <1>2, <1>6, <2>1, <3>3, <3>4, <3>5, <3>6 DEF O
  <2>3. CASE /\ match.round < MaxRounds
             /\ \E k \in Kinds : match' = Opened(n, match.round + 1, k)
             /\ packets' = Sent(<<Packet("result", n, match.round), StartOf(match')>>)
    <3> DEFINE p == Packet("result", n, match.round)
               r == Append(packets, p)
               z == StartOf(match')
    <3>1. PICK k \in Kinds : match' = Opened(n, match.round + 1, k)
      BY <2>3
    <3>2. match' \in Matches /\ match'.no = n /\ match'.round = match.round + 1 /\ match'.running /\ match'.go = FALSE
      BY <1>3, <3>1, OpenedIs DEF Opened
    <3>3. match.round + 1 <= MaxRounds
      BY <1>3, <2>3
    <3>4. p \in PacketRecords /\ WithinGame(p) /\ ~IsGo(p)
      <4>1. p \in PacketRecords
        BY <1>3, PacketIs
      <4> QED
        BY <1>2, <4>1, WithinGameIs
    <3>5. z \in PacketRecords /\ WithinGame(z) /\ ~IsGo(z)
      <4>1. z \in PacketRecords
        BY <3>2, StartIs
      <4> QED
        BY <1>2, <3>2, <3>3, <4>1, WithinGameIs
    <3>6. packets' = packets \/ packets' = packets \o <<p, z>>
      BY <2>3 DEF Sent
    <3> HIDE DEF p, z
    <3>7. r \in Seq(PacketRecords) /\ packets \o <<p, z>> = Append(r, z)
      BY <1>1, <3>4, <3>5
    <3>8. Cardinality(GoesIn(r)) = C + 0 /\ \A i \in 1..Len(r) : WithinGame(r[i])
      BY <1>1, <1>2, <3>4, GoesAppended, RangeGrows DEF C
    <3> HIDE DEF r
    <3>9. Cardinality(GoesIn(Append(r, z))) = Cardinality(GoesIn(r)) + 0 /\ \A i \in 1..Len(Append(r, z)) : WithinGame(Append(r, z)[i])
      BY <3>5, <3>7, <3>8, GoesAppended, RangeGrows
    <3>10. Cardinality(GoesIn(packets')) = C /\ \A i \in 1..Len(packets') : WithinGame(packets'[i])
      <4>1. CASE packets' = packets
        BY <1>2, <4>1 DEF C
      <4>2. CASE packets' = Append(r, z)
        <5>1. Cardinality(GoesIn(packets')) = C + 0 + 0
          BY <3>8, <3>9, <4>2
        <5> QED
          BY <1>3, <3>9, <4>2, <5>1
      <4> QED
        BY <3>6, <3>7, <4>1, <4>2
    <3>11. Given(match') = Before(n) + (match.round + 1) - 1 /\ Given(match) <= Before(n) + match.round
      BY <1>3, <1>4, <2>1, <3>2 DEF Given, n
    <3>12. board.signal + Cardinality(GoesIn(packets')) + O <= Given(match')
      <4>1. Given(match) <= Given(match') /\ Given(match') \in Int
        BY <1>3, <1>4, <3>11
      <4>2. board.signal + C + O <= Given(match')
        BY <1>3, <1>4, <4>1
      <4> QED
        BY <3>10, <4>2
    <3> QED
      BY <1>2, <1>6, <2>1, <3>2, <3>3, <3>10, <3>12 DEF O
  <2> QED
    BY <1>10, <2>2, <2>3 DEF Settles, n
<1> QED
  BY <1>7, <1>8, <1>9, <1>10

LEMMA WireWithin ==
  ASSUME GameInv, GameWithin, EmitsOwed \/ Arrives \/ DropsLink \/ Reconnects
  PROVE  GameWithin'
<1> DEFINE C == Cardinality(GoesIn(packets))
           O == Cardinality(GoesOf(owed))
<1>1. /\ match \in Matches /\ packets \in Seq(PacketRecords) /\ owed \subseteq PacketRecords /\ board \in Boards
  BY DEF GameInv, GameTyped
<1>2. /\ match.no <= MaxGames /\ match.round <= MaxRounds /\ IsFiniteSet(owed) /\ drops \in 0..MaxDrops
      /\ \A i \in 1..Len(packets) : WithinGame(packets[i])
      /\ \A p \in owed : WithinGame(p)
      /\ board.duel <= MaxGames /\ board.of.round <= MaxRounds
      /\ board.signal + C + O <= Given(match)
  BY DEF GameWithin, CountFits
<1>3. /\ C \in Nat /\ O \in Nat /\ board.signal \in Nat /\ match.no \in Nat
      /\ MaxRounds \in Nat \ {0} /\ MaxGames \in Nat \ {0} /\ MaxDrops \in Nat
  BY <1>1, <1>2, GoesFinite, GoesOwed, GameScreenAssumption DEF Boards, Matches
<1>4. Given(match) \in Int /\ board.signal + C + O <= Given(match)
  BY <1>1, <1>2, GivenIs
<1>5. UNCHANGED board
  BY DEF EmitsOwed, Arrives, DropsLink, Reconnects
<1>6. ASSUME match'.no = match.no, match'.round = match.round, Given(match') = Given(match), IsFiniteSet(owed'),
             drops' \in 0..MaxDrops,
             \A p \in owed' : WithinGame(p), \A i \in 1..Len(packets') : WithinGame(packets'[i]),
             board.signal + Cardinality(GoesIn(packets')) + Cardinality(GoesOf(owed')) <= Given(match)
      PROVE  GameWithin'
  BY <1>2, <1>5, <1>6 DEF GameWithin, CountFits
<1>7. CASE EmitsOwed
  <2>1. PICK p \in owed : owed' = owed \ {p} /\ packets' = Sent(<<p>>)
    BY <1>7 DEF EmitsOwed
  <2>2. UNCHANGED <<match, drops>>
    BY <1>7 DEF EmitsOwed
  <2>3. /\ IsFiniteSet(owed') /\ Cardinality(GoesOf(owed')) \in Nat
        /\ Cardinality(GoesOf(owed')) = O - (IF IsGo(p) THEN 1 ELSE 0)
    <3>1. /\ IsFiniteSet(owed \ {p}) /\ Cardinality(GoesOf(owed \ {p})) \in Nat
          /\ Cardinality(GoesOf(owed \ {p})) = O - (IF IsGo(p) THEN 1 ELSE 0)
      BY <1>2, GoesOwed
    <3> QED
      BY <2>1, <3>1
  <2>4. /\ Cardinality(GoesIn(packets')) <= C + (IF IsGo(p) THEN 1 ELSE 0) /\ Cardinality(GoesIn(packets')) \in Nat
        /\ \A i \in 1..Len(packets') : WithinGame(packets'[i])
    <3>1. p \in PacketRecords /\ WithinGame(p)
      BY <1>1, <1>2
    <3>2. packets' = packets \/ packets' = Append(packets, p)
      BY <1>1, <2>1, <3>1, Grown DEF Sent
    <3>3. CASE packets' = packets
      BY <1>2, <1>3, <3>3
    <3>4. CASE packets' = Append(packets, p)
      <4>1. Cardinality(GoesIn(Append(packets, p))) = C + (IF IsGo(p) THEN 1 ELSE 0)
        BY <1>1, <3>1, GoesAppended
      <4>2. \A i \in 1..Len(Append(packets, p)) : WithinGame(Append(packets, p)[i])
        BY <1>1, <1>2, <3>1, RangeGrows
      <4> HIDE DEF C
      <4>3. Cardinality(GoesIn(packets')) = C + (IF IsGo(p) THEN 1 ELSE 0)
        BY <3>4, <4>1
      <4>4. Cardinality(GoesIn(packets')) <= C + (IF IsGo(p) THEN 1 ELSE 0) /\ Cardinality(GoesIn(packets')) \in Nat
        BY <1>3, <4>3
      <4> QED
        BY <3>4, <4>2, <4>4
    <3> QED
      BY <3>2, <3>3, <3>4
  <2> HIDE DEF C, O
  <2>5. board.signal + Cardinality(GoesIn(packets')) + Cardinality(GoesOf(owed')) <= Given(match)
    BY <1>3, <1>4, <2>3, <2>4
  <2>6. \A x \in owed' : WithinGame(x)
    BY <1>2, <2>1
  <2> QED
    BY <1>2, <1>6, <2>2, <2>3, <2>4, <2>5, <2>6
<1>8. CASE Arrives
  <2>1. UNCHANGED <<owed, drops>>
    BY <1>8 DEF Arrives, wire
  <2>2. match' = match \/ \E j, t : match' = [match EXCEPT !.mine = j, !.tap = t]
    BY <1>8 DEF Arrives
  <2>3. match'.no = match.no /\ match'.round = match.round /\ match'.running = match.running /\ match'.go = match.go
    BY <1>1, <2>2 DEF Matches
  <2>4. packets' = packets \/ \E code \in Refusals(Head(uplink)) : packets' = Append(packets, Packet(code, 0, 0))
    BY <1>8 DEF Arrives
  <2>5. Cardinality(GoesIn(packets')) = C /\ \A i \in 1..Len(packets') : WithinGame(packets'[i])
    <3>1. CASE packets' = packets
      BY <1>2, <3>1
    <3>2. ASSUME NEW code \in Refusals(Head(uplink)), packets' = Append(packets, Packet(code, 0, 0))
          PROVE  Cardinality(GoesIn(packets')) = C /\ \A i \in 1..Len(packets') : WithinGame(packets'[i])
      <4> DEFINE p == Packet(code, 0, 0)
      <4>1. code \in {"DUEL", "NOT_ACTIVE", "ROUND_MISMATCH", "INVALID_SCORE", "ALREADY_SUBMITTED"}
        BY <3>2 DEF Refusals
      <4>2. p \in PacketRecords /\ p.type = code /\ p.duel = 0 /\ p.round = 0
        BY <4>1, PacketIs
      <4>3. WithinGame(p) /\ ~IsGo(p)
        BY <1>3, <4>1, <4>2 DEF WithinGame, IsGo
      <4> HIDE DEF p
      <4>4. packets' = Append(packets, p)
        BY <3>2 DEF p
      <4>5. Cardinality(GoesIn(packets')) = C + 0
        BY <1>1, <4>2, <4>3, <4>4, GoesAppended
      <4>6. \A i \in 1..Len(packets') : WithinGame(packets'[i])
        BY <1>1, <1>2, <4>2, <4>3, <4>4, RangeGrows
      <4> HIDE DEF C
      <4> QED
        BY <1>3, <4>5, <4>6
    <3> QED
      BY <2>4, <3>1, <3>2
  <2>6. Given(match') = Given(match)
    BY <2>3 DEF Given
  <2> QED
    BY <1>2, <1>6, <2>1, <2>3, <2>5, <2>6
<1>9. CASE DropsLink
  <2>1. UNCHANGED <<match, owed>> /\ drops' = drops - 1 /\ drops > 0
    BY <1>9 DEF DropsLink, serverVars
  <2>2. packets' = <<>> \/ packets' = <<Packet("over", match.no, 0)>>
    BY <1>9 DEF DropsLink
  <2>3. WithinGame(Packet("over", match.no, 0)) /\ ~IsGo(Packet("over", match.no, 0))
    <3>1. 0 <= MaxRounds
      BY <1>3
    <3> QED
      BY <1>2, <3>1, WithinGameIs
  <2>4. GoesIn(packets') = {} /\ \A i \in 1..Len(packets') : WithinGame(packets'[i])
    <3>1. CASE packets' = <<>>
      BY <3>1, NoGoesIn
    <3>2. CASE packets' = <<Packet("over", match.no, 0)>>
      <4>1. GoesIn(packets') = {}
        BY <2>3, <3>2, NoGoesIn
      <4>2. \A i \in 1..Len(packets') : packets'[i] = Packet("over", match.no, 0)
        BY <3>2
      <4> QED
        BY <2>3, <4>1, <4>2
    <3> QED
      BY <2>2, <3>1, <3>2
  <2>5. Cardinality(GoesIn(packets')) = 0
    BY <2>4, FS_EmptySet
  <2>6. drops' \in 0..MaxDrops
    BY <1>2, <1>3, <2>1
  <2> HIDE DEF C
  <2>7. board.signal + Cardinality(GoesIn(packets')) + O <= Given(match)
    BY <1>3, <1>4, <2>5
  <2> QED
    BY <1>2, <1>6, <2>1, <2>4, <2>6, <2>7
<1>10. CASE Reconnects
  BY <1>2, <1>6, <1>10 DEF Reconnects, serverVars
<1> QED
  BY <1>7, <1>8, <1>9, <1>10

LEMMA ScreenWithin ==
  ASSUME GameInv, GameWithin,
         Receives \/ TapsTooSoon \/ FalseStartTimer \/ TapsAtSignal \/ StartsTapping \/ TappingEnds \/ Selects
  PROVE  GameWithin'
<1> DEFINE C == Cardinality(GoesIn(packets))
           O == Cardinality(GoesOf(owed))
<1>1. /\ match \in Matches /\ packets \in Seq(PacketRecords) /\ owed \subseteq PacketRecords /\ board \in Boards
  BY DEF GameInv, GameTyped
<1>2. /\ match.no <= MaxGames /\ match.round <= MaxRounds /\ IsFiniteSet(owed)
      /\ \A i \in 1..Len(packets) : WithinGame(packets[i])
      /\ board.duel <= MaxGames /\ board.of.round <= MaxRounds
      /\ board.signal + C + O <= Given(match)
  BY DEF GameWithin, CountFits
<1>3. /\ C \in Nat /\ O \in Nat /\ board.signal \in Nat
  BY <1>1, <1>2, GoesFinite, GoesOwed DEF Boards
<1>4. Given(match) \in Int /\ board.signal + C + O <= Given(match)
  BY <1>1, <1>2, GivenIs
<1>5. UNCHANGED <<match, owed, drops>>
  BY DEF Receives, TapsTooSoon, FalseStartTimer, TapsAtSignal, StartsTapping, TappingEnds, Selects, HandleSubmit, serverVars, wire
<1>6. ASSUME \A i \in 1..Len(packets') : WithinGame(packets'[i]), board'.duel <= MaxGames, board'.of.round <= MaxRounds,
             board'.signal + Cardinality(GoesIn(packets')) + O <= Given(match)
      PROVE  GameWithin'
  BY <1>2, <1>5, <1>6 DEF GameWithin, CountFits
<1>7. CASE Receives
  <2> DEFINE q == packets
             r == Tail(packets)
             d == Applied(board, Head(packets))
  <2>1. packets # <<>> /\ Head(q) = q[1] /\ q[1] \in PacketRecords /\ r \in Seq(PacketRecords) /\ WithinGame(q[1])
        /\ \A i \in 1..Len(r) : WithinGame(r[i])
    <3>1. packets # <<>>
      BY <1>7 DEF Receives
    <3> QED
      BY <1>1, <1>2, <3>1, Taken
  <2>2. /\ d \in Boards /\ d.duel <= MaxGames /\ d.of.round <= MaxRounds
        /\ d.signal <= board.signal + (IF IsGo(q[1]) THEN 1 ELSE 0)
    BY <1>1, <1>2, <2>1, DeliveryCounts DEF WithinGame
  <2>3. Cardinality(GoesIn(r)) + (IF IsGo(q[1]) THEN 1 ELSE 0) <= C /\ Cardinality(GoesIn(r)) \in Nat
    BY <1>1, <2>1, GoesTaken, GoesFinite
  <2>4. d.signal \in Nat
    BY <2>2 DEF Boards
  <2> HIDE DEF C, O, d
  <2>5. d.signal + Cardinality(GoesIn(r)) + O <= Given(match)
    BY <1>3, <1>4, <2>2, <2>3, <2>4
  <2>6. CASE packets' = r /\ board' = d
    BY <1>6, <2>1, <2>2, <2>5, <2>6
  <2>7. CASE Len(packets) > 1 /\ packets' = Tail(r) /\ board' = Applied(d, packets[2])
    <3> DEFINE e == Applied(d, packets[2])
    <3>1. r # <<>> /\ Head(r) = packets[2] /\ Head(r) = r[1] /\ r[1] \in PacketRecords /\ WithinGame(r[1])
          /\ \A i \in 1..Len(Tail(r)) : WithinGame(Tail(r)[i])
      <4>1. r # <<>> /\ r[1] = packets[2]
        <5>1. Len(r) = Len(q) - 1 /\ Len(q) \in Nat \ {0} /\ \A i \in 1..Len(q) - 1 : r[i] = q[i + 1]
          BY <1>1, <2>1, Taken
        <5>2. 1 \in 1..Len(q) - 1 /\ Len(r) > 0
          BY <2>7, <5>1
        <5>3. r[1] = q[1 + 1] /\ 1 + 1 = 2
          BY <5>1, <5>2
        <5>4. r # <<>>
          <6>1. Len(<<>>) = 0
            OBVIOUS
          <6> HIDE DEF r
          <6> QED
            BY <5>2, <6>1
        <5> QED
          BY <5>3, <5>4
      <4> HIDE DEF r
      <4> QED
        BY <2>1, <4>1, Taken
    <3>2. /\ e \in Boards /\ e.duel <= MaxGames /\ e.of.round <= MaxRounds
          /\ e.signal <= d.signal + (IF IsGo(r[1]) THEN 1 ELSE 0)
      BY <2>2, <3>1, DeliveryCounts DEF WithinGame
    <3>3. Cardinality(GoesIn(Tail(r))) + (IF IsGo(r[1]) THEN 1 ELSE 0) <= Cardinality(GoesIn(r))
          /\ Cardinality(GoesIn(Tail(r))) \in Nat
      <4>1. Tail(r) \in Seq(PacketRecords)
        BY <2>1, <3>1, Taken
      <4> QED
        BY <2>1, <3>1, <4>1, GoesTaken, GoesFinite
    <3>4. e.signal \in Nat
      BY <3>2 DEF Boards
    <3> HIDE DEF e, r
    <3>5. e.signal + Cardinality(GoesIn(Tail(r))) + O <= Given(match)
      BY <1>3, <1>4, <2>3, <2>4, <2>5, <3>2, <3>3, <3>4
    <3> QED
      BY <1>6, <2>7, <3>1, <3>2, <3>5 DEF e
  <2> QED
    BY <1>7, <2>6, <2>7 DEF Receives, d
<1>8. CASE TapsTooSoon \/ StartsTapping
  BY <1>2, <1>6, <1>8 DEF TapsTooSoon, StartsTapping
<1>9. CASE FalseStartTimer \/ TapsAtSignal \/ TappingEnds \/ Selects
  <2>1. packets' = packets /\ board' = [board EXCEPT !.of.mine = TRUE]
    BY <1>9 DEF FalseStartTimer, TapsAtSignal, TappingEnds, Selects, HandleSubmit
  <2>2. board'.duel = board.duel /\ board'.signal = board.signal /\ board'.of.round = board.of.round
    BY <1>1, <2>1 DEF Boards, RoundsShown
  <2> QED
    BY <1>2, <1>6, <2>1, <2>2
<1> QED
  BY <1>7, <1>8, <1>9

(* What the overlay store and the component of a game hold stays of its shape; and the signals *)
(* counted are no more than the rounds of all games, so a signal is never told twice.          *)
THEOREM GameStaysTyped == GameScreenSpec => []GameScreenTypeOK
<1>1. GameScreenInit => GameWithin
  <2> SUFFICES ASSUME GameScreenInit PROVE GameWithin
    OBVIOUS
  <2>1. match.no = 0 /\ match.round = 1 /\ ~match.running
    BY DEF GameScreenInit, Ended, Opened
  <2>2. owed = {} /\ packets = <<>> /\ board.duel = 0 /\ board.signal = 0 /\ board.of.round = 0 /\ drops = MaxDrops
    BY DEF GameScreenInit, NoRound
  <2>3. MaxGames \in Nat \ {0} /\ MaxRounds \in Nat \ {0} /\ MaxDrops \in Nat
    BY GameScreenAssumption
  <2>4. Len(packets) = 0 /\ GoesIn(packets) = {} /\ GoesOf(owed) = {}
    BY <2>2, NoGoesIn DEF GoesOf
  <2>5. Given(match) \in Nat
    BY <2>1, BeforeIs DEF Given
  <2>6. IsFiniteSet(owed) /\ Cardinality(GoesIn(packets)) = 0 /\ Cardinality(GoesOf(owed)) = 0
    BY <2>2, <2>4, FS_EmptySet
  <2>7. CountFits(match, owed, packets, board)
    BY <2>2, <2>5, <2>6 DEF CountFits
  <2> QED
    BY <2>1, <2>2, <2>3, <2>4, <2>6, <2>7 DEF GameWithin
<1>2. GameInv /\ GameWithin /\ [GameScreenNext]_gameVars => GameWithin'
  <2> SUFFICES ASSUME GameInv, GameWithin, [GameScreenNext]_gameVars PROVE GameWithin'
    OBVIOUS
  <2>1. CASE GameScreenNext
    BY <2>1, ServerWithin, WireWithin, ScreenWithin DEF GameScreenNext
  <2>2. CASE UNCHANGED gameVars
    BY <2>2 DEF gameVars, GameWithin
  <2> QED
    BY <2>1, <2>2
<1>3. GameInv /\ GameWithin => GameScreenTypeOK
  <2> SUFFICES ASSUME GameInv, GameWithin PROVE GameScreenTypeOK
    OBVIOUS
  <2>1. /\ match \in Matches /\ board \in Boards /\ piece \in Pieces /\ connected \in BOOLEAN /\ cutOff \in BOOLEAN
        /\ packets \in Seq(PacketRecords) /\ \A p \in owed : p.type \in {"go", "opponent"}
    BY DEF GameInv, GameTyped, QueueFits
  <2>2. /\ match.no <= MaxGames /\ match.round <= MaxRounds /\ drops \in 0..MaxDrops /\ IsFiniteSet(owed)
        /\ board.duel <= MaxGames /\ board.of.round <= MaxRounds
        /\ board.signal + Cardinality(GoesIn(packets)) + Cardinality(GoesOf(owed)) <= Given(match)
    BY DEF GameWithin, CountFits
  <2>3. MaxGames \in Nat \ {0} /\ MaxRounds \in Nat \ {0} /\ MaxGames * MaxRounds \in Nat
    BY GameScreenAssumption
  <2>4. Cardinality(GoesIn(packets)) \in Nat /\ Cardinality(GoesOf(owed)) \in Nat
    BY <2>1, <2>2, GoesFinite, GoesOwed
  <2>5. Given(match) \in Int /\ Given(match) <= Before(match.no + 1) /\ Before(match.no + 1) <= MaxGames * MaxRounds
    BY <2>1, <2>2, GivenIs
  <2>6. board.signal \in Nat /\ Before(match.no + 1) \in Nat
    BY <2>1, BeforeIs DEF Boards, Matches
  <2>7. board.signal \in 0..MaxGames * MaxRounds
    <3> DEFINE a == Cardinality(GoesIn(packets))
               c == Cardinality(GoesOf(owed))
               g == Given(match)
               h == Before(match.no + 1)
               k == MaxGames * MaxRounds
    <3>1. a \in Nat /\ c \in Nat /\ g \in Int /\ h \in Nat /\ k \in Nat /\ board.signal \in Nat
          /\ board.signal + a + c <= g /\ g <= h /\ h <= k
      BY <2>2, <2>3, <2>4, <2>5, <2>6
    <3> HIDE DEF a, c, g, h, k
    <3>2. board.signal \in 0..k
      BY <3>1
    <3> QED
      BY <3>2 DEF k
  <2>8. match.no \in 0..MaxGames /\ match.round \in 1..MaxRounds /\ board.duel \in 0..MaxGames /\ board.of.round \in 0..MaxRounds
    BY <2>1, <2>2, <2>3 DEF Matches, Boards, RoundsShown
  <2>9. {connected, cutOff, match.running, match.go, match.theirs, board.of.mine, board.of.theirs,
         piece.timer, piece.early} \subseteq BOOLEAN
    BY <2>1 DEF Matches, Boards, RoundsShown, Pieces
  <2> QED
    BY <2>1, <2>2, <2>7, <2>8, <2>9 DEF GameScreenTypeOK, Matches, Boards, RoundsShown, Pieces
<1> QED
  BY <1>1, <1>2, <1>3, GameKeeps, PTL DEF GameScreenSpec
=============================================================================
