---------------------------- MODULE DuelsProofs ----------------------------
(***************************************************************************)
(* Proofs about Duels for any number of users, requests, handlers, duels   *)
(* and restarts: IndInv is inductive, and it gives the type invariant, the *)
(* exclusivity of active duels, that a duel is charged at most once, and   *)
(* that the rows follow the life cycle of DuelLifecycle.  PromiseInv adds  *)
(* what the handlers under way still owe (a shield to give back, a lock to *)
(* release, an invitation to deliver) and gives the price of a silent      *)
(* opponent, the pair lock and the answers to a retried request.           *)
(***************************************************************************)
EXTENDS Duels, TLAPS

USE DEF Invisible, Active, Unresolved, Final, DuelStatus, EntryType

-----------------------------------------------------------------------------
(* The bounds of time.                                                      *)
LEMMA Caps == /\ AgeCap \in Nat /\ PendingCutoff \in Nat /\ AcceptedCutoff \in Nat
              /\ ResultCutoff \in Nat
  BY TimeAssumption DEF AgeCap, PendingCutoff, AcceptedCutoff, ResultCutoff, Max2

\* Ages saturate: Older never leaves the range of ages.
LEMMA OlderInRange == \A age \in 0 .. AgeCap : Older(age) \in 0 .. AgeCap
  BY Caps DEF Older

-----------------------------------------------------------------------------
(* Rows.  An update of several fields is taken field by field.              *)
LEMMA RowFields ==
  ASSUME NEW r \in Row
  PROVE  /\ \A x \in Users \union {NoUser} :
              /\ [r EXCEPT !.challengerId = x] \in Row /\ [r EXCEPT !.opponentId = x] \in Row
              /\ [r EXCEPT !.winnerId = x] \in Row /\ [r EXCEPT !.loserId = x] \in Row
         /\ \A x \in RequestIds \union {NoRequest} : [r EXCEPT !.requestId = x] \in Row
         /\ \A x \in Invisible \union DuelStatus : [r EXCEPT !.status = x] \in Row
         /\ \A x \in Nat : [r EXCEPT !.revision = x] \in Row /\ [r EXCEPT !.scoreDelta = x] \in Row
         /\ \A x \in 0 .. AgeCap : [r EXCEPT !.age = x] \in Row
         /\ \A x \in Null .. AgeCap : [r EXCEPT !.resultReportedAt = x] \in Row
         /\ \A x \in 0 .. MaxReports : [r EXCEPT !.reports = x] \in Row
         /\ \A x \in BOOLEAN : [r EXCEPT !.inviteDelivered = x] \in Row
<1>1. \A x \in Users \union {NoUser} :
              /\ [r EXCEPT !.challengerId = x] \in Row /\ [r EXCEPT !.opponentId = x] \in Row
              /\ [r EXCEPT !.winnerId = x] \in Row /\ [r EXCEPT !.loserId = x] \in Row
  BY DEF Row
<1>2. \A x \in Invisible \union DuelStatus : [r EXCEPT !.status = x] \in Row
  BY DEF Row
<1>3. \A x \in Nat : [r EXCEPT !.revision = x] \in Row /\ [r EXCEPT !.scoreDelta = x] \in Row
  BY DEF Row
<1>4. \A x \in 0 .. AgeCap : [r EXCEPT !.age = x] \in Row
  BY DEF Row
<1>5. \A x \in Null .. AgeCap : [r EXCEPT !.resultReportedAt = x] \in Row
  BY DEF Row
<1>6. \A x \in 0 .. MaxReports : [r EXCEPT !.reports = x] \in Row
  BY DEF Row
<1>7. \A x \in BOOLEAN : [r EXCEPT !.inviteDelivered = x] \in Row
  BY DEF Row
<1>8. \A x \in RequestIds \union {NoRequest} : [r EXCEPT !.requestId = x] \in Row
  BY DEF Row
<1> QED
  BY <1>1, <1>2, <1>3, <1>4, <1>5, <1>6, <1>7, <1>8

LEMMA Zeros == /\ 0 \in 0 .. AgeCap /\ Null \in Null .. AgeCap /\ 0 \in Null .. AgeCap
               /\ 0 \in 0 .. MaxReports
  BY Caps, BoundAssumption DEF Null

\* A duel that ends is still a row, whatever ends it.
LEMMA EndedIsRow ==
  ASSUME NEW d \in Ids, duel[d] \in Row, NEW st \in Final, NEW p \in Nat
  PROVE  /\ Ended(d, st, p) \in Row
         /\ Ended(d, st, p).status = st /\ Ended(d, st, p).scoreDelta = p
         /\ Ended(d, st, p).revision = duel[d].revision + 1
         /\ Ended(d, st, p).challengerId = duel[d].challengerId
         /\ Ended(d, st, p).opponentId = duel[d].opponentId
<1> DEFINE r1 == [duel[d] EXCEPT !.status = st]
           r2 == [r1 EXCEPT !.revision = duel[d].revision + 1]
           r3 == [r2 EXCEPT !.scoreDelta = p]
           r4 == [r3 EXCEPT !.age = 0]
           r5 == [r4 EXCEPT !.resultReportedAt = Null]
           r6 == [r5 EXCEPT !.reports = 0]
<1>1. r1 \in Row
  BY RowFields
<1>2. duel[d].revision + 1 \in Nat
  BY DEF Row
<1>3. Ended(d, st, p) = r6
  BY DEF Ended
<1>4. /\ Ended(d, st, p).status = st /\ Ended(d, st, p).scoreDelta = p
      /\ Ended(d, st, p).revision = duel[d].revision + 1
      /\ Ended(d, st, p).challengerId = duel[d].challengerId
      /\ Ended(d, st, p).opponentId = duel[d].opponentId
  BY DEF Ended, Row
<1> HIDE DEF r1
<1>5. r2 \in Row
  BY <1>1, <1>2, RowFields
<1> HIDE DEF r2
<1>6. r3 \in Row
  BY <1>5, RowFields
<1> HIDE DEF r3
<1>7. r4 \in Row
  BY <1>6, Zeros, RowFields
<1> HIDE DEF r4
<1>8. r5 \in Row
  BY <1>7, Zeros, RowFields
<1> HIDE DEF r5
<1>9. r6 \in Row
  BY <1>8, Zeros, RowFields
<1> QED
  BY <1>3, <1>4, <1>9

LEMMA BlankIsRow == Blank \in Row /\ [Blank EXCEPT !.status = "ABORTED"] \in Row
<1>1. Blank \in Row
  BY Zeros DEF Blank, Row
<1> QED
  BY <1>1, RowFields

LEMMA NewRowIsRow ==
  ASSUME NEW s \in Slots, slot[s] \in SlotType, slot[s].user \in Users, slot[s].target \in Users
  PROVE  /\ NewRow(s) \in Row /\ NewRow(s).status = "INSERTED" /\ NewRow(s).revision = 0
         /\ NewRow(s).challengerId = slot[s].user /\ NewRow(s).opponentId = slot[s].target
         /\ NewRow(s).scoreDelta = 0
<1> DEFINE r1 == [Blank EXCEPT !.challengerId = slot[s].user]
           r2 == [r1 EXCEPT !.opponentId = slot[s].target]
           r3 == [r2 EXCEPT !.requestId = slot[s].requestId]
           r4 == [r3 EXCEPT !.status = "INSERTED"]
           r5 == [r4 EXCEPT !.age = slot[s].age]
<1>1. slot[s].requestId \in RequestIds \union {NoRequest} /\ slot[s].age \in 0 .. AgeCap
  BY DEF SlotType
<1>2. NewRow(s) = r5
  BY DEF NewRow
<1>3. /\ NewRow(s).status = "INSERTED" /\ NewRow(s).revision = 0
      /\ NewRow(s).challengerId = slot[s].user /\ NewRow(s).opponentId = slot[s].target
      /\ NewRow(s).scoreDelta = 0
  BY DEF NewRow, Blank
<1>4. r1 \in Row
  BY BlankIsRow, RowFields
<1> HIDE DEF r1
<1>5. r2 \in Row
  BY <1>4, RowFields
<1> HIDE DEF r2
<1>6. r3 \in Row
  BY <1>1, <1>5, RowFields
<1> HIDE DEF r3
<1>7. r4 \in Row
  BY <1>6, RowFields
<1> HIDE DEF r4
<1>8. r5 \in Row
  BY <1>1, <1>7, RowFields
<1> QED
  BY <1>2, <1>3, <1>8

LEMMA AcceptedIsRow ==
  ASSUME NEW d \in Ids, duel[d] \in Row
  PROVE  /\ Accepted(d) \in Row /\ Accepted(d).status = "ACCEPTED"
         /\ Accepted(d).revision = duel[d].revision + 1
         /\ Accepted(d).challengerId = duel[d].challengerId
         /\ Accepted(d).opponentId = duel[d].opponentId
<1> DEFINE r1 == [duel[d] EXCEPT !.status = "ACCEPTED"]
           r2 == [r1 EXCEPT !.revision = duel[d].revision + 1]
           r3 == [r2 EXCEPT !.age = 0]
<1>1. r1 \in Row
  BY RowFields
<1>2. duel[d].revision + 1 \in Nat
  BY DEF Row
<1>3. Accepted(d) = r3
  BY DEF Accepted
<1>4. /\ Accepted(d).status = "ACCEPTED" /\ Accepted(d).revision = duel[d].revision + 1
      /\ Accepted(d).challengerId = duel[d].challengerId
      /\ Accepted(d).opponentId = duel[d].opponentId
  BY DEF Accepted, Row
<1> HIDE DEF r1
<1>5. r2 \in Row
  BY <1>1, <1>2, RowFields
<1> HIDE DEF r2
<1>6. r3 \in Row
  BY <1>5, Zeros, RowFields
<1> QED
  BY <1>3, <1>4, <1>6

LEMMA ReportedIsRow ==
  ASSUME NEW d \in Ids, duel[d] \in Row, duel[d].reports < MaxReports
  PROVE  /\ Reported(d) \in Row /\ Reported(d).status = duel[d].status
         /\ Reported(d).revision = duel[d].revision
         /\ Reported(d).scoreDelta = duel[d].scoreDelta
         /\ Reported(d).challengerId = duel[d].challengerId
         /\ Reported(d).opponentId = duel[d].opponentId
<1> DEFINE r1 == [duel[d] EXCEPT !.resultReportedAt = 0]
           r2 == [r1 EXCEPT !.reports = duel[d].reports + 1]
<1>1. r1 \in Row
  BY Zeros, RowFields
<1>2. duel[d].reports + 1 \in 0 .. MaxReports
  BY BoundAssumption DEF Row
<1>3. Reported(d) = r2
  BY DEF Reported
<1>4. /\ Reported(d).status = duel[d].status /\ Reported(d).revision = duel[d].revision
      /\ Reported(d).scoreDelta = duel[d].scoreDelta
      /\ Reported(d).challengerId = duel[d].challengerId
      /\ Reported(d).opponentId = duel[d].opponentId
  BY DEF Reported, Row
<1> HIDE DEF r1
<1> QED
  BY <1>1, <1>2, <1>3, <1>4, RowFields

LEMMA DecidedIsRow ==
  ASSUME NEW t \in ResolveType, duel[t.id] \in Row
  PROVE  /\ Decided(t) \in Row /\ Decided(t).status = "COMPLETED"
         /\ Decided(t).revision = duel[t.id].revision + 1
<1>1. t.id \in Ids /\ t.winner \in Users /\ t.loser \in Users
  BY DEF ResolveType
<1> DEFINE r0 == Ended(t.id, "COMPLETED", BASE_DUEL_SCORE)
           r1 == [r0 EXCEPT !.winnerId = t.winner]
           r2 == [r1 EXCEPT !.loserId = t.loser]
<1>2. r0 \in Row /\ r0.status = "COMPLETED" /\ r0.revision = duel[t.id].revision + 1
  BY <1>1, EndedIsRow DEF BASE_DUEL_SCORE
<1>3. Decided(t) = r2
  BY DEF Decided
<1> HIDE DEF r0
<1>4. r2.status = r0.status /\ r2.revision = r0.revision
  BY <1>2 DEF Row
<1>5. r1 \in Row
  BY <1>1, <1>2, RowFields
<1> HIDE DEF r1
<1>6. r2 \in Row
  BY <1>1, <1>5, RowFields
<1> QED
  BY <1>2, <1>3, <1>4, <1>6

LEMMA WithoutIsRow ==
  ASSUME NEW row \in Row, NEW u \in Users
  PROVE  /\ Without(row, u) \in Row /\ Without(row, u).status = row.status
         /\ Without(row, u).revision = row.revision
         /\ Without(row, u).scoreDelta = row.scoreDelta
         /\ row.challengerId # u => Without(row, u).challengerId = row.challengerId
         /\ row.opponentId # u => Without(row, u).opponentId = row.opponentId
<1> DEFINE c == IF row.challengerId = u THEN NoUser ELSE row.challengerId
           o == IF row.opponentId = u THEN NoUser ELSE row.opponentId
           r1 == [row EXCEPT !.challengerId = c]
           r2 == [r1 EXCEPT !.opponentId = o]
<1>1. c \in Users \union {NoUser} /\ o \in Users \union {NoUser}
  BY DEF Row
<1>2. Without(row, u) = r2
  BY DEF Without
<1>3. /\ Without(row, u).status = row.status /\ Without(row, u).revision = row.revision
      /\ Without(row, u).scoreDelta = row.scoreDelta
      /\ Without(row, u).challengerId = c /\ Without(row, u).opponentId = o
  BY DEF Without, Row
<1> HIDE DEF c, o
<1>4. r1 \in Row
  BY <1>1, RowFields
<1> HIDE DEF r1
<1>5. r2 \in Row
  BY <1>1, <1>4, RowFields
<1> QED
  BY <1>2, <1>3, <1>5 DEF c, o

LEMMA AgedIsRow ==
  ASSUME NEW row \in Row
  PROVE  /\ Aged(row) \in Row /\ Aged(row).status = row.status
         /\ Aged(row).revision = row.revision /\ Aged(row).scoreDelta = row.scoreDelta
         /\ Aged(row).challengerId = row.challengerId /\ Aged(row).opponentId = row.opponentId
<1> DEFINE a == Older(row.age)
           b == IF row.resultReportedAt = Null THEN Null ELSE Older(row.resultReportedAt)
           r1 == [row EXCEPT !.age = a]
           r2 == [r1 EXCEPT !.resultReportedAt = b]
<1>1. row.age \in 0 .. AgeCap /\ row.resultReportedAt \in Null .. AgeCap
  BY DEF Row
<1>2. a \in 0 .. AgeCap
  BY <1>1, OlderInRange
<1>3. b \in Null .. AgeCap
  BY <1>1, Caps DEF Older, Null
<1>4. Aged(row) = r2
  BY DEF Aged
<1>5. /\ Aged(row).status = row.status /\ Aged(row).revision = row.revision
      /\ Aged(row).scoreDelta = row.scoreDelta
      /\ Aged(row).challengerId = row.challengerId /\ Aged(row).opponentId = row.opponentId
  BY DEF Aged, Row
<1> HIDE DEF a, b
<1>6. r1 \in Row
  BY <1>2, RowFields
<1> HIDE DEF r1
<1>7. r2 \in Row
  BY <1>3, <1>6, RowFields
<1> QED
  BY <1>4, <1>5, <1>7

-----------------------------------------------------------------------------
LEMMA InitInv == Init => IndInv
<1> SUFFICES ASSUME Init PROVE IndInv
  OBVIOUS
<1>1. TypeOK
  BY BlankIsRow, BoundAssumption, TimeAssumption, Caps, Zeros
     DEF Init, TypeOK, Off, Idle, SlotType, Ids
<1>2. BoundPlayersExist /\ BoundPlayersFree /\ LedgerAgrees /\ InvisibleIsNew
  BY DEF Init, BoundPlayersExist, BoundPlayersFree, LedgerAgrees, InvisibleIsNew, Binds, Blank
<1>3. SlotsAgree /\ FirstIsOwn
  BY DEF Init, SlotsAgree, FirstIsOwn, Idle
<1> QED
  BY <1>1, <1>2, <1>3 DEF IndInv

-----------------------------------------------------------------------------
(* What an action leaves alone.                                             *)

\* While no handler begins to wait for its second advisory lock and no row comes
\* in, the first locks stay with the handlers that have them.
LEMMA FirstsStay ==
  ASSUME IndInv,
         \A q \in Slots : slot'[q].phase = "half" =>
           /\ slot[q].phase = "half"
           /\ slot'[q].user = slot[q].user /\ slot'[q].target = slot[q].target,
         \A d \in Ids : duel'[d].status = "INSERTED" =>
           /\ duel[d].status = "INSERTED"
           /\ duel'[d].challengerId = duel[d].challengerId
           /\ duel'[d].opponentId = duel[d].opponentId
  PROVE  FirstIsOwn'
<1>1. \A q \in Slots : slot'[q].phase = "half" => First(q)' = First(q)
  BY DEF First
<1>2. \A d \in Ids : duel'[d].status = "INSERTED" => Players(d)' = Players(d)
  BY DEF Players
<1>3. FirstIsOwn
  BY DEF IndInv
<1> QED
  BY <1>1, <1>2, <1>3 DEF FirstIsOwn

\* An action that touches neither rows, accounts, ledger nor handlers.
LEMMA Elsewhere ==
  ASSUME IndInv, UNCHANGED <<duel, accounts, ledger, slot>>
  PROVE  BoundPlayersExist' /\ BoundPlayersFree' /\ SlotsAgree' /\ FirstIsOwn' /\ LedgerAgrees' /\ InvisibleIsNew'
<1>1. FirstIsOwn'
  BY FirstsStay
<1> QED
  BY <1>1 DEF IndInv, BoundPlayersExist, BoundPlayersFree, SlotsAgree, LedgerAgrees,
              InvisibleIsNew, Binds, Players

\* An action of one handler that leaves the rows alone and inserts nothing.
LEMMA HandlerMoves ==
  ASSUME IndInv, UNCHANGED <<duel, accounts, ledger>>, NEW s \in Slots, NEW x \in SlotType,
         slot' = [slot EXCEPT ![s] = x],
         x.phase \notin {"half", "locked"}, x.phase = "tx" => Team[x.user] # Team[x.target],
         x.phase \notin {"idle", "refused"} => x.user \in Users /\ x.target \in Users,
         x.phase = "created" => x.id \in Ids
  PROVE  BoundPlayersExist' /\ BoundPlayersFree' /\ SlotsAgree' /\ FirstIsOwn' /\ LedgerAgrees' /\ InvisibleIsNew'
<1>1. BoundPlayersExist' /\ BoundPlayersFree' /\ LedgerAgrees' /\ InvisibleIsNew'
  BY DEF IndInv, BoundPlayersExist, BoundPlayersFree, LedgerAgrees, InvisibleIsNew, Binds, Players
<1>2. slot'[s] = x /\ \A q \in Slots \ {s} : slot'[q] = slot[q]
  BY DEF IndInv, TypeOK
<1>3. SlotsAgree'
  BY <1>2 DEF IndInv, SlotsAgree
<1>4. \A q \in Slots : slot'[q].phase = "half" => q # s
  BY <1>2
<1>5. FirstIsOwn'
  BY <1>2, <1>4, FirstsStay
<1> QED
  BY <1>1, <1>3, <1>5

\* An action that ends or changes rows without handing out new ones.
LEMMA RowsMove ==
  ASSUME IndInv, UNCHANGED <<accounts, slot>>,
         \A d \in Ids :
           /\ Binds(d)' => /\ Binds(d) /\ duel'[d].challengerId = duel[d].challengerId
                           /\ duel'[d].opponentId = duel[d].opponentId
           /\ duel[d].status = "INSERTED" <=> duel'[d].status = "INSERTED"
           /\ duel'[d].status \in Invisible => duel'[d].revision = 0
  PROVE  BoundPlayersExist' /\ BoundPlayersFree' /\ SlotsAgree' /\ FirstIsOwn' /\ InvisibleIsNew'
<1>1. BoundPlayersExist' /\ BoundPlayersFree'
  BY DEF IndInv, BoundPlayersExist, BoundPlayersFree, Players
<1>2. SlotsAgree'
  BY DEF IndInv, SlotsAgree
<1>3. InvisibleIsNew'
  BY DEF InvisibleIsNew
<1>4. FirstIsOwn'
  BY FirstsStay DEF Binds
<1> QED
  BY <1>1, <1>2, <1>3, <1>4

\* The same for one row.
LEMMA RowMoves ==
  ASSUME IndInv, UNCHANGED <<accounts, slot>>, NEW d \in Ids, NEW r \in Row,
         duel' = [duel EXCEPT ![d] = r], duel[d].status \in Active, r.status \in DuelStatus,
         r.status \in Active => /\ r.challengerId = duel[d].challengerId
                                /\ r.opponentId = duel[d].opponentId
  PROVE  /\ BoundPlayersExist' /\ BoundPlayersFree' /\ SlotsAgree' /\ FirstIsOwn' /\ InvisibleIsNew'
         /\ duel' \in [Ids -> Row]
<1>1. /\ duel'[d] = r /\ \A e \in Ids \ {d} : duel'[e] = duel[e]
      /\ duel' \in [Ids -> Row]
  BY DEF IndInv, TypeOK
<1>2. \A e \in Ids : e # d => (Binds(e)' <=> Binds(e))
  BY <1>1 DEF Binds
<1>3. Binds(d) /\ (Binds(d)' => r.status \in Active)
  BY <1>1 DEF Binds
<1>4. \A e \in Ids :
           /\ Binds(e)' => /\ Binds(e) /\ duel'[e].challengerId = duel[e].challengerId
                           /\ duel'[e].opponentId = duel[e].opponentId
           /\ duel[e].status = "INSERTED" <=> duel'[e].status = "INSERTED"
           /\ duel'[e].status \in Invisible => duel'[e].revision = 0
  BY <1>1, <1>2, <1>3 DEF IndInv, InvisibleIsNew
<1> QED
  BY <1>1, <1>4, RowsMove

\* The work left after a commit names the two players, who are users.
LEMMA TaskIsTask ==
  ASSUME IndInv, NEW d \in Ids, Binds(d), NEW S \in SUBSET {duel[d].opponentId},
         NEW w \in {"keep", "extend", "release"}
  PROVE  Task(d, S, w) \in TaskType
<1>1. duel[d].challengerId \in Users /\ duel[d].opponentId \in Users
  BY DEF IndInv, BoundPlayersExist, TypeOK
<1> QED
  BY <1>1 DEF Task, TaskType, Players

-----------------------------------------------------------------------------
(* The steps of a request handler.                                          *)

LEMMA IdleIsSlot == Idle \in SlotType /\ Refused \in SlotType
  BY Zeros, BoundAssumption DEF Idle, Refused, SlotType

LEMMA ReceiveInv ==
  ASSUME IndInv, NEW s \in Slots, NEW ask \in Asks, Receive(s, ask)
  PROVE  IndInv'
<1> DEFINE x == [phase |-> "lookup", user |-> ask.user, target |-> ask.target,
                 requestId |-> ask.requestId, age |-> 0, id |-> 0]
<1>1. /\ x \in SlotType /\ x.user \in Users /\ x.target \in Users /\ x.phase = "lookup"
  BY AsksAssumption, Zeros, BoundAssumption DEF SlotType
<1>2. slot' = [slot EXCEPT ![s] = x] /\ UNCHANGED stored
  BY DEF Receive
<1> HIDE DEF x
<1>3. TypeOK'
  <2>1. slot' \in [Slots -> SlotType]
    BY <1>1, <1>2 DEF IndInv, TypeOK
  <2>2. left' \in [asks : 0 .. MaxAsks, crashes : 0 .. MaxCrashes, lapses : 0 .. MaxLapses]
    BY BoundAssumption DEF Receive, IndInv, TypeOK
  <2> QED
    BY <2>1, <2>2 DEF Receive, IndInv, TypeOK, stored
<1>4. UNCHANGED <<duel, accounts, ledger>>
  BY <1>2 DEF stored
<1> QED
  BY <1>1, <1>2, <1>3, <1>4, HandlerMoves DEF IndInv

LEMMA ArmType ==
  ASSUME IndInv, NEW d \in Ids, Arm(d)
  PROVE  timer' \in [Ids -> Off .. DUEL_REQUEST_TTL]
<1>1. PICK rest \in IF duel[d].status = "PENDING"
                    THEN {Max2(0, DUEL_REQUEST_TTL - duel[d].age), DUEL_REQUEST_TTL}
                    ELSE 0 .. DUEL_REQUEST_TTL :
        timer' = [timer EXCEPT ![d] = IF @ = Off THEN rest ELSE @]
  BY DEF Arm
<1>2. duel[d].age \in 0 .. AgeCap
  BY DEF IndInv, TypeOK, Row
<1>3. rest \in 0 .. DUEL_REQUEST_TTL
  BY <1>1, <1>2, TimeAssumption, Caps DEF Max2
<1> QED
  BY <1>1, <1>3, TimeAssumption DEF IndInv, TypeOK, Off

\* A retry that found its duel leaves the rows alone and goes back to rest.
LEMMA RejoinKeeps ==
  ASSUME IndInv, NEW s \in Slots, NEW d \in Ids, Rejoin(s, d)
  PROVE  /\ \E x \in {Idle, Refused} : slot' = [slot EXCEPT ![s] = x]
         /\ timer' \in [Ids -> Off .. DUEL_REQUEST_TTL] /\ invites' \subseteq InviteType
<1>1. timer' \in [Ids -> Off .. DUEL_REQUEST_TTL]
  BY ArmType DEF Rejoin, IndInv, TypeOK
<1>2. <<d, "again", "check">> \in InviteType
  BY DEF InviteType
<1>3. invites' \subseteq InviteType
  BY <1>2 DEF Rejoin, IndInv, TypeOK
<1>4. \E x \in {Idle, Refused} : slot' = [slot EXCEPT ![s] = x]
  BY DEF Rejoin
<1> QED
  BY <1>1, <1>3, <1>4

LEMMA RetryInv ==
  ASSUME IndInv, NEW s \in Slots, NEW d \in Ids, Rejoin(s, d),
         UNCHANGED <<stored, after, resolving, leaving, outage, shown, left>>
  PROVE  IndInv'
<1>1. PICK x \in {Idle, Refused} : slot' = [slot EXCEPT ![s] = x]
  BY RejoinKeeps
<1>2. x \in SlotType /\ x.phase \in {"idle", "refused"}
  BY IdleIsSlot DEF Idle, Refused
<1>3. slot' \in [Slots -> SlotType]
  BY <1>1, <1>2 DEF IndInv, TypeOK
<1>4. TypeOK'
  BY <1>3, RejoinKeeps DEF IndInv, TypeOK, stored
<1>5. UNCHANGED <<duel, accounts, ledger>>
  BY DEF stored
<1> QED
  BY <1>1, <1>2, <1>4, <1>5, HandlerMoves DEF IndInv

LEMMA LookupInv ==
  ASSUME IndInv, NEW s \in Slots, Lookup(s)
  PROVE  IndInv'
<1>1. CASE \E d \in Ids : OwnRow(s, d) /\ Rejoin(s, d)
  BY <1>1, RetryInv DEF Lookup
<1>2. CASE slot' = [slot EXCEPT ![s].phase = "guards"] /\ UNCHANGED <<timer, invites>>
  <2> DEFINE x == [slot[s] EXCEPT !.phase = "guards"]
  <2>1. /\ x \in SlotType /\ x.phase = "guards"
        /\ x.user = slot[s].user /\ x.target = slot[s].target
    BY DEF IndInv, TypeOK, SlotType
  <2>2. x.user \in Users /\ x.target \in Users
    BY <2>1 DEF Lookup, IndInv, SlotsAgree
  <2>3. slot' = [slot EXCEPT ![s] = x] /\ UNCHANGED stored
    BY <1>2 DEF Lookup
  <2> HIDE DEF x
  <2>4. TypeOK'
    BY <1>2, <2>1, <2>3 DEF Lookup, IndInv, TypeOK, stored
  <2>5. UNCHANGED <<duel, accounts, ledger>>
    BY <2>3 DEF stored
  <2> QED
    BY <2>1, <2>2, <2>3, <2>4, <2>5, HandlerMoves DEF IndInv
<1> QED
  BY <1>1, <1>2 DEF Lookup

LEMMA GuardsPassInv ==
  ASSUME IndInv, NEW s \in Slots, GuardsPass(s)
  PROVE  IndInv'
<1> DEFINE x == [slot[s] EXCEPT !.phase = "tx"]
<1>1. /\ x \in SlotType /\ x.phase = "tx"
      /\ x.user = slot[s].user /\ x.target = slot[s].target
  BY DEF IndInv, TypeOK, SlotType
<1>2. x.user \in Users /\ x.target \in Users /\ Team[x.user] # Team[x.target]
  BY <1>1 DEF GuardsPass, IndInv, SlotsAgree
<1>3. slot' = [slot EXCEPT ![s] = x] /\ UNCHANGED stored
  BY DEF GuardsPass
<1> HIDE DEF x
<1>4. TypeOK'
  BY <1>1, <1>3 DEF GuardsPass, IndInv, TypeOK, stored
<1>5. UNCHANGED <<duel, accounts, ledger>>
  BY <1>3 DEF stored
<1> QED
  BY <1>1, <1>2, <1>3, <1>4, <1>5, HandlerMoves DEF IndInv

\* The first advisory lock: nobody waits with it, and no row of its user is being
\* inserted.
LEMMA LockFirstInv ==
  ASSUME IndInv, NEW s \in Slots, LockFirst(s)
  PROVE  IndInv'
<1> DEFINE x == [slot[s] EXCEPT !.phase = "half"]
<1>1. /\ x \in SlotType /\ x.phase = "half" /\ x.id = slot[s].id
      /\ x.user = slot[s].user /\ x.target = slot[s].target
  BY DEF IndInv, TypeOK, SlotType
<1>2. x.user \in Users /\ x.target \in Users /\ Team[x.user] # Team[x.target]
  BY <1>1 DEF LockFirst, IndInv, SlotsAgree
<1>3. slot' = [slot EXCEPT ![s] = x] /\ UNCHANGED stored
  BY DEF LockFirst
<1> HIDE DEF x
<1>4. TypeOK'
  BY <1>1, <1>3 DEF LockFirst, IndInv, TypeOK, stored
<1>5. UNCHANGED <<duel, accounts, ledger>>
  BY <1>3 DEF stored
<1>6. BoundPlayersExist' /\ BoundPlayersFree' /\ LedgerAgrees' /\ InvisibleIsNew'
  BY <1>5 DEF IndInv, BoundPlayersExist, BoundPlayersFree, LedgerAgrees, InvisibleIsNew, Binds,
              Players
<1>7. slot'[s] = x /\ \A q \in Slots \ {s} : slot'[q] = slot[q]
  BY <1>3 DEF IndInv, TypeOK
<1>8. SlotsAgree'
  BY <1>1, <1>2, <1>5, <1>7 DEF IndInv, SlotsAgree
<1>9. \A q \in Slots : First(q)' = First(q)
  BY <1>1, <1>7 DEF First
<1>10. \A d \in Ids : Players(d)' = Players(d)
  BY <1>5 DEF Players
<1>11. AdvisoryFree(First(s))
  BY DEF LockFirst
<1>12. FirstIsOwn'
  BY <1>5, <1>7, <1>9, <1>10, <1>11 DEF IndInv, FirstIsOwn, AdvisoryFree
<1> QED
  BY <1>4, <1>6, <1>8, <1>12 DEF IndInv

\* The two ways a request is refused.
LEMMA RefusedInv ==
  ASSUME IndInv, NEW s \in Slots, GuardsRefuse(s) \/ InsertRefused(s)
  PROVE  IndInv'
<1>1. PICK x \in {Idle, Refused} : slot' = [slot EXCEPT ![s] = x]
  BY DEF GuardsRefuse, InsertRefused
<1>2. x \in SlotType /\ x.phase \in {"idle", "refused"}
  BY IdleIsSlot DEF Idle, Refused
<1>3. UNCHANGED <<stored, invites, timer, after, resolving, leaving, outage, shown, left>>
  BY DEF GuardsRefuse, InsertRefused
<1>4. TypeOK'
  BY <1>1, <1>2, <1>3 DEF IndInv, TypeOK, stored
<1>5. UNCHANGED <<duel, accounts, ledger>>
  BY <1>3 DEF stored
<1> QED
  BY <1>1, <1>2, <1>4, <1>5, HandlerMoves DEF IndInv

LEMMA CreatedInv ==
  ASSUME IndInv, NEW s \in Slots, Created(s)
  PROVE  IndInv'
<1>1. slot[s].id \in Ids /\ slot' = [slot EXCEPT ![s] = Idle]
  BY DEF Created, IndInv, SlotsAgree
<1>2. timer' \in [Ids -> Off .. DUEL_REQUEST_TTL]
  BY <1>1, ArmType DEF Created
<1>3. invites' \subseteq InviteType
  BY <1>1 DEF Created, IndInv, TypeOK, InviteType
<1>4. slot' \in [Slots -> SlotType] /\ shield' \subseteq Users
  BY <1>1, IdleIsSlot DEF Created, IndInv, TypeOK
<1>5. TypeOK'
  BY <1>2, <1>3, <1>4 DEF Created, IndInv, TypeOK
<1>6. Idle \in SlotType /\ Idle.phase = "idle"
  BY IdleIsSlot DEF Idle
<1>7. UNCHANGED <<duel, accounts, ledger>>
  BY DEF Created
<1> QED
  BY <1>1, <1>5, <1>6, <1>7, HandlerMoves DEF IndInv

\* An id burned by a refused insert.
LEMMA InsertHeldInv ==
  ASSUME IndInv, NEW s \in Slots, NEW d \in Ids, InsertRow(s, d),
         Held({slot[s].user, slot[s].target})
  PROVE  IndInv'
<1>1. /\ duel' = [duel EXCEPT ![d].status = "ABORTED"]
      /\ slot' = [slot EXCEPT ![s] = Refused] /\ duel[d].status = "NONE"
      /\ UNCHANGED <<locks, shield, penalty, accounts, ledger, invites, timer, after,
                     resolving, leaving, outage, shown, left>>
  BY DEF InsertRow, NextId
<1> DEFINE r == [duel[d] EXCEPT !.status = "ABORTED"]
<1>2. r \in Row
  BY RowFields DEF IndInv, TypeOK
<1>3. r.status = "ABORTED" /\ r.revision = duel[d].revision /\ r.scoreDelta = duel[d].scoreDelta
  BY DEF IndInv, TypeOK, Row
<1>4. duel' = [duel EXCEPT ![d] = r]
  BY <1>1
<1> HIDE DEF r
<1>5. /\ duel' \in [Ids -> Row] /\ duel'[d] = r /\ \A e \in Ids \ {d} : duel'[e] = duel[e]
  BY <1>2, <1>4 DEF IndInv, TypeOK
<1>6. /\ slot' \in [Slots -> SlotType] /\ slot'[s] = Refused
      /\ \A q \in Slots \ {s} : slot'[q] = slot[q]
  BY <1>1, IdleIsSlot DEF IndInv, TypeOK
<1>7. TypeOK'
  BY <1>1, <1>5, <1>6 DEF IndInv, TypeOK
<1>8. BoundPlayersExist' /\ BoundPlayersFree'
  BY <1>1, <1>3, <1>5 DEF IndInv, BoundPlayersExist, BoundPlayersFree, Binds, Players
<1>9. SlotsAgree'
  BY <1>1, <1>5, <1>6 DEF IndInv, SlotsAgree, Refused, Idle
<1>11. FirstIsOwn'
  <2>1. \A q \in Slots : slot'[q].phase = "half" => q # s
    BY <1>6 DEF Refused, Idle
  <2> QED
    BY <1>3, <1>5, <1>6, <2>1, FirstsStay
<1>10. LedgerAgrees' /\ InvisibleIsNew'
  BY <1>1, <1>3, <1>5 DEF IndInv, LedgerAgrees, InvisibleIsNew
<1> QED
  BY <1>7, <1>8, <1>9, <1>10, <1>11 DEF IndInv

\* With its second advisory lock a handler has the locks of both its users: nobody
\* is inserting a row of one of them.
LEMMA BothLocksHeld ==
  ASSUME IndInv, NEW s \in Slots, LockSecond(s)
  PROVE  \A e \in Ids : duel[e].status = "INSERTED" =>
           slot[s].user \notin Players(e) /\ slot[s].target \notin Players(e)
<1>1. {slot[s].user, slot[s].target} = {First(s), Second(s)}
  BY DEF First, Second
<1>2. \A e \in Ids : duel[e].status = "INSERTED" =>
        First(s) \notin Players(e) /\ Second(s) \notin Players(e)
  BY DEF LockSecond, IndInv, FirstIsOwn, AdvisoryFree
<1> QED
  BY <1>1, <1>2

\* An insert under the advisory locks of two users who are in no active duel.
LEMMA InsertNewInv ==
  ASSUME IndInv, NEW s \in Slots, NEW d \in Ids, InsertRow(s, d),
         ~Held({slot[s].user, slot[s].target})
  PROVE  IndInv'
<1> DEFINE u == slot[s].user
           v == slot[s].target
           r == NewRow(s)
           x == [slot[s] EXCEPT !.phase = "locked", !.id = d, !.age = 0]
           l == [pair |-> {u, v}, token |-> d, left |-> DUEL_REQUEST_TTL]
<1>1. /\ duel' = [duel EXCEPT ![d] = r] /\ slot' = [slot EXCEPT ![s] = x]
      /\ locks' = locks \union {l}
      /\ duel[d].status = "NONE" /\ slot[s].phase = "half"
      /\ u \in accounts /\ v \in accounts
      /\ UNCHANGED <<shield, penalty, accounts, ledger, invites, timer, after,
                     resolving, leaving, outage, shown, left>>
  BY DEF InsertRow, LockSecond, NextId, Acquire
<1>2. u \in Users /\ v \in Users /\ Team[u] # Team[v] /\ slot[s] \in SlotType
  BY <1>1 DEF IndInv, TypeOK, SlotsAgree
<1>3. /\ r \in Row /\ r.status = "INSERTED" /\ r.revision = 0
      /\ r.challengerId = u /\ r.opponentId = v /\ r.scoreDelta = 0
  BY <1>2, NewRowIsRow
<1>4. x \in SlotType /\ x.phase = "locked" /\ x.id = d /\ x.user = u /\ x.target = v
  <2> DEFINE x1 == [slot[s] EXCEPT !.phase = "locked"]
             x2 == [x1 EXCEPT !.id = d]
             x3 == [x2 EXCEPT !.age = 0]
  <2>1. d \in 0 .. MaxDuels
    BY BoundAssumption DEF Ids
  <2>2. x = x3
    OBVIOUS
  <2>3. x.phase = "locked" /\ x.id = d /\ x.user = u /\ x.target = v
    BY <1>2 DEF SlotType
  <2>4. x1 \in SlotType
    BY <1>2 DEF SlotType
  <2> HIDE DEF x1
  <2>5. x2 \in SlotType
    BY <2>1, <2>4 DEF SlotType
  <2> HIDE DEF x2
  <2>6. x3 \in SlotType
    BY <2>5, Zeros DEF SlotType
  <2> QED
    BY <2>2, <2>3, <2>6
<1>5. l \in LockType
  BY <1>2, TimeAssumption DEF LockType, Max2
<1>15. u \in {First(s), Second(s)} /\ v \in {First(s), Second(s)}
  BY DEF First, Second
<1>16. AdvisoryFree(Second(s))
  BY DEF InsertRow, LockSecond
<1>6. \A e \in Ids : Binds(e) => u \notin Players(e) /\ v \notin Players(e)
  <2>1. \A e \in Ids : duel[e].status = "INSERTED" => u \notin Players(e) /\ v \notin Players(e)
    BY BothLocksHeld DEF InsertRow
  <2>2. \A e \in Ids : IsActive(e) => Players(e) \cap {u, v} = {}
    BY DEF InsertRow, HasActiveDuel
  <2> QED
    BY <2>1, <2>2 DEF Binds, IsActive
<1> HIDE DEF r, x, l
<1>7. /\ duel' \in [Ids -> Row] /\ duel'[d] = r /\ \A e \in Ids \ {d} : duel'[e] = duel[e]
  BY <1>1, <1>3 DEF IndInv, TypeOK
<1>8. /\ slot' \in [Slots -> SlotType] /\ slot'[s] = x
      /\ \A q \in Slots \ {s} : slot'[q] = slot[q]
  BY <1>1, <1>4 DEF IndInv, TypeOK
<1>9. TypeOK'
  BY <1>1, <1>5, <1>7, <1>8 DEF IndInv, TypeOK
<1>10. BoundPlayersExist'
  BY <1>1, <1>2, <1>3, <1>7 DEF IndInv, BoundPlayersExist, Binds
<1>11. BoundPlayersFree'
  <2>1. \A e \in Ids \ {d} : Binds(e)' = Binds(e) /\ Players(e)' = Players(e)
    BY <1>7 DEF Binds, Players
  <2>2. Players(d)' = {u, v}
    BY <1>3, <1>7 DEF Players
  <2> QED
    BY <1>6, <2>1, <2>2 DEF IndInv, BoundPlayersFree
<1>12. SlotsAgree'
  BY <1>1, <1>2, <1>3, <1>4, <1>7, <1>8 DEF IndInv, SlotsAgree
<1>13. LedgerAgrees' /\ InvisibleIsNew'
  BY <1>1, <1>3, <1>7 DEF IndInv, LedgerAgrees, InvisibleIsNew
<1>14. FirstIsOwn'
  <2>1. \A q \in Slots : slot'[q].phase = "half" =>
          q # s /\ slot[q].phase = "half" /\ First(q)' = First(q)
    BY <1>4, <1>8 DEF First
  <2>2. \A q \in Slots : slot[q].phase = "half" /\ q # s =>
          First(q) # First(s) /\ First(q) # Second(s)
    BY <1>1, <1>16 DEF IndInv, FirstIsOwn, AdvisoryFree
  <2>3. Players(d)' = {u, v}
    BY <1>3, <1>7 DEF Players
  <2>4. \A e \in Ids \ {d} : Players(e)' = Players(e) /\ duel'[e].status = duel[e].status
    BY <1>7 DEF Players
  <2> QED
    BY <1>15, <2>1, <2>2, <2>3, <2>4 DEF IndInv, FirstIsOwn
<1> QED
  BY <1>9, <1>10, <1>11, <1>12, <1>13, <1>14 DEF IndInv

LEMMA CommitInv ==
  ASSUME IndInv, NEW s \in Slots, Commit(s)
  PROVE  IndInv'
<1> DEFINE d == slot[s].id
           r == [duel[d] EXCEPT !.status = "PENDING"]
           x == [slot[s] EXCEPT !.phase = "created"]
<1>1. d \in Ids /\ duel[d].status = "INSERTED" /\ slot[s] \in SlotType /\ duel[d] \in Row
      /\ slot[s].user \in Users /\ slot[s].target \in Users
  BY DEF Commit, IndInv, SlotsAgree, TypeOK
<1>2. /\ duel' = [duel EXCEPT ![d] = r] /\ slot' = [slot EXCEPT ![s] = x]
      /\ UNCHANGED <<locks, shield, penalty, accounts, ledger, invites, timer, after,
                     resolving, leaving, outage, shown, left>>
  BY DEF Commit
<1>3. /\ r \in Row /\ r.status = "PENDING" /\ r.revision = duel[d].revision
      /\ r.challengerId = duel[d].challengerId /\ r.opponentId = duel[d].opponentId
      /\ r.scoreDelta = duel[d].scoreDelta
  <2>1. r \in Row
    BY <1>1, RowFields
  <2> QED
    BY <1>1, <2>1 DEF Row
<1>4. /\ x \in SlotType /\ x.phase = "created" /\ x.id = d
      /\ x.user = slot[s].user /\ x.target = slot[s].target
  BY <1>1 DEF SlotType
<1> HIDE DEF d, r, x
<1>5. /\ duel' \in [Ids -> Row] /\ duel'[d] = r /\ \A e \in Ids \ {d} : duel'[e] = duel[e]
  BY <1>1, <1>2, <1>3 DEF IndInv, TypeOK
<1>6. /\ slot' \in [Slots -> SlotType] /\ slot'[s] = x
      /\ \A q \in Slots \ {s} : slot'[q] = slot[q]
  BY <1>2, <1>4 DEF IndInv, TypeOK
<1>7. TypeOK'
  BY <1>2, <1>5, <1>6 DEF IndInv, TypeOK
<1>8. BoundPlayersExist' /\ BoundPlayersFree'
  BY <1>1, <1>2, <1>3, <1>5 DEF IndInv, BoundPlayersExist, BoundPlayersFree, Binds, Players
<1>9. \A q \in Slots \ {s} : slot[q].phase = "locked" => slot[q].id # d
  BY DEF Commit, IndInv, SlotsAgree, d
<1>10. SlotsAgree'
  BY <1>1, <1>4, <1>5, <1>6, <1>9 DEF IndInv, SlotsAgree
<1>11. LedgerAgrees' /\ InvisibleIsNew'
  BY <1>1, <1>2, <1>3, <1>5 DEF IndInv, LedgerAgrees, InvisibleIsNew
<1>12. FirstIsOwn'
  <2>1. \A q \in Slots : slot'[q].phase = "half" => q # s
    BY <1>4, <1>6
  <2> QED
    BY <1>3, <1>5, <1>6, <2>1, FirstsStay
<1> QED
  BY <1>7, <1>8, <1>10, <1>11, <1>12 DEF IndInv

LEMMA RollbackInv ==
  ASSUME IndInv, NEW s \in Slots, Rollback(s)
  PROVE  IndInv'
<1> DEFINE d == slot[s].id
           r == [Blank EXCEPT !.status = "ABORTED"]
<1>1. d \in Ids /\ duel[d].status = "INSERTED"
  BY DEF Rollback, IndInv, SlotsAgree
<1>2. /\ duel' = [duel EXCEPT ![d] = r] /\ slot' = [slot EXCEPT ![s] = Idle]
      /\ UNCHANGED <<shield, penalty, accounts, ledger, invites, timer, after,
                     resolving, leaving, outage, shown, left>>
  BY DEF Rollback
<1>3. r \in Row /\ r.status = "ABORTED" /\ r.revision = 0 /\ r.scoreDelta = 0
  BY BlankIsRow DEF Blank
<1>4. locks' \subseteq locks
  BY DEF Rollback, Release
<1>5. \A q \in Slots \ {s} : slot[q].phase = "locked" => slot[q].id # d
  BY DEF Rollback, IndInv, SlotsAgree
<1> HIDE DEF d, r
<1>6. /\ duel' \in [Ids -> Row] /\ duel'[d] = r /\ \A e \in Ids \ {d} : duel'[e] = duel[e]
  BY <1>1, <1>2, <1>3 DEF IndInv, TypeOK
<1>7. /\ slot' \in [Slots -> SlotType] /\ slot'[s] = Idle
      /\ \A q \in Slots \ {s} : slot'[q] = slot[q]
  BY <1>2, IdleIsSlot DEF IndInv, TypeOK
<1>8. TypeOK'
  BY <1>2, <1>4, <1>6, <1>7 DEF IndInv, TypeOK
<1>9. BoundPlayersExist' /\ BoundPlayersFree'
  BY <1>2, <1>3, <1>6 DEF IndInv, BoundPlayersExist, BoundPlayersFree, Binds, Players
<1>10. SlotsAgree'
  BY <1>5, <1>6, <1>7 DEF IndInv, SlotsAgree, Idle
<1>11. LedgerAgrees' /\ InvisibleIsNew'
  BY <1>1, <1>2, <1>3, <1>6 DEF IndInv, LedgerAgrees, InvisibleIsNew
<1>12. FirstIsOwn'
  <2>1. \A q \in Slots : slot'[q].phase = "half" => q # s
    BY <1>7 DEF Idle
  <2> QED
    BY <1>3, <1>6, <1>7, <2>1, FirstsStay
<1> QED
  BY <1>8, <1>9, <1>10, <1>11, <1>12 DEF IndInv

LEMMA RequestStepInv ==
  ASSUME IndInv, NEW s \in Slots, RequestStep(s)
  PROVE  IndInv'
<1>1. CASE Lookup(s)                                BY <1>1, LookupInv
<1>2. CASE GuardsPass(s)                            BY <1>2, GuardsPassInv
<1>9. CASE LockFirst(s)                             BY <1>9, LockFirstInv
<1>3. CASE GuardsRefuse(s) \/ InsertRefused(s)      BY <1>3, RefusedInv
<1>4. CASE InsertRetry(s)                           BY <1>4, RetryInv DEF InsertRetry
<1>5. CASE \E d \in Ids : InsertRow(s, d)           BY <1>5, InsertHeldInv, InsertNewInv
<1>6. CASE Commit(s)                                BY <1>6, CommitInv
<1>7. CASE Rollback(s)                              BY <1>7, RollbackInv
<1>8. CASE Created(s)                               BY <1>8, CreatedInv
<1> QED
  BY <1>1, <1>2, <1>3, <1>4, <1>5, <1>6, <1>7, <1>8, <1>9 DEF RequestStep

-----------------------------------------------------------------------------
(* The invitation.                                                          *)

\* The message of an invitation moves on, or is dropped.
LEMMA InviteMovesInv ==
  ASSUME IndInv, NEW i \in invites, InviteCheck(i) \/ InviteRead(i) \/ InviteEmit(i) \/ InviteLost(i)
  PROVE  IndInv'
<1>1. i \in InviteType /\ i[1] \in Ids
  BY DEF IndInv, TypeOK, InviteType
<1>2. \A p \in {"check", "read", "emit", "mark"} : <<i[1], i[2], p>> \in InviteType
  BY <1>1 DEF InviteType
<1>3. invites' \subseteq InviteType
  BY <1>2 DEF InviteCheck, InviteRead, InviteEmit, InviteLost, InviteStep, IndInv, TypeOK
<1>4. shown' \subseteq Ids
  BY <1>1 DEF InviteCheck, InviteRead, InviteEmit, InviteLost, IndInv, TypeOK
<1>5. UNCHANGED <<stored, slot, timer, after, resolving, leaving, outage, left>>
  BY DEF InviteCheck, InviteRead, InviteEmit, InviteLost, InviteKeeps
<1>6. TypeOK'
  BY <1>3, <1>4, <1>5 DEF IndInv, TypeOK, stored
<1>7. UNCHANGED <<duel, accounts, ledger, slot>>
  BY <1>5 DEF stored
<1> QED
  BY <1>6, <1>7, Elsewhere DEF IndInv

LEMMA InviteMarkInv ==
  ASSUME IndInv, NEW i \in invites, InviteMark(i)
  PROVE  IndInv'
<1> DEFINE d == i[1]
           r == [duel[d] EXCEPT !.inviteDelivered = TRUE]
<1>1. d \in Ids /\ duel[d] \in Row
  BY DEF IndInv, TypeOK, InviteType
<1>2. /\ UNCHANGED <<locks, shield, penalty, accounts, ledger, slot, timer, after, resolving,
                     leaving, outage, shown, left>>
      /\ invites' \subseteq InviteType
  BY DEF InviteMark, InviteStep, InviteKeeps, IndInv, TypeOK
<1>3. r \in Row
  BY <1>1, RowFields
<1>4. /\ r.status = duel[d].status /\ r.scoreDelta = duel[d].scoreDelta
      /\ r.challengerId = duel[d].challengerId /\ r.opponentId = duel[d].opponentId
  BY <1>1 DEF Row
<1>5. duel' = IF duel[d].status = "PENDING" THEN [duel EXCEPT ![d] = r] ELSE duel
  BY DEF InviteMark
<1> HIDE DEF d, r
<1>6. CASE duel[d].status = "PENDING"
  <2>1. duel' = [duel EXCEPT ![d] = r] /\ duel[d].status \in Active /\ r.status \in DuelStatus
    BY <1>4, <1>5, <1>6
  <2>2. /\ BoundPlayersExist' /\ BoundPlayersFree' /\ SlotsAgree' /\ FirstIsOwn' /\ InvisibleIsNew'
        /\ duel' \in [Ids -> Row]
    BY <1>1, <1>2, <1>3, <1>4, <2>1, RowMoves
  <2>3. LedgerAgrees'
    BY <1>1, <1>2, <1>4, <2>1 DEF IndInv, LedgerAgrees, TypeOK
  <2>4. TypeOK'
    BY <1>2, <2>2 DEF IndInv, TypeOK
  <2> QED
    BY <2>2, <2>3, <2>4 DEF IndInv
<1>7. CASE duel[d].status # "PENDING"
  <2>1. TypeOK' /\ UNCHANGED <<duel, accounts, ledger, slot>>
    BY <1>2, <1>5, <1>7 DEF IndInv, TypeOK
  <2> QED
    BY <2>1, Elsewhere DEF IndInv
<1> QED
  BY <1>6, <1>7

-----------------------------------------------------------------------------
(* Moves of one duel: answers, the timer, the end of a game.                *)

\* The parts of the invariant that a task left for after a commit needs.
LEMMA MoveInv ==
  ASSUME IndInv, NEW d \in Ids, NEW r \in Row,
         duel' = [duel EXCEPT ![d] = r], duel[d].status \in Active, r.status \in DuelStatus,
         r.status \in Active => /\ r.challengerId = duel[d].challengerId
                                /\ r.opponentId = duel[d].opponentId,
         ledger' \in [Ids -> [EntryType -> Nat]], LedgerAgrees',
         NEW T \in SUBSET TaskType, after' = after \union T,
         timer' \in [Ids -> Off .. DUEL_REQUEST_TTL], resolving' \subseteq resolving,
         UNCHANGED <<locks, shield, penalty, accounts, slot, invites, leaving, outage, shown, left>>
  PROVE  IndInv'
<1>1. /\ BoundPlayersExist' /\ BoundPlayersFree' /\ SlotsAgree' /\ FirstIsOwn' /\ InvisibleIsNew'
      /\ duel' \in [Ids -> Row]
  BY RowMoves
<1>2. TypeOK'
  BY <1>1 DEF IndInv, TypeOK
<1> QED
  BY <1>1, <1>2 DEF IndInv

\* One more entry in the ledger of a duel.
LEMMA EntryKeeps ==
  ASSUME IndInv, NEW d \in Ids, NEW type \in EntryType
  PROVE  /\ Entry(d, type) \in [Ids -> [EntryType -> Nat]]
         /\ \A e \in Ids, x \in EntryType :
              Entry(d, type)[e][x] = IF e = d /\ x = type THEN ledger[e][x] + 1 ELSE ledger[e][x]
<1> DEFINE f == [ledger[d] EXCEPT ![type] = ledger[d][type] + 1]
<1>1. f \in [EntryType -> Nat]
      /\ \A x \in EntryType : f[x] = IF x = type THEN ledger[d][x] + 1 ELSE ledger[d][x]
  BY DEF IndInv, TypeOK
<1>2. Entry(d, type) = [ledger EXCEPT ![d] = f]
  BY DEF Entry
<1> HIDE DEF f
<1> QED
  BY <1>1, <1>2 DEF IndInv, TypeOK

LEMMA AcceptInv ==
  ASSUME IndInv, NEW d \in Ids, Accept(d)
  PROVE  IndInv'
<1>1. duel[d] \in Row /\ duel[d].status = "PENDING"
  BY DEF Accept, StillPending, IndInv, TypeOK
<1>2. /\ Accepted(d) \in Row /\ Accepted(d).status = "ACCEPTED"
      /\ Accepted(d).challengerId = duel[d].challengerId
      /\ Accepted(d).opponentId = duel[d].opponentId
  BY <1>1, AcceptedIsRow
<1>3. {Task(d, {}, "extend")} \in SUBSET TaskType
  BY <1>1, TaskIsTask DEF Binds
<1>4. duel' = [duel EXCEPT ![d] = Accepted(d)] /\ ledger' = ledger
  BY DEF Accept
<1>5. LedgerAgrees'
  BY <1>1, <1>2, <1>4 DEF IndInv, LedgerAgrees, TypeOK
<1>6. /\ after' = after \union {Task(d, {}, "extend")}
      /\ UNCHANGED <<locks, shield, penalty, accounts, ledger, slot, invites, timer,
                     resolving, leaving, outage, shown, left>>
  BY DEF Accept
<1>7. ledger' \in [Ids -> [EntryType -> Nat]] /\ timer' \in [Ids -> Off .. DUEL_REQUEST_TTL]
  BY <1>6 DEF IndInv, TypeOK
<1> QED
  BY <1>1, <1>2, <1>3, <1>4, <1>5, <1>6, <1>7, MoveInv

LEMMA RejectInv ==
  ASSUME IndInv, NEW d \in Ids, Reject(d)
  PROVE  IndInv'
<1> DEFINE r == Ended(d, "REJECTED", DUEL_REJECT_SCORE_PENALTY)
           k == Task(d, Shielded(d, TRUE), "release")
<1>1. duel[d] \in Row /\ duel[d].status = "PENDING"
  BY DEF Reject, StillPending, IndInv, TypeOK
<1>2. r \in Row /\ r.status = "REJECTED" /\ r.scoreDelta > 0
  BY <1>1, EndedIsRow DEF DUEL_REJECT_SCORE_PENALTY
<1>3. {k} \in SUBSET TaskType
  BY <1>1, TaskIsTask DEF Binds, Shielded
<1>4. duel' = [duel EXCEPT ![d] = r] /\ ledger' = Entry(d, "DUEL_REJECT")
  BY DEF Reject
<1>5. after' = after \union {k}
      /\ UNCHANGED <<locks, shield, penalty, accounts, slot, invites, timer,
                     resolving, leaving, outage, shown, left>>
  BY DEF Reject
<1> HIDE DEF r, k
<1>6. /\ ledger' \in [Ids -> [EntryType -> Nat]]
      /\ \A e \in Ids, x \in EntryType :
           ledger'[e][x] = IF e = d /\ x = "DUEL_REJECT" THEN ledger[e][x] + 1 ELSE ledger[e][x]
  BY <1>4, EntryKeeps
<1>7. duel'[d] = r /\ \A e \in Ids \ {d} : duel'[e] = duel[e]
  BY <1>4 DEF IndInv, TypeOK
<1>8. LedgerAgrees'
  BY <1>1, <1>2, <1>6, <1>7 DEF IndInv, LedgerAgrees
<1>9. timer' \in [Ids -> Off .. DUEL_REQUEST_TTL]
  BY <1>5 DEF IndInv, TypeOK
<1> QED
  BY <1>1, <1>2, <1>3, <1>4, <1>5, <1>6, <1>8, <1>9, MoveInv

\* The timer finds its duel PENDING.
LEMMA ExpireInv ==
  ASSUME IndInv, NEW d \in Ids, Expire(d), StillPending(d)
  PROVE  IndInv'
<1> DEFINE c == Chargeable(d)
           p == IF c THEN DUEL_NO_RESPONSE_SCORE_PENALTY ELSE 0
           r == Ended(d, "EXPIRED", p)
           k == Task(d, Shielded(d, c), "release")
<1>1. duel[d] \in Row /\ duel[d].status = "PENDING"
  BY DEF StillPending, IndInv, TypeOK
<1>2. p \in Nat /\ (p > 0 <=> c)
  BY DEF DUEL_NO_RESPONSE_SCORE_PENALTY, DUEL_REJECT_SCORE_PENALTY
<1>3. r \in Row /\ r.status = "EXPIRED" /\ r.scoreDelta = p
  BY <1>1, <1>2, EndedIsRow
<1>4. {k} \in SUBSET TaskType
  BY <1>1, TaskIsTask DEF Binds, Shielded
<1>5. /\ duel' = [duel EXCEPT ![d] = r] /\ after' = after \union {k}
      /\ ledger' = IF c THEN Entry(d, "DUEL_NO_RESPONSE") ELSE ledger
      /\ timer' = [timer EXCEPT ![d] = Off]
      /\ UNCHANGED <<locks, shield, penalty, accounts, slot, invites, resolving,
                     leaving, outage, shown, left>>
  BY DEF Expire
<1> HIDE DEF c, p, r, k
<1>6. /\ ledger' \in [Ids -> [EntryType -> Nat]]
      /\ \A e \in Ids, x \in EntryType :
           ledger'[e][x] = IF c /\ e = d /\ x = "DUEL_NO_RESPONSE"
                           THEN ledger[e][x] + 1 ELSE ledger[e][x]
  BY <1>5, EntryKeeps DEF IndInv, TypeOK
<1>7. duel'[d] = r /\ \A e \in Ids \ {d} : duel'[e] = duel[e]
  BY <1>5 DEF IndInv, TypeOK
<1>8. LedgerAgrees'
  BY <1>1, <1>2, <1>3, <1>6, <1>7 DEF IndInv, LedgerAgrees
<1>9. timer' \in [Ids -> Off .. DUEL_REQUEST_TTL]
  BY <1>5, TimeAssumption DEF IndInv, TypeOK, Off
<1> QED
  BY <1>1, <1>3, <1>4, <1>5, <1>6, <1>8, <1>9, MoveInv

\* The timer finds its duel answered, or its transaction fails.
LEMMA TimerGoneInv ==
  ASSUME IndInv, NEW d \in Ids, ExpireFails(d) \/ (Expire(d) /\ ~StillPending(d))
  PROVE  IndInv'
<1>1. /\ timer' = [timer EXCEPT ![d] = Off]
      /\ UNCHANGED <<stored, slot, invites, after, resolving, leaving, outage, shown, left>>
  BY DEF ExpireFails, Expire, stored
<1>2. TypeOK'
  BY <1>1, TimeAssumption DEF IndInv, TypeOK, Off, stored
<1>3. UNCHANGED <<duel, accounts, ledger, slot>>
  BY <1>1 DEF stored
<1> QED
  BY <1>2, <1>3, Elsewhere DEF IndInv

LEMMA ReportResultInv ==
  ASSUME IndInv, NEW d \in Ids, ReportResult(d)
  PROVE  IndInv'
<1>1. /\ duel[d] \in Row /\ duel[d].status = "ACCEPTED" /\ duel[d].reports < MaxReports
  BY DEF ReportResult, IndInv, TypeOK
<1>2. /\ Reported(d) \in Row /\ Reported(d).status = "ACCEPTED"
      /\ Reported(d).challengerId = duel[d].challengerId
      /\ Reported(d).opponentId = duel[d].opponentId
  BY <1>1, ReportedIsRow
<1>3. /\ duel' = [duel EXCEPT ![d] = Reported(d)]
      /\ UNCHANGED <<locks, shield, penalty, accounts, ledger, slot, invites, timer, after,
                     resolving, leaving, outage, shown, left>>
  BY DEF ReportResult, memory
<1>4. LedgerAgrees'
  BY <1>1, <1>2, <1>3 DEF IndInv, LedgerAgrees, TypeOK
<1>5. ledger' \in [Ids -> [EntryType -> Nat]] /\ timer' \in [Ids -> Off .. DUEL_REQUEST_TTL]
  BY <1>3 DEF IndInv, TypeOK
<1>6. {} \in SUBSET TaskType /\ after' = after \union {}
  BY <1>3
<1> QED
  BY <1>1, <1>2, <1>3, <1>4, <1>5, <1>6, MoveInv

LEMMA VoidByGameInv ==
  ASSUME IndInv, NEW d \in Ids, VoidByGame(d)
  PROVE  IndInv'
<1> DEFINE r == Ended(d, "VOID", 0)
           k == Task(d, {}, "release")
<1>1. duel[d] \in Row /\ duel[d].status = "ACCEPTED"
  BY DEF VoidByGame, IndInv, TypeOK
<1>2. r \in Row /\ r.status = "VOID"
  BY <1>1, EndedIsRow
<1>3. {k} \in SUBSET TaskType
  BY <1>1, TaskIsTask DEF Binds
<1>4. /\ duel' = [duel EXCEPT ![d] = r] /\ after' = after \union {k}
      /\ UNCHANGED <<locks, shield, penalty, accounts, ledger, slot, invites, timer,
                     resolving, leaving, outage, shown, left>>
  BY DEF VoidByGame
<1> HIDE DEF r, k
<1>5. LedgerAgrees'
  BY <1>1, <1>2, <1>4 DEF IndInv, LedgerAgrees, TypeOK
<1>6. ledger' \in [Ids -> [EntryType -> Nat]] /\ timer' \in [Ids -> Off .. DUEL_REQUEST_TTL]
  BY <1>4 DEF IndInv, TypeOK
<1> QED
  BY <1>1, <1>2, <1>3, <1>4, <1>5, <1>6, MoveInv

LEMMA ResolveCommitInv ==
  ASSUME IndInv, NEW t \in resolving, ResolveCommit(t)
  PROVE  IndInv'
<1> DEFINE d == t.id
           r == Decided(t)
           k == Task(d, {}, "release")
           w == IF t.winner \in accounts THEN ledger[d]["DUEL_WIN"] + 1 ELSE ledger[d]["DUEL_WIN"]
           f == [ledger[d] EXCEPT !["DUEL_WIN"] = w]
           g == [f EXCEPT !["DUEL_LOSS"] = IF t.loser \in accounts
                                           THEN ledger[d]["DUEL_LOSS"] + 1
                                           ELSE ledger[d]["DUEL_LOSS"]]
<1>1. t \in ResolveType /\ d \in Ids /\ duel[d] \in Row /\ duel[d].status = "ACCEPTED"
  BY DEF ResolveCommit, IndInv, TypeOK, ResolveType
<1>2. r \in Row /\ r.status = "COMPLETED"
  BY <1>1, DecidedIsRow
<1>3. {k} \in SUBSET TaskType
  BY <1>1, TaskIsTask DEF Binds
<1>4. ledger[d] \in [EntryType -> Nat]
  BY <1>1 DEF IndInv, TypeOK
<1>5. f \in [EntryType -> Nat] /\ f["DUEL_LOSS"] = ledger[d]["DUEL_LOSS"]
      /\ f["DUEL_REJECT"] = ledger[d]["DUEL_REJECT"]
      /\ f["DUEL_NO_RESPONSE"] = ledger[d]["DUEL_NO_RESPONSE"]
  BY <1>4
<1>6. /\ g \in [EntryType -> Nat] /\ g["DUEL_REJECT"] = ledger[d]["DUEL_REJECT"]
      /\ g["DUEL_NO_RESPONSE"] = ledger[d]["DUEL_NO_RESPONSE"]
  <2> HIDE DEF f
  <2> QED
    BY <1>4, <1>5
<1>7. ledger' = [ledger EXCEPT ![d] = g]
  BY <1>1, <1>4 DEF ResolveCommit, IndInv, TypeOK
<1>8. /\ duel' = [duel EXCEPT ![d] = r] /\ after' = after \union {k}
      /\ resolving' = resolving \ {t}
      /\ UNCHANGED <<locks, shield, penalty, accounts, slot, invites, timer, leaving,
                     outage, shown, left>>
  BY DEF ResolveCommit
<1> HIDE DEF d, r, k, g
<1>9. /\ ledger' \in [Ids -> [EntryType -> Nat]]
      /\ \A e \in Ids, x \in {"DUEL_REJECT", "DUEL_NO_RESPONSE"} : ledger'[e][x] = ledger[e][x]
  BY <1>1, <1>6, <1>7 DEF IndInv, TypeOK
<1>10. duel'[d] = r /\ \A e \in Ids \ {d} : duel'[e] = duel[e]
  BY <1>1, <1>8 DEF IndInv, TypeOK
<1>11. LedgerAgrees'
  BY <1>1, <1>2, <1>9, <1>10 DEF IndInv, LedgerAgrees
<1>12. timer' \in [Ids -> Off .. DUEL_REQUEST_TTL] /\ resolving' \subseteq resolving
  BY <1>8 DEF IndInv, TypeOK
<1> QED
  BY <1>1, <1>2, <1>3, <1>8, <1>9, <1>11, <1>12, MoveInv

-----------------------------------------------------------------------------
(* Steps that touch Redis, timers and memory only.                          *)

\* What is left of the invariant when rows, accounts, ledger and handlers stay.
LEMMA RedisMovesInv ==
  ASSUME IndInv, UNCHANGED <<duel, accounts, ledger, slot, invites, timer, outage, shown>>,
         locks' \subseteq LockType, shield' \subseteq Users, penalty' \subseteq Users,
         after' \subseteq TaskType, resolving' \subseteq ResolveType, leaving' \subseteq Users,
         left' \in [asks : 0 .. MaxAsks, crashes : 0 .. MaxCrashes, lapses : 0 .. MaxLapses]
  PROVE  IndInv'
<1>1. TypeOK'
  BY DEF IndInv, TypeOK
<1> QED
  BY <1>1, Elsewhere DEF IndInv

LEMMA SettleInv ==
  ASSUME IndInv, NEW t \in after, Settle(t)
  PROVE  IndInv'
<1>1. t \in TaskType /\ t.shield \subseteq Users /\ after' \subseteq TaskType
  BY DEF Settle, IndInv, TypeOK, TaskType
<1>2. shield' \subseteq Users
  BY <1>1 DEF Settle, IndInv, TypeOK
<1>3. \A l \in locks : l \in LockType /\ [l EXCEPT !.left = DUEL_ACTIVE_TTL] \in LockType
  <2>1. DUEL_ACTIVE_TTL \in 1 .. Max2(DUEL_REQUEST_TTL, DUEL_ACTIVE_TTL)
    BY TimeAssumption DEF Max2
  <2>2. locks \subseteq LockType
    BY DEF IndInv, TypeOK
  <2> QED
    BY <2>1, <2>2 DEF LockType
<1>4. /\ Release(t.pair, t.id) \subseteq LockType
      /\ Extended(t.pair, t.id, DUEL_ACTIVE_TTL) \subseteq LockType
  BY <1>3 DEF Release, Extended
<1>5. locks' \subseteq LockType
  BY <1>3, <1>4 DEF Settle
<1> QED
  BY <1>1, <1>2, <1>5, RedisMovesInv DEF Settle, IndInv, TypeOK

LEMMA ResolveStartInv ==
  ASSUME IndInv, NEW d \in Ids, NEW w \in Winners, ResolveStart(d, w)
  PROVE  IndInv'
<1> DEFINE l == CHOOSE p \in Players(d) : p # w
           t == [id |-> d, winner |-> w, loser |-> l, created |-> l \notin penalty]
<1>1. Players(d) \subseteq Users /\ duel[d].challengerId # duel[d].opponentId
  BY DEF ResolveStart, IndInv, TypeOK, BoundPlayersExist, Binds, Players
<1>2. \E p \in Players(d) : p # w
  BY <1>1 DEF Players
<1>3. l \in Users
  BY <1>1, <1>2
<1>4. penalty' = penalty \union {l} /\ resolving' = resolving \union {t}
      /\ UNCHANGED <<duel, locks, shield, accounts, ledger, slot, invites, timer, after,
                     leaving, outage, shown, left>>
  BY DEF ResolveStart
<1> HIDE DEF l
<1>5. t \in ResolveType
  BY <1>3, UsersAssumption DEF ResolveType
<1> HIDE DEF t
<1> QED
  BY <1>3, <1>4, <1>5, RedisMovesInv DEF IndInv, TypeOK

LEMMA ResolveFailsInv ==
  ASSUME IndInv, NEW t \in resolving, ResolveFails(t)
  PROVE  IndInv'
<1>1. penalty' \subseteq Users /\ resolving' \subseteq ResolveType
  BY DEF ResolveFails, PenaltyUndone, IndInv, TypeOK
<1> QED
  BY <1>1, RedisMovesInv DEF ResolveFails, IndInv, TypeOK

LEMMA ResolveLostInv ==
  ASSUME IndInv, NEW t \in resolving, ResolveLost(t)
  PROVE  IndInv'
<1> DEFINE k == [Task(t.id, {}, "release") EXCEPT !.pair = {t.winner, t.loser}]
<1>1. penalty' \subseteq Users /\ resolving' \subseteq ResolveType
  BY DEF ResolveLost, PenaltyUndone, IndInv, TypeOK
<1>2. t.id \in Ids /\ t.winner \in Users /\ t.loser \in Users
  BY DEF IndInv, TypeOK, ResolveType
<1>3. k = [id |-> t.id, pair |-> {t.winner, t.loser}, shield |-> {}, lock |-> "release"]
  BY DEF Task
<1>4. k \in TaskType
  BY <1>2, <1>3 DEF TaskType
<1>5. after' = after \union {k}
  BY DEF ResolveLost
<1> HIDE DEF k
<1> QED
  BY <1>1, <1>4, <1>5, RedisMovesInv DEF ResolveLost, IndInv, TypeOK

LEMMA PurgeInv ==
  ASSUME IndInv, NEW u \in Users, Purge(u)
  PROVE  IndInv'
<1>1. /\ locks' \subseteq locks /\ shield' \subseteq shield /\ penalty' \subseteq penalty
      /\ leaving' \subseteq leaving
      /\ UNCHANGED <<duel, accounts, ledger, slot, invites, timer, after, resolving,
                     outage, shown, left>>
  BY DEF Purge
<1>2. /\ locks' \subseteq LockType /\ shield' \subseteq Users /\ penalty' \subseteq Users
      /\ leaving' \subseteq Users /\ after' \subseteq TaskType /\ resolving' \subseteq ResolveType
      /\ left' \in [asks : 0 .. MaxAsks, crashes : 0 .. MaxCrashes, lapses : 0 .. MaxLapses]
  BY <1>1 DEF IndInv, TypeOK
<1> QED
  BY <1>1, <1>2, RedisMovesInv

LEMMA LapsesInv ==
  ASSUME IndInv, NEW u \in Users, ShieldLapses(u) \/ PenaltyLapses(u)
  PROVE  IndInv'
<1>1. left' \in [asks : 0 .. MaxAsks, crashes : 0 .. MaxCrashes, lapses : 0 .. MaxLapses]
  BY BoundAssumption DEF ShieldLapses, PenaltyLapses, IndInv, TypeOK
<1>2. /\ shield' \subseteq Users /\ penalty' \subseteq Users
      /\ UNCHANGED <<duel, locks, accounts, ledger, memory, outage, shown>>
  BY DEF ShieldLapses, PenaltyLapses, IndInv, TypeOK
<1> QED
  BY <1>1, <1>2, RedisMovesInv DEF memory, IndInv, TypeOK

-----------------------------------------------------------------------------
(* Steps that move many duels at once.                                      *)

LEMMA SweepPendingInv ==
  ASSUME IndInv, NEW batch \in SUBSET Ids, NEW charged \in SUBSET batch,
         SweepPending(batch, charged)
  PROVE  IndInv'
<1> DEFINE p(d) == IF d \in charged THEN DUEL_NO_RESPONSE_SCORE_PENALTY ELSE 0
           r(d) == Ended(d, "EXPIRED", p(d))
           f(d) == [ledger[d] EXCEPT !["DUEL_NO_RESPONSE"] = ledger[d]["DUEL_NO_RESPONSE"] + 1]
           T == {Task(d, Shielded(d, TRUE), "keep") : d \in charged}
<1>1. \A d \in batch : duel[d] \in Row /\ duel[d].status = "PENDING"
  BY DEF SweepPending, StalePending, StillPending, IndInv, TypeOK
<1>2. \A d \in Ids : p(d) \in Nat /\ (p(d) > 0 <=> d \in charged)
  BY DEF DUEL_NO_RESPONSE_SCORE_PENALTY, DUEL_REJECT_SCORE_PENALTY
<1>3. duel' = [d \in Ids |-> IF d \notin batch THEN duel[d] ELSE r(d)]
  BY DEF SweepPending
<1> HIDE DEF p
<1>4. \A d \in batch : r(d) \in Row /\ r(d).status = "EXPIRED" /\ r(d).scoreDelta = p(d)
  BY <1>1, <1>2, EndedIsRow
<1> HIDE DEF r
<1>5. T \subseteq TaskType
  <2>1. \A d \in charged : Binds(d) /\ Shielded(d, TRUE) \in SUBSET {duel[d].opponentId}
    BY <1>1 DEF Binds, Shielded
  <2> QED
    BY <2>1, TaskIsTask
<1>6. /\ ledger' = [d \in Ids |-> IF d \in charged THEN f(d) ELSE ledger[d]]
      /\ after' = after \union T
      /\ UNCHANGED <<locks, shield, penalty, accounts, slot, invites, timer,
                     resolving, leaving, outage, shown, left>>
  BY DEF SweepPending
<1>7. \A d \in Ids :
        /\ f(d) \in [EntryType -> Nat] /\ f(d)["DUEL_REJECT"] = ledger[d]["DUEL_REJECT"]
        /\ f(d)["DUEL_NO_RESPONSE"] = ledger[d]["DUEL_NO_RESPONSE"] + 1
  BY DEF IndInv, TypeOK
<1> HIDE DEF f, T
<1>8. /\ duel' \in [Ids -> Row]
      /\ \A d \in batch : duel'[d] = r(d)
      /\ \A d \in Ids \ batch : duel'[d] = duel[d]
  BY <1>3, <1>4 DEF IndInv, TypeOK
<1>9. /\ ledger' \in [Ids -> [EntryType -> Nat]]
      /\ \A d \in Ids : ledger'[d]["DUEL_REJECT"] = ledger[d]["DUEL_REJECT"]
      /\ \A d \in Ids : ledger'[d]["DUEL_NO_RESPONSE"] =
           IF d \in charged THEN ledger[d]["DUEL_NO_RESPONSE"] + 1
           ELSE ledger[d]["DUEL_NO_RESPONSE"]
  BY <1>6, <1>7 DEF IndInv, TypeOK
<1>10. TypeOK'
  BY <1>5, <1>6, <1>8, <1>9 DEF IndInv, TypeOK
<1>11. \A d \in Ids :
           /\ Binds(d)' => /\ Binds(d) /\ duel'[d].challengerId = duel[d].challengerId
                           /\ duel'[d].opponentId = duel[d].opponentId
           /\ duel[d].status = "INSERTED" <=> duel'[d].status = "INSERTED"
           /\ duel'[d].status \in Invisible => duel'[d].revision = 0
  BY <1>1, <1>4, <1>8 DEF Binds, IndInv, InvisibleIsNew
<1>12. BoundPlayersExist' /\ BoundPlayersFree' /\ SlotsAgree' /\ FirstIsOwn' /\ InvisibleIsNew'
  BY <1>6, <1>11, RowsMove
<1>13. LedgerAgrees'
  BY <1>1, <1>2, <1>4, <1>8, <1>9 DEF IndInv, LedgerAgrees
<1> QED
  BY <1>10, <1>12, <1>13 DEF IndInv

LEMMA SweepAcceptedInv ==
  ASSUME IndInv, SweepAccepted
  PROVE  IndInv'
<1> DEFINE r(d) == Ended(d, "VOID", 0)
<1>1. duel' = [d \in Ids |-> IF StaleAccepted(d) THEN r(d) ELSE duel[d]]
  BY DEF SweepAccepted
<1>2. \A d \in Ids : StaleAccepted(d) => duel[d].status = "ACCEPTED"
  BY DEF StaleAccepted
<1>3. \A d \in Ids : r(d) \in Row /\ r(d).status = "VOID"
  BY EndedIsRow DEF IndInv, TypeOK
<1> HIDE DEF r
<1>4. /\ duel' \in [Ids -> Row]
      /\ \A d \in Ids : duel'[d] = IF StaleAccepted(d) THEN r(d) ELSE duel[d]
  BY <1>1, <1>3 DEF IndInv, TypeOK
<1>5. UNCHANGED <<locks, shield, penalty, accounts, ledger, slot, invites, timer, after,
                  resolving, leaving, outage, shown, left>>
  BY DEF SweepAccepted, memory
<1>6. TypeOK'
  BY <1>4, <1>5 DEF IndInv, TypeOK
<1>7. \A d \in Ids :
           /\ Binds(d)' => /\ Binds(d) /\ duel'[d].challengerId = duel[d].challengerId
                           /\ duel'[d].opponentId = duel[d].opponentId
           /\ duel[d].status = "INSERTED" <=> duel'[d].status = "INSERTED"
           /\ duel'[d].status \in Invisible => duel'[d].revision = 0
  BY <1>2, <1>3, <1>4 DEF Binds, IndInv, InvisibleIsNew
<1>8. BoundPlayersExist' /\ BoundPlayersFree' /\ SlotsAgree' /\ FirstIsOwn' /\ InvisibleIsNew'
  BY <1>5, <1>7, RowsMove
<1>9. LedgerAgrees'
  BY <1>2, <1>3, <1>4, <1>5 DEF IndInv, LedgerAgrees
<1> QED
  BY <1>6, <1>8, <1>9 DEF IndInv

\* Deleting an account: no row that is being inserted has the leaver as a player,
\* because both transactions take the leaver's advisory lock.
LEMMA LeaveInv ==
  ASSUME IndInv, NEW u \in Users, Leave(u)
  PROVE  IndInv'
<1> DEFINE st(d) == IF duel[d].status = "PENDING" THEN "EXPIRED" ELSE "VOID"
           e(d) == Ended(d, st(d), 0)
           r(d) == IF ~Involves(d, u) THEN Without(duel[d], u) ELSE Without(e(d), u)
           T == {Task(d, {}, "release") : d \in {x \in Ids : Involves(x, u)}}
<1>1. /\ duel' = [d \in Ids |-> r(d)] /\ accounts' = accounts \ {u}
      /\ leaving' = leaving \union {u} /\ after' = after \union T
      /\ UNCHANGED <<locks, shield, penalty, ledger, slot, invites, timer, resolving,
                     outage, shown, left>>
  BY DEF Leave
<1>2. \A d \in Ids : duel[d] \in Row
  BY DEF IndInv, TypeOK
<1>3. \A d \in Ids : /\ e(d) \in Row /\ e(d).status = st(d) /\ e(d).scoreDelta = 0
                     /\ e(d).revision = duel[d].revision + 1
  BY <1>2, EndedIsRow
<1> HIDE DEF e
<1>4. \A d \in Ids : Involves(d, u) =>
        r(d) \in Row /\ r(d).status = st(d) /\ r(d).scoreDelta = 0
  BY <1>3, WithoutIsRow
<1>5. \A d \in Ids : ~Involves(d, u) =>
        /\ r(d) \in Row /\ r(d).status = duel[d].status /\ r(d).scoreDelta = duel[d].scoreDelta
        /\ r(d).revision = duel[d].revision
        /\ u \notin Players(d) => /\ r(d).challengerId = duel[d].challengerId
                                  /\ r(d).opponentId = duel[d].opponentId
  BY <1>2, WithoutIsRow DEF Players
<1> HIDE DEF r
<1>6. T \subseteq TaskType
  <2>1. \A d \in Ids : Involves(d, u) => Binds(d)
    BY DEF Involves, IsActive, Binds
  <2> QED
    BY <2>1, TaskIsTask
<1> HIDE DEF T
<1>7. duel' \in [Ids -> Row] /\ \A d \in Ids : duel'[d] = r(d)
  BY <1>1, <1>4, <1>5
<1>8. TypeOK'
  BY <1>1, <1>6, <1>7 DEF IndInv, TypeOK
<1>9. \A d \in Ids : duel[d].status = "INSERTED" => u \notin Players(d) /\ ~Involves(d, u)
  BY DEF Leave, AdvisoryFree, Involves, IsActive
<1>10. \A d \in Ids : Binds(d)' =>
        /\ Binds(d) /\ u \notin Players(d)
        /\ duel'[d].challengerId = duel[d].challengerId /\ duel'[d].opponentId = duel[d].opponentId
  BY <1>4, <1>5, <1>7, <1>9 DEF Binds, Involves, IsActive
<1>11. BoundPlayersExist' /\ BoundPlayersFree'
  BY <1>1, <1>10 DEF IndInv, BoundPlayersExist, BoundPlayersFree, Players
<1>12. SlotsAgree'
  BY <1>1, <1>5, <1>7, <1>9 DEF IndInv, SlotsAgree
<1>15. FirstIsOwn'
  <2>1. \A d \in Ids : duel'[d].status = "INSERTED" =>
          /\ duel[d].status = "INSERTED"
          /\ duel'[d].challengerId = duel[d].challengerId
          /\ duel'[d].opponentId = duel[d].opponentId
    BY <1>4, <1>5, <1>7, <1>9
  <2> QED
    BY <1>1, <2>1, FirstsStay
<1>13. InvisibleIsNew'
  BY <1>4, <1>5, <1>7 DEF IndInv, InvisibleIsNew
<1>14. LedgerAgrees'
  <2>1. \A d \in Ids : Involves(d, u) => duel[d].status \in Active
    BY DEF Involves, IsActive
  <2> QED
    BY <1>1, <1>4, <1>5, <1>7, <2>1 DEF IndInv, LedgerAgrees
<1> QED
  BY <1>8, <1>11, <1>12, <1>13, <1>14, <1>15 DEF IndInv

LEMMA TickInv ==
  ASSUME IndInv, Tick
  PROVE  IndInv'
<1> DEFINE r(d) == IF duel[d].status \in Active \union {"INSERTED"} THEN Aged(duel[d]) ELSE duel[d]
           x(s) == IF slot[s].phase \in {"tx", "half"} THEN [slot[s] EXCEPT !.age = Older(slot[s].age)]
                   ELSE slot[s]
<1>1. /\ duel' = [d \in Ids |-> r(d)] /\ slot' = [s \in Slots |-> x(s)]
      /\ UNCHANGED <<shield, penalty, accounts, ledger, invites, after, resolving, leaving,
                     outage, shown, left>>
  BY DEF Tick
<1>2. \A d \in Ids :
        /\ r(d) \in Row /\ r(d).status = duel[d].status /\ r(d).scoreDelta = duel[d].scoreDelta
        /\ r(d).revision = duel[d].revision
        /\ r(d).challengerId = duel[d].challengerId /\ r(d).opponentId = duel[d].opponentId
  BY AgedIsRow DEF IndInv, TypeOK
<1>3. \A s \in Slots :
        /\ x(s) \in SlotType /\ x(s).phase = slot[s].phase /\ x(s).id = slot[s].id
        /\ x(s).user = slot[s].user /\ x(s).target = slot[s].target
  <2> SUFFICES ASSUME NEW s \in Slots
               PROVE  /\ x(s) \in SlotType /\ x(s).phase = slot[s].phase /\ x(s).id = slot[s].id
                      /\ x(s).user = slot[s].user /\ x(s).target = slot[s].target
    OBVIOUS
  <2>1. slot[s] \in SlotType /\ slot[s].age \in 0 .. AgeCap
    BY DEF IndInv, TypeOK, SlotType
  <2>2. Older(slot[s].age) \in 0 .. AgeCap
    BY <2>1, OlderInRange
  <2> QED
    BY <2>1, <2>2 DEF SlotType
<1> HIDE DEF r, x
<1>4. duel' \in [Ids -> Row] /\ \A d \in Ids : duel'[d] = r(d)
  BY <1>1, <1>2
<1>5. slot' \in [Slots -> SlotType] /\ \A s \in Slots : slot'[s] = x(s)
  BY <1>1, <1>3
<1>6. locks' \subseteq LockType
  <2>1. locks' = {[l EXCEPT !.left = @ - 1] : l \in {k \in locks : k.left > 1}}
    BY DEF Tick
  <2>2. \A l \in locks : l.left > 1 => [l EXCEPT !.left = @ - 1] \in LockType
    <3>1. locks \subseteq LockType
      BY DEF IndInv, TypeOK
    <3>2. Max2(DUEL_REQUEST_TTL, DUEL_ACTIVE_TTL) \in Nat
      BY TimeAssumption DEF Max2
    <3> QED
      BY <3>1, <3>2 DEF LockType
  <2> QED
    BY <2>1, <2>2
<1>7. timer' \in [Ids -> Off .. DUEL_REQUEST_TTL]
  BY TimeAssumption DEF Tick, IndInv, TypeOK, Off
<1>8. TypeOK'
  BY <1>1, <1>4, <1>5, <1>6, <1>7 DEF IndInv, TypeOK
<1>9. BoundPlayersExist' /\ BoundPlayersFree'
  BY <1>1, <1>2, <1>4 DEF IndInv, BoundPlayersExist, BoundPlayersFree, Binds, Players
<1>10. SlotsAgree'
  BY <1>2, <1>3, <1>4, <1>5 DEF IndInv, SlotsAgree
<1>11. LedgerAgrees' /\ InvisibleIsNew'
  BY <1>1, <1>2, <1>4 DEF IndInv, LedgerAgrees, InvisibleIsNew
<1>12. FirstIsOwn'
  BY <1>2, <1>3, <1>4, <1>5, FirstsStay
<1> QED
  BY <1>8, <1>9, <1>10, <1>11, <1>12 DEF IndInv

\* A restart: what was being inserted never existed.
LEMMA CrashInv ==
  ASSUME IndInv, Crash
  PROVE  IndInv'
<1> DEFINE b == [Blank EXCEPT !.status = "ABORTED"]
<1>1. b \in Row /\ b.status = "ABORTED" /\ b.revision = 0 /\ b.scoreDelta = 0
  BY BlankIsRow DEF Blank
<1>2. /\ duel' = [d \in Ids |-> IF duel[d].status = "INSERTED" THEN b ELSE duel[d]]
      /\ slot' = [s \in Slots |-> Idle]
      /\ invites' = {} /\ timer' = [d \in Ids |-> Off]
      /\ after' = {} /\ resolving' = {} /\ leaving' = {} /\ outage' \subseteq Ids
      /\ UNCHANGED <<locks, shield, penalty, accounts, ledger, shown>>
  BY DEF Crash, IndInv, TypeOK
<1> HIDE DEF b
<1>3. /\ duel' \in [Ids -> Row]
      /\ \A d \in Ids : duel'[d] = IF duel[d].status = "INSERTED" THEN b ELSE duel[d]
  BY <1>1, <1>2 DEF IndInv, TypeOK
<1>4. slot' \in [Slots -> SlotType] /\ \A s \in Slots : slot'[s] = Idle
  BY <1>2, IdleIsSlot
<1>5. left' \in [asks : 0 .. MaxAsks, crashes : 0 .. MaxCrashes, lapses : 0 .. MaxLapses]
  BY BoundAssumption DEF Crash, IndInv, TypeOK
<1>6. timer' \in [Ids -> Off .. DUEL_REQUEST_TTL]
  BY <1>2, TimeAssumption DEF Off
<1>7. TypeOK'
  BY <1>2, <1>3, <1>4, <1>5, <1>6 DEF IndInv, TypeOK
<1>8. BoundPlayersExist' /\ BoundPlayersFree'
  BY <1>1, <1>2, <1>3 DEF IndInv, BoundPlayersExist, BoundPlayersFree, Binds, Players
<1>9. SlotsAgree'
  BY <1>4 DEF SlotsAgree, Idle
<1>10. LedgerAgrees' /\ InvisibleIsNew'
  BY <1>1, <1>2, <1>3 DEF IndInv, LedgerAgrees, InvisibleIsNew
<1>11. FirstIsOwn'
  <2>1. \A q \in Slots : slot'[q].phase # "half"
    BY <1>4 DEF Idle
  <2> QED
    BY <2>1 DEF FirstIsOwn
<1> QED
  BY <1>7, <1>8, <1>9, <1>10, <1>11 DEF IndInv

-----------------------------------------------------------------------------
(* The theorems.                                                            *)

LEMMA StutterInv ==
  ASSUME IndInv, UNCHANGED vars
  PROVE  IndInv'
  BY RedisMovesInv DEF vars, stored, memory, IndInv, TypeOK

LEMMA NextInv ==
  ASSUME IndInv, [Next]_vars
  PROVE  IndInv'
<1>1. CASE \E s \in Slots : RequestStep(s)
  BY <1>1, RequestStepInv
<1>2. CASE \E s \in Slots, ask \in Asks : Receive(s, ask)
  BY <1>2, ReceiveInv
<1>3. CASE InviteNext
  BY <1>3, InviteMovesInv, InviteMarkInv DEF InviteNext
<1>4. CASE \E d \in Ids : Accept(d) \/ Reject(d) \/ Expire(d) \/ ExpireFails(d)
  BY <1>4, AcceptInv, RejectInv, ExpireInv, TimerGoneInv
<1>5. CASE \E d \in Ids : ReportResult(d) \/ VoidByGame(d) \/ \E w \in Winners : ResolveStart(d, w)
  BY <1>5, ReportResultInv, VoidByGameInv, ResolveStartInv
<1>6. CASE \E t \in resolving : ResolveCommit(t) \/ ResolveFails(t) \/ ResolveLost(t)
  BY <1>6, ResolveCommitInv, ResolveFailsInv, ResolveLostInv
<1>7. CASE Sweep
  BY <1>7, SweepAcceptedInv, SweepPendingInv DEF Sweep
<1>8. CASE \E t \in after : Settle(t)
  BY <1>8, SettleInv
<1>9. CASE \E u \in Users : Leave(u) \/ Purge(u) \/ ShieldLapses(u) \/ PenaltyLapses(u)
  BY <1>9, LeaveInv, PurgeInv, LapsesInv
<1>10. CASE Tick \/ Crash
  BY <1>10, TickInv, CrashInv
<1>11. CASE UNCHANGED vars
  BY <1>11, StutterInv
<1> QED
  BY <1>1, <1>2, <1>3, <1>4, <1>5, <1>6, <1>7, <1>8, <1>9, <1>10, <1>11 DEF Next

\* The strengthened invariant holds in every reachable state, for any number of
\* users, handlers, duels and restarts (the whole of duels.service.ts).
THEOREM Inductive == Spec => []IndInv
<1>1. Init => IndInv
  BY InitInv
<1>2. IndInv /\ [Next]_vars => IndInv'
  BY NextInv
<1> QED
  BY <1>1, <1>2, PTL DEF Spec

\* Every row, key and handler keeps its type, whatever interleaves.
THEOREM TypeCorrect == Spec => []TypeOK
<1>1. IndInv => TypeOK
  BY DEF IndInv
<1> QED
  BY <1>1, Inductive, PTL

\* Nobody is in two active duels: the advisory locks keep two requests that share
\* a user from inserting together, and every insert looks for an active duel of
\* either player (requestDuel).
THEOREM Exclusive == Spec => []OneActiveDuel
<1>1. IndInv => OneActiveDuel
  BY DEF IndInv, BoundPlayersFree, OneActiveDuel, IsActive, Binds
<1> QED
  BY <1>1, Inductive, PTL

\* An active duel binds two existing accounts of different teams, however account
\* deletions interleave with requests (terminateActiveDuelsFor).
THEOREM ActiveIsOfAccounts == Spec => []ActivePlayersExist
<1>1. IndInv => ActivePlayersExist
  BY DEF IndInv, BoundPlayersExist, ActivePlayersExist, IsActive, Binds, Players
<1> QED
  BY <1>1, Inductive, PTL

\* A duel is charged at most once, and only when it ended without a game: reject,
\* timer, sweep and account deletion all move the row from PENDING in the
\* transaction that writes the entry (chargeDuelPenalties).
THEOREM ChargedAtMostOnce == Spec => []ChargedOnce
<1>1. IndInv => ChargedOnce
  BY DEF IndInv, TypeOK, LedgerAgrees, ChargedOnce, Charges
<1> QED
  BY <1>1, Inductive, PTL

-----------------------------------------------------------------------------
(* What a step does to a row.                                               *)
Present(d) == Visible(d) \/ duel[d].status = "INSERTED"
Waiting(d) == duel[d].status \in {"INSERTED", "PENDING"}
Charged(d) == duel[d].status \in Unresolved /\ duel[d].scoreDelta > 0
Ignored(d) == duel[d].status = "EXPIRED" /\ duel[d].scoreDelta > 0

\* The row stays: it may move on, lose a player who has left, or be marked.
RowKept(d) ==
  /\ \/ duel'[d].status = duel[d].status
     \/ <<duel[d].status, duel'[d].status>> \in
          {<<"INSERTED", "PENDING">>, <<"PENDING", "ACCEPTED">>, <<"PENDING", "REJECTED">>,
           <<"PENDING", "EXPIRED">>, <<"ACCEPTED", "COMPLETED">>, <<"ACCEPTED", "VOID">>}
  /\ duel'[d].requestId = duel[d].requestId
  /\ duel'[d].challengerId \in {duel[d].challengerId, NoUser}
  /\ duel'[d].opponentId = duel[d].opponentId \/ duel[d].opponentId \notin accounts'
  /\ Binds(d)' => /\ duel'[d].challengerId = duel[d].challengerId
                  /\ duel'[d].opponentId = duel[d].opponentId
  /\ Waiting(d)' => Tick \/ duel'[d].age = duel[d].age
  /\ duel'[d].inviteDelivered => \/ duel[d].inviteDelivered
                                 \/ \E i \in invites : i[1] = d /\ i[3] = "mark"
  /\ Charged(d) => Charged(d)'
  /\ Ignored(d)' => Ignored(d) \/ duel[d].inviteDelivered
\* An id is burned, before or after its insert.
RowBurnt(d) ==
  /\ duel[d].status \in {"NONE", "INSERTED"} /\ duel'[d].status = "ABORTED"
  /\ duel'[d].inviteDelivered => duel[d].inviteDelivered
RowNew(d) ==
  /\ duel[d].status = "NONE" /\ duel'[d].status = "INSERTED" /\ duel'[d].inviteDelivered = FALSE
  /\ \E s \in Slots : /\ InsertRow(s, d) /\ ~Held({slot[s].user, slot[s].target})
                      /\ duel'[d] = NewRow(s)
RowStep(d) == RowKept(d) \/ RowBurnt(d) \/ RowNew(d)

LEMMA SameRow ==
  ASSUME NEW d \in Ids, duel'[d] = duel[d]
  PROVE  RowStep(d)
  BY DEF RowStep, RowKept, Binds, Waiting, Charged, Ignored

LEMMA OneRow ==
  ASSUME IndInv, NEW d \in Ids, NEW r, duel' = [duel EXCEPT ![d] = r], RowStep(d)
  PROVE  \A e \in Ids : RowStep(e)
<1>1. \A e \in Ids \ {d} : duel'[e] = duel[e]
  BY DEF IndInv, TypeOK
<1> QED
  BY <1>1, SameRow

LEMMA EndedFields ==
  ASSUME NEW d \in Ids, duel[d] \in Row, NEW st, NEW p
  PROVE  LET e == Ended(d, st, p)
         IN  /\ e.status = st /\ e.scoreDelta = p /\ e.requestId = duel[d].requestId
             /\ e.challengerId = duel[d].challengerId /\ e.opponentId = duel[d].opponentId
             /\ e.inviteDelivered = duel[d].inviteDelivered
  BY DEF Ended, Row

LEMMA WithoutFields ==
  ASSUME NEW row \in Row, NEW u
  PROVE  LET w == Without(row, u)
         IN  /\ w.status = row.status /\ w.scoreDelta = row.scoreDelta
             /\ w.requestId = row.requestId /\ w.age = row.age
             /\ w.inviteDelivered = row.inviteDelivered
             /\ w.challengerId = IF row.challengerId = u THEN NoUser ELSE row.challengerId
             /\ w.opponentId = IF row.opponentId = u THEN NoUser ELSE row.opponentId
  BY DEF Without, Row

\* A row that ends without a charge nobody saw.
LEMMA EndedStep ==
  ASSUME IndInv, NEW d \in Ids, NEW st, NEW p, duel'[d] = Ended(d, st, p),
         <<duel[d].status, st>> \in {<<"PENDING", "REJECTED">>, <<"PENDING", "EXPIRED">>,
                                     <<"ACCEPTED", "COMPLETED">>, <<"ACCEPTED", "VOID">>},
         st = "EXPIRED" /\ p > 0 => duel[d].inviteDelivered
  PROVE  RowStep(d)
<1>1. duel[d] \in Row
  BY DEF IndInv, TypeOK
<1>2. /\ duel'[d].status = st /\ duel'[d].scoreDelta = p /\ duel'[d].requestId = duel[d].requestId
      /\ duel'[d].challengerId = duel[d].challengerId /\ duel'[d].opponentId = duel[d].opponentId
      /\ duel'[d].inviteDelivered = duel[d].inviteDelivered
  BY <1>1, EndedFields
<1> QED
  BY <1>2 DEF RowStep, RowKept, Binds, Waiting, Charged, Ignored

\* The steps of a handler.
LEMMA RequestRows ==
  ASSUME IndInv, NEW s \in Slots, RequestStep(s)
  PROVE  \A e \in Ids : RowStep(e)
<1>1. CASE UNCHANGED duel
  BY <1>1, SameRow
<1>2. CASE \E d \in Ids : InsertRow(s, d)
  <2>1. PICK d \in Ids : InsertRow(s, d)
    BY <1>2
  <2>2. duel[d].status = "NONE" /\ duel[d] \in Row
    BY <2>1 DEF InsertRow, NextId, IndInv, TypeOK
  <2>3. CASE Held({slot[s].user, slot[s].target})
    <3> DEFINE r == [duel[d] EXCEPT !.status = "ABORTED"]
    <3>1. duel' = [duel EXCEPT ![d] = r]
      BY <2>1, <2>3 DEF InsertRow
    <3>2. r.status = "ABORTED" /\ r.inviteDelivered = duel[d].inviteDelivered
      BY <2>2 DEF Row
    <3> HIDE DEF r
    <3>3. RowStep(d)
      BY <2>2, <3>1, <3>2 DEF RowStep, RowBurnt, IndInv, TypeOK
    <3> QED
      BY <3>1, <3>3, OneRow
  <2>4. CASE ~Held({slot[s].user, slot[s].target})
    <3>1. duel' = [duel EXCEPT ![d] = NewRow(s)]
      BY <2>1, <2>4 DEF InsertRow
    <3>2. NewRow(s).status = "INSERTED" /\ NewRow(s).inviteDelivered = FALSE
      BY DEF NewRow, Blank
    <3>3. duel'[d] = NewRow(s)
      BY <3>1 DEF IndInv, TypeOK
    <3>4. RowStep(d)
      BY <2>1, <2>2, <2>4, <3>2, <3>3 DEF RowStep, RowNew
    <3> QED
      BY <3>1, <3>4, OneRow
  <2> QED
    BY <2>3, <2>4
<1>3. CASE Rollback(s)
  <2> DEFINE r == [Blank EXCEPT !.status = "ABORTED"]
  <2>1. PICK d \in Ids : d = slot[s].id /\ duel[d].status = "INSERTED" /\ duel' = [duel EXCEPT ![d] = r]
    BY <1>3 DEF Rollback, IndInv, SlotsAgree
  <2>2. r.status = "ABORTED" /\ r.inviteDelivered = FALSE
    BY DEF Blank
  <2> HIDE DEF r
  <2>3. RowStep(d)
    BY <2>1, <2>2 DEF RowStep, RowBurnt, IndInv, TypeOK
  <2> QED
    BY <2>1, <2>3, OneRow
<1>4. CASE Commit(s)
  <2>1. PICK d \in Ids : d = slot[s].id /\ duel[d].status = "INSERTED" /\ duel[d] \in Row
    BY <1>4 DEF Commit, IndInv, SlotsAgree, TypeOK
  <2> DEFINE r == [duel[d] EXCEPT !.status = "PENDING"]
  <2>2. duel' = [duel EXCEPT ![d] = r]
    BY <1>4, <2>1 DEF Commit
  <2>3. /\ r.status = "PENDING" /\ r.requestId = duel[d].requestId /\ r.age = duel[d].age
        /\ r.challengerId = duel[d].challengerId /\ r.opponentId = duel[d].opponentId
        /\ r.inviteDelivered = duel[d].inviteDelivered
    BY <2>1 DEF Row
  <2> HIDE DEF r
  <2>4. duel'[d] = r
    BY <2>2 DEF IndInv, TypeOK
  <2>5. RowStep(d)
    BY <2>1, <2>3, <2>4 DEF RowStep, RowKept, Binds, Waiting, Charged, Ignored
  <2> QED
    BY <2>2, <2>5, OneRow
<1>5. CASE Lookup(s) \/ GuardsPass(s) \/ GuardsRefuse(s) \/ LockFirst(s) \/ InsertRetry(s) \/ InsertRefused(s) \/ Created(s)
  BY <1>1, <1>5 DEF Lookup, GuardsPass, GuardsRefuse, LockFirst, InsertRetry, InsertRefused, Created, stored
<1> QED
  BY <1>2, <1>3, <1>4, <1>5 DEF RequestStep

LEMMA InviteRows ==
  ASSUME IndInv, InviteNext
  PROVE  \A e \in Ids : RowStep(e)
<1> PICK i \in invites : InviteCheck(i) \/ InviteRead(i) \/ InviteEmit(i) \/ InviteLost(i) \/ InviteMark(i)
  BY DEF InviteNext
<1>1. CASE UNCHANGED duel
  BY <1>1, SameRow
<1>2. CASE InviteMark(i) /\ duel[i[1]].status = "PENDING"
  <2>1. PICK d \in Ids : d = i[1] /\ duel[d] \in Row
    BY DEF IndInv, TypeOK, InviteType
  <2> DEFINE r == [duel[d] EXCEPT !.inviteDelivered = TRUE]
  <2>2. duel' = [duel EXCEPT ![d] = r] /\ i[3] = "mark"
    BY <1>2, <2>1 DEF InviteMark
  <2>3. /\ r.status = duel[d].status /\ r.requestId = duel[d].requestId /\ r.age = duel[d].age
        /\ r.challengerId = duel[d].challengerId /\ r.opponentId = duel[d].opponentId
        /\ r.scoreDelta = duel[d].scoreDelta
    BY <2>1 DEF Row
  <2> HIDE DEF r
  <2>4. duel'[d] = r
    BY <2>2 DEF IndInv, TypeOK
  <2>5. RowStep(d)
    BY <2>1, <2>2, <2>3, <2>4 DEF RowStep, RowKept, Binds, Waiting, Charged, Ignored
  <2> QED
    BY <2>2, <2>5, OneRow
<1> QED
  BY <1>1, <1>2 DEF InviteCheck, InviteRead, InviteEmit, InviteLost, InviteMark, stored

LEMMA AnswerRows ==
  ASSUME IndInv, NEW d \in Ids, Accept(d) \/ Reject(d) \/ Expire(d) \/ ExpireFails(d)
  PROVE  \A e \in Ids : RowStep(e)
<1>1. CASE UNCHANGED duel
  BY <1>1, SameRow
<1>2. CASE Accept(d)
  <2>1. duel' = [duel EXCEPT ![d] = Accepted(d)] /\ duel[d].status = "PENDING" /\ duel[d] \in Row
    BY <1>2 DEF Accept, StillPending, IndInv, TypeOK
  <2>2. /\ Accepted(d).status = "ACCEPTED" /\ Accepted(d).requestId = duel[d].requestId
        /\ Accepted(d).challengerId = duel[d].challengerId
        /\ Accepted(d).opponentId = duel[d].opponentId
        /\ Accepted(d).inviteDelivered = duel[d].inviteDelivered
    BY <2>1 DEF Accepted, Row
  <2>3. duel'[d] = Accepted(d)
    BY <2>1 DEF IndInv, TypeOK
  <2>4. RowStep(d)
    BY <2>1, <2>2, <2>3 DEF RowStep, RowKept, Binds, Waiting, Charged, Ignored
  <2> QED
    BY <2>1, <2>4, OneRow
<1>3. CASE Reject(d)
  <2> DEFINE r == Ended(d, "REJECTED", DUEL_REJECT_SCORE_PENALTY)
  <2>1. duel' = [duel EXCEPT ![d] = r] /\ duel[d].status = "PENDING"
    BY <1>3 DEF Reject, StillPending
  <2>2. duel'[d] = r
    BY <2>1 DEF IndInv, TypeOK
  <2>3. RowStep(d)
    BY <2>1, <2>2, EndedStep
  <2> QED
    BY <2>1, <2>3, OneRow
<1>4. CASE Expire(d) /\ StillPending(d)
  <2> DEFINE p == IF Chargeable(d) THEN DUEL_NO_RESPONSE_SCORE_PENALTY ELSE 0
             r == Ended(d, "EXPIRED", p)
  <2>1. duel' = [duel EXCEPT ![d] = r] /\ duel[d].status = "PENDING"
    BY <1>4 DEF Expire, StillPending
  <2>2. duel'[d] = r
    BY <2>1 DEF IndInv, TypeOK
  <2>3. p > 0 => duel[d].inviteDelivered
    BY DEF Chargeable
  <2> HIDE DEF p
  <2>4. RowStep(d)
    BY <2>1, <2>2, <2>3, EndedStep
  <2> HIDE DEF r
  <2> QED
    BY <2>1, <2>4, OneRow
<1>5. CASE ExpireFails(d) \/ (Expire(d) /\ ~StillPending(d))
  BY <1>1, <1>5 DEF ExpireFails, Expire, stored
<1> QED
  BY <1>2, <1>3, <1>4, <1>5

LEMMA GameRows ==
  ASSUME IndInv, NEW d \in Ids,
         ReportResult(d) \/ VoidByGame(d) \/ \E w \in Winners : ResolveStart(d, w)
  PROVE  \A e \in Ids : RowStep(e)
<1>1. CASE ReportResult(d)
  <2>1. duel[d] \in Row /\ duel' = [duel EXCEPT ![d] = Reported(d)]
    BY <1>1 DEF ReportResult, IndInv, TypeOK
  <2>2. /\ Reported(d).status = duel[d].status /\ Reported(d).requestId = duel[d].requestId
        /\ Reported(d).challengerId = duel[d].challengerId
        /\ Reported(d).opponentId = duel[d].opponentId /\ Reported(d).age = duel[d].age
        /\ Reported(d).inviteDelivered = duel[d].inviteDelivered
        /\ Reported(d).scoreDelta = duel[d].scoreDelta
    BY <2>1 DEF Reported, Row
  <2>3. duel'[d] = Reported(d)
    BY <2>1 DEF IndInv, TypeOK
  <2>4. RowStep(d)
    BY <2>2, <2>3 DEF RowStep, RowKept, Binds, Waiting, Charged, Ignored
  <2> QED
    BY <2>1, <2>4, OneRow
<1>2. CASE VoidByGame(d)
  <2> DEFINE r == Ended(d, "VOID", 0)
  <2>1. duel' = [duel EXCEPT ![d] = r] /\ duel[d].status = "ACCEPTED"
    BY <1>2 DEF VoidByGame
  <2>2. duel'[d] = r
    BY <2>1 DEF IndInv, TypeOK
  <2>3. RowStep(d)
    BY <2>1, <2>2, EndedStep
  <2> QED
    BY <2>1, <2>3, OneRow
<1>3. CASE \E w \in Winners : ResolveStart(d, w)
  BY <1>3, SameRow DEF ResolveStart
<1> QED
  BY <1>1, <1>2, <1>3

LEMMA ResolveRows ==
  ASSUME IndInv, NEW t \in resolving, ResolveCommit(t) \/ ResolveFails(t) \/ ResolveLost(t)
  PROVE  \A e \in Ids : RowStep(e)
<1>1. CASE ResolveCommit(t)
  <2>1. PICK d \in Ids : d = t.id /\ duel[d] \in Row
    BY DEF IndInv, TypeOK, ResolveType
  <2>2. duel' = [duel EXCEPT ![d] = Decided(t)] /\ duel[d].status = "ACCEPTED"
    BY <1>1, <2>1 DEF ResolveCommit
  <2> DEFINE e == Ended(d, "COMPLETED", BASE_DUEL_SCORE)
             r == Decided(t)
  <2>3. e \in Row
    BY <2>1, EndedIsRow DEF BASE_DUEL_SCORE
  <2>4. r = [e EXCEPT !.winnerId = t.winner, !.loserId = t.loser]
    BY <2>1 DEF Decided
  <2>5. /\ e.status = "COMPLETED" /\ e.requestId = duel[d].requestId
        /\ e.challengerId = duel[d].challengerId /\ e.opponentId = duel[d].opponentId
        /\ e.inviteDelivered = duel[d].inviteDelivered
    BY <2>1, EndedFields
  <2> HIDE DEF e
  <2>6. /\ r.status = "COMPLETED" /\ r.requestId = duel[d].requestId
        /\ r.challengerId = duel[d].challengerId /\ r.opponentId = duel[d].opponentId
        /\ r.inviteDelivered = duel[d].inviteDelivered
    BY <2>3, <2>4, <2>5 DEF Row
  <2> HIDE DEF r
  <2>7. duel'[d] = r
    BY <2>2 DEF IndInv, TypeOK, r
  <2>8. RowStep(d)
    BY <2>2, <2>6, <2>7 DEF RowStep, RowKept, Binds, Waiting, Charged, Ignored
  <2> QED
    BY <2>2, <2>8, OneRow
<1>2. CASE ResolveFails(t) \/ ResolveLost(t)
  BY <1>2, SameRow DEF ResolveFails, ResolveLost
<1> QED
  BY <1>1, <1>2

LEMMA SweepRows ==
  ASSUME IndInv, Sweep
  PROVE  \A e \in Ids : RowStep(e)
<1>1. CASE SweepAccepted
  <2> SUFFICES ASSUME NEW d \in Ids PROVE RowStep(d)
    OBVIOUS
  <2>1. CASE StaleAccepted(d)
    <3>1. duel'[d] = Ended(d, "VOID", 0) /\ duel[d].status = "ACCEPTED"
      BY <1>1, <2>1 DEF SweepAccepted, StaleAccepted
    <3> QED
      BY <3>1, EndedStep
  <2>2. CASE ~StaleAccepted(d)
    BY <1>1, <2>2, SameRow DEF SweepAccepted
  <2> QED
    BY <2>1, <2>2
<1>2. CASE \E batch \in SUBSET Ids : \E charged \in SUBSET batch : SweepPending(batch, charged)
  <2>1. PICK batch \in SUBSET Ids, charged \in SUBSET Ids : SweepPending(batch, charged)
    BY <1>2
  <2> SUFFICES ASSUME NEW d \in Ids PROVE RowStep(d)
    OBVIOUS
  <2> DEFINE p == IF d \in charged THEN DUEL_NO_RESPONSE_SCORE_PENALTY ELSE 0
  <2>2. CASE d \in batch
    <3>1. duel'[d] = Ended(d, "EXPIRED", p) /\ duel[d].status = "PENDING"
      BY <2>1, <2>2 DEF SweepPending, StalePending, StillPending
    <3>2. p > 0 => duel[d].inviteDelivered
      BY <2>1 DEF SweepPending, Chargeable
    <3> HIDE DEF p
    <3> QED
      BY <3>1, <3>2, EndedStep
  <2>3. CASE d \notin batch
    BY <2>1, <2>3, SameRow DEF SweepPending
  <2> QED
    BY <2>2, <2>3
<1> QED
  BY <1>1, <1>2 DEF Sweep

LEMMA LeaveRows ==
  ASSUME IndInv, NEW u \in Users, Leave(u)
  PROVE  \A e \in Ids : RowStep(e)
<1> SUFFICES ASSUME NEW d \in Ids PROVE RowStep(d)
  OBVIOUS
<1>0. /\ duel[d] \in Row /\ u \notin accounts'
      /\ duel[d].status = "INSERTED" => u \notin Players(d)
  BY DEF Leave, AdvisoryFree, IndInv, TypeOK
<1>1. CASE ~Involves(d, u)
  <2>1. duel'[d] = Without(duel[d], u)
    BY <1>1 DEF Leave
  <2>2. /\ duel'[d].status = duel[d].status /\ duel'[d].scoreDelta = duel[d].scoreDelta
        /\ duel'[d].requestId = duel[d].requestId /\ duel'[d].age = duel[d].age
        /\ duel'[d].inviteDelivered = duel[d].inviteDelivered
        /\ duel'[d].challengerId = IF duel[d].challengerId = u THEN NoUser ELSE duel[d].challengerId
        /\ duel'[d].opponentId = IF duel[d].opponentId = u THEN NoUser ELSE duel[d].opponentId
    BY <1>0, <2>1, WithoutFields
  <2>3. Binds(d) => u \notin Players(d)
    BY <1>0, <1>1 DEF Binds, Involves, IsActive
  <2> QED
    BY <1>0, <2>2, <2>3 DEF RowStep, RowKept, Binds, Waiting, Charged, Ignored, Players
<1>2. CASE Involves(d, u)
  <2> DEFINE st == IF duel[d].status = "PENDING" THEN "EXPIRED" ELSE "VOID"
             e == Ended(d, st, 0)
  <2>1. duel'[d] = Without(e, u) /\ duel[d].status \in Active
    BY <1>2 DEF Leave, Involves, IsActive
  <2>2. e \in Row
    BY <1>0, EndedIsRow
  <2>3. /\ e.status = st /\ e.scoreDelta = 0 /\ e.requestId = duel[d].requestId
        /\ e.challengerId = duel[d].challengerId /\ e.opponentId = duel[d].opponentId
        /\ e.inviteDelivered = duel[d].inviteDelivered
    BY <1>0, EndedFields
  <2> HIDE DEF e
  <2>4. /\ duel'[d].status = st /\ duel'[d].scoreDelta = 0
        /\ duel'[d].requestId = duel[d].requestId
        /\ duel'[d].inviteDelivered = duel[d].inviteDelivered
        /\ duel'[d].challengerId = IF duel[d].challengerId = u THEN NoUser ELSE duel[d].challengerId
        /\ duel'[d].opponentId = IF duel[d].opponentId = u THEN NoUser ELSE duel[d].opponentId
    BY <2>1, <2>2, <2>3, WithoutFields
  <2> QED
    BY <1>0, <2>1, <2>4 DEF RowStep, RowKept, Binds, Waiting, Charged, Ignored
<1> QED
  BY <1>1, <1>2

LEMMA TimeRows ==
  ASSUME IndInv, Tick \/ Crash
  PROVE  \A e \in Ids : RowStep(e)
<1> SUFFICES ASSUME NEW d \in Ids PROVE RowStep(d)
  OBVIOUS
<1>1. CASE Tick
  <2>1. duel[d] \in Row
    BY DEF IndInv, TypeOK
  <2>2. /\ Aged(duel[d]).status = duel[d].status /\ Aged(duel[d]).scoreDelta = duel[d].scoreDelta
        /\ Aged(duel[d]).requestId = duel[d].requestId
        /\ Aged(duel[d]).challengerId = duel[d].challengerId
        /\ Aged(duel[d]).opponentId = duel[d].opponentId
        /\ Aged(duel[d]).inviteDelivered = duel[d].inviteDelivered
    BY <2>1 DEF Aged, Row
  <2>3. duel'[d] = Aged(duel[d]) \/ duel'[d] = duel[d]
    BY <1>1 DEF Tick
  <2>4. CASE duel'[d] = duel[d]
    BY <2>4, SameRow
  <2>5. CASE duel'[d] = Aged(duel[d])
    BY <1>1, <2>2, <2>5 DEF RowStep, RowKept, Binds, Waiting, Charged, Ignored
  <2> QED
    BY <2>3, <2>4, <2>5
<1>2. CASE Crash
  <2>1. [Blank EXCEPT !.status = "ABORTED"].status = "ABORTED" /\ [Blank EXCEPT !.status = "ABORTED"].inviteDelivered = FALSE
    BY DEF Blank
  <2>2. duel'[d] = IF duel[d].status = "INSERTED" THEN [Blank EXCEPT !.status = "ABORTED"] ELSE duel[d]
    BY <1>2 DEF Crash
  <2> QED
    BY <2>1, <2>2, SameRow DEF RowStep, RowBurnt
<1> QED
  BY <1>1, <1>2

LEMMA RowSteps ==
  ASSUME IndInv, [Next]_vars
  PROVE  \A d \in Ids : RowStep(d)
<1>1. CASE \E s \in Slots : RequestStep(s)
  BY <1>1, RequestRows
<1>2. CASE UNCHANGED duel
  BY <1>2, SameRow
<1>3. CASE InviteNext
  BY <1>3, InviteRows
<1>4. CASE \E d \in Ids : Accept(d) \/ Reject(d) \/ Expire(d) \/ ExpireFails(d)
  BY <1>4, AnswerRows
<1>5. CASE \E d \in Ids : ReportResult(d) \/ VoidByGame(d) \/ \E w \in Winners : ResolveStart(d, w)
  BY <1>5, GameRows
<1>6. CASE \E t \in resolving : ResolveCommit(t) \/ ResolveFails(t) \/ ResolveLost(t)
  BY <1>6, ResolveRows
<1>7. CASE Sweep
  BY <1>7, SweepRows
<1>8. CASE \E u \in Users : Leave(u)
  BY <1>8, LeaveRows
<1>9. CASE \/ \E u \in Users : Purge(u) \/ ShieldLapses(u) \/ PenaltyLapses(u)
           \/ \E s \in Slots, ask \in Asks : Receive(s, ask)
           \/ \E t \in after : Settle(t)
           \/ UNCHANGED vars
  BY <1>2, <1>9 DEF Purge, ShieldLapses, PenaltyLapses, Receive, Settle, vars, stored
<1>10. CASE Tick \/ Crash
  BY <1>10, TimeRows
<1> QED
  BY <1>1, <1>3, <1>4, <1>5, <1>6, <1>7, <1>8, <1>9, <1>10 DEF Next

-----------------------------------------------------------------------------
(* What a step does beside the rows.                                        *)
LEMMA SlotsOwn ==
  ASSUME IndInv, NEW s \in Slots, slot[s].phase \in {"locked", "created"}
  PROVE  slot[s].id \in Ids
  BY DEF IndInv, SlotsAgree

\* Accounts only go.
LEMMA AccountsShrink ==
  ASSUME IndInv, [Next]_vars
  PROVE  accounts' \subseteq accounts
<1> USE DEF stored
<1>1. CASE \E s \in Slots : RequestStep(s)
  BY <1>1 DEF RequestStep, Lookup, GuardsPass, GuardsRefuse, LockFirst, InsertRetry, InsertRefused, InsertRow,
              Commit, Rollback, Created
<1>2. CASE (\E s \in Slots, ask \in Asks : Receive(s, ask)) \/ InviteNext \/ Sweep \/ Tick \/ Crash
           \/ (\E t \in after : Settle(t)) \/ UNCHANGED vars
  BY <1>2 DEF Receive, InviteNext, InviteCheck, InviteRead, InviteEmit, InviteLost, InviteMark, InviteKeeps,
              Sweep, SweepPending, SweepAccepted, Tick, Crash, Settle, vars
<1>3. CASE \E d \in Ids : Accept(d) \/ Reject(d) \/ Expire(d) \/ ExpireFails(d) \/ ReportResult(d)
                         \/ VoidByGame(d) \/ \E w \in Winners : ResolveStart(d, w)
  BY <1>3 DEF Accept, Reject, Expire, ExpireFails, ReportResult, VoidByGame, ResolveStart
<1>4. CASE \E t \in resolving : ResolveCommit(t) \/ ResolveFails(t) \/ ResolveLost(t)
  BY <1>4 DEF ResolveCommit, ResolveFails, ResolveLost
<1>5. CASE \E u \in Users : Leave(u) \/ Purge(u) \/ ShieldLapses(u) \/ PenaltyLapses(u)
  BY <1>5 DEF Leave, Purge, ShieldLapses, PenaltyLapses
<1> QED
  BY <1>1, <1>2, <1>3, <1>4, <1>5 DEF Next

\* What is left to do after a commit is about a row that this step took out of
\* PENDING or ended, and grants a shield to who was charged only.
TaskFits(t) ==
  /\ duel'[t.id].status \in {"ACCEPTED"} \union Final
  /\ t.lock = "release" => duel'[t.id].status \in Final
  /\ \A u \in t.shield : u \in accounts' => Charged(t.id)' /\ duel'[t.id].opponentId = u

LEMMA EndedTask ==
  ASSUME IndInv, NEW d \in Ids, NEW st \in Final, NEW p \in Nat, NEW S, NEW w,
         duel'[d] = Ended(d, st, p),
         S = {} \/ (S = {duel[d].opponentId} /\ st \in Unresolved /\ p > 0)
  PROVE  TaskFits(Task(d, S, w))
<1>1. /\ duel'[d].status = st /\ duel'[d].scoreDelta = p
      /\ duel'[d].opponentId = duel[d].opponentId
  BY EndedFields DEF IndInv, TypeOK
<1> QED
  BY <1>1 DEF Task, TaskFits, Charged

LEMMA TasksFit ==
  ASSUME IndInv, [Next]_vars, NEW t \in after', t \notin after,
         \A k \in resolving : duel[k.id].status \in {"ACCEPTED"} \union Final
  PROVE  TaskFits(t)
<1> USE DEF DUEL_REJECT_SCORE_PENALTY, DUEL_NO_RESPONSE_SCORE_PENALTY, BASE_DUEL_SCORE
<1>0. \A d \in Ids : duel[d] \in Row
  BY DEF IndInv, TypeOK
<1>1. CASE \E s \in Slots : RequestStep(s)
  BY <1>1 DEF RequestStep, Lookup, GuardsPass, GuardsRefuse, LockFirst, InsertRetry, InsertRefused, InsertRow,
              Commit, Rollback, Created
<1>2. CASE (\E s \in Slots, ask \in Asks : Receive(s, ask)) \/ InviteNext \/ SweepAccepted \/ Tick \/ Crash
           \/ (\E k \in after : Settle(k)) \/ UNCHANGED vars
  BY <1>2 DEF Receive, InviteNext, InviteCheck, InviteRead, InviteEmit, InviteLost, InviteMark, InviteKeeps,
              SweepAccepted, Tick, Crash, Settle, vars, memory
<1>3. ASSUME NEW d \in Ids, Accept(d) PROVE TaskFits(t)
  <2>1. t = Task(d, {}, "extend") /\ duel'[d] = Accepted(d)
    BY <1>3 DEF Accept, IndInv, TypeOK
  <2>2. duel'[d].status = "ACCEPTED"
    BY <1>0, <2>1, AcceptedIsRow
  <2> QED
    BY <2>1, <2>2 DEF Task, TaskFits
<1>4. ASSUME NEW d \in Ids, Reject(d) PROVE TaskFits(t)
  <2>1. t = Task(d, {duel[d].opponentId}, "release") /\ duel'[d] = Ended(d, "REJECTED", DUEL_REJECT_SCORE_PENALTY)
    BY <1>4 DEF Reject, Shielded, IndInv, TypeOK
  <2> QED
    BY <2>1, EndedTask
<1>5. ASSUME NEW d \in Ids, Expire(d) PROVE TaskFits(t)
  <2> DEFINE p == IF Chargeable(d) THEN DUEL_NO_RESPONSE_SCORE_PENALTY ELSE 0
             S == Shielded(d, Chargeable(d))
  <2>1. t = Task(d, S, "release") /\ duel'[d] = Ended(d, "EXPIRED", p)
    BY <1>5 DEF Expire, IndInv, TypeOK
  <2>2. p \in Nat /\ (S = {} \/ (S = {duel[d].opponentId} /\ p > 0))
    BY DEF Shielded
  <2> HIDE DEF p, S
  <2> QED
    BY <2>1, <2>2, EndedTask
<1>6. ASSUME NEW d \in Ids, VoidByGame(d) PROVE TaskFits(t)
  <2>1. t = Task(d, {}, "release") /\ duel'[d] = Ended(d, "VOID", 0)
    BY <1>6 DEF VoidByGame, IndInv, TypeOK
  <2> QED
    BY <2>1, EndedTask
<1>7. ASSUME NEW d \in Ids, ReportResult(d) \/ ExpireFails(d) \/ \E w \in Winners : ResolveStart(d, w) PROVE TaskFits(t)
  BY <1>7 DEF ReportResult, ExpireFails, ResolveStart, memory
<1>8. ASSUME NEW k \in resolving, ResolveCommit(k) PROVE TaskFits(t)
  <2>1. k \in ResolveType /\ k.id \in Ids
    BY DEF IndInv, TypeOK, ResolveType
  <2>2. t = Task(k.id, {}, "release") /\ duel'[k.id] = Decided(k)
    BY <1>8, <2>1 DEF ResolveCommit, IndInv, TypeOK
  <2>3. duel'[k.id].status = "COMPLETED"
    BY <1>0, <2>1, <2>2, DecidedIsRow
  <2> QED
    BY <2>2, <2>3 DEF Task, TaskFits
<1>9. ASSUME NEW k \in resolving, ResolveLost(k) PROVE TaskFits(t)
  <2>1. t = [Task(k.id, {}, "release") EXCEPT !.pair = {k.winner, k.loser}] /\ duel' = duel
    BY <1>9 DEF ResolveLost
  <2>2. t.id = k.id /\ t.shield = {}
    BY <2>1 DEF Task
  <2>3. duel[k.id].status \in Final
    BY <1>9 DEF ResolveLost
  <2> QED
    BY <2>1, <2>2, <2>3 DEF TaskFits
<1>10. ASSUME NEW k \in resolving, ResolveFails(k) PROVE TaskFits(t)
  BY <1>10 DEF ResolveFails
<1>11. ASSUME NEW batch \in SUBSET Ids, NEW charged \in SUBSET batch, SweepPending(batch, charged) PROVE TaskFits(t)
  <2>1. PICK d \in charged : t = Task(d, {duel[d].opponentId}, "keep")
    BY <1>11 DEF SweepPending, Shielded
  <2>2. duel'[d] = Ended(d, "EXPIRED", DUEL_NO_RESPONSE_SCORE_PENALTY)
    BY <1>11, <2>1 DEF SweepPending
  <2> QED
    BY <2>1, <2>2, EndedTask
<1>12. ASSUME NEW u \in Users, Leave(u) PROVE TaskFits(t)
  <2>1. PICK d \in Ids : Involves(d, u) /\ t = Task(d, {}, "release")
    BY <1>12 DEF Leave
  <2> DEFINE st == IF duel[d].status = "PENDING" THEN "EXPIRED" ELSE "VOID"
             e == Ended(d, st, 0)
  <2>2. duel'[d] = Without(e, u)
    BY <1>12, <2>1 DEF Leave
  <2>3. e \in Row /\ e.status \in Final
    BY <1>0, EndedIsRow
  <2> HIDE DEF e
  <2>4. duel'[d].status \in Final
    BY <2>2, <2>3, WithoutFields
  <2> QED
    BY <2>1, <2>4 DEF Task, TaskFits
<1>13. ASSUME NEW u \in Users, Purge(u) \/ ShieldLapses(u) \/ PenaltyLapses(u) PROVE TaskFits(t)
  BY <1>13 DEF Purge, ShieldLapses, PenaltyLapses, memory
<1> QED
  BY <1>1, <1>2, <1>3, <1>4, <1>5, <1>6, <1>7, <1>8, <1>9, <1>10, <1>11, <1>12, <1>13 DEF Next, Sweep

-----------------------------------------------------------------------------
(* What the promises of the duel service rest on.                           *)

\* Rows of one requestId of one challenger are one row, uncommitted rows too.
RequestsApart ==
  \A d \in Ids, e \in Ids :
    (/\ Present(d) /\ Present(e)
     /\ duel[d].requestId # NoRequest /\ duel[d].requestId = duel[e].requestId
     /\ duel[d].challengerId # NoUser /\ duel[d].challengerId = duel[e].challengerId) => d = e

\* An invitation is marked, and its duel charged for silence, after it was emitted.
SeenFirst ==
  /\ \A d \in Ids : duel[d].inviteDelivered \/ Ignored(d) => d \in shown
  /\ \A i \in invites : i[3] = "mark" => i[1] \in shown

\* A shield, granted or still to be granted, names a row its owner was charged on.
Guarded(u) == u \in shield \/ \E t \in after : u \in t.shield
ShieldsPaid ==
  \A u \in accounts : Guarded(u) => \E d \in Ids : Charged(d) /\ duel[d].opponentId = u

\* The lock of a row that waits for its answer lasts as long as the answer may take.
LocksAgree ==
  /\ \A d \in Ids : Waiting(d) /\ duel[d].age < DUEL_REQUEST_TTL =>
       \E l \in locks : /\ l.pair = Players(d) /\ l.token = d
                        /\ l.left + duel[d].age >= DUEL_REQUEST_TTL
  /\ \A l \in locks : /\ duel[l.token].status # "NONE"
                      /\ Binds(l.token) => l.pair = Players(l.token)

\* Work in flight is about rows that are past PENDING; a lock is released after
\* the end of its row only; a user whose keys are purged is gone.
WorkAgrees ==
  /\ \A t \in after : /\ duel[t.id].status \in {"ACCEPTED"} \union Final
                      /\ t.lock = "release" => duel[t.id].status \in Final
  /\ \A k \in resolving : duel[k.id].status \in {"ACCEPTED"} \union Final
  /\ leaving \cap accounts = {}

PromiseInv == IndInv /\ RequestsApart /\ SeenFirst /\ ShieldsPaid /\ LocksAgree /\ WorkAgrees

LEMMA InitPromises == Init => PromiseInv
<1> SUFFICES ASSUME Init PROVE PromiseInv
  OBVIOUS
<1>1. \A d \in Ids : duel[d].status = "NONE" /\ duel[d].inviteDelivered = FALSE
  BY DEF Init, Blank
<1>2. RequestsApart /\ SeenFirst
  BY <1>1 DEF Init, RequestsApart, SeenFirst, Present, Visible, Ignored
<1>3. ShieldsPaid /\ LocksAgree /\ WorkAgrees
  BY <1>1 DEF Init, ShieldsPaid, Guarded, LocksAgree, WorkAgrees, Waiting
<1> QED
  BY <1>2, <1>3, InitInv DEF PromiseInv

-----------------------------------------------------------------------------
LEMMA NewRowFields ==
  ASSUME NEW s \in Slots
  PROVE  /\ NewRow(s).challengerId = slot[s].user /\ NewRow(s).opponentId = slot[s].target
         /\ NewRow(s).requestId = slot[s].requestId /\ NewRow(s).status = "INSERTED"
         /\ NewRow(s).age = slot[s].age
  BY DEF NewRow, Blank

\* A committed or inserted row was one before, or is new.
LEMMA WasPresent ==
  ASSUME NEW d \in Ids, RowStep(d), Present(d)'
  PROVE  RowNew(d) \/ (RowKept(d) /\ Present(d))
  BY DEF RowStep, RowKept, RowBurnt, Present, Visible

\* A row that binds its players bound the same ones before, or is new.
LEMMA WasBound ==
  ASSUME NEW d \in Ids, RowStep(d), Binds(d)'
  PROVE  RowNew(d) \/ (RowKept(d) /\ Binds(d) /\ Players(d)' = Players(d))
  BY DEF RowStep, RowKept, RowBurnt, Binds, Players

LEMMA RequestsApartInv ==
  ASSUME IndInv, RequestsApart, [Next]_vars
  PROVE  RequestsApart'
<1> SUFFICES ASSUME NEW d \in Ids, NEW e \in Ids, Present(d)', Present(e)',
                    duel'[d].requestId # NoRequest, duel'[d].requestId = duel'[e].requestId,
                    duel'[d].challengerId # NoUser, duel'[d].challengerId = duel'[e].challengerId
             PROVE  d = e
  BY DEF RequestsApart
<1>1. /\ RowNew(d) \/ (RowKept(d) /\ Present(d))
      /\ RowNew(e) \/ (RowKept(e) /\ Present(e))
  BY RowSteps, WasPresent
<1>2. CASE RowKept(d) /\ Present(d) /\ RowKept(e) /\ Present(e)
  BY <1>2 DEF RowKept, RequestsApart
<1>3. CASE RowNew(d) /\ RowNew(e)
  <2>1. NextId(d) /\ NextId(e)
    BY <1>3 DEF RowNew, InsertRow
  <2>2. d \in Nat /\ e \in Nat /\ (d < e => d \in 1 .. e - 1) /\ (e < d => e \in 1 .. d - 1)
    BY BoundAssumption DEF Ids
  <2> QED
    BY <2>1, <2>2 DEF NextId
<1>4. ASSUME NEW x \in Ids, NEW y \in Ids, RowNew(x), RowKept(y), Present(y),
             duel'[x].requestId # NoRequest, duel'[x].requestId = duel'[y].requestId,
             duel'[x].challengerId # NoUser, duel'[x].challengerId = duel'[y].challengerId
      PROVE  FALSE
  <2>1. PICK s \in Slots : InsertRow(s, x) /\ duel'[x] = NewRow(s)
    BY <1>4 DEF RowNew
  <2>2. slot[s].user = duel[y].challengerId /\ slot[s].requestId = duel[y].requestId
    BY <1>4, <2>1, NewRowFields DEF RowKept
  <2>3. slot[s].requestId # NoRequest
    BY <1>4, <2>1, NewRowFields
  <2>4. RequestIsNew(s) /\ LockSecond(s)
    BY <2>1 DEF InsertRow
  <2>5. CASE Visible(y)
    BY <2>2, <2>3, <2>4, <2>5 DEF RequestIsNew, OwnRow
  <2>6. CASE duel[y].status = "INSERTED"
    BY <2>2, <2>4, <2>6, BothLocksHeld DEF Players
  <2> QED
    BY <1>4, <2>5, <2>6 DEF Present
<1> QED
  BY <1>1, <1>2, <1>3, <1>4

-----------------------------------------------------------------------------
(* Invitations.                                                             *)
LEMMA ShownGrows ==
  ASSUME IndInv, [Next]_vars
  PROVE  /\ shown \subseteq shown'
         /\ \A i \in invites' : i[3] = "mark" => i \in invites \/ i[1] \in shown'
<1> USE DEF stored
<1> DEFINE G == /\ shown \subseteq shown'
                /\ \A i \in invites' : i[3] = "mark" => i \in invites \/ i[1] \in shown'
<1>1. CASE UNCHANGED <<shown, invites>>
  BY <1>1
<1>2. ASSUME NEW s \in Slots, RequestStep(s) PROVE G
  <2>1. shown' = shown
    BY <1>2 DEF RequestStep, Lookup, GuardsPass, GuardsRefuse, LockFirst, InsertRetry, InsertRefused, InsertRow,
                Commit, Rollback, Created
  <2>2. ASSUME NEW d \in Ids, Rejoin(s, d) PROVE \A i \in invites' : i \in invites \/ i[3] # "mark"
    BY <2>2 DEF Rejoin
  <2>3. CASE Lookup(s) \/ InsertRetry(s)
    BY <2>1, <2>2, <2>3 DEF Lookup, InsertRetry
  <2>4. CASE Created(s)
    BY <2>1, <2>4 DEF Created
  <2>5. CASE GuardsPass(s) \/ GuardsRefuse(s) \/ LockFirst(s) \/ InsertRefused(s) \/ (\E d \in Ids : InsertRow(s, d))
             \/ Commit(s) \/ Rollback(s)
    BY <2>1, <2>5 DEF GuardsPass, GuardsRefuse, LockFirst, InsertRefused, InsertRow, Commit, Rollback
  <2> QED
    BY <1>2, <2>3, <2>4, <2>5 DEF RequestStep
<1>3. CASE InviteNext
  <2> PICK i \in invites : InviteCheck(i) \/ InviteRead(i) \/ InviteEmit(i) \/ InviteLost(i) \/ InviteMark(i)
    BY <1>3 DEF InviteNext
  <2>1. CASE InviteEmit(i)
    BY <2>1 DEF InviteEmit, InviteStep
  <2>2. CASE InviteCheck(i) \/ InviteRead(i) \/ InviteLost(i) \/ InviteMark(i)
    BY <2>2 DEF InviteCheck, InviteRead, InviteLost, InviteMark, InviteStep
  <2> QED
    BY <2>1, <2>2
<1>4. CASE Crash
  BY <1>4 DEF Crash
<1>5. CASE (\E s \in Slots, ask \in Asks : Receive(s, ask)) \/ Sweep \/ Tick
           \/ (\E t \in after : Settle(t)) \/ UNCHANGED vars
  BY <1>5, <1>1 DEF Receive, Sweep, SweepPending, SweepAccepted, Tick, Settle, vars, memory
<1>6. CASE \E d \in Ids : Accept(d) \/ Reject(d) \/ Expire(d) \/ ExpireFails(d) \/ ReportResult(d)
                         \/ VoidByGame(d) \/ \E w \in Winners : ResolveStart(d, w)
  BY <1>6, <1>1 DEF Accept, Reject, Expire, ExpireFails, ReportResult, VoidByGame, ResolveStart, memory
<1>7. CASE \E t \in resolving : ResolveCommit(t) \/ ResolveFails(t) \/ ResolveLost(t)
  BY <1>7, <1>1 DEF ResolveCommit, ResolveFails, ResolveLost
<1>8. CASE \E u \in Users : Leave(u) \/ Purge(u) \/ ShieldLapses(u) \/ PenaltyLapses(u)
  BY <1>8, <1>1 DEF Leave, Purge, ShieldLapses, PenaltyLapses, memory
<1> QED
  BY <1>2, <1>3, <1>4, <1>5, <1>6, <1>7, <1>8 DEF Next

LEMMA SeenFirstInv ==
  ASSUME IndInv, SeenFirst, [Next]_vars
  PROVE  SeenFirst'
<1>1. /\ shown \subseteq shown'
      /\ \A i \in invites' : i[3] = "mark" => i \in invites \/ i[1] \in shown'
  BY ShownGrows
<1>2. ASSUME NEW d \in Ids, duel'[d].inviteDelivered \/ Ignored(d)' PROVE d \in shown'
  <2>1. RowStep(d)
    BY RowSteps
  <2>2. CASE RowKept(d)
    BY <1>1, <1>2, <2>2 DEF RowKept, SeenFirst
  <2>3. CASE RowBurnt(d) \/ RowNew(d)
    BY <1>1, <1>2, <2>3 DEF RowBurnt, RowNew, SeenFirst, Ignored
  <2> QED
    BY <2>1, <2>2, <2>3 DEF RowStep
<1> QED
  BY <1>1, <1>2 DEF SeenFirst

-----------------------------------------------------------------------------
(* Shields.                                                                 *)
LEMMA ShieldsFrom ==
  ASSUME [Next]_vars, NEW u \in shield'
  PROVE  Guarded(u)
<1> USE DEF stored, Guarded
<1>1. CASE shield' \subseteq shield
  BY <1>1
<1>2. CASE \E s \in Slots : RequestStep(s)
  BY <1>1, <1>2 DEF RequestStep, Lookup, GuardsPass, GuardsRefuse, LockFirst, InsertRetry, InsertRefused, InsertRow,
              Commit, Rollback, Created
<1>3. ASSUME NEW t \in after, Settle(t) PROVE Guarded(u)
  BY <1>3 DEF Settle
<1>4. CASE (\E s \in Slots, ask \in Asks : Receive(s, ask)) \/ InviteNext \/ Sweep \/ Tick \/ Crash
           \/ UNCHANGED vars
  BY <1>1, <1>4 DEF Receive, InviteNext, InviteCheck, InviteRead, InviteEmit, InviteLost, InviteMark, InviteKeeps,
              Sweep, SweepPending, SweepAccepted, Tick, Crash, vars
<1>5. CASE \E d \in Ids : Accept(d) \/ Reject(d) \/ Expire(d) \/ ExpireFails(d) \/ ReportResult(d)
                         \/ VoidByGame(d) \/ \E w \in Winners : ResolveStart(d, w)
  BY <1>1, <1>5 DEF Accept, Reject, Expire, ExpireFails, ReportResult, VoidByGame, ResolveStart
<1>6. CASE \E t \in resolving : ResolveCommit(t) \/ ResolveFails(t) \/ ResolveLost(t)
  BY <1>1, <1>6 DEF ResolveCommit, ResolveFails, ResolveLost
<1>7. CASE \E v \in Users : Leave(v) \/ Purge(v) \/ ShieldLapses(v) \/ PenaltyLapses(v)
  BY <1>1, <1>7 DEF Leave, Purge, ShieldLapses, PenaltyLapses
<1> QED
  BY <1>2, <1>3, <1>4, <1>5, <1>6, <1>7 DEF Next

LEMMA ShieldsPaidInv ==
  ASSUME IndInv, IndInv', ShieldsPaid, WorkAgrees, [Next]_vars
  PROVE  ShieldsPaid'
<1> SUFFICES ASSUME NEW u \in accounts', Guarded(u)'
             PROVE  \E d \in Ids : Charged(d)' /\ duel'[d].opponentId = u
  BY DEF ShieldsPaid
<1>1. CASE Guarded(u)
  <2>1. PICK d \in Ids : Charged(d) /\ duel[d].opponentId = u
    BY <1>1, AccountsShrink DEF ShieldsPaid
  <2>2. RowStep(d)
    BY RowSteps
  <2>3. RowKept(d)
    BY <2>1, <2>2 DEF RowStep, RowBurnt, RowNew, Charged
  <2> QED
    BY <2>1, <2>3 DEF RowKept
<1>2. CASE ~Guarded(u)
  <2>1. u \notin shield'
    BY <1>2, ShieldsFrom
  <2>2. PICK t \in after' : u \in t.shield
    BY <2>1 DEF Guarded
  <2>3. t \notin after
    BY <1>2, <2>2 DEF Guarded
  <2>4. TaskFits(t)
    BY <2>3, TasksFit DEF WorkAgrees
  <2>5. t.id \in Ids
    BY DEF IndInv, TypeOK, TaskType
  <2> QED
    BY <2>2, <2>4, <2>5 DEF TaskFits
<1> QED
  BY <1>1, <1>2

-----------------------------------------------------------------------------
(* Work in flight.                                                          *)
LEMMA FlightsFrom ==
  ASSUME IndInv, [Next]_vars
  PROVE  /\ \A k \in resolving' : k \in resolving \/ duel'[k.id].status = "ACCEPTED"
         /\ \A u \in leaving' : u \in leaving \/ u \notin accounts'
<1> USE DEF stored
<1> DEFINE G == /\ \A k \in resolving' : k \in resolving \/ duel'[k.id].status = "ACCEPTED"
                /\ \A u \in leaving' : u \in leaving \/ u \notin accounts'
<1>1. CASE resolving' \subseteq resolving /\ leaving' \subseteq leaving
  BY <1>1
<1>2. CASE \E s \in Slots : RequestStep(s)
  BY <1>1, <1>2 DEF RequestStep, Lookup, GuardsPass, GuardsRefuse, LockFirst, InsertRetry, InsertRefused, InsertRow,
              Commit, Rollback, Created
<1>3. CASE (\E s \in Slots, ask \in Asks : Receive(s, ask)) \/ InviteNext \/ Sweep \/ Tick \/ Crash
           \/ (\E t \in after : Settle(t)) \/ UNCHANGED vars
  BY <1>1, <1>3 DEF Receive, InviteNext, InviteCheck, InviteRead, InviteEmit, InviteLost, InviteMark, InviteKeeps,
              Sweep, SweepPending, SweepAccepted, Tick, Crash, Settle, vars, memory
<1>4. CASE \E d \in Ids : Accept(d) \/ Reject(d) \/ Expire(d) \/ ExpireFails(d) \/ ReportResult(d)
                         \/ VoidByGame(d)
  BY <1>1, <1>4 DEF Accept, Reject, Expire, ExpireFails, ReportResult, VoidByGame, memory
<1>5. ASSUME NEW d \in Ids, NEW w \in Winners, ResolveStart(d, w) PROVE G
  BY <1>5 DEF ResolveStart
<1>6. CASE \E t \in resolving : ResolveCommit(t) \/ ResolveFails(t) \/ ResolveLost(t)
  BY <1>1, <1>6 DEF ResolveCommit, ResolveFails, ResolveLost
<1>7. CASE \E v \in Users : Purge(v) \/ ShieldLapses(v) \/ PenaltyLapses(v)
  BY <1>1, <1>7 DEF Purge, ShieldLapses, PenaltyLapses, memory
<1>8. ASSUME NEW v \in Users, Leave(v) PROVE G
  BY <1>8 DEF Leave
<1> QED
  BY <1>2, <1>3, <1>4, <1>5, <1>6, <1>7, <1>8 DEF Next

LEMMA WorkAgreesInv ==
  ASSUME IndInv, IndInv', WorkAgrees, [Next]_vars
  PROVE  WorkAgrees'
<1>1. ASSUME NEW d \in Ids, duel[d].status \in {"ACCEPTED"} \union Final
      PROVE  /\ duel'[d].status \in {"ACCEPTED"} \union Final
             /\ duel[d].status \in Final => duel'[d].status \in Final
  BY <1>1, RowSteps DEF RowStep, RowKept, RowBurnt, RowNew
<1>2. \A t \in after' : t.id \in Ids
  BY DEF IndInv, TypeOK, TaskType
<1>3. \A t \in after' : /\ duel'[t.id].status \in {"ACCEPTED"} \union Final
                        /\ t.lock = "release" => duel'[t.id].status \in Final
  <2> SUFFICES ASSUME NEW t \in after'
               PROVE  /\ duel'[t.id].status \in {"ACCEPTED"} \union Final
                      /\ t.lock = "release" => duel'[t.id].status \in Final
    OBVIOUS
  <2>1. CASE t \in after
    BY <1>1, <1>2, <2>1 DEF WorkAgrees
  <2>2. CASE t \notin after
    BY <2>2, TasksFit DEF TaskFits, WorkAgrees
  <2> QED
    BY <2>1, <2>2
<1>4. \A k \in resolving' : duel'[k.id].status \in {"ACCEPTED"} \union Final
  <2> SUFFICES ASSUME NEW k \in resolving'
               PROVE  duel'[k.id].status \in {"ACCEPTED"} \union Final
    OBVIOUS
  <2>1. k.id \in Ids
    BY DEF IndInv, TypeOK, ResolveType
  <2> QED
    BY <1>1, <2>1, FlightsFrom DEF WorkAgrees
<1>5. leaving' \cap accounts' = {}
  BY FlightsFrom, AccountsShrink DEF WorkAgrees
<1> QED
  BY <1>3, <1>4, <1>5 DEF WorkAgrees

-----------------------------------------------------------------------------
(* Pair locks.                                                              *)

\* The lock of a row that binds its players goes with the row or with its TTL only.
LEMMA LockStays ==
  ASSUME IndInv, WorkAgrees, LocksAgree, [Next]_vars,
         NEW l \in locks, Binds(l.token), IsActive(l.token) \/ Binds(l.token)',
         Tick => l.left > 1
  PROVE  \E k \in locks' :
           /\ k.pair = l.pair /\ k.token = l.token
           /\ Waiting(l.token) => k.left >= IF Tick THEN l.left - 1 ELSE l.left
<1> USE DEF stored
<1> DEFINE d == l.token
           G == \E k \in locks' :
             /\ k.pair = l.pair /\ k.token = l.token
             /\ Waiting(l.token) => k.left >= IF Tick THEN l.left - 1 ELSE l.left
<1>0. d \in Ids /\ l.left \in Nat /\ l \in LockType
  BY TimeAssumption DEF IndInv, TypeOK, LockType, Max2
<1>1. CASE l \in locks'
  BY <1>0, <1>1
<1>2. ASSUME NEW s \in Slots, RequestStep(s) PROVE G
  <2>1. CASE Rollback(s)
    <3>1. duel'[slot[s].id].status = "ABORTED" /\ duel[slot[s].id].status = "INSERTED"
      BY <2>1 DEF Rollback, Blank, IndInv, SlotsAgree, TypeOK
    <3>2. slot[s].id # d
      BY <3>1 DEF Binds, IsActive
    <3> QED
      BY <1>1, <2>1, <3>2 DEF Rollback, Release
  <2>2. CASE \E e \in Ids : InsertRow(s, e)
    BY <1>1, <2>2 DEF InsertRow, Acquire
  <2>3. CASE Lookup(s) \/ GuardsPass(s) \/ GuardsRefuse(s) \/ LockFirst(s) \/ InsertRetry(s) \/ InsertRefused(s)
             \/ Commit(s) \/ Created(s)
    BY <1>1, <2>3 DEF Lookup, GuardsPass, GuardsRefuse, LockFirst, InsertRetry, InsertRefused, Commit, Created
  <2> QED
    BY <1>2, <2>1, <2>2, <2>3 DEF RequestStep
<1>3. CASE (\E s \in Slots, ask \in Asks : Receive(s, ask)) \/ InviteNext \/ Sweep \/ Crash
           \/ UNCHANGED vars
  BY <1>1, <1>3 DEF Receive, InviteNext, InviteCheck, InviteRead, InviteEmit, InviteLost, InviteMark, InviteKeeps,
              Sweep, SweepPending, SweepAccepted, Crash, vars
<1>4. CASE \E e \in Ids : Accept(e) \/ Reject(e) \/ Expire(e) \/ ExpireFails(e) \/ ReportResult(e)
                         \/ VoidByGame(e) \/ \E w \in Winners : ResolveStart(e, w)
  BY <1>1, <1>4 DEF Accept, Reject, Expire, ExpireFails, ReportResult, VoidByGame, ResolveStart
<1>5. CASE \E t \in resolving : ResolveCommit(t) \/ ResolveFails(t) \/ ResolveLost(t)
  BY <1>1, <1>5 DEF ResolveCommit, ResolveFails, ResolveLost
<1>6. ASSUME NEW t \in after, Settle(t) PROVE G
  <2>1. CASE locks' = Release(t.pair, t.id) /\ t.lock = "release"
    <3>1. duel[t.id].status \in Final
      BY <2>1 DEF WorkAgrees
    <3>2. t.id # d
      BY <3>1 DEF Binds
    <3> QED
      BY <1>1, <2>1, <3>2 DEF Release
  <2>2. CASE locks' = Extended(t.pair, t.id, DUEL_ACTIVE_TTL)
    <3>1. CASE l.pair = t.pair /\ d = t.id
      <4> DEFINE k == [l EXCEPT !.left = DUEL_ACTIVE_TTL]
      <4>1. k \in locks'
        BY <2>2, <3>1 DEF Extended
      <4>2. k.pair = l.pair /\ k.token = l.token
        BY <1>0 DEF LockType
      <4>3. ~Waiting(d)
        BY <3>1 DEF WorkAgrees, Waiting
      <4> QED
        BY <4>1, <4>2, <4>3
    <3>2. CASE ~(l.pair = t.pair /\ d = t.id)
      BY <1>1, <2>2, <3>2 DEF Extended
    <3> QED
      BY <3>1, <3>2
  <2>3. CASE locks' = locks
    BY <1>1, <2>3
  <2> QED
    BY <1>6, <2>1, <2>2, <2>3 DEF Settle
<1>7. ASSUME NEW u \in Users, Purge(u) PROVE G
  <2>1. u \notin accounts
    BY <1>7 DEF Purge, WorkAgrees
  <2>2. l.pair = Players(d) /\ Players(d) \subseteq accounts
    BY <1>0 DEF LocksAgree, IndInv, BoundPlayersExist, Players
  <2> QED
    BY <1>1, <1>7, <2>1, <2>2 DEF Purge
<1>8. CASE \E v \in Users : Leave(v) \/ ShieldLapses(v) \/ PenaltyLapses(v)
  BY <1>1, <1>8 DEF Leave, ShieldLapses, PenaltyLapses
<1>9. CASE Tick
  <2> DEFINE k == [l EXCEPT !.left = @ - 1]
  <2>1. k \in locks'
    BY <1>9 DEF Tick
  <2>2. k.pair = l.pair /\ k.token = l.token /\ k.left = l.left - 1
    BY <1>0 DEF LockType
  <2> HIDE DEF k
  <2>3. k.left >= l.left - 1
    BY <1>0, <2>2
  <2> QED
    BY <1>9, <2>1, <2>2, <2>3
<1> QED
  BY <1>2, <1>3, <1>4, <1>5, <1>6, <1>7, <1>8, <1>9 DEF Next

\* A lock is an old one, or the one of the row this step inserts.
LEMMA LocksFrom ==
  ASSUME IndInv, [Next]_vars, NEW k \in locks'
  PROVE  \/ \E l \in locks : k.pair = l.pair /\ k.token = l.token
         \/ \E s \in Slots, d \in Ids :
              /\ InsertRow(s, d) /\ ~Held({slot[s].user, slot[s].target})
              /\ k = [pair |-> {slot[s].user, slot[s].target}, token |-> d, left |-> DUEL_REQUEST_TTL]
<1> USE DEF stored
<1> DEFINE Old == \E l \in locks : k.pair = l.pair /\ k.token = l.token
           New == \E s \in Slots, d \in Ids :
              /\ InsertRow(s, d) /\ ~Held({slot[s].user, slot[s].target})
              /\ k = [pair |-> {slot[s].user, slot[s].target}, token |-> d, left |-> DUEL_REQUEST_TTL]
<1>0. locks \subseteq LockType
  BY DEF IndInv, TypeOK
<1>1. CASE locks' \subseteq locks
  BY <1>1
<1>2. ASSUME NEW s \in Slots, RequestStep(s) PROVE Old \/ New
  <2>1. ASSUME NEW d \in Ids, InsertRow(s, d) PROVE Old \/ New
    BY <1>1, <2>1 DEF InsertRow, Acquire
  <2>2. CASE Lookup(s) \/ GuardsPass(s) \/ GuardsRefuse(s) \/ LockFirst(s) \/ InsertRetry(s) \/ InsertRefused(s)
             \/ Commit(s) \/ Created(s) \/ Rollback(s)
    BY <1>1, <2>2 DEF Lookup, GuardsPass, GuardsRefuse, LockFirst, InsertRetry, InsertRefused, Commit, Created,
                      Rollback, Release
  <2> QED
    BY <1>2, <2>1, <2>2 DEF RequestStep
<1>3. CASE (\E s \in Slots, ask \in Asks : Receive(s, ask)) \/ InviteNext \/ Sweep \/ Crash
           \/ UNCHANGED vars
  BY <1>1, <1>3 DEF Receive, InviteNext, InviteCheck, InviteRead, InviteEmit, InviteLost, InviteMark, InviteKeeps,
              Sweep, SweepPending, SweepAccepted, Crash, vars
<1>4. CASE \E e \in Ids : Accept(e) \/ Reject(e) \/ Expire(e) \/ ExpireFails(e) \/ ReportResult(e)
                         \/ VoidByGame(e) \/ \E w \in Winners : ResolveStart(e, w)
  BY <1>1, <1>4 DEF Accept, Reject, Expire, ExpireFails, ReportResult, VoidByGame, ResolveStart
<1>5. CASE \E t \in resolving : ResolveCommit(t) \/ ResolveFails(t) \/ ResolveLost(t)
  BY <1>1, <1>5 DEF ResolveCommit, ResolveFails, ResolveLost
<1>6. ASSUME NEW t \in after, Settle(t) PROVE Old
  <2>1. CASE locks' \subseteq locks
    BY <2>1
  <2>2. CASE locks' = Extended(t.pair, t.id, DUEL_ACTIVE_TTL)
    <3>1. PICK l \in locks : k = l \/ k = [l EXCEPT !.left = DUEL_ACTIVE_TTL]
      BY <2>2 DEF Extended
    <3>2. [l EXCEPT !.left = DUEL_ACTIVE_TTL].pair = l.pair /\ [l EXCEPT !.left = DUEL_ACTIVE_TTL].token = l.token
      BY <1>0 DEF LockType
    <3> QED
      BY <3>1, <3>2
  <2> QED
    BY <1>6, <2>1, <2>2 DEF Settle, Release
<1>7. CASE \E v \in Users : Leave(v) \/ Purge(v) \/ ShieldLapses(v) \/ PenaltyLapses(v)
  BY <1>1, <1>7 DEF Leave, Purge, ShieldLapses, PenaltyLapses
<1>8. CASE Tick
  <2>1. PICK l \in locks : k = [l EXCEPT !.left = @ - 1]
    BY <1>8 DEF Tick
  <2>2. [l EXCEPT !.left = @ - 1].pair = l.pair /\ [l EXCEPT !.left = @ - 1].token = l.token
    BY <1>0 DEF LockType
  <2> QED
    BY <2>1, <2>2
<1> QED
  BY <1>2, <1>3, <1>4, <1>5, <1>6, <1>7, <1>8 DEF Next

\* An age grows by one, below the response time.
LEMMA TickAges ==
  ASSUME IndInv, Tick, NEW d \in Ids, Waiting(d), duel'[d].age < DUEL_REQUEST_TTL
  PROVE  duel'[d].age = duel[d].age + 1
<1>1. duel[d] \in Row /\ duel[d].age \in 0 .. AgeCap
  BY DEF IndInv, TypeOK, Row
<1>2. duel'[d] = Aged(duel[d])
  BY DEF Tick, Waiting
<1>3. duel'[d].age = Older(duel[d].age)
  BY <1>1, <1>2 DEF Aged, Row
<1>4. AgeCap > DUEL_REQUEST_TTL /\ AgeCap \in Nat
  BY Caps, TimeAssumption DEF AgeCap, PendingCutoff, Max2
<1> QED
  BY <1>1, <1>3, <1>4, TimeAssumption DEF Older

LEMMA LocksAgreeInv ==
  ASSUME IndInv, IndInv', WorkAgrees, LocksAgree, [Next]_vars
  PROVE  LocksAgree'
<1>1. ASSUME NEW d \in Ids, Waiting(d)', duel'[d].age < DUEL_REQUEST_TTL
      PROVE  \E k \in locks' : /\ k.pair = Players(d)' /\ k.token = d
                               /\ k.left + duel'[d].age >= DUEL_REQUEST_TTL
  <2>1. Binds(d)' /\ RowStep(d)
    BY <1>1, RowSteps DEF Binds, Waiting
  <2>2. duel[d].age \in Nat /\ duel'[d].age \in Nat
    BY Caps DEF IndInv, TypeOK, Row
  <2>3. CASE RowNew(d)
    <3>1. PICK s \in Slots : /\ InsertRow(s, d) /\ ~Held({slot[s].user, slot[s].target})
                             /\ duel'[d] = NewRow(s)
      BY <2>3 DEF RowNew
    <3> DEFINE k == [pair |-> {slot[s].user, slot[s].target}, token |-> d, left |-> DUEL_REQUEST_TTL]
    <3>2. k \in locks'
      BY <3>1 DEF InsertRow, Acquire
    <3>3. Players(d)' = {slot[s].user, slot[s].target}
      BY <3>1, NewRowFields DEF Players
    <3>4. k.left + duel'[d].age >= DUEL_REQUEST_TTL
      BY <2>2, TimeAssumption
    <3> QED
      BY <3>2, <3>3, <3>4
  <2>4. CASE RowKept(d) /\ Binds(d) /\ Players(d)' = Players(d)
    <3>1. Waiting(d)
      BY <1>1, <2>4 DEF RowKept, Waiting
    <3>2. IF Tick THEN duel'[d].age = duel[d].age + 1 ELSE duel'[d].age = duel[d].age
      BY <1>1, <2>4, <3>1, TickAges DEF RowKept
    <3>3. duel[d].age < DUEL_REQUEST_TTL
      BY <1>1, <2>2, <3>2, TimeAssumption
    <3>4. PICK l \in locks : /\ l.pair = Players(d) /\ l.token = d
                             /\ l.left + duel[d].age >= DUEL_REQUEST_TTL
      BY <3>1, <3>3 DEF LocksAgree
    <3>5. l.left \in Nat
      BY TimeAssumption DEF IndInv, TypeOK, LockType, Max2
    <3>6. Tick => l.left > 1
      BY <1>1, <2>2, <3>2, <3>4, <3>5, TimeAssumption
    <3>7. PICK k \in locks' : /\ k.pair = l.pair /\ k.token = l.token
                              /\ k.left >= IF Tick THEN l.left - 1 ELSE l.left
      BY <2>1, <2>4, <3>1, <3>4, <3>6, LockStays
    <3>8. k.left \in Nat
      BY TimeAssumption DEF IndInv, TypeOK, LockType, Max2
    <3>9. k.left + duel'[d].age >= DUEL_REQUEST_TTL
      BY <2>2, <3>2, <3>4, <3>5, <3>7, <3>8, TimeAssumption
    <3> QED
      BY <2>4, <3>4, <3>7, <3>9
  <2> QED
    BY <2>1, <2>3, <2>4, WasBound
<1>2. ASSUME NEW k \in locks'
      PROVE  duel'[k.token].status # "NONE" /\ (Binds(k.token)' => k.pair = Players(k.token)')
  <2>1. CASE \E l \in locks : k.pair = l.pair /\ k.token = l.token
    <3>1. PICK l \in locks : k.pair = l.pair /\ k.token = l.token
      BY <2>1
    <3>2. PICK d \in Ids : d = k.token
      BY DEF IndInv, TypeOK, LockType
    <3>3. duel[d].status # "NONE" /\ (Binds(d) => k.pair = Players(d))
      BY <3>1, <3>2 DEF LocksAgree
    <3>4. RowStep(d) /\ ~RowNew(d)
      BY <3>3, RowSteps DEF RowNew
    <3>5. duel'[d].status # "NONE"
      BY <3>3, <3>4 DEF RowStep, RowKept, RowBurnt
    <3>6. Binds(d)' => k.pair = Players(d)'
      BY <3>3, <3>4, WasBound
    <3> QED
      BY <3>2, <3>5, <3>6
  <2>2. ASSUME NEW s \in Slots, NEW d \in Ids, InsertRow(s, d), ~Held({slot[s].user, slot[s].target}),
               k = [pair |-> {slot[s].user, slot[s].target}, token |-> d, left |-> DUEL_REQUEST_TTL]
        PROVE  duel'[k.token].status # "NONE" /\ (Binds(k.token)' => k.pair = Players(k.token)')
    <3>1. duel' = [duel EXCEPT ![d] = NewRow(s)]
      BY <2>2 DEF InsertRow
    <3>2. duel'[d] = NewRow(s)
      BY <3>1 DEF IndInv, TypeOK
    <3>3. duel'[d].status = "INSERTED" /\ Players(d)' = {slot[s].user, slot[s].target}
      BY <3>2, NewRowFields DEF Players
    <3>4. k.token = d /\ k.pair = {slot[s].user, slot[s].target}
      BY <2>2
    <3> QED
      BY <3>3, <3>4
  <2> QED
    BY <2>1, <2>2, LocksFrom
<1> QED
  BY <1>1, <1>2 DEF LocksAgree

-----------------------------------------------------------------------------
(* The promises.                                                            *)
LEMMA PromiseStep == PromiseInv /\ [Next]_vars => PromiseInv'
<1> SUFFICES ASSUME PromiseInv, [Next]_vars PROVE PromiseInv'
  OBVIOUS
<1>1. IndInv /\ IndInv'
  BY NextInv DEF PromiseInv
<1>2. RequestsApart'
  BY <1>1, RequestsApartInv DEF PromiseInv
<1>3. SeenFirst'
  BY <1>1, SeenFirstInv DEF PromiseInv
<1>4. ShieldsPaid'
  BY <1>1, ShieldsPaidInv DEF PromiseInv
<1>5. LocksAgree'
  BY <1>1, LocksAgreeInv DEF PromiseInv
<1>6. WorkAgrees'
  BY <1>1, WorkAgreesInv DEF PromiseInv
<1> QED
  BY <1>1, <1>2, <1>3, <1>4, <1>5, <1>6 DEF PromiseInv

\* The promises hold together: emitted before charged, charged before shielded,
\* locked as long as answerable, and one row for a requestId.
THEOREM PromisesKept == Spec => []PromiseInv
<1>1. Init => PromiseInv
  BY InitPromises
<1>2. PromiseInv /\ [Next]_vars => PromiseInv'
  BY PromiseStep
<1> QED
  BY <1>1, <1>2, PTL DEF Spec

\* Who never got the invitation is not charged for its silence, and who has a
\* shield was charged (buildNoResponseCharges reads inviteDelivered, and
\* grantShields follows the transaction that wrote the entry).
THEOREM SilenceIsPriced == Spec => []SilenceHasItsPrice
<1>1. PromiseInv => SilenceHasItsPrice
  <2> SUFFICES ASSUME PromiseInv PROVE SilenceHasItsPrice
    OBVIOUS
  <2>1. NoChargeUnseen
    BY DEF PromiseInv, IndInv, LedgerAgrees, SeenFirst, Ignored, NoChargeUnseen
  <2>2. \A d \in Ids : Charged(d) => Charges(d) = 1
    BY DEF PromiseInv, IndInv, LedgerAgrees, Charged, Charges
  <2>3. ShieldPaidFor
    BY <2>2 DEF PromiseInv, ShieldsPaid, Guarded, ShieldPaidFor
  <2> QED
    BY <2>1, <2>3 DEF SilenceHasItsPrice
<1> QED
  BY <1>1, PromisesKept, PTL

\* A duel that can be answered holds the lock of its pair: requestDuel takes the
\* lock before it commits, its TTL outlives the response time, and a late
\* release of another request has another token.
THEOREM AnswerableIsLocked == Spec => []AnswerableHoldsLock
<1>1. PromiseInv => AnswerableHoldsLock
  BY DEF PromiseInv, LocksAgree, Waiting, AnswerableHoldsLock
<1> QED
  BY <1>1, PromisesKept, PTL

\* No step takes the lock of an active duel away before its TTL (releaseLock
\* compares the token; the releases of a rolled back request come late).
THEOREM LocksOutlastRivals == Spec => ActiveLockStays
<1>1. PromiseInv /\ [Next]_vars =>
        [\A l \in locks : IsActive(l.token) /\ l.left > 1
            => \E k \in locks' : k.pair = l.pair /\ k.token = l.token]_vars
  <2> SUFFICES ASSUME PromiseInv, [Next]_vars, NEW l \in locks, IsActive(l.token), l.left > 1
               PROVE  \E k \in locks' : k.pair = l.pair /\ k.token = l.token
    OBVIOUS
  <2> QED
    BY LockStays DEF PromiseInv, Binds, IsActive
<1> QED
  BY <1>1, PromisesKept, PTL DEF Spec, ActiveLockStays

\* findRequestRetry inside the transaction: the copy that comes second is told of
\* the duel of the first, and never makes a second one.
THEOREM RetriesAreAnswered == Spec => RequestIsIdempotent
<1>1. PromiseInv => OneDuelPerRequest
  BY DEF PromiseInv, RequestsApart, Present, OneDuelPerRequest
<1> DEFINE A == \A s \in Slots : slot[s].phase = "half" /\ slot'[s].phase = "refused"
                  => ~\E d \in Ids : OwnRow(s, d) /\ SameTarget(s, d)
<1>2. PromiseInv /\ [Next]_vars => [A]_vars
  <2> SUFFICES ASSUME PromiseInv, [Next]_vars, NEW s \in Slots, slot[s].phase = "half",
                      slot'[s].phase = "refused",
                      NEW d \in Ids, OwnRow(s, d), SameTarget(s, d)
               PROVE  FALSE
    OBVIOUS
  <2>1. slot \in [Slots -> SlotType] /\ Idle.phase = "idle"
    BY DEF PromiseInv, IndInv, TypeOK, Idle
  <2>2. ASSUME NEW q \in Slots, RequestStep(q)
        PROVE  InsertRetry(s) \/ RequestIsNew(s)
    <3>1. CASE q = s
      <4>1. CASE \E e \in Ids : InsertRow(s, e)
        BY <4>1 DEF InsertRow
      <4> QED
        BY <2>1, <2>2, <3>1, <4>1 DEF RequestStep, Lookup, GuardsPass, GuardsRefuse, LockFirst, InsertRefused, Commit,
                                      Rollback, Created
    <3>2. CASE q # s
      <4>1. slot'[s] = slot[s]
        BY <2>1, <2>2, <3>2 DEF RequestStep, Lookup, Rejoin, GuardsPass, GuardsRefuse, LockFirst, InsertRetry,
                                InsertRefused, InsertRow, Commit, Rollback, Created
      <4> QED
        BY <4>1
    <3> QED
      BY <3>1, <3>2
  <2>3. CASE InsertRetry(s)
    <3>1. PICK e \in Ids : OwnRow(s, e) /\ Rejoin(s, e)
      BY <2>3 DEF InsertRetry
    <3>2. slot[s].user # NoUser
      BY UsersAssumption DEF PromiseInv, IndInv, SlotsAgree
    <3>3. d = e
      BY <1>1, <3>1, <3>2 DEF OwnRow, OneDuelPerRequest
    <3>4. slot'[s] = Idle
      BY <2>1, <3>1, <3>3 DEF Rejoin
    <3> QED
      BY <2>1, <3>4
  <2>4. CASE RequestIsNew(s)
    BY <2>4 DEF RequestIsNew
  <2>5. CASE UNCHANGED slot
    BY <2>5
  <2>6. CASE Crash \/ Tick
    BY <2>1, <2>6 DEF Crash, Tick, SlotType
  <2>7. CASE \E q \in Slots, ask \in Asks : Receive(q, ask)
    BY <2>1, <2>7 DEF Receive
  <2>8. CASE InviteNext \/ Sweep \/ (\E t \in after : Settle(t)) \/ UNCHANGED vars
    BY <2>5, <2>8 DEF InviteNext, InviteCheck, InviteRead, InviteEmit, InviteLost, InviteMark, InviteKeeps,
                      Sweep, SweepPending, SweepAccepted, Settle, vars, memory
  <2>9. CASE \E e \in Ids : Accept(e) \/ Reject(e) \/ Expire(e) \/ ExpireFails(e) \/ ReportResult(e)
                            \/ VoidByGame(e) \/ \E w \in Winners : ResolveStart(e, w)
    BY <2>5, <2>9 DEF Accept, Reject, Expire, ExpireFails, ReportResult, VoidByGame, ResolveStart, memory
  <2>10. CASE \E t \in resolving : ResolveCommit(t) \/ ResolveFails(t) \/ ResolveLost(t)
    BY <2>5, <2>10 DEF ResolveCommit, ResolveFails, ResolveLost
  <2>11. CASE \E v \in Users : Leave(v) \/ Purge(v) \/ ShieldLapses(v) \/ PenaltyLapses(v)
    BY <2>5, <2>11 DEF Leave, Purge, ShieldLapses, PenaltyLapses, memory
  <2> QED
    BY <2>2, <2>3, <2>4, <2>6, <2>7, <2>8, <2>9, <2>10, <2>11 DEF Next
<1> QED
  BY <1>1, <1>2, PromisesKept, PTL DEF Spec, RequestIsIdempotent
=============================================================================
