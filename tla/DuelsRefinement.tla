-------------------------- MODULE DuelsRefinement --------------------------
(***************************************************************************)
(* Proof that the rows of duels.service.ts follow the life cycle of        *)
(* DuelLifecycle: the commit of a request opens a duel, and every other    *)
(* step leaves each duel alone or takes it along one edge.                 *)
(***************************************************************************)
EXTENDS DuelsProofs

USE DEF Invisible, Active, Unresolved, Final, DuelStatus, EntryType

\* A row as the life cycle sees it: nothing happens to it in a step ...
Keeps(d) ==
  /\ \/ duel'[d].status = duel[d].status /\ duel'[d].revision = duel[d].revision
        /\ duel'[d].scoreDelta = duel[d].scoreDelta
     \/ duel[d].status \in Invisible /\ duel'[d].status \in Invisible
  /\ IsActive(d) => Players(d)' = Players(d)
\* ... or it takes one edge.
Goes(d) ==
  /\ <<duel[d].status, duel'[d].status>> \in Lifecycle!Edges
  /\ duel'[d].revision = duel[d].revision + 1
  /\ duel'[d].status = "ACCEPTED" => Players(d)' = Players(d)
Follows == \A d \in Ids : Keeps(d) \/ Goes(d)

-----------------------------------------------------------------------------
(* The mapping.                                                             *)

\* The charges of a duel are a function of its row.
LEMMA ChargesAre ==
  ASSUME IndInv, NEW d \in Ids
  PROVE  Charges(d) = IF duel[d].status = "REJECTED" \/
                         (duel[d].status = "EXPIRED" /\ duel[d].scoreDelta > 0) THEN 1 ELSE 0
  BY DEF IndInv, LedgerAgrees, Charges

LEMMA KeepsStays ==
  ASSUME IndInv, IndInv', NEW d \in Ids, Keeps(d)
  PROVE  Lifecycle!Stays(d)
<1>1. Charges(d) = IF duel[d].status = "REJECTED" \/
                      (duel[d].status = "EXPIRED" /\ duel[d].scoreDelta > 0) THEN 1 ELSE 0
  BY ChargesAre
<1>2. Charges(d)' = IF duel'[d].status = "REJECTED" \/
                       (duel'[d].status = "EXPIRED" /\ duel'[d].scoreDelta > 0) THEN 1 ELSE 0
  BY DEF IndInv, LedgerAgrees, Charges
<1>3. Charges(d)' = Charges(d) /\ duel'[d].revision = duel[d].revision
  BY <1>1, <1>2 DEF Keeps, IndInv, InvisibleIsNew
<1>4. (Visible(d)' <=> Visible(d)) /\ (Visible(d) => duel'[d].status = duel[d].status)
  BY DEF Keeps, Visible
<1>5. (IsActive(d)' <=> IsActive(d)) /\ (IsActive(d) => Players(d)' = Players(d))
  BY DEF Keeps, IsActive
<1> QED
  BY <1>3, <1>4, <1>5 DEF Lifecycle!Stays

LEMMA GoesMoves ==
  ASSUME IndInv, IndInv', NEW d \in Ids, Goes(d)
  PROVE  Lifecycle!Moves(d)
<1>1. Charges(d) = IF duel[d].status = "REJECTED" \/
                      (duel[d].status = "EXPIRED" /\ duel[d].scoreDelta > 0) THEN 1 ELSE 0
  BY ChargesAre
<1>2. Charges(d)' = IF duel'[d].status = "REJECTED" \/
                       (duel'[d].status = "EXPIRED" /\ duel'[d].scoreDelta > 0) THEN 1 ELSE 0
  BY DEF IndInv, LedgerAgrees, Charges
<1>3. /\ Visible(d) /\ Visible(d)' /\ IsActive(d)
      /\ IsActive(d)' <=> duel'[d].status = "ACCEPTED"
  BY DEF Goes, Lifecycle!Edges, Visible, IsActive
<1>4. Charges(d)' \in CASE duel'[d].status = "REJECTED" -> {1}
                        [] duel'[d].status = "EXPIRED"  -> {0, 1}
                        [] OTHER                        -> {Charges(d)}
  BY <1>1, <1>2 DEF Goes, Lifecycle!Edges
<1> QED
  BY <1>3, <1>4 DEF Goes, Lifecycle!Moves

LEMMA FollowsAdvances ==
  ASSUME IndInv, IndInv', Follows
  PROVE  Lifecycle!Next
  BY KeepsStays, GoesMoves DEF Follows, Lifecycle!Next, Lifecycle!Advance

\* A step that leaves the table alone.
LEMMA RowsStay ==
  ASSUME UNCHANGED duel
  PROVE  Follows
  BY DEF Follows, Keeps, Players, IsActive

\* A step that changes one row.
LEMMA OneFollows ==
  ASSUME IndInv, NEW d \in Ids, NEW r, duel' = [duel EXCEPT ![d] = r], Keeps(d) \/ Goes(d)
  PROVE  Follows
<1>1. \A e \in Ids \ {d} : duel'[e] = duel[e]
  BY DEF IndInv, TypeOK
<1>2. \A e \in Ids \ {d} : Keeps(e)
  BY <1>1 DEF Keeps, Players
<1> QED
  BY <1>2 DEF Follows

-----------------------------------------------------------------------------
(* The steps of Duels.                                                      *)

LEMMA EdgesAre ==
  /\ <<"PENDING", "ACCEPTED">> \in Lifecycle!Edges /\ <<"PENDING", "REJECTED">> \in Lifecycle!Edges
  /\ <<"PENDING", "EXPIRED">> \in Lifecycle!Edges /\ <<"ACCEPTED", "VOID">> \in Lifecycle!Edges
  /\ <<"ACCEPTED", "COMPLETED">> \in Lifecycle!Edges
  BY DEF Lifecycle!Edges

\* An update that ends one active duel.
LEMMA EndFollows ==
  ASSUME IndInv, NEW d \in Ids, NEW st \in Final, NEW p \in Nat,
         duel' = [duel EXCEPT ![d] = Ended(d, st, p)], <<duel[d].status, st>> \in Lifecycle!Edges
  PROVE  Follows
<1>1. duel[d] \in Row
  BY DEF IndInv, TypeOK
<1>2. /\ Ended(d, st, p).status = st /\ Ended(d, st, p).revision = duel[d].revision + 1
  BY <1>1, EndedIsRow
<1>3. duel'[d] = Ended(d, st, p)
  BY DEF IndInv, TypeOK
<1>4. Goes(d)
  BY <1>2, <1>3 DEF Goes
<1> QED
  BY <1>4, OneFollows

LEMMA AnswerFollows ==
  ASSUME IndInv, NEW d \in Ids, Accept(d) \/ Reject(d) \/ Expire(d) \/ ExpireFails(d)
  PROVE  Follows
<1>1. duel[d] \in Row
  BY DEF IndInv, TypeOK
<1>2. CASE Accept(d)
  <2>1. /\ Accepted(d).status = "ACCEPTED" /\ Accepted(d).revision = duel[d].revision + 1
        /\ Accepted(d).challengerId = duel[d].challengerId
        /\ Accepted(d).opponentId = duel[d].opponentId
    BY <1>1, AcceptedIsRow
  <2>2. duel' = [duel EXCEPT ![d] = Accepted(d)] /\ duel[d].status = "PENDING"
    BY <1>2 DEF Accept, StillPending
  <2>3. duel'[d] = Accepted(d)
    BY <2>2 DEF IndInv, TypeOK
  <2>4. Goes(d)
    BY <2>1, <2>2, <2>3, EdgesAre DEF Goes, Players
  <2> QED
    BY <2>2, <2>4, OneFollows
<1>3. CASE Reject(d)
  <2>1. duel[d].status = "PENDING" /\ DUEL_REJECT_SCORE_PENALTY \in Nat
    BY <1>3 DEF Reject, StillPending, DUEL_REJECT_SCORE_PENALTY
  <2> QED
    BY <1>3, <2>1, EdgesAre, EndFollows DEF Reject
<1>4. CASE Expire(d) /\ StillPending(d)
  <2> DEFINE p == IF Chargeable(d) THEN DUEL_NO_RESPONSE_SCORE_PENALTY ELSE 0
  <2>1. p \in Nat /\ duel[d].status = "PENDING"
    BY <1>4 DEF StillPending, DUEL_NO_RESPONSE_SCORE_PENALTY, DUEL_REJECT_SCORE_PENALTY
  <2>2. duel' = [duel EXCEPT ![d] = Ended(d, "EXPIRED", p)]
    BY <1>4 DEF Expire
  <2> HIDE DEF p
  <2> QED
    BY <2>1, <2>2, EdgesAre, EndFollows
<1>5. CASE ExpireFails(d) \/ (Expire(d) /\ ~StillPending(d))
  BY <1>5, RowsStay DEF ExpireFails, Expire, stored
<1> QED
  BY <1>2, <1>3, <1>4, <1>5

LEMMA GameFollows ==
  ASSUME IndInv, NEW d \in Ids,
         ReportResult(d) \/ VoidByGame(d) \/ \E w \in Winners : ResolveStart(d, w)
  PROVE  Follows
<1>1. CASE ReportResult(d)
  <2>1. duel[d] \in Row /\ duel[d].reports < MaxReports /\ duel' = [duel EXCEPT ![d] = Reported(d)]
    BY <1>1 DEF ReportResult, IndInv, TypeOK
  <2>2. /\ duel'[d].status = duel[d].status /\ duel'[d].revision = duel[d].revision
        /\ duel'[d].scoreDelta = duel[d].scoreDelta
        /\ duel'[d].challengerId = duel[d].challengerId
        /\ duel'[d].opponentId = duel[d].opponentId
    BY <2>1, ReportedIsRow DEF IndInv, TypeOK
  <2>3. Keeps(d)
    BY <2>2 DEF Keeps, Players
  <2> QED
    BY <2>1, <2>3, OneFollows
<1>2. CASE VoidByGame(d)
  BY <1>2, EdgesAre, EndFollows DEF VoidByGame
<1>3. CASE \E w \in Winners : ResolveStart(d, w)
  BY <1>3, RowsStay DEF ResolveStart
<1> QED
  BY <1>1, <1>2, <1>3

LEMMA ResolveFollows ==
  ASSUME IndInv, NEW t \in resolving, ResolveCommit(t) \/ ResolveFails(t) \/ ResolveLost(t)
  PROVE  Follows
<1>1. CASE ResolveCommit(t)
  <2>1. t \in ResolveType /\ t.id \in Ids /\ duel[t.id] \in Row
    BY DEF IndInv, TypeOK, ResolveType
  <2>2. duel' = [duel EXCEPT ![t.id] = Decided(t)] /\ duel[t.id].status = "ACCEPTED"
    BY <1>1 DEF ResolveCommit
  <2>3. duel'[t.id].status = "COMPLETED" /\ duel'[t.id].revision = duel[t.id].revision + 1
    BY <2>1, <2>2, DecidedIsRow DEF IndInv, TypeOK
  <2>4. Goes(t.id)
    BY <2>2, <2>3, EdgesAre DEF Goes
  <2> QED
    BY <2>1, <2>2, <2>4, OneFollows
<1>2. CASE ResolveFails(t) \/ ResolveLost(t)
  BY <1>2, RowsStay DEF ResolveFails, ResolveLost
<1> QED
  BY <1>1, <1>2

LEMMA SweepFollows ==
  ASSUME IndInv, Sweep
  PROVE  Follows
<1>1. CASE SweepAccepted
  <2> DEFINE r(d) == Ended(d, "VOID", 0)
  <2>1. duel' = [d \in Ids |-> IF StaleAccepted(d) THEN r(d) ELSE duel[d]]
    BY <1>1 DEF SweepAccepted
  <2>2. \A d \in Ids : r(d).status = "VOID" /\ r(d).revision = duel[d].revision + 1
    BY EndedIsRow DEF IndInv, TypeOK
  <2> HIDE DEF r
  <2>3. \A d \in Ids : Keeps(d) \/ Goes(d)
    BY <2>1, <2>2, EdgesAre DEF Keeps, Goes, StaleAccepted, Players
  <2> QED
    BY <2>3 DEF Follows
<1>2. CASE \E batch \in SUBSET Ids : \E charged \in SUBSET batch : SweepPending(batch, charged)
  <2> PICK batch \in SUBSET Ids : \E charged \in SUBSET batch : SweepPending(batch, charged)
    BY <1>2
  <2>1. PICK charged \in SUBSET batch : SweepPending(batch, charged)
    OBVIOUS
  <2> DEFINE p(d) == IF d \in charged THEN DUEL_NO_RESPONSE_SCORE_PENALTY ELSE 0
             r(d) == Ended(d, "EXPIRED", p(d))
  <2>2. duel' = [d \in Ids |-> IF d \notin batch THEN duel[d] ELSE r(d)]
    BY <2>1 DEF SweepPending
  <2>3. \A d \in Ids : p(d) \in Nat
    BY DEF DUEL_NO_RESPONSE_SCORE_PENALTY, DUEL_REJECT_SCORE_PENALTY
  <2> HIDE DEF p
  <2>4. \A d \in Ids : r(d).status = "EXPIRED" /\ r(d).revision = duel[d].revision + 1
    BY <2>3, EndedIsRow DEF IndInv, TypeOK
  <2> HIDE DEF r
  <2>5. \A d \in batch : duel[d].status = "PENDING"
    BY <2>1 DEF SweepPending, StalePending, StillPending
  <2>6. \A d \in Ids : Keeps(d) \/ Goes(d)
    BY <2>2, <2>4, <2>5, EdgesAre DEF Keeps, Goes, Players
  <2> QED
    BY <2>6 DEF Follows
<1> QED
  BY <1>1, <1>2 DEF Sweep

\* The foreign keys of a leaver become NULL in finished duels only.
LEMMA LeaveFollows ==
  ASSUME IndInv, NEW u \in Users, Leave(u)
  PROVE  Follows
<1> DEFINE st(d) == IF duel[d].status = "PENDING" THEN "EXPIRED" ELSE "VOID"
           e(d) == Ended(d, st(d), 0)
           r(d) == IF ~Involves(d, u) THEN Without(duel[d], u) ELSE Without(e(d), u)
<1>1. duel' = [d \in Ids |-> r(d)]
  BY DEF Leave
<1>2. \A d \in Ids : duel[d] \in Row
  BY DEF IndInv, TypeOK
<1>3. \A d \in Ids : e(d) \in Row /\ e(d).status = st(d) /\ e(d).revision = duel[d].revision + 1
  BY <1>2, EndedIsRow
<1> HIDE DEF e
<1>4. \A d \in Ids : Involves(d, u) =>
        r(d).status = st(d) /\ r(d).revision = duel[d].revision + 1 /\ duel[d].status \in Active
  BY <1>3, WithoutIsRow DEF Involves, IsActive
<1>5. \A d \in Ids : ~Involves(d, u) =>
        /\ r(d).status = duel[d].status /\ r(d).scoreDelta = duel[d].scoreDelta
        /\ r(d).revision = duel[d].revision
        /\ IsActive(d) => /\ r(d).challengerId = duel[d].challengerId
                          /\ r(d).opponentId = duel[d].opponentId
  BY <1>2, WithoutIsRow DEF Players, Involves
<1> HIDE DEF r
<1>6. \A d \in Ids : Involves(d, u) => Goes(d)
  BY <1>1, <1>4, EdgesAre DEF Goes
<1>7. \A d \in Ids : ~Involves(d, u) => Keeps(d)
  BY <1>1, <1>5 DEF Keeps, Players
<1> QED
  BY <1>6, <1>7 DEF Follows

LEMMA TimeFollows ==
  ASSUME IndInv, Tick \/ Crash
  PROVE  Follows
<1>1. CASE Tick
  <2>1. \A d \in Ids :
          /\ duel'[d].status = duel[d].status /\ duel'[d].revision = duel[d].revision
          /\ duel'[d].scoreDelta = duel[d].scoreDelta
          /\ duel'[d].challengerId = duel[d].challengerId
          /\ duel'[d].opponentId = duel[d].opponentId
    BY <1>1, AgedIsRow DEF Tick, IndInv, TypeOK
  <2> QED
    BY <2>1 DEF Follows, Keeps, Players
<1>2. CASE Crash
  <2>1. [Blank EXCEPT !.status = "ABORTED"].status = "ABORTED"
    BY DEF Blank
  <2>2. \A d \in Ids : duel'[d] = IF duel[d].status = "INSERTED"
                                  THEN [Blank EXCEPT !.status = "ABORTED"] ELSE duel[d]
    BY <1>2 DEF Crash
  <2> QED
    BY <2>1, <2>2 DEF Follows, Keeps, Players, IsActive
<1> QED
  BY <1>1, <1>2

\* A handler changes invisible rows until it commits.
LEMMA RequestFollows ==
  ASSUME IndInv, NEW s \in Slots, RequestStep(s), ~Commit(s)
  PROVE  Follows
<1>1. CASE Lookup(s) \/ GuardsPass(s) \/ GuardsRefuse(s) \/ LockFirst(s) \/ InsertRetry(s) \/ InsertRefused(s)
           \/ Created(s)
  <2>1. UNCHANGED duel
    BY <1>1 DEF Lookup, GuardsPass, GuardsRefuse, LockFirst, InsertRetry, InsertRefused, Created, stored
  <2> QED
    BY <2>1, RowsStay
<1>2. CASE \E d \in Ids : InsertRow(s, d)
  <2>1. PICK d \in Ids : InsertRow(s, d)
    BY <1>2
  <2>2. duel[d].status = "NONE" /\ duel[d] \in Row
    BY <2>1 DEF InsertRow, NextId, IndInv, TypeOK
  <2>3. CASE Held({slot[s].user, slot[s].target})
    <3> DEFINE r == [duel[d] EXCEPT !.status = "ABORTED"]
    <3>1. duel' = [duel EXCEPT ![d] = r]
      BY <2>1, <2>3 DEF InsertRow
    <3>2. r.status = "ABORTED"
      BY <2>2 DEF Row
    <3> HIDE DEF r
    <3>3. Keeps(d)
      BY <2>2, <3>1, <3>2 DEF Keeps, IsActive, IndInv, TypeOK
    <3> QED
      BY <3>1, <3>3, OneFollows
  <2>4. CASE ~Held({slot[s].user, slot[s].target})
    <3>1. duel' = [duel EXCEPT ![d] = NewRow(s)]
      BY <2>1, <2>4 DEF InsertRow
    <3>2. NewRow(s).status = "INSERTED"
      BY DEF NewRow, Blank
    <3>3. Keeps(d)
      BY <2>2, <3>1, <3>2 DEF Keeps, IsActive, IndInv, TypeOK
    <3> QED
      BY <3>1, <3>3, OneFollows
  <2> QED
    BY <2>3, <2>4
<1>3. CASE Rollback(s)
  <2> DEFINE d == slot[s].id
             r == [Blank EXCEPT !.status = "ABORTED"]
  <2>1. d \in Ids /\ duel[d].status = "INSERTED" /\ duel' = [duel EXCEPT ![d] = r]
    BY <1>3 DEF Rollback, IndInv, SlotsAgree
  <2>2. r.status = "ABORTED"
    BY DEF Blank
  <2> HIDE DEF d, r
  <2>3. Keeps(d)
    BY <2>1, <2>2 DEF Keeps, IsActive, IndInv, TypeOK
  <2> QED
    BY <2>1, <2>3, OneFollows
<1> QED
  BY <1>1, <1>2, <1>3 DEF RequestStep

LEMMA InviteFollows ==
  ASSUME IndInv, InviteNext
  PROVE  Follows
<1> PICK i \in invites : InviteCheck(i) \/ InviteRead(i) \/ InviteEmit(i) \/ InviteLost(i)
                         \/ InviteMark(i)
  BY DEF InviteNext
<1>1. CASE InviteCheck(i) \/ InviteRead(i) \/ InviteEmit(i) \/ InviteLost(i)
  BY <1>1, RowsStay DEF InviteCheck, InviteRead, InviteEmit, InviteLost, stored
<1>2. CASE InviteMark(i)
  <2> DEFINE d == i[1]
             r == [duel[d] EXCEPT !.inviteDelivered = TRUE]
  <2>1. d \in Ids /\ duel[d] \in Row
    BY DEF IndInv, TypeOK, InviteType
  <2>2. /\ r.status = duel[d].status /\ r.scoreDelta = duel[d].scoreDelta
        /\ r.revision = duel[d].revision
        /\ r.challengerId = duel[d].challengerId /\ r.opponentId = duel[d].opponentId
    BY <2>1 DEF Row
  <2>3. duel' = IF duel[d].status = "PENDING" THEN [duel EXCEPT ![d] = r] ELSE duel
    BY <1>2 DEF InviteMark
  <2> HIDE DEF d, r
  <2>4. CASE duel' = [duel EXCEPT ![d] = r]
    <3>1. Keeps(d)
      BY <2>1, <2>2, <2>4 DEF Keeps, Players, IndInv, TypeOK
    <3> QED
      BY <2>1, <2>4, <3>1, OneFollows
  <2> QED
    BY <2>3, <2>4, RowsStay
<1> QED
  BY <1>1, <1>2

\* The commit of a request opens its duel for two users who are in no other.
LEMMA CommitOpens ==
  ASSUME IndInv, IndInv', NEW s \in Slots, Commit(s)
  PROVE  Lifecycle!Next
<1>1. /\ slot[s].id \in Ids /\ duel[slot[s].id].status = "INSERTED"
      /\ duel' = [duel EXCEPT ![slot[s].id] = [duel[slot[s].id] EXCEPT !.status = "PENDING"]]
      /\ ledger' = ledger
  BY DEF Commit, IndInv, SlotsAgree
<1> PICK d \in Ids : d = slot[s].id
  BY <1>1
<1> PICK u, v : u = duel[d].challengerId /\ v = duel[d].opponentId
  OBVIOUS
<1> PICK r : r = [duel[d] EXCEPT !.status = "PENDING"]
  OBVIOUS
<1>2. /\ duel[d].status = "INSERTED" /\ duel' = [duel EXCEPT ![d] = r]
      /\ r.status = "PENDING" /\ r.revision = duel[d].revision
      /\ r.challengerId = u /\ r.opponentId = v
  BY <1>1 DEF IndInv, TypeOK, Row
<1>3. duel'[d] = r /\ \A e \in Ids \ {d} : duel'[e] = duel[e]
  BY <1>2 DEF IndInv, TypeOK
<1>4. u \in Users /\ v \in Users /\ u # v
  BY <1>2 DEF IndInv, BoundPlayersExist, Binds, TypeOK
<1>5. ~Visible(d) /\ Visible(d)' /\ IsActive(d)' /\ Players(d)' = {u, v} /\ Players(d) = {u, v}
  BY <1>2, <1>3 DEF Visible, IsActive, Players
<1>6. \A e \in Ids \ {d} : /\ (Visible(e)' <=> Visible(e)) /\ (IsActive(e)' <=> IsActive(e))
                           /\ Players(e)' = Players(e)
  BY <1>3 DEF Visible, IsActive, Players
<1>7. \A e \in Ids : IsActive(e) => {u, v} \cap Players(e) = {}
  BY <1>2, <1>5 DEF IndInv, BoundPlayersFree, Binds, IsActive
<1>8. \A e \in Ids : Charges(e)' = Charges(e)
  BY <1>1 DEF Charges
<1>9. \A e \in Ids : duel'[e].revision = duel[e].revision
  BY <1>2, <1>3
<1>10. Lifecycle!Open(d, u, v)
  <2>1. [e \in Ids |-> IF Visible(e) THEN duel[e].status ELSE "NONE"]' =
        [[e \in Ids |-> IF Visible(e) THEN duel[e].status ELSE "NONE"] EXCEPT ![d] = "PENDING"]
    <3>1. \A e \in Ids : (IF Visible(e) THEN duel[e].status ELSE "NONE")' =
                          IF e = d THEN "PENDING" ELSE IF Visible(e) THEN duel[e].status ELSE "NONE"
      <4>1. (IF Visible(d) THEN duel[d].status ELSE "NONE")' = "PENDING"
        BY <1>2, <1>3, <1>5
      <4>2. ASSUME NEW e \in Ids \ {d}
            PROVE  (IF Visible(e) THEN duel[e].status ELSE "NONE")' =
                   IF Visible(e) THEN duel[e].status ELSE "NONE"
        <5>1. (Visible(e)' <=> Visible(e)) /\ duel'[e].status = duel[e].status
          BY <1>3, <1>6
        <5> QED
          BY <5>1
      <4> QED
        BY <4>1, <4>2
    <3> QED
      BY <3>1
  <2>2. [e \in Ids |-> IF IsActive(e) THEN Players(e) ELSE {}]' =
        [[e \in Ids |-> IF IsActive(e) THEN Players(e) ELSE {}] EXCEPT ![d] = {u, v}]
    BY <1>5, <1>6
  <2>3. \A e \in Ids :
          {u, v} \cap [x \in Ids |-> IF IsActive(x) THEN Players(x) ELSE {}][e] = {}
    BY <1>7
  <2> QED
    BY <1>4, <1>5, <1>8, <1>9, <2>1, <2>2, <2>3 DEF Lifecycle!Open
<1> QED
  BY <1>4, <1>10 DEF Lifecycle!Next

\* A step of the code is a step of the life cycle.
LEMMA NextMaps ==
  ASSUME IndInv, IndInv', [Next]_vars
  PROVE  Lifecycle!Next
<1>1. CASE \E s \in Slots : Commit(s)
  BY <1>1, CommitOpens
<1>2. CASE \E s \in Slots : RequestStep(s) /\ ~Commit(s)
  BY <1>2, RequestFollows, FollowsAdvances
<1>3. CASE (\E s \in Slots, ask \in Asks : Receive(s, ask)) \/ UNCHANGED vars
           \/ \E t \in after : Settle(t)
  <2>1. UNCHANGED duel
    BY <1>3 DEF Receive, Settle, stored, vars
  <2> QED
    BY <2>1, RowsStay, FollowsAdvances
<1>4. CASE InviteNext
  BY <1>4, InviteFollows, FollowsAdvances
<1>5. CASE \E d \in Ids : Accept(d) \/ Reject(d) \/ Expire(d) \/ ExpireFails(d)
  BY <1>5, AnswerFollows, FollowsAdvances
<1>6. CASE \E d \in Ids : ReportResult(d) \/ VoidByGame(d) \/ \E w \in Winners : ResolveStart(d, w)
  BY <1>6, GameFollows, FollowsAdvances
<1>7. CASE \E t \in resolving : ResolveCommit(t) \/ ResolveFails(t) \/ ResolveLost(t)
  BY <1>7, ResolveFollows, FollowsAdvances
<1>8. CASE Sweep
  BY <1>8, SweepFollows, FollowsAdvances
<1>9. CASE \E u \in Users : Leave(u) \/ Purge(u) \/ ShieldLapses(u) \/ PenaltyLapses(u)
  <2>1. PICK u \in Users : Leave(u) \/ Purge(u) \/ ShieldLapses(u) \/ PenaltyLapses(u)
    BY <1>9
  <2>2. CASE Leave(u)
    BY <2>2, LeaveFollows, FollowsAdvances
  <2>3. CASE Purge(u) \/ ShieldLapses(u) \/ PenaltyLapses(u)
    BY <2>3, RowsStay, FollowsAdvances DEF Purge, ShieldLapses, PenaltyLapses
  <2> QED
    BY <2>1, <2>2, <2>3
<1>10. CASE Tick \/ Crash
  BY <1>10, TimeFollows, FollowsAdvances
<1> QED
  BY <1>1, <1>2, <1>3, <1>4, <1>5, <1>6, <1>7, <1>8, <1>9, <1>10 DEF Next, RequestStep

\* The rows that requestDuel, acceptDuel, rejectDuel, expireDuel, resolveDuel, the
\* sweep and account deletion leave behind move along the edges of the life cycle,
\* one revision at a time, whatever interleaves and wherever the process restarts.
THEOREM Refines == Spec => RefinesLifecycle
<1>1. Init => Lifecycle!Init
  BY DEF Init, Lifecycle!Init, Visible, IsActive, Charges, Blank
<1>2. IndInv /\ IndInv' /\ [Next]_vars => [Lifecycle!Next]_Lifecycle!vars
  BY NextMaps
<1> QED
  BY <1>1, <1>2, Inductive, PTL DEF Spec, RefinesLifecycle, Lifecycle!Spec
=============================================================================
