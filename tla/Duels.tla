------------------------------- MODULE Duels -------------------------------
(***************************************************************************)
(* The duel life cycle of backend/src/duels/duels.service.ts: the rows of  *)
(* the table duels, the pair locks, shields and penalties kept in Redis,   *)
(* and the handlers of the socket gateway and of the sweep job that        *)
(* interleave on them.  Postgres and Redis survive a restart; handlers in  *)
(* flight, expiry timers and invitations being delivered do not.           *)
(*                                                                         *)
(* Time.  Every comparison the code makes is a difference of two instants  *)
(* (a deadline, a cutoff, a TTL), so the model keeps ages and remaining    *)
(* times instead of a clock.  Ages saturate at AgeCap, past every cutoff.  *)
(***************************************************************************)
EXTENDS Integers, FiniteSets

CONSTANTS
  Users,            \* accounts that exist at the start
  NoUser,           \* NULL in challengerId, opponentId, winnerId, loserId
  Team,             \* the team of each user
  Rank,             \* where the id of each user sorts among the others
  RequestIds,       \* client-made requestIds
  NoRequest,        \* a request without requestId (old clients)
  Asks,             \* the duel:request messages clients send
  MaxAsks,          \* bound on how many they send
  Leavers,          \* bound: accounts that may be deleted
  Winners,          \* bound: users that may win a game
  MaxCrashes,       \* bound on restarts of the process
  MaxLapses,        \* bound on shields and penalties that run out
  MaxDuels,         \* bound on the ids the sequence of the table hands out
  Slots,            \* duel:request handlers that can be in flight together
  MaxReports,       \* submissions a game stamps on a duel: two a round
  DUEL_REQUEST_TTL, DUEL_ACTIVE_TTL, DUEL_RESULT_TTL, DUEL_SWEEP_GRACE

ASSUME UsersAssumption == NoUser \notin Users /\ NoRequest \notin RequestIds /\ Winners \subseteq Users
ASSUME RankAssumption ==
  /\ Rank \in [Users -> Nat]
  /\ \A u \in Users, v \in Users : Rank[u] = Rank[v] => u = v
ASSUME AsksAssumption ==
  Asks \subseteq [user : Users, target : Users, requestId : RequestIds \union {NoRequest}]
ASSUME TimeAssumption ==
  /\ DUEL_REQUEST_TTL \in Nat \ {0} /\ DUEL_ACTIVE_TTL \in Nat \ {0}
  /\ DUEL_RESULT_TTL \in Nat /\ DUEL_SWEEP_GRACE \in Nat
ASSUME BoundAssumption == MaxDuels \in Nat /\ MaxReports \in Nat
                             /\ MaxAsks \in Nat /\ MaxCrashes \in Nat /\ MaxLapses \in Nat

VARIABLES
  duel,        \* the table duels: [Ids -> Row]
  locks,       \* Redis duel:lock:<pair>, a set of [pair, token, left]
  shield,      \* users with a duel:shield key
  penalty,     \* users with a penalty key
  accounts,    \* rows of the table users
  ledger,      \* score_events of each duel, counted by type
  slot,        \* the duel:request handlers in flight
  invites,     \* invitations being delivered: <<duel, kind, phase>>
  timer,       \* expiry timers of this process: time left, or Off
  after,       \* Redis work left to do after a commit
  resolving,   \* resolveDuel calls between setPenalty and their transaction
  leaving,     \* deleteAccount calls between their commit and purgeUserKeys
  outage,      \* duels requested before this process started
  shown,       \* (history) duels whose invitation was emitted
  left         \* (bound) requests, restarts and lapses still to come

stored == <<duel, locks, shield, penalty, accounts, ledger>>
memory == <<slot, invites, timer, after, resolving, leaving>>
vars   == <<stored, memory, outage, shown, left>>

-----------------------------------------------------------------------------
Ids  == 1 .. MaxDuels
Off  == -1
Null == -1                      \* resultReportedAt IS NULL
Max2(a, b) == IF a >= b THEN a ELSE b
PendingCutoff  == DUEL_REQUEST_TTL + DUEL_SWEEP_GRACE
AcceptedCutoff == DUEL_ACTIVE_TTL + DUEL_SWEEP_GRACE
ResultCutoff   == DUEL_RESULT_TTL + DUEL_SWEEP_GRACE
AgeCap == Max2(PendingCutoff, Max2(AcceptedCutoff, ResultCutoff)) + 1
Older(age) == IF age < AgeCap THEN age + 1 ELSE age

DUEL_REJECT_SCORE_PENALTY == 2
DUEL_NO_RESPONSE_SCORE_PENALTY == DUEL_REJECT_SCORE_PENALTY
BASE_DUEL_SCORE == 10

(* NONE and ABORTED are rows no other transaction can see: an id not handed *)
(* out yet, and an id burned by a rollback.  INSERTED is the row of a       *)
(* transaction that has not committed yet.                                  *)
Invisible  == {"NONE", "ABORTED", "INSERTED"}
Active     == {"PENDING", "ACCEPTED"}
Unresolved == {"REJECTED", "EXPIRED"}
Final      == Unresolved \union {"COMPLETED", "VOID"}
DuelStatus == Active \union Final
EntryType  == {"DUEL_REJECT", "DUEL_NO_RESPONSE", "DUEL_WIN", "DUEL_LOSS"}

Row == [challengerId : Users \union {NoUser}, opponentId : Users \union {NoUser},
        requestId : RequestIds \union {NoRequest},
        status : Invisible \union DuelStatus, revision : Nat,
        age : 0 .. AgeCap,       \* since requestedAt, then since respondedAt
        resultReportedAt : Null .. AgeCap,     \* its age, or NULL
        reports : 0 .. MaxReports,             \* times it was stamped
        inviteDelivered : BOOLEAN,             \* inviteDeliveredAt IS NOT NULL
        scoreDelta : Nat,                      \* 0 for NULL
        winnerId : Users \union {NoUser}, loserId : Users \union {NoUser}]

Blank == [challengerId |-> NoUser, opponentId |-> NoUser, requestId |-> NoRequest,
          status |-> "NONE", revision |-> 0, age |-> 0, resultReportedAt |-> Null,
          reports |-> 0,
          inviteDelivered |-> FALSE, scoreDelta |-> 0,
          winnerId |-> NoUser, loserId |-> NoUser]

Players(d) == {duel[d].challengerId, duel[d].opponentId}
Visible(d) == duel[d].status \in DuelStatus
IsActive(d) == duel[d].status \in Active

Idle == [phase |-> "idle", user |-> NoUser, target |-> NoUser,
         requestId |-> NoRequest, age |-> 0, id |-> 0]
SlotType == [phase : {"idle", "refused", "lookup", "guards", "tx", "half", "locked", "created"},
             user : Users \union {NoUser}, target : Users \union {NoUser},
             requestId : RequestIds \union {NoRequest}, age : 0 .. AgeCap, id : 0 .. MaxDuels]
Refused == [Idle EXCEPT !.phase = "refused"]

TaskType == [id : Ids, pair : SUBSET Users,
             shield : SUBSET Users, lock : {"keep", "extend", "release"}]
ResolveType == [id : Ids, winner : Users, loser : Users, created : BOOLEAN]
LockType == [pair : SUBSET Users, token : Ids, left : 1 .. Max2(DUEL_REQUEST_TTL, DUEL_ACTIVE_TTL)]
InviteType == Ids \X {"first", "again"} \X {"check", "read", "emit", "mark"}

TypeOK ==
  /\ duel \in [Ids -> Row]
  /\ locks \subseteq LockType
  /\ shield \subseteq Users /\ penalty \subseteq Users /\ accounts \subseteq Users
  /\ ledger \in [Ids -> [EntryType -> Nat]]
  /\ slot \in [Slots -> SlotType]
  /\ invites \subseteq InviteType
  /\ timer \in [Ids -> Off .. DUEL_REQUEST_TTL]
  /\ after \subseteq TaskType
  /\ resolving \subseteq ResolveType
  /\ leaving \subseteq Users
  /\ outage \subseteq Ids /\ shown \subseteq Ids
  /\ left \in [asks : 0 .. MaxAsks, crashes : 0 .. MaxCrashes, lapses : 0 .. MaxLapses]

Init ==
  /\ duel = [d \in Ids |-> Blank]
  /\ locks = {} /\ shield = {} /\ penalty = {} /\ accounts = Users
  /\ ledger = [d \in Ids |-> [e \in EntryType |-> 0]]
  /\ slot = [s \in Slots |-> Idle]
  /\ invites = {} /\ timer = [d \in Ids |-> Off]
  /\ after = {} /\ resolving = {} /\ leaving = {}
  /\ outage = {} /\ shown = {}
  /\ left = [asks |-> MaxAsks, crashes |-> MaxCrashes, lapses |-> MaxLapses]

-----------------------------------------------------------------------------
(* Redis primitives.                                                        *)
Held(pair) == \E l \in locks : l.pair = pair
Acquire(pair, d, ttl) == locks' = locks \union {[pair |-> pair, token |-> d, left |-> ttl]}
\* Faulty variant: DEL without comparing the token.
ReleaseAnyToken(pair, d) == {l \in locks : l.pair # pair}
\* releaseLock compares the token before it deletes the key.
Release(pair, d) == {l \in locks : ~(l.pair = pair /\ l.token = d)}
Extended(pair, d, ttl) ==
  {IF l.pair = pair /\ l.token = d THEN [l EXCEPT !.left = ttl] ELSE l : l \in locks}

(* What every committed move of a duel leaves for after the commit.         *)
Task(d, who, what) == [id |-> d, pair |-> Players(d), shield |-> who, lock |-> what]

(* A charge sets scoreDelta on the row and appends one ledger entry, in the *)
(* transaction of the transition.                                           *)
Entry(d, type) == [ledger EXCEPT ![d][type] = @ + 1]

\* Faulty variant: an end that forgets the revision.
EndedSameRevision(d, status, points) ==
  [duel[d] EXCEPT !.status = status, !.scoreDelta = points,
                  !.age = 0, !.resultReportedAt = Null, !.reports = 0]

\* The row after a transition: one UPDATE sets the status and adds 1 to the
\* revision.  Nothing reads the instants of a finished duel again.
Ended(d, status, points) ==
  [duel[d] EXCEPT !.status = status, !.revision = @ + 1, !.scoreDelta = points,
                  !.age = 0, !.resultReportedAt = Null, !.reports = 0]

-----------------------------------------------------------------------------
(* duel:request (requestDuel and the gateway handler around it).            *)
OwnRow(s, d) == /\ slot[s].requestId # NoRequest
                /\ Visible(d)
                /\ duel[d].challengerId = slot[s].user
                /\ duel[d].requestId = slot[s].requestId
SameTarget(s, d) == duel[d].opponentId \in {NoUser, slot[s].target}

\* A client sends a request, or sends it again because the answer was lost.
Receive(s, ask) ==
  /\ slot[s].phase \in {"idle", "refused"}
  /\ ask.user \in accounts
  /\ left.asks > 0 /\ left' = [left EXCEPT !.asks = @ - 1]
  /\ slot' = [slot EXCEPT ![s] = [phase |-> "lookup", user |-> ask.user, target |-> ask.target,
                                    requestId |-> ask.requestId, age |-> 0, id |-> 0]]
  /\ UNCHANGED <<stored, invites, timer, after, resolving, leaving, outage, shown>>

\* armExpiryTimer arms a duel once, with the time the database says is left,
\* or the whole TTL when that could not be read.  (The age of a row that is no
\* longer PENDING is counted from another instant: any time may be left then.)
Arm(d) ==
  \E rest \in IF duel[d].status = "PENDING"
               THEN {Max2(0, DUEL_REQUEST_TTL - duel[d].age), DUEL_REQUEST_TTL}
               ELSE 0 .. DUEL_REQUEST_TTL :
    timer' = [timer EXCEPT ![d] = IF @ = Off THEN rest ELSE @]

\* The retry found its duel: it is answered with that row, and while the row is
\* PENDING the timer is armed again and the invitation is delivered again.
Rejoin(s, d) ==
  IF ~SameTarget(s, d)
  THEN slot' = [slot EXCEPT ![s] = Refused] /\ UNCHANGED <<timer, invites>>
  ELSE /\ slot' = [slot EXCEPT ![s] = Idle]
       /\ IF duel[d].status = "PENDING"
          THEN /\ Arm(d)
               /\ invites' = IF \E i \in invites : i[1] = d /\ i[2] = "again"
                             THEN invites ELSE invites \union {<<d, "again", "check">>}
          ELSE UNCHANGED <<timer, invites>>

Lookup(s) ==
  /\ slot[s].phase = "lookup"
  /\ \/ \E d \in Ids : OwnRow(s, d) /\ Rejoin(s, d)
     \/ /\ ~\E d \in Ids : OwnRow(s, d)
        /\ slot' = [slot EXCEPT ![s].phase = "guards"]
        /\ UNCHANGED <<timer, invites>>
  /\ UNCHANGED <<stored, after, resolving, leaving, outage, shown, left>>

\* The checks outside the transaction.  Blocking and distance refuse too; they
\* are the choice of GuardsRefuse when the other checks would pass.
GuardsPass(s) ==
  /\ slot[s].phase = "guards"
  /\ slot[s].user # slot[s].target
  /\ slot[s].target \in accounts
  /\ Team[slot[s].user] # Team[slot[s].target]
  /\ slot[s].user \notin penalty /\ slot[s].target \notin penalty
  /\ slot[s].target \notin shield
  /\ slot' = [slot EXCEPT ![s].phase = "tx"]
  /\ UNCHANGED <<stored, invites, timer, after, resolving, leaving, outage, shown, left>>

GuardsRefuse(s) ==
  /\ slot[s].phase = "guards"
  /\ slot' = [slot EXCEPT ![s] = Idle]
  /\ UNCHANGED <<stored, invites, timer, after, resolving, leaving, outage, shown, left>>

\* Faulty variant: the locks are taken challenger first, whatever their ids.
FirstAsNamed(s) == slot[s].user
\* [...participantIds].sort(): whoever asks whom, a pair locks its two users in the
\* same order.
First(s) == IF Rank[slot[s].user] <= Rank[slot[s].target] THEN slot[s].user ELSE slot[s].target
Second(s) == IF First(s) = slot[s].user THEN slot[s].target ELSE slot[s].user

\* Faulty variant: no advisory lock.
AdvisoryNone(u) == TRUE
\* pg_advisory_xact_lock(duel:user:<id>) is held by the transaction that inserted
\* an uncommitted row of that user, and by one that has got the first of its two
\* locks and waits for the second.
AdvisoryFree(u) ==
  /\ \A d \in Ids : duel[d].status = "INSERTED" => u \notin Players(d)
  /\ \A q \in Slots : slot[q].phase = "half" => First(q) # u
HasActiveDuel(us) == \E d \in Ids : IsActive(d) /\ Players(d) \cap us # {}
NextId(d) == duel[d].status = "NONE" /\ \A e \in 1 .. d - 1 : duel[e].status # "NONE"

LockFirst(s) ==
  /\ slot[s].phase = "tx" /\ AdvisoryFree(First(s))
  /\ slot' = [slot EXCEPT ![s].phase = "half"]
  /\ UNCHANGED <<stored, invites, timer, after, resolving, leaving, outage, shown, left>>

\* The transaction from its second lock to the pair lock: the requestId again, the
\* exclusivity check, INSERT, then the pair lock with the new id as its token.
LockSecond(s) == slot[s].phase = "half" /\ AdvisoryFree(Second(s))
InsertRetry(s) ==
  /\ LockSecond(s)
  /\ \E d \in Ids : OwnRow(s, d) /\ Rejoin(s, d)
  /\ UNCHANGED <<stored, after, resolving, leaving, outage, shown, left>>

\* Faulty variant: the requestId is not looked up again under the advisory lock.
RequestNotChecked(s) == TRUE
RequestIsNew(s) == ~\E d \in Ids : OwnRow(s, d)

InsertRefused(s) ==
  /\ LockSecond(s)
  /\ RequestIsNew(s)
  /\ \/ HasActiveDuel({slot[s].user, slot[s].target})          \* DUEL_ALREADY_ACTIVE
     \/ ~({slot[s].user, slot[s].target} \subseteq accounts)   \* FK violation, 404
     \/ ~\E d \in Ids : NextId(d)                             \* bound: no id is left
  /\ slot' = [slot EXCEPT ![s] = Refused]
  /\ UNCHANGED <<stored, invites, timer, after, resolving, leaving, outage, shown, left>>

NewRow(s) == [Blank EXCEPT !.challengerId = slot[s].user, !.opponentId = slot[s].target,
                           !.requestId = slot[s].requestId, !.status = "INSERTED",
                           !.age = slot[s].age]
InsertRow(s, d) ==
  /\ LockSecond(s)
  /\ RequestIsNew(s)
  /\ ~HasActiveDuel({slot[s].user, slot[s].target})
  /\ {slot[s].user, slot[s].target} \subseteq accounts
  /\ NextId(d)
  /\ LET pair == {slot[s].user, slot[s].target} IN
     IF Held(pair)
     THEN /\ duel' = [duel EXCEPT ![d].status = "ABORTED"]       \* DUEL_ALREADY_PENDING
          /\ slot' = [slot EXCEPT ![s] = Refused]
          /\ UNCHANGED locks
     ELSE /\ duel' = [duel EXCEPT ![d] = NewRow(s)]
          /\ slot' = [slot EXCEPT ![s] = [@ EXCEPT !.phase = "locked", !.id = d, !.age = 0]]
          /\ Acquire(pair, d, DUEL_REQUEST_TTL)
  /\ UNCHANGED <<shield, penalty, accounts, ledger, invites, timer, after,
                 resolving, leaving, outage, shown, left>>

Commit(s) ==
  /\ slot[s].phase = "locked"
  /\ duel' = [duel EXCEPT ![slot[s].id].status = "PENDING"]
  /\ slot' = [slot EXCEPT ![s].phase = "created"]
  /\ UNCHANGED <<locks, shield, penalty, accounts, ledger, invites, timer, after,
                 resolving, leaving, outage, shown, left>>

\* COMMIT failed: the row never existed; the lock is given back by its token, or
\* stays until its TTL when that fails too.
Rollback(s) ==
  /\ slot[s].phase = "locked"
  /\ duel' = [duel EXCEPT ![slot[s].id] = [Blank EXCEPT !.status = "ABORTED"]]
  /\ \/ locks' = Release({slot[s].user, slot[s].target}, slot[s].id)
     \/ UNCHANGED locks
  /\ slot' = [slot EXCEPT ![s] = Idle]
  /\ UNCHANGED <<shield, penalty, accounts, ledger, invites, timer, after,
                 resolving, leaving, outage, shown, left>>

\* After the commit: the challenger's own shield goes (best effort), the expiry
\* timer is armed, the invitation is scheduled, and the request is acknowledged.
Created(s) ==
  LET d == slot[s].id IN
  /\ slot[s].phase = "created"
  /\ shield' \in {shield \ {slot[s].user}, shield}
  /\ Arm(d)
  /\ invites' = invites \union {<<d, "first", "read">>}
  /\ slot' = [slot EXCEPT ![s] = Idle]
  /\ UNCHANGED <<duel, locks, penalty, accounts, ledger, after, resolving, leaving,
                 outage, shown, left>>

-----------------------------------------------------------------------------
(* The invitation (redeliverInvite, deliverDuelInvite, markInviteDelivered). *)
InviteStep(i, next) == invites' = (invites \ {i}) \union next
InviteKeeps == UNCHANGED <<slot, timer, after, resolving, leaving, outage>>

InviteCheck(i) ==
  /\ i[3] = "check"
  /\ InviteStep(i, IF duel[i[1]].inviteDelivered THEN {} ELSE {<<i[1], i[2], "read">>})
  /\ UNCHANGED <<stored, shown, left>> /\ InviteKeeps

\* findState: the row must be PENDING and inside its deadline.
InviteRead(i) ==
  /\ i[3] = "read"
  /\ InviteStep(i, IF duel[i[1]].status = "PENDING" /\ duel[i[1]].age < DUEL_REQUEST_TTL
                   THEN {<<i[1], i[2], "emit">>} ELSE {})
  /\ UNCHANGED <<stored, shown, left>> /\ InviteKeeps

\* The opponent's socket is still connected: duel:requested goes out.
InviteEmit(i) ==
  /\ i[3] = "emit"
  /\ InviteStep(i, {<<i[1], i[2], "mark">>})
  /\ shown' = shown \union {i[1]}
  /\ UNCHANGED <<stored, left>> /\ InviteKeeps

\* No live socket, a socket lost meanwhile, or an error: the invitation is dropped.
InviteLost(i) ==
  /\ InviteStep(i, {})
  /\ UNCHANGED <<stored, shown, left>> /\ InviteKeeps

InviteMark(i) ==
  /\ i[3] = "mark"
  /\ duel' = IF duel[i[1]].status = "PENDING"
             THEN [duel EXCEPT ![i[1]].inviteDelivered = TRUE] ELSE duel
  /\ InviteStep(i, {})
  /\ UNCHANGED <<locks, shield, penalty, accounts, ledger, shown, left>> /\ InviteKeeps

-----------------------------------------------------------------------------
(* The four ways out of PENDING.                                            *)
\* Faulty variant: the update names the row by its id alone.
ByIdAlone(d) == Visible(d)
\* Every one of them is a compare-and-set: UPDATE ... WHERE status = PENDING.
StillPending(d) == duel[d].status = "PENDING"

\* grantShields: the opponent who was charged, and nobody else.
Shielded(d, charged) == IF charged THEN {duel[d].opponentId} ELSE {}

Accepted(d) == [duel[d] EXCEPT !.status = "ACCEPTED", !.revision = @ + 1, !.age = 0]
Accept(d) ==
  /\ StillPending(d) /\ duel[d].age < DUEL_REQUEST_TTL
  /\ duel[d].opponentId \in accounts
  /\ duel' = [duel EXCEPT ![d] = Accepted(d)]
  /\ after' = after \union {Task(d, {}, "extend")}
  /\ UNCHANGED <<locks, shield, penalty, accounts, ledger, slot, invites, timer,
                 resolving, leaving, outage, shown, left>>

Reject(d) ==
  /\ StillPending(d) /\ duel[d].age < DUEL_REQUEST_TTL
  /\ duel[d].opponentId \in accounts
  /\ duel' = [duel EXCEPT ![d] = Ended(d, "REJECTED", DUEL_REJECT_SCORE_PENALTY)]
  /\ ledger' = Entry(d, "DUEL_REJECT")
  /\ after' = after \union {Task(d, Shielded(d, TRUE), "release")}
  /\ UNCHANGED <<locks, shield, penalty, accounts, slot, invites, timer,
                 resolving, leaving, outage, shown, left>>

\* Faulty variant: the delivery of the invitation is not asked for.
ChargeableUnseen(d) == duel[d].opponentId \in accounts
\* buildNoResponseCharges: only an invitation that was delivered is charged.
Chargeable(d) == duel[d].inviteDelivered /\ duel[d].opponentId \in accounts

\* The expiry timer fires (expireDuel).  It does not look at the deadline again,
\* and answerableSince is null on this path.
Expire(d) ==
  /\ timer[d] = 0
  /\ timer' = [timer EXCEPT ![d] = Off]
  /\ IF ~StillPending(d)
     THEN UNCHANGED <<duel, ledger, after>>
     ELSE LET charged == Chargeable(d) IN
       /\ duel' = [duel EXCEPT ![d] =
            Ended(d, "EXPIRED", IF charged THEN DUEL_NO_RESPONSE_SCORE_PENALTY ELSE 0)]
       /\ ledger' = IF charged THEN Entry(d, "DUEL_NO_RESPONSE") ELSE ledger
       /\ after' = after \union {Task(d, Shielded(d, charged), "release")}
  /\ UNCHANGED <<locks, shield, penalty, accounts, slot, invites, resolving, leaving,
                 outage, shown, left>>

\* The transaction of the timer fails: the row is left to the sweep.
ExpireFails(d) ==
  /\ timer[d] = 0
  /\ timer' = [timer EXCEPT ![d] = Off]
  /\ UNCHANGED <<stored, slot, invites, after, resolving, leaving, outage, shown, left>>

\* Faulty variant: the sweep leaves the rows of an earlier process alone.
StalePendingHere(d) ==
  StillPending(d) /\ duel[d].age > PendingCutoff /\ d \notin outage
\* sweepStaleDuels, first transaction: a batch of PENDING rows past the cutoff,
\* skipping locked ones.  Rows older than this process are not charged, and any
\* error of a charge skips that charge alone (charged is what remains).
StalePending(d) == StillPending(d) /\ duel[d].age > PendingCutoff
SweepPending(batch, charged) ==
  /\ batch # {} /\ \A d \in batch : StalePending(d)
  /\ charged \subseteq {d \in batch : Chargeable(d) /\ d \notin outage}
  /\ duel' = [d \in Ids |->
       IF d \notin batch THEN duel[d]
       ELSE Ended(d, "EXPIRED", IF d \in charged THEN DUEL_NO_RESPONSE_SCORE_PENALTY ELSE 0)]
  /\ ledger' = [d \in Ids |-> IF d \in charged
                               THEN [ledger[d] EXCEPT !["DUEL_NO_RESPONSE"] = @ + 1]
                               ELSE ledger[d]]
  /\ after' = after \union {Task(d, Shielded(d, TRUE), "keep") : d \in charged}
  /\ UNCHANGED <<locks, shield, penalty, accounts, slot, invites, timer,
                 resolving, leaving, outage, shown, left>>

\* Second statement of the sweep: ACCEPTED rows nobody is playing any more.
StaleAccepted(d) == /\ duel[d].status = "ACCEPTED" /\ duel[d].age > AcceptedCutoff
                    /\ \/ duel[d].resultReportedAt = Null
                       \/ duel[d].resultReportedAt > ResultCutoff
SweepAccepted ==
  /\ \E d \in Ids : StaleAccepted(d)
  /\ duel' = [d \in Ids |-> IF StaleAccepted(d) THEN Ended(d, "VOID", 0) ELSE duel[d]]
  /\ UNCHANGED <<locks, shield, penalty, accounts, ledger, memory, outage, shown, left>>

\* What is left after a commit: the lock extended or released by its token, the
\* shields granted.  Each Redis call may fail on its own, and nothing repeats it.
Settle(t) ==
  /\ t \in after
  /\ after' = after \ {t}
  /\ shield' \in {shield, shield \union t.shield}
  /\ locks' \in {locks, IF t.lock = "release" THEN Release(t.pair, t.id)
                         ELSE IF t.lock = "extend"
                         THEN Extended(t.pair, t.id, DUEL_ACTIVE_TTL) ELSE locks}
  /\ UNCHANGED <<duel, penalty, accounts, ledger, slot, invites, timer, resolving,
                 leaving, outage, shown, left>>

-----------------------------------------------------------------------------
(* The end of a game (markResultInProgress, finishByGame, resolveDuel,       *)
(* voidByGame), called by the minigame service.                             *)
Reported(d) == [duel[d] EXCEPT !.resultReportedAt = 0, !.reports = @ + 1]
ReportResult(d) ==
  /\ duel[d].status = "ACCEPTED" /\ duel[d].reports < MaxReports
  /\ duel' = [duel EXCEPT ![d] = Reported(d)]
  /\ UNCHANGED <<locks, shield, penalty, accounts, ledger, memory, outage, shown, left>>

\* getAcceptedDuel passes and the loser's penalty is set before the transaction.
\* The round's settlement right admits one resolution of a duel at a time.
ResolveStart(d, w) ==
  LET l == CHOOSE p \in Players(d) : p # w IN
  /\ duel[d].status = "ACCEPTED" /\ w \in Players(d)
  /\ ~\E t \in resolving : t.id = d
  /\ penalty' = penalty \union {l}
  /\ resolving' = resolving \union
       {[id |-> d, winner |-> w, loser |-> l, created |-> l \notin penalty]}
  /\ UNCHANGED <<duel, locks, shield, accounts, ledger, slot, invites, timer, after,
                 leaving, outage, shown, left>>

\* A participant whose account is gone gets no ledger entry.
Decided(t) ==
  [Ended(t.id, "COMPLETED", BASE_DUEL_SCORE) EXCEPT !.winnerId = t.winner, !.loserId = t.loser]
ResolveCommit(t) ==
  /\ duel[t.id].status = "ACCEPTED"
  /\ duel' = [duel EXCEPT ![t.id] = Decided(t)]
  /\ ledger' = [ledger EXCEPT ![t.id]["DUEL_WIN"] = IF t.winner \in accounts THEN @ + 1 ELSE @,
                              ![t.id]["DUEL_LOSS"] = IF t.loser \in accounts THEN @ + 1 ELSE @]
  /\ resolving' = resolving \ {t}
  /\ after' = after \union {Task(t.id, {}, "release")}
  /\ UNCHANGED <<locks, shield, penalty, accounts, slot, invites, timer, leaving,
                 outage, shown, left>>

\* clearPenalty deletes the key whoever set it last.
PenaltyUndone(t) == IF t.created THEN penalty \ {t.loser} ELSE penalty

ResolveFails(t) ==
  /\ resolving' = resolving \ {t}
  /\ penalty' \in {penalty, PenaltyUndone(t)}
  /\ UNCHANGED <<duel, locks, shield, accounts, ledger, slot, invites, timer, after,
                 leaving, outage, shown, left>>

\* The row was taken by the sweep or by an account deletion meanwhile.
ResolveLost(t) ==
  /\ duel[t.id].status # "ACCEPTED"
  /\ resolving' = resolving \ {t}
  /\ penalty' \in IF duel[t.id].status = "COMPLETED" THEN {penalty}
                  ELSE {penalty, PenaltyUndone(t)}
  /\ after' = after \union {[Task(t.id, {}, "release") EXCEPT !.pair = {t.winner, t.loser}]}
  /\ UNCHANGED <<duel, locks, shield, accounts, ledger, slot, invites, timer, leaving,
                 outage, shown, left>>

VoidByGame(d) ==
  /\ duel[d].status = "ACCEPTED"
  /\ duel' = [duel EXCEPT ![d] = Ended(d, "VOID", 0)]
  /\ after' = after \union {Task(d, {}, "release")}
  /\ UNCHANGED <<locks, shield, penalty, accounts, ledger, slot, invites, timer,
                 resolving, leaving, outage, shown, left>>

-----------------------------------------------------------------------------
(* Account deletion: terminateActiveDuelsFor and the delete in one           *)
(* transaction (the foreign keys become NULL), purgeUserKeys after it.       *)
\* Faulty variant: only the duels the leaver asked for are ended.
InvolvesAsChallenger(d, u) == IsActive(d) /\ u = duel[d].challengerId
Involves(d, u) == IsActive(d) /\ u \in Players(d)
Without(row, u) == [row EXCEPT !.challengerId = IF @ = u THEN NoUser ELSE @,
                               !.opponentId = IF @ = u THEN NoUser ELSE @]
Leave(u) ==
  /\ u \in accounts \cap Leavers /\ AdvisoryFree(u)
  /\ accounts' = accounts \ {u}
  /\ duel' = [d \in Ids |->
       IF ~Involves(d, u) THEN Without(duel[d], u)
       ELSE Without(Ended(d, IF duel[d].status = "PENDING" THEN "EXPIRED" ELSE "VOID", 0), u)]
  /\ after' = after \union {Task(d, {}, "release") : d \in {e \in Ids : Involves(e, u)}}
  /\ leaving' = leaving \union {u}
  /\ UNCHANGED <<locks, shield, penalty, ledger, slot, invites, timer, resolving,
                 outage, shown, left>>

Purge(u) ==
  /\ u \in leaving
  /\ leaving' = leaving \ {u}
  /\ locks' = {l \in locks : u \notin l.pair}
  /\ shield' = shield \ {u} /\ penalty' = penalty \ {u}
  /\ UNCHANGED <<duel, accounts, ledger, slot, invites, timer, after, resolving,
                 outage, shown, left>>

-----------------------------------------------------------------------------
(* Time and restarts.                                                       *)
Aged(row) == [row EXCEPT !.age = Older(@),
                         !.resultReportedAt = IF @ = Null THEN Null ELSE Older(@)]
Tick ==
  /\ duel' = [d \in Ids |-> IF duel[d].status \in Active \union {"INSERTED"}
                            THEN Aged(duel[d]) ELSE duel[d]]
  /\ locks' = {[l EXCEPT !.left = @ - 1] : l \in {k \in locks : k.left > 1}}
  /\ timer' = [d \in Ids |-> IF timer[d] > 0 THEN timer[d] - 1 ELSE timer[d]]
  /\ slot' = [s \in Slots |-> IF slot[s].phase \in {"tx", "half"}
                              THEN [slot[s] EXCEPT !.age = Older(@)] ELSE slot[s]]
  /\ UNCHANGED <<shield, penalty, accounts, ledger, invites, after, resolving, leaving,
                 outage, shown, left>>

\* The half hour of a shield or a penalty is far longer than any other TTL here:
\* they lapse at any moment.
ShieldLapses(u) ==
  /\ u \in shield /\ shield' = shield \ {u}
  /\ left.lapses > 0 /\ left' = [left EXCEPT !.lapses = @ - 1]
  /\ UNCHANGED <<duel, locks, penalty, accounts, ledger, memory, outage, shown>>
PenaltyLapses(u) ==
  /\ u \in penalty /\ penalty' = penalty \ {u}
  /\ left.lapses > 0 /\ left' = [left EXCEPT !.lapses = @ - 1]
  /\ UNCHANGED <<duel, locks, shield, accounts, ledger, memory, outage, shown>>

\* The process dies and a new one starts.  Open transactions roll back.
Crash ==
  /\ left.crashes > 0 /\ left' = [left EXCEPT !.crashes = @ - 1]
  /\ duel' = [d \in Ids |-> IF duel[d].status = "INSERTED"
                            THEN [Blank EXCEPT !.status = "ABORTED"] ELSE duel[d]]
  /\ slot' = [s \in Slots |-> Idle]
  /\ invites' = {} /\ timer' = [d \in Ids |-> Off]
  /\ after' = {} /\ resolving' = {} /\ leaving' = {}
  /\ outage' = outage \union {d \in Ids : duel[d].status = "PENDING"}
  /\ UNCHANGED <<locks, shield, penalty, accounts, ledger, shown>>

-----------------------------------------------------------------------------
RequestStep(s) ==
  \/ Lookup(s) \/ GuardsPass(s) \/ GuardsRefuse(s)
  \/ LockFirst(s) \/ InsertRetry(s) \/ InsertRefused(s) \/ \E d \in Ids : InsertRow(s, d)
  \/ Commit(s) \/ Rollback(s) \/ Created(s)
InviteNext == \E i \in invites :
  InviteCheck(i) \/ InviteRead(i) \/ InviteEmit(i) \/ InviteLost(i) \/ InviteMark(i)
Sweep == SweepAccepted \/ \E batch \in SUBSET Ids : \E charged \in SUBSET batch :
                            SweepPending(batch, charged)

Next ==
  \/ \E s \in Slots : RequestStep(s)
  \/ \E s \in Slots, ask \in Asks : Receive(s, ask)
  \/ InviteNext
  \/ \E d \in Ids : Accept(d) \/ Reject(d) \/ Expire(d) \/ ExpireFails(d)
  \/ \E d \in Ids : ReportResult(d) \/ VoidByGame(d) \/ \E w \in Winners : ResolveStart(d, w)
  \/ \E t \in resolving : ResolveCommit(t) \/ ResolveFails(t) \/ ResolveLost(t)
  \/ Sweep
  \/ \E t \in after : Settle(t)
  \/ \E u \in Users : Leave(u) \/ Purge(u) \/ ShieldLapses(u) \/ PenaltyLapses(u)
  \/ Tick \/ Crash

Spec == Init /\ [][Next]_vars

(* The sweep is a repeatable job of the queue, so it keeps running across     *)
(* restarts; time passes; a request that is being handled goes on unless the *)
(* process dies.  Nothing else is assumed: no client acts, no timer fires.   *)
Fairness == /\ WF_vars(Tick) /\ WF_vars(Sweep)
            /\ \A s \in Slots : WF_vars(RequestStep(s))
FairSpec == Spec /\ Fairness

-----------------------------------------------------------------------------
Charges(d) == ledger[d]["DUEL_REJECT"] + ledger[d]["DUEL_NO_RESPONSE"]

\* Pair locks cover one pair only and the unique index one direction only; still
\* nobody is in two active duels, whatever requests cross (requestDuel).
OneActiveDuel ==
  \A d \in Ids, e \in Ids : IsActive(d) /\ IsActive(e) /\ Players(d) \cap Players(e) # {} => d = e

\* Deleting an account races with requests, answers and games of its user; still an
\* active duel always binds two accounts that exist, of different teams
\* (terminateActiveDuelsFor runs in the transaction that deletes the user).
ActivePlayersExist ==
  \A d \in Ids : IsActive(d) =>
    /\ Players(d) \subseteq accounts
    /\ Team[duel[d].challengerId] # Team[duel[d].opponentId]

\* However often a request is repeated, and whichever copies overlap, one duel
\* carries its requestId: the unique index of duel.entity.ts never has to fire.
OneDuelPerRequest ==
  \A d \in Ids, e \in Ids :
    (/\ Visible(d) /\ Visible(e)
     /\ duel[d].requestId # NoRequest /\ duel[d].requestId = duel[e].requestId
     /\ duel[d].challengerId # NoUser /\ duel[d].challengerId = duel[e].challengerId) => d = e

\* Moreover a retry is never answered with an error because of the duel its first
\* copy made: to ask again is to be told of the same duel.
RequestIsIdempotent ==
  /\ []OneDuelPerRequest
  /\ [][\A s \in Slots : slot[s].phase = "half" /\ slot'[s].phase = "refused"
           => ~\E d \in Ids : OwnRow(s, d) /\ SameTarget(s, d)]_vars

\* Reject, timer, sweep and account deletion race for a PENDING duel: at most one
\* charges it, the entry and scoreDelta agree, and only an end without a game charges.
ChargedOnce ==
  \A d \in Ids :
    /\ Charges(d) <= 1
    /\ Charges(d) = 1 => duel[d].status \in Unresolved /\ duel[d].scoreDelta > 0
    /\ duel[d].status \in Unresolved /\ duel[d].scoreDelta > 0 => Charges(d) = 1
    /\ (duel[d].status = "REJECTED") <=> (ledger[d]["DUEL_REJECT"] = 1)

\* Nobody pays for ignoring an invitation that never reached a socket, whichever
\* path ends the duel and whatever was lost on the way (buildNoResponseCharges).
NoChargeUnseen == \A d \in Ids : ledger[d]["DUEL_NO_RESPONSE"] > 0 => d \in shown

\* A shield is the other side of a charge: whoever has one, or is about to get
\* one, has paid for some duel (grantShields).
ShieldPaidFor ==
  \A u \in shield \union UNION {t.shield : t \in after} :
    u \in accounts => \E d \in Ids : Charges(d) = 1 /\ duel[d].opponentId = u

\* The price of silence: who did not see the invitation pays nothing, and who did
\* not pay has no protection.
SilenceHasItsPrice == NoChargeUnseen /\ ShieldPaidFor

\* The lock of a duel that is still active goes only with its TTL: no late release
\* of another duel of the pair takes it (releaseLock compares the token).
ActiveLockStays ==
  [][\A l \in locks : IsActive(l.token) /\ l.left > 1
        => \E k \in locks' : k.pair = l.pair /\ k.token = l.token]_vars

\* While a PENDING duel can still be answered its pair lock is held: it is taken
\* before the commit and for the whole response time (requestDuel).
AnswerableHoldsLock ==
  \A d \in Ids : duel[d].status = "PENDING" /\ duel[d].age < DUEL_REQUEST_TTL
                => \E l \in locks : l.pair = Players(d) /\ l.token = d

\* The rows the transactions leave behind follow the abstract life cycle.
Lifecycle == INSTANCE DuelLifecycle WITH
  state    <- [d \in Ids |-> IF Visible(d) THEN duel[d].status ELSE "NONE"],
  revision <- [d \in Ids |-> duel[d].revision],
  engaged  <- [d \in Ids |-> IF IsActive(d) THEN Players(d) ELSE {}],
  charges  <- [d \in Ids |-> Charges(d)]
RefinesLifecycle == Lifecycle!Spec

\* No duel stays active for ever, even if every timer is lost at a restart and
\* nobody plays: the sweep is durable.
EveryDuelEnds == \A d \in Ids : IsActive(d) ~> duel[d].status \in Final

\* Every request gets an answer: crossed requests of one pair take the advisory
\* locks of both users one after the other, and none waits for ever for its second
\* (the sort by id: "교차 신청 간 데드락 방지", duels.service.ts:614).
EveryRequestAnswered ==
  \A s \in Slots : slot[s].phase \in {"tx", "half"} ~> slot[s].phase \notin {"tx", "half"}

-----------------------------------------------------------------------------
(* An inductive strengthening of the invariants above: what DuelsProofs       *)
(* carries from step to step.                                                *)

\* A row binds its players from the insert on, before anybody else sees it.
Binds(d) == duel[d].status \in Active \union {"INSERTED"}
BoundPlayersExist ==
  \A d \in Ids : Binds(d) =>
    /\ duel[d].challengerId \in accounts /\ duel[d].opponentId \in accounts
    /\ Team[duel[d].challengerId] # Team[duel[d].opponentId]
BoundPlayersFree ==
  \A d \in Ids, e \in Ids : Binds(d) /\ Binds(e) /\ d # e => Players(d) \cap Players(e) = {}

\* A handler that holds the advisory locks owns the one row it has inserted.
SlotsAgree ==
  \A s \in Slots :
    /\ slot[s].phase \in {"lookup", "guards", "tx", "half", "locked", "created"}
         => slot[s].user \in Users /\ slot[s].target \in Users
    /\ slot[s].phase \in {"tx", "half"} => Team[slot[s].user] # Team[slot[s].target]
    /\ slot[s].phase \in {"locked", "created"} => slot[s].id \in Ids
    /\ slot[s].phase = "locked" => duel[slot[s].id].status = "INSERTED"
    /\ \A q \in Slots : slot[s].phase = "locked" /\ slot[q].phase = "locked" /\ q # s
                        => slot[q].id # slot[s].id

\* Who waits for its second advisory lock has the first one to itself.
FirstIsOwn ==
  \A s \in Slots : slot[s].phase = "half" =>
    /\ \A d \in Ids : duel[d].status = "INSERTED" => First(s) \notin Players(d)
    /\ \A q \in Slots : slot[q].phase = "half" /\ q # s => First(q) # First(s)

\* The ledger of a row is a function of its status and scoreDelta.
LedgerAgrees ==
  \A d \in Ids :
    /\ ledger[d]["DUEL_REJECT"] = IF duel[d].status = "REJECTED" THEN 1 ELSE 0
    /\ ledger[d]["DUEL_NO_RESPONSE"] =
         IF duel[d].status = "EXPIRED" /\ duel[d].scoreDelta > 0 THEN 1 ELSE 0
    /\ duel[d].status = "REJECTED" => duel[d].scoreDelta > 0

\* Nobody else has seen an invisible row: it has no history.
InvisibleIsNew == \A d \in Ids : duel[d].status \in Invisible => duel[d].revision = 0

IndInv == /\ TypeOK /\ BoundPlayersExist /\ BoundPlayersFree /\ SlotsAgree
          /\ FirstIsOwn /\ LedgerAgrees /\ InvisibleIsNew

-----------------------------------------------------------------------------
(* A claim of the documentation that the code does not keep.                 *)

\* duels.service.ts:1176-1184: a duel requested before this process started is not
\* charged; a timer that fires proves that there was no restart.
NoChargeAcrossRestart ==
  [][\A d \in outage : ledger'[d]["DUEL_NO_RESPONSE"] = ledger[d]["DUEL_NO_RESPONSE"]]_vars
=============================================================================
