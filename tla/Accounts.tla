------------------------------ MODULE Accounts ------------------------------
(***************************************************************************)
(* Registration, withdrawal and what is kept of a withdrawn account        *)
(* (auth/auth.service.ts, account/, consents/, the reports of              *)
(* moderation/moderation.service.ts, the Firebase account behind it).      *)
(*                                                                         *)
(* One address is followed.  Its owner may have one Firebase account after *)
(* another; a token outlives the account it was issued for, since it is    *)
(* verified without asking whether it was revoked.  The address and the    *)
(* Firebase uid are unique among users, so there is one row at most.       *)
(***************************************************************************)
EXTENDS Integers, FiniteSets

CONSTANTS
  Requests,     \* registrations, withdrawals and reports, of one kind each
  Reports,      \* requests that report the owner of the address
  MaxUids,      \* Firebase accounts, and rows of users, that come to exist
  MaxMishaps    \* failing calls, crashes

ASSUME AccountsAssumption ==
  /\ Reports \subseteq Requests /\ MaxUids \in Nat /\ MaxMishaps \in Nat

VARIABLES
  login,     \* uid of the Firebase account of the address; 0 is none
  uids,      \* Firebase accounts so far
  row,       \* the row of users: its id and uid; id 0 is none
  ids,       \* rows so far
  consents,  \* ids with the rows of user_consents
  filed,     \* rows of reports: whom each is about, was about when filed, and the record
  archive,   \* rows of withdrawn_accounts with their consent_archives
  record,    \* records so far
  request,   \* requests between two awaits
  mishaps,   \* mishaps left
  overlap,   \* history: a registration was stored while its uid was being withdrawn, or later
  left,      \* history: ids whose row a withdrawal has deleted
  slipped    \* history: reports that came between the archive and the deletion

accountsVars == <<login, uids, row, ids, consents, filed, archive, record, request, mishaps,
                  overlap, left, slipped>>

NoRow == [id |-> 0, uid |-> 0]
Unasked == [kind |-> "none", phase |-> "idle", uid |-> 0, id |-> 0, kept |-> [full |-> FALSE, found |-> {}],
            answer |-> "none"]

AccountsInit ==
  /\ login = 0 /\ uids = 0 /\ row = NoRow /\ ids = 0 /\ consents = {}
  /\ filed = [r \in Reports |-> [about |-> 0, was |-> 0, record |-> 0]]
  /\ archive = {} /\ record = 0
  /\ request = [r \in Requests |-> Unasked] /\ mishaps = MaxMishaps
  /\ overlap = FALSE /\ left = {} /\ slipped = {}

Mishap == mishaps > 0 /\ mishaps' = mishaps - 1
In(r, kind, phase) == request[r].kind = kind /\ request[r].phase = phase
Onward(r, phase) == request' = [request EXCEPT ![r].phase = phase]
Reply(r, answer) == request' = [request EXCEPT ![r] = [Unasked EXCEPT !.kind = request[r].kind,
                      !.uid = request[r].uid, !.phase = "done", !.answer = answer]]

firebase == <<login, uids>>
profile == <<row, ids, consents>>
evidence == <<filed, archive, record>>
past == <<overlap, left, slipped>>

-----------------------------------------------------------------------------
(* External: the owner makes a Firebase account, and asks with one of its tokens. *)

SignUp ==
  /\ login = 0 /\ uids < MaxUids
  /\ uids' = uids + 1 /\ login' = uids + 1
  /\ UNCHANGED <<profile, evidence, request, mishaps, past>>

Asks(r, kind) ==
  /\ request[r].phase = "idle" /\ r \notin Reports
  /\ \E u \in 1..uids :
       request' = [request EXCEPT ![r] = [Unasked EXCEPT !.kind = kind, !.phase = "find", !.uid = u]]
  /\ UNCHANGED <<firebase, profile, evidence, mishaps, past>>

-----------------------------------------------------------------------------
(* register. *)

(* A uid with a row is refused, and so is a token without a verified address or a form    *)
(* whose consents are incomplete, twice or of an unknown version.                         *)
FindForRegister(r) ==
  /\ In(r, "register", "find")
  /\ \/ row.uid # request[r].uid /\ Onward(r, "insert")
     \/ Reply(r, "refused")
  /\ UNCHANGED <<firebase, profile, evidence, mishaps, past>>

(* The row and its consents, in one commit; a unique column that is taken means a refusal.*)
Withdrawing(u) == \E r \in Requests : request[r].kind = "withdraw" /\ request[r].uid = u
                                      /\ request[r].phase \notin {"idle", "done"}
InsertUser(r) ==
  /\ In(r, "register", "insert")
  /\ IF row = NoRow
       THEN /\ ids < MaxUids
            /\ ids' = ids + 1 /\ row' = [id |-> ids + 1, uid |-> request[r].uid]
            /\ consents' = consents \union {ids + 1}
            /\ overlap' = (overlap \/ login # request[r].uid \/ Withdrawing(request[r].uid))
            /\ Reply(r, "ok")
       ELSE Reply(r, "refused") /\ UNCHANGED <<profile, overlap>>
  /\ UNCHANGED <<firebase, evidence, mishaps, left, slipped>>

-----------------------------------------------------------------------------
(* deleteMe: the row and what is kept of it, and after that the Firebase account. *)

(* The row goes first: a failure in between leaves an account that can register again or  *)
(* be deleted again, and never a profile nobody can log in to.                            *)
LoginFirst == [find |-> "login", login |-> "begin", delete |-> "done"]
RowFirst == [find |-> "begin", delete |-> "login", login |-> "done"]
Steps == RowFirst
Proceed(r, from) == IF Steps[from] = "done" THEN Reply(r, "ok") ELSE Onward(r, Steps[from])

(* Without a profile what may be left is the account, and that is deleted. *)
FindForWithdraw(r) ==
  /\ In(r, "withdraw", "find")
  /\ IF row.uid = request[r].uid
       THEN request' = [request EXCEPT ![r].id = row.id, ![r].phase = Steps.find]
       ELSE Onward(r, "login")
  /\ UNCHANGED <<firebase, profile, evidence, mishaps, past>>

(* One transaction at a time, by the advisory lock that also ends the user's duels.  It   *)
(* reads the consents and links the reports there are to a new record.                    *)
About(id) == {f \in Reports : filed[f].about = id}
KeptAfterDeletion(id) == [full |-> FALSE, found |-> {}]
Kept(id) == [full |-> id \in consents, found |-> About(id)]
ArchiveFirst(r) ==
  /\ In(r, "withdraw", "begin")
  /\ \A o \in Requests : ~(In(o, "withdraw", "delete") /\ request[o].id = request[r].id)
  /\ request' = [request EXCEPT ![r].phase = "delete", ![r].kept = Kept(request[r].id)]
  /\ UNCHANGED <<firebase, profile, evidence, mishaps, past>>

(* The row goes, its consents with it, and the reports lose whom they are about. *)
DeleteUser(r) ==
  /\ In(r, "withdraw", "delete")
  /\ LET me == request[r].id
     IN  /\ record' = record + 1
         /\ archive' = archive \union {[no |-> record + 1, id |-> me, full |-> request[r].kept.full]}
         /\ filed' = [f \in Reports |->
              [filed[f] EXCEPT !.about = IF @ = me THEN 0 ELSE @,
                               !.record = IF f \in request[r].kept.found THEN record + 1 ELSE @]]
         /\ slipped' = slipped \union (About(me) \ request[r].kept.found)
         /\ consents' = consents \ {me}
         /\ row' = IF row.id = me THEN NoRow ELSE row
         /\ left' = IF row.id = me THEN left \union {me} ELSE left
  /\ Proceed(r, "delete")
  /\ UNCHANGED <<firebase, ids, mishaps, overlap>>

(* An account that is gone already counts as deleted. *)
DeleteLogin(r) ==
  /\ In(r, "withdraw", "login")
  /\ login' = IF login = request[r].uid THEN 0 ELSE login
  /\ Proceed(r, "login")
  /\ UNCHANGED <<uids, profile, evidence, mishaps, past>>

-----------------------------------------------------------------------------
(* report, by somebody else: the row of the reported user is read, then referred to. *)

FindForReport(r) ==
  /\ r \in Reports /\ request[r].phase = "idle" /\ row # NoRow
  /\ request' = [request EXCEPT ![r] = [Unasked EXCEPT !.kind = "report", !.phase = "insert",
                                                     !.id = row.id]]
  /\ UNCHANGED <<firebase, profile, evidence, mishaps, past>>

(* Without that row the foreign key refuses the report. *)
UserGone(r) == row.id # request[r].id
InsertReport(r) ==
  /\ In(r, "report", "insert")
  /\ IF ~UserGone(r)
       THEN filed' = [filed EXCEPT ![r].about = row.id, ![r].was = row.id] /\ Reply(r, "ok")
       ELSE Reply(r, "refused") /\ UNCHANGED filed
  /\ UNCHANGED <<firebase, profile, archive, record, mishaps, past>>

-----------------------------------------------------------------------------
(* A record goes when its six months are over, or when the owner asks for it: its         *)
(* consents with it, and the reports lose it.                                             *)
PurgeRecords ==
  /\ archive # {} /\ Mishap
  /\ \E gone \in SUBSET archive \ {{}} :
       /\ archive' = archive \ gone
       /\ filed' = [f \in Reports |-> IF filed[f].record \in {g.no : g \in gone}
                                        THEN [filed[f] EXCEPT !.record = 0] ELSE filed[f]]
       /\ left' = left \ {g.id : g \in gone}
  /\ UNCHANGED <<firebase, profile, record, request, overlap, slipped>>

(* A call throws, or the process dies: a transaction that has not committed is undone. *)
RequestFails(r) ==
  /\ request[r].phase \notin {"idle", "done"} /\ Mishap
  /\ Reply(r, "failed")
  /\ UNCHANGED <<firebase, profile, evidence, past>>

AccountsNext ==
  \/ SignUp \/ PurgeRecords
  \/ \E r \in Requests : \/ Asks(r, "register") \/ Asks(r, "withdraw")
                         \/ FindForRegister(r) \/ InsertUser(r)
                         \/ FindForWithdraw(r) \/ ArchiveFirst(r) \/ DeleteUser(r) \/ DeleteLogin(r)
                         \/ FindForReport(r) \/ InsertReport(r) \/ RequestFails(r)

AccountsSpec == AccountsInit /\ [][AccountsNext]_accountsVars

-----------------------------------------------------------------------------
AccountsTypeOK ==
  /\ {login, uids, ids} \subseteq 0..MaxUids /\ row \in [id : 0..MaxUids, uid : 0..MaxUids]
  /\ consents \subseteq 1..MaxUids /\ record \in Nat
  /\ filed \in [Reports -> [about : 0..MaxUids, was : 0..MaxUids, record : 0..record]]
  /\ archive \subseteq [no : 1..record, id : 1..MaxUids, full : BOOLEAN]
  /\ request \in [Requests ->
       [kind : {"none", "register", "withdraw", "report"}, uid : 0..MaxUids, id : 0..MaxUids,
        phase : {"idle", "find", "insert", "begin", "delete", "login", "done"},
        kept : [full : BOOLEAN, found : SUBSET Reports], answer : {"none", "ok", "refused", "failed"}]]
  /\ mishaps \in 0..MaxMishaps /\ overlap \in BOOLEAN
  /\ left \subseteq 1..MaxUids /\ slipped \subseteq Reports

(* Nobody is locked out of his address: a profile always has the Firebase account to log  *)
(* in with, and a withdrawal that reports success has deleted that account, so that the   *)
(* address can be registered again.  Excepted is a registration with a token of an        *)
(* account that is being withdrawn, or has been.                                          *)
ProfileAndLoginAgree ==
  /\ row # NoRow => login = row.uid \/ overlap
  /\ \A r \in Requests : request[r].kind = "withdraw" /\ request[r].answer = "ok"
                         => login # request[r].uid

(* Of every withdrawn account there is, until it is purged, a record with its consents,   *)
(* to which the reports about it are linked, but for one that was filed after the archive *)
(* was taken.  While the account lives its consents are there.                            *)
ArchiveIsComplete ==
  /\ \A i \in left : \E g \in archive : g.id = i /\ g.full
  /\ \A r \in Reports \ slipped : filed[r].was \in left
                                  => \E g \in archive : g.no = filed[r].record /\ g.id = filed[r].was
  /\ row # NoRow => row.id \in consents

(* Registration and withdrawal, overlapping and repeated, leave neither a profile without *)
(* its login nor a withdrawn account without its record.                                  *)
AccountsAgree == ProfileAndLoginAgree /\ ArchiveIsComplete
=============================================================================
