------------------------------- MODULE SignIn -------------------------------
(***************************************************************************)
(* Signing up and in on one phone (frontend/src: app/(auth)/login.tsx,     *)
(* register.tsx, complete-profile.tsx, hooks/use-registration-flow.ts,     *)
(* use-social-auth.ts, use-social-login-consent.ts, use-auth.ts,           *)
(* lib/pending-consent.ts, legal/index.ts, providers/AuthProvider.tsx)     *)
(* against POST /api/auth/register and GET /api/auth/me.                   *)
(*                                                                         *)
(* One person with two identities: an address with a password ("mail") and *)
(* a Google account ("social") with an address of its own.  An identity    *)
(* has one Firebase account after another, each with a new uid.            *)
(***************************************************************************)
EXTENDS Integers, Sequences

CONSTANTS
  MaxAccounts,   \* Firebase accounts that come to exist
  MaxBothers     \* lost answers, refusals, failing calls, restarts

ASSUME SignInAssumption == MaxAccounts \in Nat /\ MaxBothers \in Nat

Identities == {"mail", "social"}
Uids == 1..MaxAccounts
Unknown == 0    \* no session, no account; the cache of auth.me without data
Null == -1      \* auth.me answered 404

VARIABLES
  made,      \* the identity each uid was made for, in the order of the uids
  logins,   \* the uid an identity has now
  verified,  \* uids whose address is verified
  row,       \* the uid that has the profile of an identity's address
  session,   \* auth.currentUser
  me,        \* the query auth.me: Unknown, Null or the uid of the profile
  poll,      \* the request of that query under way: its uid and what the server has read
  screen,    \* the screen on top
  step,      \* of the register screen
  created,   \* createdAccount
  sheet,     \* the sheet of terms is open
  saving,    \* calls of handleContinueToRegister that are saving the snapshot
  awaited,   \* a social sign-in waits for the sheet
  snapshot,  \* the stored consent: none, current, old (not the documents of the app), ahead (unknown to the server)
  entry,     \* the e-mail login and the social login: phase and the uid that was signed in
  form,      \* what the register or complete-profile screen is doing
  call,      \* its registration at the server
  strays,    \* registrations nobody waits for any more
  bothers,   \* bothers left
  unsure,    \* history: uids of which this phone could not know that they had a profile
  dropped,   \* history: uids deleted by changeEmail
  known,     \* history: the uid this phone was told to be registered
  strayed     \* history: the register screen may open over a social session (see Astray)

signInVars == <<made, logins, verified, row, session, me, poll, screen, step, created, sheet, saving,
                awaited, snapshot, entry, form, call, strays, bothers, unsure, dropped, known, strayed>>

NoPoll == [uid |-> Unknown, read |-> Unknown]
NoCall == [uid |-> Unknown, consent |-> "none", answer |-> "none"]
Still == [phase |-> "idle", uid |-> Unknown]

SignInInit ==
  /\ made = <<>> /\ logins = [i \in Identities |-> Unknown] /\ verified = {}
  /\ row = [i \in Identities |-> Unknown] /\ session = Unknown /\ me = Unknown /\ poll = NoPoll
  /\ screen = "login" /\ step = "form" /\ created = FALSE /\ sheet = FALSE /\ saving = 0
  /\ awaited = FALSE /\ snapshot = "none"
  /\ entry = [w \in Identities |-> Still] /\ form = Still /\ call = NoCall /\ strays = {}
  /\ bothers = MaxBothers /\ unsure = {} /\ dropped = {} /\ known = Unknown /\ strayed = FALSE

Bother == bothers > 0 /\ bothers' = bothers - 1
Registered(u) == u # Unknown /\ row[made[u]] = u
Profile(u) == IF Registered(u) THEN u ELSE Null
Social(u) == u # Unknown /\ made[u] = "social"

world == <<made, logins, verified, row>>
device == <<screen, step, created, sheet, saving, awaited, snapshot>>
server == <<call, strays>>
past == <<unsure, dropped, known, strayed>>

-----------------------------------------------------------------------------
(* The Firebase session and the query auth.me.                                            *)

(* onAuthStateChanged: a user who is no longer the one before loses the cached profile    *)
(* and the request for it; the query runs whenever there is a session and no data.        *)
Asked(u) == [uid |-> u, read |-> Unknown]
SessionBecomes(u) ==
  LET changed == session # Unknown /\ session # u
      kept == IF changed THEN Unknown ELSE me
  IN  /\ session' = u /\ me' = kept
      /\ poll' = IF u = Unknown THEN NoPoll
                 ELSE IF kept = Unknown /\ (changed \/ poll = NoPoll) THEN Asked(u) ELSE poll

(* getMe reads the row, and its answer arrives later. *)
PollReads ==
  /\ poll.uid # Unknown /\ poll.read = Unknown
  /\ poll' = [poll EXCEPT !.read = Profile(poll.uid)]
  /\ UNCHANGED <<world, session, me, device, entry, form, server, bothers, past>>

PollAnswers ==
  /\ poll.read # Unknown
  /\ me' = poll.read /\ poll' = NoPoll
  /\ UNCHANGED <<world, session, device, entry, form, server, bothers, past>>

(* replace('/'): index sends a known profile to (main), everybody else back to the login. *)
EntersBy(cached) == screen' = IF cached > 0 /\ session # Unknown THEN "main" ELSE "login"

-----------------------------------------------------------------------------
(* External: the person opens the link of the mail; another device registers.             *)

OpensLink ==
  /\ logins["mail"] # Unknown /\ logins["mail"] \notin verified
  /\ verified' = verified \union {logins["mail"]}
  /\ UNCHANGED <<made, logins, row, session, me, poll, device, entry, form, server, bothers, past>>

ElsewhereRegisters ==
  /\ \E i \in Identities :
       /\ row[i] = Unknown /\ logins[i] \in verified
       /\ row' = [row EXCEPT ![i] = logins[i]]
       /\ unsure' = IF form.uid = logins[i] /\ (form.phase = "rollback" \/ call.answer = "refused")
                      THEN unsure \union {logins[i]} ELSE unsure
  /\ Bother
  /\ UNCHANGED <<made, logins, verified, session, me, poll, device, entry, form, server, dropped, known, strayed>>

-----------------------------------------------------------------------------
(* The login screen: handleLogin, and handleGoogleLogin with useFinishSocialLogin.        *)

Makes(i) == /\ Len(made) < MaxAccounts
            /\ made' = Append(made, i) /\ logins' = [logins EXCEPT ![i] = Len(made) + 1]
            /\ verified' = IF i = "social" THEN verified \union {Len(made) + 1} ELSE verified

(* The provider makes the Firebase account of one who has none. *)
Accepted(w) ==
  \/ logins[w] # Unknown /\ UNCHANGED <<made, logins, verified>>
  \/ w = "social" /\ logins[w] = Unknown /\ Makes(w)
SignsIn(w) ==
  /\ screen = "login" /\ ~sheet /\ entry[w].phase = "idle"
  /\ Accepted(w)
  /\ SessionBecomes(logins'[w])
  /\ entry' = [entry EXCEPT ![w] = [phase |-> "fetch", uid |-> logins'[w]]]
  /\ UNCHANGED <<row, device, form, server, bothers, past>>

Then(w, phase) == entry' = [entry EXCEPT ![w] = IF phase = "idle" THEN Still ELSE [@ EXCEPT !.phase = phase]]

(* fetchQuery.  A change of the session cancels it: the e-mail login reports an error,    *)
(* the social login asks again for the session there is now.                              *)
Fetched(w) ==
  /\ entry[w].phase = "fetch" /\ entry[w].uid = session /\ session # Unknown
  /\ me' = Profile(session) /\ poll' = NoPoll
  /\ IF Registered(session)
       THEN /\ EntersBy(session) /\ sheet' = FALSE /\ awaited' = FALSE /\ Then(w, "idle")
       ELSE /\ Then(w, IF w = "mail" THEN "leaving" ELSE "asking")
            /\ sheet' = (sheet \/ w = "social") /\ awaited' = (awaited \/ w = "social")
            /\ UNCHANGED screen
  /\ UNCHANGED <<world, session, step, created, saving, snapshot, form, server, bothers, past>>

FetchCancelled(w) ==
  /\ entry[w].phase = "fetch" /\ entry[w].uid # session
  /\ IF w = "mail" THEN Then(w, "idle")
     ELSE IF session = Unknown THEN Then(w, "leaving")
     ELSE entry' = [entry EXCEPT ![w].uid = session]
  /\ UNCHANGED <<world, session, me, poll, device, form, server, bothers, past>>

(* Only the social login cleans up after a failing fetch. *)
FetchFails(w) ==
  /\ entry[w].phase = "fetch" /\ Bother
  /\ Then(w, IF w = "mail" THEN "idle" ELSE "leaving")
  /\ UNCHANGED <<world, session, me, poll, device, form, server, past>>

(* signOut, of whoever is signed in by then. *)
Leaves(w) ==
  /\ entry[w].phase = "leaving"
  /\ SessionBecomes(Unknown) /\ Then(w, "idle")
  /\ UNCHANGED <<world, device, form, server, bothers, past>>

-----------------------------------------------------------------------------
(* The sheet of terms: every opening clears the ticks, so what is saved was ticked in it. *)

(* The sign-up link stays active while a social login is under way: who continues then    *)
(* before it has its answer comes to the register screen with the social session.         *)
Astray == entry["social"].phase # "idle" \/ Social(session)
OpensSheet ==
  /\ screen = "login" /\ ~sheet
  /\ sheet' = TRUE /\ strayed' = (strayed \/ Astray)
  /\ UNCHANGED <<world, session, me, poll, screen, step, created, saving, awaited, snapshot, entry,
                 form, server, bothers, unsure, dropped, known>>

(* A second tap is ignored while the first one saves, by a ref that is set at once. *)
AnyTap == saving < 2
OneTap == saving = 0
Continues ==
  /\ sheet /\ OneTap
  /\ saving' = saving + 1
  /\ UNCHANGED <<world, session, me, poll, screen, step, created, sheet, awaited, snapshot, entry, form,
                 server, bothers, past>>

OpensRegister == screen' = "register" /\ created' = FALSE
                 /\ step' = IF session # Unknown THEN "waiting" ELSE "form"

(* Who was awaited goes on in his own flow, everybody else to the register screen. *)
SnapshotSaved ==
  /\ saving > 0 /\ saving' = saving - 1
  /\ \/ snapshot' = "current" /\ UNCHANGED bothers
     \/ snapshot' = "ahead" /\ Bother
  /\ sheet' = FALSE /\ awaited' = FALSE
  /\ IF awaited
       THEN /\ screen' = IF session # Unknown THEN "complete" ELSE "login"
            /\ Then("social", "idle") /\ UNCHANGED <<step, created>>
       ELSE OpensRegister /\ UNCHANGED entry
  /\ UNCHANGED <<world, session, me, poll, form, server, past>>

SnapshotNotSaved ==
  /\ saving > 0 /\ saving' = saving - 1 /\ Bother
  /\ UNCHANGED <<world, session, me, poll, screen, step, created, sheet, awaited, snapshot, entry, form,
                 server, past>>

(* Closing the sheet is a refusal.  Closed while the snapshot is being saved, it leads    *)
(* to the register screen even one who was awaited.                                       *)
DismissesSheet ==
  /\ sheet /\ sheet' = FALSE /\ awaited' = FALSE
  /\ strayed' = (strayed \/ saving > 0)
  /\ IF awaited THEN Then("social", "leaving") ELSE UNCHANGED entry
  /\ UNCHANGED <<world, session, me, poll, screen, step, created, saving, snapshot, form, server, bothers,
                 unsure, dropped, known>>

(* A day passes, or an update of the app asks for other documents. *)
SnapshotAges ==
  /\ snapshot \in {"current", "ahead"} /\ Bother /\ snapshot' = "old"
  /\ UNCHANGED <<world, session, me, poll, screen, step, created, sheet, saving, awaited, entry, form,
                 server, past>>

-----------------------------------------------------------------------------
(* finishRegistration, and handleSubmit of complete-profile, up to the request.           *)

Usable == {"current", "ahead"}
Requests(u, by) ==
  /\ form' = [phase |-> by, uid |-> u]
  /\ call' = [uid |-> u, consent |-> snapshot, answer |-> "none"]

(* MissingConsentError: the consent has to be given again, in the sheet of the login.     *)
BackToTerms == snapshot' = "none" /\ screen' = "login"

(* Without a usable snapshot nothing is sent: back to the sheet.  The register screen     *)
(* keeps the session, complete-profile ends it.                                           *)
Finishes(u, by) ==
  IF snapshot \in Usable
    THEN Requests(u, by) /\ UNCHANGED <<screen, snapshot>>
    ELSE BackToTerms /\ UNCHANGED <<form, call>>

(* The handlers of the register screen; its buttons are off while one of them is busy. *)
Offers(s) == screen = "register" /\ step = s /\ form.phase = "idle"

(* submit: a new account, or the one the address has already. *)
Submits ==
  /\ Offers("form")
  /\ LET new == logins["mail"] = Unknown
     IN  /\ IF new THEN Makes("mail") ELSE UNCHANGED <<made, logins, verified>>
         /\ created' = new
  /\ LET u == logins'["mail"]
     IN  /\ SessionBecomes(u)
         /\ IF u \in verified
              THEN Finishes(u, "register") /\ UNCHANGED step
              ELSE step' = "waiting" /\ UNCHANGED <<screen, snapshot, form, call>>
  /\ UNCHANGED <<row, sheet, saving, awaited, entry, strays, bothers, past>>

(* confirmVerification. *)
Confirms ==
  /\ Offers("waiting")
  /\ \/ session = Unknown /\ step' = "form" /\ UNCHANGED <<screen, snapshot, form, call>>
     \/ session \in verified /\ Finishes(session, "register") /\ UNCHANGED step
  /\ UNCHANGED <<world, session, me, poll, created, sheet, saving, awaited, entry, strays, bothers, past>>

(* changeEmail: the account goes, or at least the session. *)
ChangesEmail ==
  /\ Offers("waiting")
  /\ \/ /\ session # Unknown /\ logins[made[session]] = session
        /\ logins' = [logins EXCEPT ![made[session]] = Unknown]
        /\ dropped' = dropped \union {session} /\ UNCHANGED bothers
     \/ session # Unknown /\ Bother /\ UNCHANGED <<logins, dropped>>
     \/ session = Unknown /\ UNCHANGED <<logins, dropped, bothers>>
  /\ SessionBecomes(Unknown) /\ step' = "form" /\ created' = FALSE
  /\ UNCHANGED <<made, verified, row, screen, sheet, saving, awaited, snapshot, entry, form, server,
                 unsure, known, strayed>>

(* complete-profile; without a session it redirects to the login. *)
Completes ==
  /\ screen = "complete" /\ form.phase = "idle"
  /\ IF session = Unknown
       THEN screen' = "login" /\ UNCHANGED <<session, me, poll, snapshot, form, call>>
       ELSE /\ Finishes(session, "complete")
            /\ IF snapshot \in Usable THEN UNCHANGED <<session, me, poll>> ELSE SessionBecomes(Unknown)
  /\ UNCHANGED <<world, step, created, sheet, saving, awaited, entry, strays, bothers, past>>

-----------------------------------------------------------------------------
(* The server: AuthService.register.                                                      *)

Answers(a) == call' = [call EXCEPT !.answer = a]
Pending == call.uid # Unknown /\ call.answer = "none"

(* The user is looked up by uid, the consents are checked, and the unique address decides. *)
Known(consent) == consent = "current"
ServerRegisters ==
  /\ Pending
  /\ LET i == made[call.uid]
     IN  IF row[i] = call.uid THEN Answers("conflict") /\ UNCHANGED row
         ELSE IF ~Known(call.consent) THEN Answers("consent") /\ UNCHANGED row
         ELSE IF row[i] # Unknown THEN Answers("conflict") /\ UNCHANGED row
         ELSE Answers("ok") /\ row' = [row EXCEPT ![i] = call.uid]
  /\ UNCHANGED <<made, logins, verified, session, me, poll, device, entry, form, strays, bothers, past>>

(* Any other 4xx: a refused body, a token that is refused, a rate limit; it comes before  *)
(* the row is looked for, so there may be one.                                            *)
ServerRefuses ==
  /\ Pending /\ Bother /\ Answers("refused")
  /\ unsure' = IF Registered(call.uid) THEN unsure \union {call.uid} ELSE unsure
  /\ UNCHANGED <<world, session, me, poll, device, entry, form, strays, dropped, known, strayed>>

StrayArrives ==
  /\ \E c \in strays :
       /\ strays' = strays \ {c}
       /\ row' = IF row[made[c.uid]] = Unknown /\ Known(c.consent)
                   THEN [row EXCEPT ![made[c.uid]] = c.uid] ELSE row
  /\ UNCHANGED <<made, logins, verified, session, me, poll, device, entry, form, call, bothers, past>>

-----------------------------------------------------------------------------
(* The answer at the phone.                                                               *)

(* onSuccess cancels the query that may still bring a 404 read before, and fills it.      *)
Overtaken == poll
Cancelled == NoPoll
Welcomed ==
  /\ call.answer = "ok"
  /\ poll' = Cancelled /\ me' = call.uid /\ known' = call.uid
  /\ snapshot' = "none" /\ screen' = IF session # Unknown THEN "main" ELSE "login"
  /\ form' = Still /\ call' = NoCall
  /\ UNCHANGED <<world, session, step, created, sheet, saving, awaited, entry, strays, bothers, unsure,
                 dropped, strayed>>

(* A 4xx other than 409 and the refusals of the consent rolls the new account back. *)
AnyRefusal == {"refused", "conflict"}
ClearRefusal == {"refused"}
RegisterRefused ==
  /\ form.phase = "register" /\ call.answer \in {"conflict", "consent", "refused"}
  /\ call' = NoCall
  /\ IF call.answer = "consent"
       THEN BackToTerms /\ form' = Still
       ELSE /\ form' = IF created /\ call.answer \in ClearRefusal
                         THEN [form EXCEPT !.phase = "rollback"] ELSE Still
            /\ UNCHANGED <<snapshot, screen>>
  /\ UNCHANGED <<world, session, me, poll, step, created, sheet, saving, awaited, entry, strays, bothers, past>>

RollsBack ==
  /\ form.phase = "rollback" /\ form' = Still
  /\ \/ /\ logins[made[form.uid]] = form.uid
        /\ logins' = [logins EXCEPT ![made[form.uid]] = Unknown]
        /\ IF session = form.uid THEN SessionBecomes(Unknown) ELSE UNCHANGED <<session, me, poll>>
        /\ UNCHANGED bothers
     \/ Bother /\ UNCHANGED <<logins, session, me, poll>>
  /\ UNCHANGED <<made, verified, row, device, entry, server, past>>

(* complete-profile takes a 409 for a registration elsewhere, and looks. *)
CompleteRefused ==
  /\ form.phase = "complete" /\ call.answer \in {"conflict", "consent", "refused"}
  /\ call' = NoCall
  /\ form' = IF call.answer = "conflict" THEN [form EXCEPT !.phase = "recheck"] ELSE Still
  /\ UNCHANGED <<world, session, me, poll, device, entry, strays, bothers, past>>

Rechecks ==
  /\ form.phase = "recheck" /\ form' = Still
  /\ \/ /\ Registered(session)
        /\ me' = session /\ poll' = NoPoll /\ EntersBy(session) /\ snapshot' = "none"
        /\ UNCHANGED <<session, bothers>>
     \/ /\ ~Registered(session)
        /\ SessionBecomes(Unknown) /\ screen' = "login" /\ UNCHANGED <<snapshot, bothers>>
     \/ Bother /\ UNCHANGED <<session, me, poll, screen, snapshot>>
  /\ UNCHANGED <<world, step, created, sheet, saving, awaited, entry, server, past>>

(* No answer comes, or a 5xx: the request may be carried out all the same, or later.      *)
Abandoned == IF Pending THEN strays \union {[uid |-> call.uid, consent |-> call.consent]} ELSE strays
Doubtful == IF call.uid = Unknown THEN unsure ELSE unsure \union {call.uid}
NoAnswer ==
  /\ call.uid # Unknown /\ Bother
  /\ strays' = Abandoned /\ unsure' = Doubtful
  /\ call' = NoCall /\ form' = Still
  /\ UNCHANGED <<world, session, me, poll, device, entry, dropped, known, strayed>>

(* The app is killed and started again: the session and the snapshot are stored. *)
AppRestarts ==
  /\ Bother
  /\ strays' = Abandoned /\ unsure' = Doubtful /\ call' = NoCall /\ form' = Still
  /\ entry' = [w \in Identities |-> Still]
  /\ screen' = IF Registered(session) THEN "main" ELSE "login"
  /\ me' = (IF session = Unknown THEN Unknown ELSE Profile(session))
  /\ poll' = NoPoll
  /\ step' = "form" /\ created' = FALSE /\ sheet' = FALSE /\ saving' = 0 /\ awaited' = FALSE
  /\ strayed' = (strayed \/ Astray)
  /\ UNCHANGED <<world, session, snapshot, dropped, known>>

SignInNext ==
  \/ PollReads \/ PollAnswers \/ OpensLink \/ ElsewhereRegisters
  \/ \E w \in Identities : SignsIn(w) \/ Fetched(w) \/ FetchCancelled(w) \/ FetchFails(w) \/ Leaves(w)
  \/ OpensSheet \/ Continues \/ SnapshotSaved \/ SnapshotNotSaved \/ DismissesSheet \/ SnapshotAges
  \/ Submits \/ Confirms \/ ChangesEmail \/ Completes
  \/ ServerRegisters \/ ServerRefuses \/ StrayArrives
  \/ Welcomed \/ RegisterRefused \/ RollsBack \/ CompleteRefused \/ Rechecks \/ NoAnswer \/ AppRestarts

SignInSpec == SignInInit /\ [][SignInNext]_signInVars

-----------------------------------------------------------------------------
SignInTypeOK ==
  /\ made \in Seq(Identities) /\ Len(made) <= MaxAccounts
  /\ logins \in [Identities -> 0..Len(made)] /\ row \in [Identities -> 0..Len(made)]
  /\ verified \subseteq 1..Len(made) /\ session \in 0..Len(made) /\ me \in -1..Len(made)
  /\ poll \in [uid : 0..Len(made), read : -1..Len(made)]
  /\ screen \in {"login", "register", "complete", "main"} /\ step \in {"form", "waiting"}
  /\ {created, sheet, awaited, strayed} \subseteq BOOLEAN /\ saving \in 0..2
  /\ snapshot \in {"none", "current", "old", "ahead"}
  /\ entry \in [Identities -> [phase : {"idle", "fetch", "asking", "leaving"}, uid : 0..Len(made)]]
  /\ form \in [phase : {"idle", "register", "complete", "rollback", "recheck"}, uid : 0..Len(made)]
  /\ call \in [uid : 0..Len(made), consent : {"none", "current", "ahead"},
               answer : {"none", "ok", "conflict", "consent", "refused"}]
  /\ strays \subseteq [uid : 1..Len(made), consent : {"current", "ahead"}]
  /\ bothers \in 0..MaxBothers /\ known \in 0..Len(made) /\ unsure \union dropped \subseteq 1..Len(made)

(* A profile keeps the Firebase account it is logged in to with: the phone deletes an     *)
(* account only when the server has said that there is no profile.  Excepted are accounts *)
(* given up with changeEmail, and those of which an answer was lost or late.              *)
ProfileKeepsLogin ==
  \A i \in Identities : row[i] # Unknown => logins[i] = row[i] \/ row[i] \in unsure \union dropped

(* Once told that the registration succeeded, the phone does not take its user for        *)
(* somebody without a profile, whatever a request from before still brings.               *)
RegistrationIsKept == known # Unknown /\ session = known => me = known \/ (poll.uid = known /\ poll.read # Null)

(* The register screen takes a session for an e-mail registration under way: nobody who   *)
(* signed in with Google gets there, but by the three ways Astray names.                  *)
SocialStaysApart == screen = "register" /\ Social(session) => strayed

(* The three together: however answers are lost, late or overtaken, signing up leaves no  *)
(* profile without its login, no registered user taken for a new one, and no social login *)
(* in the screen of an e-mail registration.                                               *)
SignUpHolds == ProfileKeepsLogin /\ RegistrationIsKept /\ SocialStaysApart

(* The comment of changeEmail: the account it deletes, which is one that was made with an *)
(* address and a password and waits for its verification, has no profile yet.             *)
DroppedHadNoProfile == \A u \in dropped : made[u] = "mail" => ~Registered(u)
=============================================================================
