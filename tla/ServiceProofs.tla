---------------------------- MODULE ServiceProofs ----------------------------
(***************************************************************************)
(* Proofs about the services over PostgreSQL and Redis that Services.cfg   *)
(* runs, for any number of districts, accounts, players, festivals and     *)
(* spots and for any number of requests, runs and workers that overlap:    *)
(* Capital, Accounts, Rankings, Festivals, SpotSeed and DistrictBoot.      *)
(* Each component has an inductive invariant of its own; what it says      *)
(* beyond the property is above it.  The last section puts them together   *)
(* with Visits: what holds of each holds of Services.                      *)
(***************************************************************************)
EXTENDS Services, VisitsProofs, FiniteSetTheorems, WellFoundedInduction, TLAPS

-----------------------------------------------------------------------------
(* Capital.  CapitalInv is inductive: besides what the cache holds it says what may still *)
(* come to it, from a worker or from a write that was given up, and what a worker about   *)
(* to insert knows of the week before.                                                    *)

(* A worker works for a week that has begun, and a write always has something to write.   *)
WorkersAreOfTheirWeek ==
  \A p \in Workers : /\ worker[p].week <= week
                     /\ worker[p].phase = "cache" => worker[p].value # Undesignated
                     /\ worker[p].phase = "insert" => worker[p].value \in Districts

(* What may still arrive in the cache agrees with the table.                              *)
LateAgrees == \A d \in late : d[2] \in Districts => d[2] = capital[d[1]]

(* Only weeks that have begun are designated.                                             *)
NoneAhead == \A w \in Weeks : capital[w] # Undesignated => w <= week

Only(w) == w - 1 \in overdue \/ Cardinality(Districts) = 1

(* Who is about to insert has not picked the capital of the week before, unless that week *)
(* was designated late, after the pick.                                                   *)
PicksAnother ==
  \A p \in Workers : worker[p].phase = "insert" /\ worker[p].week # 0
                       => worker[p].value # capital[worker[p].week - 1] \/ Only(worker[p].week)

CapitalInv == /\ CapitalTypeOK /\ NoPhantomCapital /\ NoTwoWeeksRunning
              /\ WorkersAreOfTheirWeek /\ LateAgrees /\ NoneAhead /\ PicksAnother

-----------------------------------------------------------------------------
(* The weeks in the state are numbers.                                                    *)
LEMMA WeeksOfState ==
  ASSUME CapitalTypeOK
  PROVE  /\ week \in Weeks /\ week \in Nat
         /\ \A p \in Workers : worker[p].week \in Weeks /\ worker[p].week \in Nat
<1>1. week \in Weeks /\ \A p \in Workers : worker[p].week \in Weeks
  BY DEF CapitalTypeOK
<1> QED
  BY <1>1, CapitalAssumption DEF Weeks

LEMMA NotDistricts == Undesignated \notin Districts /\ CAPITAL_NONE \notin Districts /\ Undesignated # CAPITAL_NONE
  BY CapitalAssumption DEF Undesignated, CAPITAL_NONE

LEMMA WeeksAreNats == 0 \in Weeks /\ \A w \in Weeks : w \in Nat /\ (w # 0 => w - 1 \in Weeks)
  BY CapitalAssumption DEF Weeks

(* A candidate is a district, and another one than that of the week before if it can be. *)
LEMMA CandidatesAreOthers ==
  ASSUME NEW w \in Weeks, NEW d \in Candidates(w)
  PROVE  d \in Districts /\ (w # 0 => d # capital[w - 1] \/ Cardinality(Districts) = 1)
<1>1. CASE Districts \ {Previous(w)} = {}
  <2>1. Districts = {d}
    BY <1>1, CapitalAssumption DEF Candidates
  <2>2. Cardinality({d}) = 1
    BY FS_Singleton
  <2> QED
    BY <2>1, <2>2
<1>2. CASE Districts \ {Previous(w)} # {}
  BY <1>2 DEF Candidates, Previous
<1> QED
  BY <1>1, <1>2

(* A write of the table's row, or of the sentinel, keeps the cache in line.               *)
LEMMA StoredAgrees ==
  ASSUME CapitalTypeOK, \A w \in Weeks : cache[w] \in Districts => cache[w] = capital[w],
         NEW w \in Weeks, NEW v \in Districts \union {CAPITAL_NONE}, v \in Districts => v = capital[w]
  PROVE  /\ Stored(cache, w, v) \in [Weeks -> Districts \union {Undesignated, CAPITAL_NONE}]
         /\ \A x \in Weeks : Stored(cache, w, v)[x] \in Districts => Stored(cache, w, v)[x] = capital[x]
         /\ \A x \in Weeks : cache[x] \in Districts => Stored(cache, w, v)[x] = cache[x]
  BY NotDistricts DEF CapitalTypeOK, Stored, CacheKey

-----------------------------------------------------------------------------
LEMMA CapitalInitially == CapitalInit => CapitalInv
<1> SUFFICES ASSUME CapitalInit PROVE CapitalInv
  OBVIOUS
<1> USE NotDistricts, WeeksAreNats DEF CapitalInit
<1>1. CapitalTypeOK
  BY DEF CapitalTypeOK, Resting
<1>2. NoPhantomCapital /\ NoTwoWeeksRunning
  BY DEF NoPhantomCapital, NoTwoWeeksRunning, Resting
<1>3. WorkersAreOfTheirWeek /\ LateAgrees /\ NoneAhead /\ PicksAnother
  BY DEF WorkersAreOfTheirWeek, LateAgrees, NoneAhead, PicksAnother, Resting
<1> QED
  BY <1>1, <1>2, <1>3 DEF CapitalInv

(* Steps that change one worker only: what that worker then is, is all there is to show. *)
LEMMA OneWorkerMoves ==
  ASSUME CapitalInv, NEW p \in Workers, NEW q,
         worker' = [worker EXCEPT ![p] = q],
         UNCHANGED <<week, capital, cache, late, overdue>>,
         q \in [phase : {"idle", "find", "pick", "insert", "cache", "miss", "answer"},
                week : Weeks, value : Districts \union {Undesignated, CAPITAL_NONE}],
         q.week <= week,
         q.phase = "cache" => q.value # Undesignated,
         q.phase = "insert" => /\ q.value \in Districts
                               /\ q.week # 0 => q.value # capital[q.week - 1] \/ Only(q.week),
         q.phase \in {"cache", "answer"} /\ q.value \in Districts => q.value = capital[q.week]
  PROVE  CapitalInv'
<1> USE DEF CapitalInv
<1>1. CapitalTypeOK'
  BY DEF CapitalTypeOK
<1>2. NoPhantomCapital'
  BY DEF CapitalTypeOK, NoPhantomCapital
<1>3. NoTwoWeeksRunning' /\ LateAgrees' /\ NoneAhead'
  BY DEF NoTwoWeeksRunning, LateAgrees, NoneAhead
<1>4. WorkersAreOfTheirWeek'
  BY DEF CapitalTypeOK, WorkersAreOfTheirWeek
<1>5. PicksAnother'
  BY DEF CapitalTypeOK, PicksAnother, Only
<1> QED
  BY <1>1, <1>2, <1>3, <1>4, <1>5

(* Giving up rests a worker. *)
LEMMA RestingIsFine ==
  ASSUME CapitalInv, NEW p \in Workers, Leaves(p), UNCHANGED <<week, capital, cache, late, overdue>>
  PROVE  CapitalInv'
<1> DEFINE q == Resting
<1>1. /\ q \in [phase : {"idle", "find", "pick", "insert", "cache", "miss", "answer"},
                week : Weeks, value : Districts \union {Undesignated, CAPITAL_NONE}]
      /\ q.phase = "idle" /\ q.week = 0
  BY WeeksAreNats DEF Resting
<1>2. q.week <= week
  BY <1>1, WeeksAreNats DEF CapitalInv, CapitalTypeOK
<1>3. worker' = [worker EXCEPT ![p] = q]
  BY DEF Leaves
<1> HIDE DEF q
<1> QED
  BY <1>1, <1>2, <1>3, OneWorkerMoves

(* A write that leaves the workers alone, or rests the one whose write it was.            *)
LEMMA WritesAgree ==
  ASSUME CapitalInv, UNCHANGED <<week, capital, overdue>>,
         NEW p \in Workers, worker' = worker \/ worker' = [worker EXCEPT ![p] = Resting],
         late' \subseteq Weeks \X (Districts \union {CAPITAL_NONE}),
         \A d \in late' : d[2] \in Districts => d[2] = capital[d[1]],
         cache' \in [Weeks -> Districts \union {Undesignated, CAPITAL_NONE}],
         \A w \in Weeks : cache'[w] \in Districts => cache'[w] = capital[w]
  PROVE  CapitalInv'
<1> USE WeeksAreNats DEF CapitalInv
<1>1. CapitalTypeOK'
  BY DEF CapitalTypeOK, Resting
<1>2. NoPhantomCapital'
  BY DEF CapitalTypeOK, NoPhantomCapital, Resting
<1>3. NoTwoWeeksRunning' /\ LateAgrees' /\ NoneAhead'
  BY DEF NoTwoWeeksRunning, LateAgrees, NoneAhead
<1>4. WorkersAreOfTheirWeek'
  BY DEF CapitalTypeOK, WorkersAreOfTheirWeek, Resting
<1>5. PicksAnother'
  BY DEF CapitalTypeOK, PicksAnother, Only, Resting
<1> QED
  BY <1>1, <1>2, <1>3, <1>4, <1>5

-----------------------------------------------------------------------------
(* A new row: the week had none, and who wrote it knew the week before.                   *)
LEMMA InsertAgrees ==
  ASSUME CapitalInv, NEW p \in Workers, DesignateInsert(p)
  PROVE  CapitalInv'
<1> USE WeeksAreNats, NotDistricts DEF CapitalInv
<1> DEFINE w == worker[p].week
           d == worker[p].value
<1>1. /\ worker[p].phase = "insert" /\ w \in Weeks /\ w <= week /\ d \in Districts
      /\ UNCHANGED <<week, cache, late>>
  BY DEF DesignateInsert, CapitalTypeOK, WorkersAreOfTheirWeek
<1>2. CASE capital[w] # Undesignated
  <2> DEFINE q == [worker[p] EXCEPT !.phase = "cache", !.value = capital[w]]
  <2>1. worker' = [worker EXCEPT ![p] = q] /\ UNCHANGED <<capital, overdue>>
    BY <1>2 DEF DesignateInsert, Becomes, Confirmed, CapitalTypeOK
  <2>2. capital[w] \in Districts
    BY <1>1, <1>2 DEF CapitalTypeOK
  <2>3. /\ q \in [phase : {"idle", "find", "pick", "insert", "cache", "miss", "answer"},
                 week : Weeks, value : Districts \union {Undesignated, CAPITAL_NONE}]
        /\ q.phase = "cache" /\ q.value = capital[w] /\ q.week = w
    BY <2>2 DEF CapitalTypeOK
  <2> HIDE DEF q
  <2> QED
    BY <1>1, <1>2, <2>1, <2>2, <2>3, OneWorkerMoves
<1>3. CASE capital[w] = Undesignated
  <2>1. /\ capital' = [capital EXCEPT ![w] = d]
        /\ overdue' = IF w < week THEN overdue \union {w} ELSE overdue
        /\ worker' = [worker EXCEPT ![p].phase = "cache", ![p].value = d]
    BY <1>3 DEF DesignateInsert, Becomes
  <2>2. CapitalTypeOK'
    BY <1>1, <2>1, ZenonT(60) DEF CapitalTypeOK
  <2>3. /\ worker'[p].phase = "cache" /\ worker'[p].week = w /\ worker'[p].value = d
        /\ \A o \in Workers \ {p} : worker'[o] = worker[o]
    BY <2>1 DEF CapitalTypeOK
  <2>4. capital'[w] = d /\ \A x \in Weeks \ {w} : capital'[x] = capital[x]
    BY <1>1, <2>1 DEF CapitalTypeOK
  <2>5. \A x \in Weeks : capital[x] \in Districts => capital'[x] = capital[x]
    BY <1>3, <2>4
  <2>6. NoPhantomCapital'
    <3>1. \A x \in Weeks : cache'[x] \in Districts => cache'[x] = capital'[x]
      BY <1>1, <2>5 DEF NoPhantomCapital
    <3>2. \A o \in Workers : worker'[o].phase \in {"cache", "answer"} /\ worker'[o].value \in Districts
                                => worker'[o].value = capital'[worker'[o].week]
      <4> TAKE o \in Workers
      <4>1. CASE o = p
        BY <4>1, <2>3, <2>4
      <4>2. CASE o # p
        <5>1. worker'[o] = worker[o] /\ worker[o].week \in Weeks /\ worker[o].value \in Districts \union {Undesignated, CAPITAL_NONE}
          BY <4>2, <2>3 DEF CapitalTypeOK
        <5> QED
          BY <5>1, <2>5 DEF NoPhantomCapital
      <4> QED
        BY <4>1, <4>2
    <3> QED
      BY <3>1, <3>2 DEF NoPhantomCapital
  <2>7. NoTwoWeeksRunning'
    <3> SUFFICES ASSUME NEW x \in Weeks \ {0}, capital'[x] # Undesignated, capital'[x] = capital'[x - 1]
                 PROVE  x - 1 \in overdue' \/ Cardinality(Districts) = 1
      BY DEF NoTwoWeeksRunning
    <3>1. CASE x = w
      <4>1. x - 1 # w /\ capital'[x - 1] = capital[x - 1]
        BY <3>1, <2>4
      <4>2. worker[p].value # capital[w - 1] \/ Only(w)
        BY <1>1, <3>1 DEF PicksAnother
      <4> QED
        BY <3>1, <4>1, <4>2, <2>1, <2>4 DEF Only
    <3>2. CASE x # w /\ x - 1 = w
      <4>1. x <= week
        BY <3>2, <2>4 DEF NoneAhead
      <4>2. w < week
        BY <4>1, <3>2, <1>1, WeeksOfState
      <4> QED
        BY <4>2, <3>2, <2>1
    <3>3. CASE x # w /\ x - 1 # w
      BY <3>3, <2>1, <2>4 DEF NoTwoWeeksRunning
    <3> QED
      BY <3>1, <3>2, <3>3
  <2>8. WorkersAreOfTheirWeek' /\ NoneAhead'
    BY <1>1, <2>3, <2>4 DEF WorkersAreOfTheirWeek, NoneAhead
  <2>9. LateAgrees'
    BY <1>1, <2>5 DEF LateAgrees, CapitalTypeOK
  <2>10. PicksAnother'
    <3> SUFFICES ASSUME NEW o \in Workers, worker'[o].phase = "insert", worker'[o].week # 0
                 PROVE  \/ worker'[o].value # capital'[worker'[o].week - 1]
                        \/ worker'[o].week - 1 \in overdue' \/ Cardinality(Districts) = 1
      BY DEF PicksAnother, Only
    <3> DEFINE x == worker[o].week
    <3>1. worker'[o] = worker[o] /\ x \in Weeks /\ x <= week
      BY <2>3 DEF CapitalTypeOK, WorkersAreOfTheirWeek
    <3>2. CASE x - 1 = w
      <4>1. w < week
        BY <3>1, <3>2, <1>1, WeeksOfState
      <4> QED
        BY <4>1, <3>1, <3>2, <2>1 DEF Only
    <3>3. CASE x - 1 # w
      BY <3>1, <3>3, <2>1, <2>4 DEF PicksAnother, Only
    <3> QED
      BY <3>2, <3>3
  <2> QED
    BY <2>2, <2>6, <2>7, <2>8, <2>9, <2>10
<1> QED
  BY <1>2, <1>3

(* The other steps of a worker.                                                           *)
LEMMA WorkerStepsAgree ==
  ASSUME CapitalInv, NEW p \in Workers,
         DesignateBegin(p) \/ DesignateFind(p) \/ DesignatePick(p) \/ ReadBegin(p) \/ ReadLedger(p)
  PROVE  CapitalInv'
<1> USE WeeksAreNats, NotDistricts DEF CapitalInv
<1> DEFINE Work == [phase : {"idle", "find", "pick", "insert", "cache", "miss", "answer"},
                    week : Weeks, value : Districts \union {Undesignated, CAPITAL_NONE}]
           Fits(q) == /\ q \in Work /\ q.week <= week
                      /\ q.phase = "cache" => q.value # Undesignated
                      /\ q.phase = "insert" =>
                           /\ q.value \in Districts
                           /\ q.week # 0 => q.value # capital[q.week - 1] \/ Only(q.week)
                      /\ q.phase \in {"cache", "answer"} /\ q.value \in Districts => q.value = capital[q.week]
<1>1. UNCHANGED <<week, capital, cache, late, overdue>>
  BY DEF DesignateBegin, DesignateFind, DesignatePick, ReadBegin, ReadLedger
<1>2. worker[p] \in Work /\ worker[p].week <= week /\ week \in Weeks /\ week <= week
  BY WeeksOfState DEF CapitalTypeOK, WorkersAreOfTheirWeek
<1>3. ASSUME NEW f \in {"pick", "insert", "cache"}, NEW v \in Districts \union {Undesignated, CAPITAL_NONE}, Becomes(p, f, v)
      PROVE  LET q == [worker[p] EXCEPT !.phase = f, !.value = v]
             IN  worker' = [worker EXCEPT ![p] = q] /\ q \in Work /\ q.phase = f /\ q.value = v /\ q.week = worker[p].week
  BY <1>2, <1>3 DEF Becomes, CapitalTypeOK
<1>4. CASE DesignateBegin(p)
  <2> DEFINE q == [phase |-> "find", week |-> week, value |-> Undesignated]
  <2>1. worker' = [worker EXCEPT ![p] = q]
    BY <1>4 DEF DesignateBegin
  <2>2. Fits(q)
    BY <1>2
  <2> HIDE DEF q
  <2> QED
    BY <1>1, <2>1, <2>2, OneWorkerMoves
<1>5. CASE DesignateFind(p)
  <2>1. capital[worker[p].week] \in Districts \union {Undesignated}
    BY <1>2 DEF CapitalTypeOK
  <2>2. CASE capital[worker[p].week] # Undesignated
    <3> DEFINE q == [worker[p] EXCEPT !.phase = "cache", !.value = capital[worker[p].week]]
    <3>1. Becomes(p, "cache", capital[worker[p].week])
      BY <1>5, <2>2 DEF DesignateFind
    <3>2. worker' = [worker EXCEPT ![p] = q] /\ q \in Work /\ q.phase = "cache"
          /\ q.value = capital[worker[p].week] /\ q.week = worker[p].week
      BY <2>1, <3>1, <1>3
    <3> HIDE DEF q
    <3> QED
      BY <1>1, <1>2, <2>2, <3>2, OneWorkerMoves
  <2>3. CASE capital[worker[p].week] = Undesignated
    <3> DEFINE q == [worker[p] EXCEPT !.phase = "pick", !.value = Undesignated]
    <3>1. Becomes(p, "pick", Undesignated)
      BY <1>5, <2>3 DEF DesignateFind
    <3>2. worker' = [worker EXCEPT ![p] = q] /\ q \in Work /\ q.phase = "pick" /\ q.week = worker[p].week
      BY <3>1, <1>3
    <3> HIDE DEF q
    <3> QED
      BY <1>1, <1>2, <3>2, OneWorkerMoves
  <2> QED
    BY <2>2, <2>3
<1>6. CASE DesignatePick(p)
  <2>1. PICK d \in Candidates(worker[p].week) : Becomes(p, "insert", d)
    BY <1>6 DEF DesignatePick
  <2> DEFINE q == [worker[p] EXCEPT !.phase = "insert", !.value = d]
  <2>2. d \in Districts /\ (worker[p].week # 0 => d # capital[worker[p].week - 1] \/ Cardinality(Districts) = 1)
    BY <1>2, CandidatesAreOthers
  <2>3. worker' = [worker EXCEPT ![p] = q] /\ q \in Work /\ q.phase = "insert" /\ q.value = d /\ q.week = worker[p].week
    BY <2>1, <2>2, <1>3
  <2> HIDE DEF q
  <2> QED
    BY <1>1, <1>2, <2>2, <2>3, OneWorkerMoves DEF Only
<1>7. CASE ReadBegin(p)
  <2> DEFINE cached == cache[week]
             hit == [phase |-> "answer", week |-> week, value |-> IF cached = CAPITAL_NONE THEN Undesignated ELSE cached]
             miss == [phase |-> "miss", week |-> week, value |-> Undesignated]
  <2>1. worker' = [worker EXCEPT ![p] = hit] \/ worker' = [worker EXCEPT ![p] = miss]
    BY <1>7 DEF ReadBegin, CacheKey
  <2>2. cached \in Districts \union {Undesignated, CAPITAL_NONE} /\ (cached \in Districts => cached = capital[week])
    BY <1>2 DEF CapitalTypeOK, NoPhantomCapital
  <2>3. Fits(hit) /\ Fits(miss)
    BY <1>2, <2>2
  <2> HIDE DEF hit, miss
  <2> QED
    BY <1>1, <2>1, <2>3, OneWorkerMoves
<1>8. CASE ReadLedger(p)
  <2> DEFINE noted == capital[worker[p].week]
             v == IF noted = Undesignated THEN CAPITAL_NONE ELSE noted
             q == [worker[p] EXCEPT !.phase = "cache", !.value = v]
  <2>1. noted \in Districts \union {Undesignated} /\ v \in Districts \union {CAPITAL_NONE}
        /\ (v \in Districts => v = capital[worker[p].week])
    BY <1>2 DEF CapitalTypeOK
  <2>2. Becomes(p, "cache", v)
    BY <1>8 DEF ReadLedger
  <2>3. worker' = [worker EXCEPT ![p] = q] /\ q \in Work /\ q.phase = "cache" /\ q.value = v /\ q.week = worker[p].week
    BY <2>1, <2>2, <1>3
  <2> HIDE DEF q, v
  <2> QED
    BY <1>1, <1>2, <2>1, <2>3, OneWorkerMoves
<1> QED
  BY <1>4, <1>5, <1>6, <1>7, <1>8

(* Writes of the cache, at once or late, and keys that lapse.                             *)
LEMMA CacheStepsAgree ==
  ASSUME CapitalInv,
         (\E p \in Workers : WriteBack(p)) \/ LateWrite
  PROVE  /\ CapitalInv'
         /\ \A w \in Weeks : cache[w] \in Districts => cache'[w] = cache[w]
<1> USE WeeksAreNats, NotDistricts DEF CapitalInv
<1>1. \A w \in Weeks : cache[w] \in Districts => cache[w] = capital[w]
  BY DEF NoPhantomCapital
<1>2. ASSUME NEW p \in Workers, WriteBack(p)
      PROVE  CapitalInv' /\ \A w \in Weeks : cache[w] \in Districts => cache'[w] = cache[w]
  <2> DEFINE w == worker[p].week
             v == worker[p].value
  <2>1. /\ w \in Weeks /\ v \in Districts \union {CAPITAL_NONE} /\ (v \in Districts => v = capital[w])
        /\ UNCHANGED <<week, capital, overdue>> /\ worker' = [worker EXCEPT ![p] = Resting]
        /\ WriteCache(w, v)
    BY <1>2 DEF WriteBack, Leaves, CapitalTypeOK, WorkersAreOfTheirWeek, NoPhantomCapital
  <2> HIDE DEF w, v
  <2>2. /\ cache' = Stored(cache, w, v) \/ cache' = cache
        /\ late' = late \/ late' = late \union {<<w, v>>}
    BY <2>1 DEF WriteCache
  <2>3. /\ cache' \in [Weeks -> Districts \union {Undesignated, CAPITAL_NONE}]
        /\ \A x \in Weeks : cache'[x] \in Districts => cache'[x] = capital[x]
        /\ \A x \in Weeks : cache[x] \in Districts => cache'[x] = cache[x]
    BY <1>1, <2>1, <2>2, StoredAgrees DEF CapitalTypeOK
  <2>4. late' \subseteq Weeks \X (Districts \union {CAPITAL_NONE})
    BY <2>1, <2>2 DEF CapitalTypeOK
  <2>5. \A d \in late' : d[2] \in Districts => d[2] = capital[d[1]]
    BY <2>1, <2>2 DEF LateAgrees
  <2> QED
    BY <2>1, <2>3, <2>4, <2>5, WritesAgree
<1>3. ASSUME LateWrite
      PROVE  CapitalInv' /\ \A w \in Weeks : cache[w] \in Districts => cache'[w] = cache[w]
  <2>1. PICK d \in late : cache' = Stored(cache, d[1], d[2]) /\ late' = late \ {d}
                          /\ UNCHANGED <<week, capital, worker, overdue>>
    BY <1>3 DEF LateWrite
  <2>2. d[1] \in Weeks /\ d[2] \in Districts \union {CAPITAL_NONE} /\ (d[2] \in Districts => d[2] = capital[d[1]])
    BY DEF CapitalTypeOK, LateAgrees
  <2>3. /\ cache' \in [Weeks -> Districts \union {Undesignated, CAPITAL_NONE}]
        /\ \A x \in Weeks : cache'[x] \in Districts => cache'[x] = capital[x]
        /\ \A x \in Weeks : cache[x] \in Districts => cache'[x] = cache[x]
    BY <1>1, <2>1, <2>2, StoredAgrees
  <2>4. CapitalTypeOK'
    BY <2>1, <2>3 DEF CapitalTypeOK
  <2>5. NoPhantomCapital' /\ NoTwoWeeksRunning' /\ LateAgrees' /\ NoneAhead'
    BY <2>1, <2>3 DEF NoPhantomCapital, NoTwoWeeksRunning, LateAgrees, NoneAhead
  <2>6. WorkersAreOfTheirWeek' /\ PicksAnother'
    BY <2>1 DEF WorkersAreOfTheirWeek, PicksAnother, Only
  <2> QED
    BY <2>3, <2>4, <2>5, <2>6
<1> QED
  BY <1>2, <1>3

(* A week begins, or a key lapses.                                                        *)
LEMMA TimeAgrees ==
  ASSUME CapitalInv, NextWeek \/ CapitalLapses
  PROVE  CapitalInv'
<1> USE WeeksAreNats, NotDistricts DEF CapitalInv
<1>1. CASE NextWeek
  <2>1. week \in Nat /\ week' = week + 1 /\ week' \in Weeks /\ UNCHANGED <<capital, cache, late, worker, overdue>>
    BY <1>1, CapitalAssumption DEF NextWeek, CapitalTypeOK, Weeks
  <2>2. CapitalTypeOK' /\ NoPhantomCapital' /\ NoTwoWeeksRunning' /\ LateAgrees' /\ PicksAnother'
    BY <2>1 DEF CapitalTypeOK, NoPhantomCapital, NoTwoWeeksRunning, LateAgrees, PicksAnother, Only
  <2>3. WorkersAreOfTheirWeek' /\ NoneAhead'
    BY <2>1, WeeksOfState DEF WorkersAreOfTheirWeek, NoneAhead
  <2> QED
    BY <2>2, <2>3
<1>2. CASE CapitalLapses
  <2>1. PICK w \in Weeks : cache' = [cache EXCEPT ![w] = Undesignated]
                           /\ UNCHANGED <<week, capital, late, worker, overdue>>
    BY <1>2 DEF CapitalLapses
  <2>2. CapitalTypeOK' /\ NoPhantomCapital' /\ NoTwoWeeksRunning' /\ LateAgrees' /\ NoneAhead'
    BY <2>1 DEF CapitalTypeOK, NoPhantomCapital, NoTwoWeeksRunning, LateAgrees, NoneAhead
  <2>3. WorkersAreOfTheirWeek' /\ PicksAnother'
    BY <2>1 DEF WorkersAreOfTheirWeek, PicksAnother, Only
  <2> QED
    BY <2>2, <2>3
<1> QED
  BY <1>1, <1>2

LEMMA CapitalInductive == CapitalInv /\ [CapitalNext]_capitalVars => CapitalInv'
<1> SUFFICES ASSUME CapitalInv, [CapitalNext]_capitalVars PROVE CapitalInv'
  OBVIOUS
<1>1. ASSUME NEW p \in Workers,
             \/ DesignateBegin(p) \/ DesignateFind(p) \/ DesignatePick(p)
             \/ DesignateInsert(p) \/ WriteBack(p)
             \/ ReadBegin(p) \/ ReadLedger(p) \/ ReadAnswer(p) \/ Abandon(p)
      PROVE  CapitalInv'
  <2>1. CASE ReadAnswer(p) \/ Abandon(p)
    BY <2>1, RestingIsFine DEF ReadAnswer, Abandon
  <2> QED
    BY <1>1, <2>1, WorkerStepsAgree, InsertAgrees, CacheStepsAgree
<1>2. CASE LateWrite
  BY <1>2, CacheStepsAgree
<1>3. CASE NextWeek \/ CapitalLapses
  BY <1>3, TimeAgrees
<1>4. CASE UNCHANGED capitalVars
  BY <1>4 DEF capitalVars, CapitalInv, CapitalTypeOK, NoPhantomCapital, NoTwoWeeksRunning, WorkersAreOfTheirWeek,
              LateAgrees, NoneAhead, PicksAnother, Only
<1> QED
  BY <1>1, <1>2, <1>3, <1>4 DEF CapitalNext

-----------------------------------------------------------------------------
(* Whoever races, fails or writes late: no phantom capital, and no district two weeks     *)
(* running (designateWeeklyCapital, the unique column and the cache of a week).           *)
THEOREM CapitalHolds == CapitalSpec => []CapitalIsDesignated
<1>1. CapitalInv => CapitalIsDesignated
  BY DEF CapitalInv, CapitalIsDesignated
<1> QED
  BY <1>1, CapitalInitially, CapitalInductive, PTL DEF CapitalSpec

(* The state of Capital has its types.                                                    *)
THEOREM CapitalTyped == CapitalSpec => []CapitalTypeOK
<1>1. CapitalInv => CapitalTypeOK
  BY DEF CapitalInv
<1> QED
  BY <1>1, CapitalInitially, CapitalInductive, PTL DEF CapitalSpec

(* No step takes the capital of the present week out of the cache or hides it behind "no  *)
(* capital yet" (writeCapitalNoneCache is a SET NX).                                      *)
THEOREM CapitalStaysVisible == CapitalSpec => CapitalNotHidden
<1> DEFINE Seen == \A w \in Weeks : w = week /\ cache[w] \in Districts => cache'[w] = cache[w]
<1>1. CapitalInv /\ [CapitalNext]_capitalVars => [Seen]_capitalVars
  <2> SUFFICES ASSUME CapitalInv, CapitalNext PROVE Seen
    OBVIOUS
  <2>1. CASE LateWrite \/ \E p \in Workers : WriteBack(p)
    BY <2>1, CacheStepsAgree
  <2>2. CASE CapitalLapses
    <3>1. PICK x \in Weeks : /\ cache[x] = CAPITAL_NONE \/ (cache[x] # Undesignated /\ x < week)
                             /\ cache' = [cache EXCEPT ![x] = Undesignated]
      BY <2>2 DEF CapitalLapses
    <3>2. x = week => cache[x] = CAPITAL_NONE
      BY <3>1, WeeksOfState DEF CapitalInv
    <3> QED
      BY <3>1, <3>2, NotDistricts DEF CapitalInv, CapitalTypeOK
  <2>3. CASE NextWeek
    BY <2>3 DEF NextWeek
  <2>4. ASSUME NEW p \in Workers,
               \/ DesignateBegin(p) \/ DesignateFind(p) \/ DesignatePick(p) \/ DesignateInsert(p)
               \/ ReadBegin(p) \/ ReadLedger(p) \/ ReadAnswer(p) \/ Abandon(p)
        PROVE  cache' = cache
    BY <2>4 DEF DesignateBegin, DesignateFind, DesignatePick, DesignateInsert, ReadBegin, ReadLedger,
                ReadAnswer, Abandon
  <2> QED
    BY <2>1, <2>2, <2>3, <2>4 DEF CapitalNext
<1> QED
  BY <1>1, CapitalInitially, CapitalInductive, PTL DEF CapitalSpec, CapitalNotHidden

-----------------------------------------------------------------------------
(* Accounts.  A withdrawal under way knows the row it is about, unless a registration has   *)
(* come between; a report is about whom it was about until his row goes; and a record is    *)
(* known by its number.                                                                     *)
RequestRecords == [kind : {"none", "register", "withdraw", "report"}, uid : Nat, id : Nat,
          phase : {"idle", "find", "insert", "begin", "delete", "login", "done"},
          kept : [full : BOOLEAN, found : SUBSET Reports], answer : {"none", "ok", "refused", "failed"}]
AccountsTyped ==
  /\ login \in Nat /\ uids \in Nat /\ ids \in Nat /\ record \in Nat /\ overlap \in BOOLEAN
  /\ login <= uids /\ left \subseteq 1..ids
  /\ row \in [id : Nat, uid : Nat] /\ row.id <= ids /\ row.uid <= uids
  /\ row = NoRow \/ (row.id # 0 /\ row.uid # 0)
  /\ filed \in [Reports -> [about : Nat, was : Nat, record : Nat]]
  /\ archive \subseteq [no : Nat, id : Nat, full : BOOLEAN]
  /\ request \in [Requests -> RequestRecords]
CallFits(r, c) ==
  /\ c.uid <= uids /\ c.id <= ids
  /\ c.kind \in {"register", "withdraw"} => c.uid # 0
  /\ c.kind = "report" => r \in Reports
  /\ r \in Reports /\ c.phase # "done" => filed[r].was = 0
  /\ c.kind = "withdraw" =>
       /\ c.phase \in {"begin", "delete"} => c.id # 0 /\ (row.uid = c.uid => row.id = c.id \/ overlap)
       /\ c.phase = "login" => row.uid # c.uid \/ overlap
       /\ c.phase = "delete" => /\ row.id = c.id => c.kept.full
                                /\ \A f \in c.kept.found : filed[f].was = c.id
       /\ c.answer = "ok" => login # c.uid
CallsFit == \A r \in Requests, c \in RequestRecords : request[r] = c => CallFits(r, c)
ReportsFit ==
  \A f \in Reports : /\ filed[f].was <= ids
                     /\ filed[f].about # 0 => filed[f].about = filed[f].was
                     /\ filed[f].was # 0 /\ row.id = filed[f].was => filed[f].about = filed[f].was
RecordsFit ==
  /\ \A g \in archive : g.no <= record
  /\ \A g, h \in archive : g.no = h.no => g = h
  /\ row # NoRow => row.id \notin left
LoginFits == row # NoRow => login = row.uid \/ overlap
AccountsInv == AccountsTyped /\ CallsFit /\ ReportsFit /\ RecordsFit /\ LoginFits /\ ArchiveIsComplete

LEMMA AccountsInitially == AccountsInit => AccountsInv
<1> SUFFICES ASSUME AccountsInit PROVE AccountsInv
  OBVIOUS
<1>1. Unasked \in RequestRecords /\ Unasked.uid = 0 /\ Unasked.id = 0 /\ Unasked.kind = "none" /\ Unasked.answer = "none"
  BY DEF Unasked, RequestRecords
<1>2. AccountsTyped
  <2>1. request \in [Requests -> RequestRecords]
    BY <1>1 DEF AccountsInit
  <2>2. row = NoRow /\ row \in [id : Nat, uid : Nat] /\ row.id = 0 /\ row.uid = 0
    BY DEF AccountsInit, NoRow
  <2>3. filed \in [Reports -> [about : Nat, was : Nat, record : Nat]]
    BY DEF AccountsInit
  <2>4. /\ login = 0 /\ uids = 0 /\ ids = 0 /\ record = 0 /\ overlap = FALSE /\ left = {} /\ archive = {}
        /\ 0 \in Nat /\ 0 <= 0
    BY DEF AccountsInit
  <2> QED
    BY <2>1, <2>2, <2>3, <2>4 DEF AccountsTyped
<1>3. CallsFit
  BY <1>1 DEF AccountsInit, CallsFit, CallFits
<1>4. ReportsFit /\ RecordsFit /\ LoginFits
  BY DEF AccountsInit, ReportsFit, RecordsFit, LoginFits
<1>5. ArchiveIsComplete
  BY DEF AccountsInit, ArchiveIsComplete
<1> QED
  BY <1>2, <1>3, <1>4, <1>5 DEF AccountsInv

(* A request that only moves on.                                                            *)
LEMMA CallMoves ==
  ASSUME AccountsInv, NEW r \in Requests, NEW c \in RequestRecords, CallFits(r, c),
         request' = [request EXCEPT ![r] = c], UNCHANGED <<firebase, profile, evidence, past>>
  PROVE  AccountsInv'
<1> USE DEF AccountsInv, firebase, profile, evidence, past
<1>1. AccountsTyped'
  BY DEF AccountsTyped
<1>2. CallsFit'
  <2> SUFFICES ASSUME NEW q \in Requests, NEW d \in RequestRecords, request'[q] = d PROVE CallFits(q, d)'
    BY DEF CallsFit
  <2>1. CallFits(q, d)
    <3>1. CASE q = r
      BY <3>1 DEF AccountsTyped
    <3>2. CASE q # r
      BY <3>2 DEF AccountsTyped, CallsFit
    <3> QED
      BY <3>1, <3>2
  <2> QED
    BY <2>1 DEF CallFits
<1>3. ReportsFit' /\ RecordsFit' /\ LoginFits'
  BY DEF ReportsFit, RecordsFit, LoginFits
<1>4. ArchiveIsComplete'
  BY DEF ArchiveIsComplete
<1> QED
  BY <1>1, <1>2, <1>3, <1>4

LEMMA Replies ==
  ASSUME AccountsTyped, NEW r \in Requests, NEW answer \in {"none", "ok", "refused", "failed"}, Reply(r, answer)
  PROVE  \E c \in RequestRecords : /\ request' = [request EXCEPT ![r] = c] /\ c.kind = request[r].kind
                          /\ c.uid = request[r].uid /\ c.id = 0 /\ c.phase = "done" /\ c.answer = answer
<1> DEFINE c == [Unasked EXCEPT !.kind = request[r].kind, !.uid = request[r].uid, !.phase = "done", !.answer = answer]
<1>1. request[r] \in RequestRecords
  BY DEF AccountsTyped
<1>2. /\ c \in RequestRecords /\ c.kind = request[r].kind /\ c.uid = request[r].uid /\ c.id = 0
      /\ c.phase = "done" /\ c.answer = answer
  BY <1>1 DEF Unasked, RequestRecords
<1>3. request' = [request EXCEPT ![r] = c]
  BY DEF Reply
<1> HIDE DEF c
<1> QED
  BY <1>2, <1>3, Zenon

LEMMA Onwards ==
  ASSUME AccountsTyped, NEW r \in Requests,
         NEW phase \in {"idle", "find", "insert", "begin", "delete", "login", "done"}, Onward(r, phase)
  PROVE  \E c \in RequestRecords : /\ request' = [request EXCEPT ![r] = c] /\ c.kind = request[r].kind
                          /\ c.uid = request[r].uid /\ c.id = request[r].id /\ c.phase = phase
                          /\ c.kept = request[r].kept /\ c.answer = request[r].answer
<1> DEFINE c == [request[r] EXCEPT !.phase = phase]
<1>1. request[r] \in RequestRecords
  BY DEF AccountsTyped
<1>2. /\ c \in RequestRecords /\ c.kind = request[r].kind /\ c.uid = request[r].uid /\ c.id = request[r].id
      /\ c.phase = phase /\ c.kept = request[r].kept /\ c.answer = request[r].answer
  BY <1>1 DEF RequestRecords
<1>3. request' = [request EXCEPT ![r] = c]
  BY DEF Onward
<1> HIDE DEF c
<1> QED
  BY <1>2, <1>3, Zenon

LEMMA RepliesFit ==
  ASSUME AccountsInv, NEW r \in Requests, NEW answer \in {"refused", "failed"}, Reply(r, answer),
         UNCHANGED <<firebase, profile, evidence, past>>
  PROVE  AccountsInv'
<1>1. PICK c \in RequestRecords : /\ request' = [request EXCEPT ![r] = c] /\ c.kind = request[r].kind
                         /\ c.uid = request[r].uid /\ c.id = 0 /\ c.phase = "done" /\ c.answer = answer
  BY Replies DEF AccountsInv
<1>2. request[r] \in RequestRecords /\ CallFits(r, request[r])
  BY DEF AccountsInv, AccountsTyped, CallsFit
<1>3. CallFits(r, c)
  BY <1>1, <1>2 DEF AccountsInv, AccountsTyped, CallFits
<1> QED
  BY <1>1, <1>3, CallMoves

(* Registration and withdrawal up to what they write.                                       *)
LEMMA AsksFits ==
  ASSUME AccountsInv, NEW r \in Requests, NEW kind \in {"register", "withdraw"}, Asks(r, kind)
  PROVE  AccountsInv'
<1>1. PICK u \in 1..uids :
        request' = [request EXCEPT ![r] = [Unasked EXCEPT !.kind = kind, !.phase = "find", !.uid = u]]
  BY DEF Asks
<1> DEFINE c == [Unasked EXCEPT !.kind = kind, !.phase = "find", !.uid = u]
<1>2. uids \in Nat /\ u \in Nat /\ u # 0 /\ u <= uids
  BY DEF AccountsInv, AccountsTyped
<1>3. c \in RequestRecords /\ c.kind = kind /\ c.phase = "find" /\ c.uid = u /\ c.id = 0 /\ c.answer = "none"
  BY <1>2 DEF Unasked, RequestRecords
<1>4. request' = [request EXCEPT ![r] = c]
  BY <1>1
<1> HIDE DEF c
<1>5. CallFits(r, c)
  BY <1>2, <1>3 DEF Asks, CallFits, AccountsInv, AccountsTyped
<1> QED
  BY <1>3, <1>4, <1>5, CallMoves DEF Asks

LEMMA FindsFit ==
  ASSUME AccountsInv, NEW r \in Requests, FindForRegister(r) \/ FindForWithdraw(r) \/ ArchiveFirst(r)
  PROVE  AccountsInv'
<1> DEFINE old == request[r]
<1>1. old \in RequestRecords /\ CallFits(r, old)
  BY DEF AccountsInv, AccountsTyped, CallsFit
<1>2. CASE FindForRegister(r)
  <2>1. CASE Onward(r, "insert")
    <3>1. PICK c \in RequestRecords : /\ request' = [request EXCEPT ![r] = c] /\ c.kind = old.kind
                             /\ c.uid = old.uid /\ c.id = old.id /\ c.phase = "insert"
                             /\ c.kept = old.kept /\ c.answer = old.answer
      BY <2>1, Onwards DEF AccountsInv
    <3>2. CallFits(r, c)
      BY <1>1, <1>2, <3>1 DEF FindForRegister, In, CallFits
    <3> QED
      BY <1>2, <3>1, <3>2, CallMoves DEF FindForRegister
  <2>2. CASE Reply(r, "refused")
    BY <1>2, <2>2, RepliesFit DEF FindForRegister
  <2> QED
    BY <1>2, <2>1, <2>2 DEF FindForRegister
<1>3. CASE FindForWithdraw(r)
  <2>1. CASE row.uid = old.uid
    <3> DEFINE c == [old EXCEPT !.id = row.id, !.phase = "begin"]
    <3>1. request' = [request EXCEPT ![r] = c]
      BY <1>3, <2>1 DEF FindForWithdraw, Steps, RowFirst
    <3>2. /\ c \in RequestRecords /\ c.kind = old.kind /\ c.uid = old.uid /\ c.id = row.id /\ c.phase = "begin"
          /\ c.answer = old.answer
      BY <1>1 DEF AccountsInv, AccountsTyped, RequestRecords
    <3> HIDE DEF c
    <3>3. old.kind = "withdraw" /\ old.phase = "find" /\ old.uid # 0
      BY <1>1, <1>3 DEF FindForWithdraw, In, CallFits
    <3>4. row.id # 0 /\ row.id <= ids
      BY <2>1, <3>3 DEF AccountsInv, AccountsTyped, NoRow
    <3>5. CallFits(r, c)
      BY <1>1, <2>1, <3>2, <3>3, <3>4 DEF CallFits
    <3> QED
      BY <1>3, <3>1, <3>2, <3>5, CallMoves DEF FindForWithdraw
  <2>2. CASE row.uid # old.uid
    <3>1. Onward(r, "login")
      BY <1>3, <2>2 DEF FindForWithdraw
    <3>2. PICK c \in RequestRecords : /\ request' = [request EXCEPT ![r] = c] /\ c.kind = old.kind
                             /\ c.uid = old.uid /\ c.id = old.id /\ c.phase = "login"
                             /\ c.kept = old.kept /\ c.answer = old.answer
      BY <3>1, Onwards DEF AccountsInv
    <3>3. CallFits(r, c)
      BY <1>1, <1>3, <2>2, <3>2 DEF FindForWithdraw, In, CallFits
    <3> QED
      BY <1>3, <3>2, <3>3, CallMoves DEF FindForWithdraw
  <2> QED
    BY <2>1, <2>2
<1>4. CASE ArchiveFirst(r)
  <2> DEFINE kept == Kept(old.id)
             c == [old EXCEPT !.phase = "delete", !.kept = kept]
  <2>1. request' = [request EXCEPT ![r] = c]
    BY <1>4 DEF ArchiveFirst
  <2>2. kept \in [full : BOOLEAN, found : SUBSET Reports] /\ kept.full = (old.id \in consents)
        /\ kept.found = {f \in Reports : filed[f].about = old.id}
    BY DEF Kept, About
  <2> HIDE DEF kept
  <2>3. /\ c \in RequestRecords /\ c.kind = old.kind /\ c.uid = old.uid /\ c.id = old.id /\ c.phase = "delete"
        /\ c.kept = kept /\ c.answer = old.answer
    BY <1>1, <2>2 DEF RequestRecords
  <2> HIDE DEF c
  <2>4. old.kind = "withdraw" /\ old.phase = "begin" /\ old.id # 0
    BY <1>1, <1>4 DEF ArchiveFirst, In, CallFits
  <2>5. row.id = old.id => kept.full
    BY <2>2, <2>4 DEF AccountsInv, ArchiveIsComplete, NoRow
  <2>6. \A f \in kept.found : filed[f].was = old.id
    BY <2>2, <2>4 DEF AccountsInv, ReportsFit
  <2>7. CallFits(r, c)
    BY <1>1, <2>3, <2>4, <2>5, <2>6 DEF CallFits
  <2> QED
    BY <1>4, <2>1, <2>3, <2>7, CallMoves DEF ArchiveFirst
<1> QED
  BY <1>2, <1>3, <1>4

(* The row and its consents.                                                                *)
LEMMA InsertUserFits ==
  ASSUME AccountsInv, NEW r \in Requests, InsertUser(r)
  PROVE  AccountsInv'
<1> DEFINE old == request[r]
<1>1. old \in RequestRecords /\ CallFits(r, old) /\ old.kind = "register" /\ old.uid # 0 /\ old.uid <= uids
  BY DEF AccountsInv, AccountsTyped, CallsFit, CallFits, InsertUser, In
<1>2. CASE row # NoRow
  <2>1. Reply(r, "refused") /\ UNCHANGED <<profile, overlap>>
    BY <1>2 DEF InsertUser
  <2> QED
    BY <2>1, RepliesFit DEF InsertUser, past
<1>3. CASE row = NoRow
  <2>1. /\ ids' = ids + 1 /\ row' = [id |-> ids + 1, uid |-> old.uid] /\ consents' = consents \union {ids + 1}
        /\ overlap' = (overlap \/ login # old.uid \/ Withdrawing(old.uid)) /\ Reply(r, "ok")
        /\ login' = login /\ uids' = uids /\ filed' = filed /\ archive' = archive /\ record' = record
        /\ left' = left /\ slipped' = slipped
    BY <1>3 DEF InsertUser, firebase, evidence
  <2>2. PICK c \in RequestRecords : /\ request' = [request EXCEPT ![r] = c] /\ c.kind = old.kind
                           /\ c.uid = old.uid /\ c.id = 0 /\ c.phase = "done" /\ c.answer = "ok"
    BY <2>1, Replies DEF AccountsInv
  <2>3. /\ overlap' \in BOOLEAN /\ (overlap => overlap') /\ (login # old.uid => overlap')
        /\ (Withdrawing(old.uid) => overlap')
    BY <2>1 DEF AccountsInv, AccountsTyped
  <2>4. row'.id = ids + 1 /\ row'.uid = old.uid /\ row' \in [id : Nat, uid : Nat]
    BY <1>1, <2>1 DEF AccountsInv, AccountsTyped, RequestRecords
  <2>5. AccountsTyped'
    BY <1>1, <2>1, <2>2, <2>3, <2>4 DEF AccountsInv, AccountsTyped
  <2>6. CallsFit'
    <3> SUFFICES ASSUME NEW q \in Requests, NEW d \in RequestRecords, request'[q] = d PROVE CallFits(q, d)'
      BY DEF CallsFit
    <3>1. CASE q = r
      <4>1. d = c
        BY <2>2, <3>1 DEF AccountsInv, AccountsTyped
      <4> QED
        BY <1>1, <2>1, <2>2, <3>1, <4>1 DEF CallFits, AccountsInv, AccountsTyped
    <3>2. CASE q # r
      <4>1. request[q] = d /\ CallFits(q, d)
        BY <2>2, <3>2 DEF AccountsInv, AccountsTyped, CallsFit
      <4>2. d.kind = "withdraw" /\ d.uid = old.uid /\ d.phase \in {"begin", "delete", "login"} => Withdrawing(old.uid)
        BY <4>1 DEF Withdrawing
      <4>3. d.id <= ids /\ d.id # ids + 1 /\ d.id <= ids + 1
        BY <4>1 DEF CallFits, AccountsInv, AccountsTyped, RequestRecords
      <4> QED
        BY <2>1, <2>3, <2>4, <4>1, <4>2, <4>3 DEF CallFits
    <3> QED
      BY <3>1, <3>2
  <2>7. ReportsFit'
    BY <2>1, <2>4 DEF ReportsFit, AccountsInv, AccountsTyped
  <2>8. RecordsFit' /\ LoginFits'
    BY <2>1, <2>3, <2>4 DEF RecordsFit, LoginFits, AccountsInv, AccountsTyped
  <2>9. ArchiveIsComplete'
    BY <2>1, <2>4 DEF ArchiveIsComplete, AccountsInv
  <2> QED
    BY <2>5, <2>6, <2>7, <2>8, <2>9 DEF AccountsInv
<1> QED
  BY <1>2, <1>3

(* What a withdrawal deletes, and what it keeps.                                            *)
LEMMA DeleteUserFits ==
  ASSUME AccountsInv, NEW r \in Requests, DeleteUser(r)
  PROVE  AccountsInv'
<1> DEFINE old == request[r]
           me == old.id
           kept == old.kept
           new == [no |-> record + 1, id |-> me, full |-> kept.full]
<1>1. /\ old \in RequestRecords /\ CallFits(r, old) /\ old.kind = "withdraw" /\ old.phase = "delete"
      /\ old.uid # 0 /\ old.uid <= uids /\ me # 0 /\ me <= ids /\ me \in Nat
      /\ kept.full \in BOOLEAN /\ (row.id = me => kept.full)
      /\ \A f \in kept.found : filed[f].was = me
      /\ row.uid = old.uid => row.id = me \/ overlap
  BY DEF AccountsInv, AccountsTyped, CallsFit, CallFits, DeleteUser, In, RequestRecords
<1>2. /\ record' = record + 1 /\ archive' = archive \union {new} /\ consents' = consents \ {me}
      /\ slipped' = slipped \union (About(me) \ kept.found)
      /\ login' = login /\ uids' = uids /\ ids' = ids /\ overlap' = overlap
      /\ filed' = [f \in Reports |->
              [filed[f] EXCEPT !.about = IF @ = me THEN 0 ELSE @,
                               !.record = IF f \in kept.found THEN record + 1 ELSE @]]
      /\ Onward(r, "login")
  BY DEF DeleteUser, Proceed, Steps, RowFirst, firebase
<1>3. \/ row.id = me /\ row' = NoRow /\ left' = left \union {me}
      \/ row.id # me /\ row' = row /\ left' = left
  BY DEF DeleteUser
<1>4. PICK c \in RequestRecords : /\ request' = [request EXCEPT ![r] = c] /\ c.kind = old.kind
                         /\ c.uid = old.uid /\ c.id = old.id /\ c.phase = "login"
                         /\ c.kept = old.kept /\ c.answer = old.answer
  BY <1>2, Onwards DEF AccountsInv
<1>5. /\ new \in [no : Nat, id : Nat, full : BOOLEAN] /\ new.no = record + 1 /\ new.id = me
      /\ new.full = kept.full /\ record \in Nat
  BY <1>1 DEF AccountsInv, AccountsTyped
<1> HIDE DEF new
<1>6. filed' \in [Reports -> [about : Nat, was : Nat, record : Nat]]
  BY <1>2, <1>5 DEF AccountsInv, AccountsTyped
<1>7. \A f \in Reports : /\ filed'[f].was = filed[f].was
                         /\ filed[f].about = me => filed'[f].about = 0
                         /\ filed[f].about # me => filed'[f].about = filed[f].about
                         /\ f \in kept.found => filed'[f].record = record + 1
                         /\ f \notin kept.found => filed'[f].record = filed[f].record
  BY <1>2 DEF AccountsInv, AccountsTyped
<1>8. row' \in [id : Nat, uid : Nat] /\ (row' = NoRow => row'.id = 0 /\ row'.uid = 0)
  BY <1>3 DEF NoRow, AccountsInv, AccountsTyped
<1> HIDE DEF me, kept, old
<1>9. AccountsTyped'
  <2>1. request' \in [Requests -> RequestRecords]
    BY <1>4 DEF AccountsInv, AccountsTyped
  <2>2. left' \subseteq 1..ids
    <3>1. me \in 1..ids /\ left \subseteq 1..ids
      BY <1>1 DEF AccountsInv, AccountsTyped
    <3> QED
      BY <1>3, <3>1
  <2>3. archive' \subseteq [no : Nat, id : Nat, full : BOOLEAN]
    BY <1>2, <1>5 DEF AccountsInv, AccountsTyped
  <2>4. row'.id <= ids /\ row'.uid <= uids /\ (row' = NoRow \/ (row'.id # 0 /\ row'.uid # 0))
    BY <1>3, <1>8 DEF AccountsInv, AccountsTyped
  <2>5. /\ login' \in Nat /\ uids' \in Nat /\ ids' \in Nat /\ record' \in Nat /\ overlap' \in BOOLEAN
        /\ login' <= uids' /\ ids' = ids /\ uids' = uids
    <3>1. /\ login' = login /\ uids' = uids /\ ids' = ids /\ overlap' = overlap /\ record' = record + 1
          /\ login \in Nat /\ uids \in Nat /\ ids \in Nat /\ record \in Nat /\ overlap \in BOOLEAN /\ login <= uids
      BY <1>2 DEF AccountsInv, AccountsTyped
    <3> QED
      BY <3>1
  <2> QED
    BY <1>6, <1>8, <2>1, <2>2, <2>3, <2>4, <2>5 DEF AccountsTyped
<1>10. CallsFit'
  <2> SUFFICES ASSUME NEW q \in Requests, NEW d \in RequestRecords, request'[q] = d PROVE CallFits(q, d)'
    BY DEF CallsFit
  <2>1. CASE q = r
    <3>1. d = c
      BY <1>4, <2>1 DEF AccountsInv, AccountsTyped
    <3>2. CallFits(r, old) /\ old.kind = "withdraw"
      BY <1>1
    <3>3. row'.uid # c.uid \/ overlap'
      BY <1>1, <1>2, <1>3, <1>4, <1>8
    <3>4. /\ c.uid <= uids' /\ c.id <= ids' /\ c.uid # 0 /\ c.kind = "withdraw" /\ c.phase = "login"
          /\ r \in Reports => filed'[r].was = 0
          /\ c.answer = "ok" => login' # c.uid
      BY <1>1, <1>2, <1>4, <1>7, <3>2 DEF CallFits
    <3> HIDE DEF old
    <3> QED
      BY <2>1, <3>1, <3>3, <3>4 DEF CallFits
  <2>2. CASE q # r
    <3>1. request[q] = d /\ CallFits(q, d)
      BY <1>4, <2>2 DEF AccountsInv, AccountsTyped, CallsFit
    <3>2. /\ row'.uid = d.uid /\ d.uid # 0 => row' = row
          /\ row'.id = d.id /\ d.id # 0 => row' = row
      BY <1>3, <1>8
    <3>3. \A f \in d.kept.found : f \in Reports
      BY DEF RequestRecords
    <3> QED
      BY <1>2, <1>7, <3>1, <3>2, <3>3, ZenonT(60) DEF CallFits
  <2> QED
    BY <2>1, <2>2
<1>11. ReportsFit'
  <2> SUFFICES ASSUME NEW f \in Reports
               PROVE  /\ filed'[f].was <= ids'
                      /\ filed'[f].about # 0 => filed'[f].about = filed'[f].was
                      /\ filed'[f].was # 0 /\ row'.id = filed'[f].was => filed'[f].about = filed'[f].was
    BY DEF ReportsFit
  <2>1. /\ filed[f].was <= ids /\ (filed[f].about # 0 => filed[f].about = filed[f].was)
        /\ filed[f].was # 0 /\ row.id = filed[f].was => filed[f].about = filed[f].was
    BY DEF ReportsFit, AccountsInv
  <2> QED
    BY <1>2, <1>3, <1>7, <1>8, <2>1
<1>12. RecordsFit'
  <2>1. /\ \A g \in archive : g.no <= record /\ g.no \in Nat
        /\ \A g, h \in archive : g.no = h.no => g = h
        /\ row # NoRow => row.id \notin left
    BY DEF RecordsFit, AccountsInv, AccountsTyped
  <2>0. archive' = archive \union {new} /\ record' = record + 1 /\ new.no = record + 1 /\ record \in Nat
    BY <1>2, <1>5
  <2>2. \A g \in archive' : (g \in archive /\ g.no <= record /\ g.no # new.no) \/ g = new
    BY <2>0, <2>1
  <2>3. \A g \in archive' : g.no <= record'
    BY <2>0, <2>1, <2>2
  <2>4. \A g, h \in archive' : g.no = h.no => g = h
    BY <2>1, <2>2
  <2>5. row' # NoRow => row'.id \notin left'
    BY <1>3, <2>1
  <2> QED
    BY <2>3, <2>4, <2>5 DEF RecordsFit
<1>13. LoginFits'
  BY <1>2, <1>3 DEF LoginFits, AccountsInv
<1>14. ArchiveIsComplete'
  <2>1. new \in archive' /\ archive \subseteq archive'
    BY <1>2
  <2>2. \A i \in left' : \E g \in archive' : g.id = i /\ g.full
    BY <1>1, <1>3, <1>5, <2>1 DEF ArchiveIsComplete, AccountsInv
  <2>3. ASSUME NEW f \in Reports \ slipped', filed'[f].was \in left'
        PROVE  \E g \in archive' : g.no = filed'[f].record /\ g.id = filed'[f].was
    <3>1. CASE f \in kept.found
      BY <1>1, <1>5, <1>7, <2>1, <3>1
    <3>2. CASE f \notin kept.found
      <4>1. f \notin slipped /\ filed[f].about # me
        BY <1>2, <2>3, <3>2 DEF About
      <4>2. filed[f].was \in left
        <5>1. CASE row.id = me
          <6>1. filed[f].was # me
            BY <1>1, <4>1, <5>1 DEF ReportsFit, AccountsInv
          <6> QED
            BY <1>3, <1>7, <2>3, <6>1
        <5>2. CASE row.id # me
          BY <1>3, <1>7, <2>3, <5>2
        <5> QED
          BY <5>1, <5>2
      <4> QED
        BY <1>7, <2>1, <3>2, <4>1, <4>2 DEF ArchiveIsComplete, AccountsInv
    <3> QED
      BY <3>1, <3>2
  <2>4. row' # NoRow => row'.id \in consents'
    BY <1>2, <1>3 DEF ArchiveIsComplete, AccountsInv
  <2> QED
    BY <2>2, <2>3, <2>4 DEF ArchiveIsComplete
<1> QED
  BY <1>9, <1>10, <1>11, <1>12, <1>13, <1>14 DEF AccountsInv

(* The Firebase account.                                                                    *)
LEMMA DeleteLoginFits ==
  ASSUME AccountsInv, NEW r \in Requests, DeleteLogin(r)
  PROVE  AccountsInv'
<1> DEFINE old == request[r]
<1>1. /\ old \in RequestRecords /\ CallFits(r, old) /\ old.kind = "withdraw" /\ old.phase = "login"
      /\ old.uid # 0 /\ old.uid <= uids /\ (row.uid # old.uid \/ overlap)
  BY DEF AccountsInv, AccountsTyped, CallsFit, CallFits, DeleteLogin, In
<1>2. /\ \/ login = old.uid /\ login' = 0
         \/ login # old.uid /\ login' = login
      /\ uids' = uids /\ row' = row /\ ids' = ids /\ consents' = consents /\ filed' = filed
      /\ archive' = archive /\ record' = record /\ overlap' = overlap /\ left' = left /\ slipped' = slipped
      /\ Reply(r, "ok")
  BY DEF DeleteLogin, Proceed, Steps, RowFirst, profile, evidence, past
<1>3. PICK c \in RequestRecords : /\ request' = [request EXCEPT ![r] = c] /\ c.kind = old.kind
                         /\ c.uid = old.uid /\ c.id = 0 /\ c.phase = "done" /\ c.answer = "ok"
  BY <1>2, Replies DEF AccountsInv
<1> HIDE DEF old
<1>4. AccountsTyped'
  BY <1>2, <1>3 DEF AccountsInv, AccountsTyped
<1>5. CallsFit'
  <2> SUFFICES ASSUME NEW q \in Requests, NEW d \in RequestRecords, request'[q] = d PROVE CallFits(q, d)'
    BY DEF CallsFit
  <2>1. CASE q = r
    <3>1. d = c
      BY <1>3, <2>1 DEF AccountsInv, AccountsTyped
    <3> QED
      BY <1>1, <1>2, <1>3, <2>1, <3>1 DEF CallFits, AccountsInv, AccountsTyped
  <2>2. CASE q # r
    <3>1. request[q] = d /\ CallFits(q, d)
      BY <1>3, <2>2 DEF AccountsInv, AccountsTyped, CallsFit
    <3> QED
      BY <1>2, <3>1 DEF CallFits
  <2> QED
    BY <2>1, <2>2
<1>6. ReportsFit' /\ RecordsFit' /\ ArchiveIsComplete'
  BY <1>2 DEF ReportsFit, RecordsFit, ArchiveIsComplete, AccountsInv
<1>7. LoginFits'
  BY <1>1, <1>2 DEF LoginFits, AccountsInv
<1> QED
  BY <1>4, <1>5, <1>6, <1>7 DEF AccountsInv

LEMMA SignUpFits ==
  ASSUME AccountsInv, SignUp
  PROVE  AccountsInv'
<1>1. /\ login = 0 /\ uids' = uids + 1 /\ login' = uids + 1
      /\ row' = row /\ ids' = ids /\ consents' = consents /\ filed' = filed /\ request' = request
      /\ archive' = archive /\ record' = record /\ overlap' = overlap /\ left' = left /\ slipped' = slipped
  BY DEF SignUp, profile, evidence, past
<1>2. AccountsTyped' /\ LoginFits'
  BY <1>1 DEF AccountsInv, AccountsTyped, LoginFits
<1>3. CallsFit'
  BY <1>1 DEF AccountsInv, AccountsTyped, CallsFit, CallFits, RequestRecords
<1>4. ReportsFit' /\ RecordsFit' /\ ArchiveIsComplete'
  BY <1>1 DEF ReportsFit, RecordsFit, ArchiveIsComplete, AccountsInv
<1> QED
  BY <1>2, <1>3, <1>4 DEF AccountsInv

(* Reports and records.                                                                     *)
LEMMA ReportingFits ==
  ASSUME AccountsInv, NEW r \in Requests, FindForReport(r) \/ InsertReport(r)
  PROVE  AccountsInv'
<1> DEFINE old == request[r]
<1>1. old \in RequestRecords /\ CallFits(r, old)
  BY DEF AccountsInv, AccountsTyped, CallsFit
<1>2. CASE FindForReport(r)
  <2> DEFINE c == [Unasked EXCEPT !.kind = "report", !.phase = "insert", !.id = row.id]
  <2>1. request' = [request EXCEPT ![r] = c]
    BY <1>2 DEF FindForReport
  <2>2. c \in RequestRecords /\ c.kind = "report" /\ c.phase = "insert" /\ c.uid = 0 /\ c.id = row.id
    BY DEF Unasked, RequestRecords, AccountsInv, AccountsTyped
  <2> HIDE DEF c
  <2>3. CallFits(r, c)
    BY <1>1, <1>2, <2>2 DEF FindForReport, CallFits, AccountsInv, AccountsTyped
  <2> QED
    BY <1>2, <2>1, <2>2, <2>3, CallMoves DEF FindForReport
<1>3. CASE InsertReport(r)
  <2>1. old.kind = "report" /\ old.phase = "insert" /\ r \in Reports /\ filed[r].was = 0
    BY <1>1, <1>3 DEF InsertReport, In, CallFits
  <2>2. CASE UserGone(r)
    BY <1>3, <2>2, RepliesFit DEF InsertReport, evidence
  <2>3. CASE ~UserGone(r)
    <3>1. /\ filed' = [filed EXCEPT ![r].about = row.id, ![r].was = row.id] /\ Reply(r, "ok")
          /\ login' = login /\ uids' = uids /\ row' = row /\ ids' = ids /\ consents' = consents
          /\ archive' = archive /\ record' = record /\ overlap' = overlap /\ left' = left /\ slipped' = slipped
      BY <1>3, <2>3 DEF InsertReport, firebase, profile, past
    <3>2. PICK c \in RequestRecords : /\ request' = [request EXCEPT ![r] = c] /\ c.kind = old.kind
                             /\ c.uid = old.uid /\ c.id = 0 /\ c.phase = "done" /\ c.answer = "ok"
      BY <3>1, Replies DEF AccountsInv
    <3>3. /\ filed' \in [Reports -> [about : Nat, was : Nat, record : Nat]]
          /\ filed'[r].about = row.id /\ filed'[r].was = row.id
          /\ \A f \in Reports : f # r => filed'[f] = filed[f]
      BY <2>1, <3>1 DEF AccountsInv, AccountsTyped
    <3> HIDE DEF old
    <3>4. AccountsTyped'
      BY <3>1, <3>2, <3>3 DEF AccountsInv, AccountsTyped
    <3>5. CallsFit'
      <4> SUFFICES ASSUME NEW q \in Requests, NEW d \in RequestRecords, request'[q] = d PROVE CallFits(q, d)'
        BY DEF CallsFit
      <4>1. CASE q = r
        <5>1. d = c
          BY <3>2, <4>1 DEF AccountsInv, AccountsTyped
        <5> QED
          BY <1>1, <2>1, <3>1, <3>2, <4>1, <5>1 DEF CallFits, AccountsInv, AccountsTyped
      <4>2. CASE q # r
        <5>1. request[q] = d /\ CallFits(q, d)
          BY <3>2, <4>2 DEF AccountsInv, AccountsTyped, CallsFit
        <5>2. d.kind = "withdraw" /\ d.phase = "delete" => r \notin d.kept.found
          BY <2>1, <5>1 DEF CallFits
        <5>3. \A f \in d.kept.found : f \in Reports
          BY DEF RequestRecords
        <5> QED
          BY <3>1, <3>3, <4>2, <5>1, <5>2, <5>3 DEF CallFits
      <4> QED
        BY <4>1, <4>2
    <3>6. ReportsFit'
      BY <3>1, <3>3 DEF ReportsFit, AccountsInv, AccountsTyped
    <3>7. RecordsFit' /\ LoginFits'
      BY <3>1 DEF RecordsFit, LoginFits, AccountsInv
    <3>8. ArchiveIsComplete'
      <4>1. row.id \notin left
        BY DEF RecordsFit, AccountsInv, AccountsTyped, NoRow
      <4> QED
        BY <3>1, <3>3, <4>1 DEF ArchiveIsComplete, AccountsInv
    <3> QED
      BY <3>4, <3>5, <3>6, <3>7, <3>8 DEF AccountsInv
  <2> QED
    BY <2>2, <2>3
<1> QED
  BY <1>2, <1>3

LEMMA PurgeFits ==
  ASSUME AccountsInv, PurgeRecords
  PROVE  AccountsInv'
<1>1. PICK gone \in SUBSET archive \ {{}} :
       /\ archive' = archive \ gone
       /\ filed' = [f \in Reports |-> IF filed[f].record \in {g.no : g \in gone}
                                        THEN [filed[f] EXCEPT !.record = 0] ELSE filed[f]]
       /\ left' = left \ {g.id : g \in gone}
  BY DEF PurgeRecords
<1>2. /\ login' = login /\ uids' = uids /\ row' = row /\ ids' = ids /\ consents' = consents
      /\ record' = record /\ overlap' = overlap /\ slipped' = slipped /\ request' = request
  BY DEF PurgeRecords, firebase, profile
<1>3. /\ filed' \in [Reports -> [about : Nat, was : Nat, record : Nat]]
      /\ \A f \in Reports : /\ filed'[f].about = filed[f].about /\ filed'[f].was = filed[f].was
                            /\ filed[f].record \notin {g.no : g \in gone} => filed'[f].record = filed[f].record
  BY <1>1 DEF AccountsInv, AccountsTyped
<1>4. AccountsTyped' /\ RecordsFit' /\ LoginFits'
  BY <1>1, <1>2, <1>3 DEF AccountsInv, AccountsTyped, RecordsFit, LoginFits
<1>5. CallsFit'
  <2> SUFFICES ASSUME NEW q \in Requests, NEW d \in RequestRecords, request'[q] = d PROVE CallFits(q, d)'
    BY DEF CallsFit
  <2>1. CallFits(q, d)
    BY <1>2 DEF CallsFit, AccountsInv
  <2>2. \A f \in d.kept.found : f \in Reports
    BY DEF RequestRecords
  <2> QED
    BY <1>2, <1>3, <2>1, <2>2 DEF CallFits
<1>6. ReportsFit'
  BY <1>2, <1>3 DEF AccountsInv, ReportsFit
<1>7. ArchiveIsComplete'
  <2>1. \A i \in left' : \E g \in archive' : g.id = i /\ g.full
    BY <1>1 DEF ArchiveIsComplete, AccountsInv
  <2>2. ASSUME NEW f \in Reports \ slipped', filed'[f].was \in left'
        PROVE  \E g \in archive' : g.no = filed'[f].record /\ g.id = filed'[f].was
    <3>1. PICK g \in archive : g.no = filed[f].record /\ g.id = filed[f].was
      BY <1>1, <1>2, <1>3, <2>2 DEF ArchiveIsComplete, AccountsInv
    <3>2. g \notin gone
      BY <1>1, <1>3, <2>2, <3>1
    <3>3. filed[f].record \notin {h.no : h \in gone}
      BY <1>1, <3>1, <3>2 DEF RecordsFit, AccountsInv
    <3> QED
      BY <1>1, <1>3, <3>1, <3>2, <3>3
  <2> QED
    BY <1>2, <2>1, <2>2 DEF ArchiveIsComplete, AccountsInv
<1> QED
  BY <1>4, <1>5, <1>6, <1>7 DEF AccountsInv

LEMMA AccountsKeep == AccountsSpec => []AccountsInv
<1>1. AccountsInit => AccountsInv
  BY AccountsInitially
<1>2. AccountsInv /\ [AccountsNext]_accountsVars => AccountsInv'
  <2> SUFFICES ASSUME AccountsInv, [AccountsNext]_accountsVars PROVE AccountsInv'
    OBVIOUS
  <2>1. CASE UNCHANGED accountsVars
    BY <2>1 DEF accountsVars, AccountsInv, AccountsTyped, CallsFit, CallFits, ReportsFit, RecordsFit, LoginFits,
                ArchiveIsComplete
  <2>2. CASE SignUp
    BY <2>2, SignUpFits
  <2>3. CASE PurgeRecords
    BY <2>3, PurgeFits
  <2>4. ASSUME NEW r \in Requests, Asks(r, "register") \/ Asks(r, "withdraw")
        PROVE  AccountsInv'
    BY <2>4, AsksFits
  <2>5. ASSUME NEW r \in Requests, FindForRegister(r) \/ FindForWithdraw(r) \/ ArchiveFirst(r)
        PROVE  AccountsInv'
    BY <2>5, FindsFit
  <2>6. ASSUME NEW r \in Requests, InsertUser(r) PROVE AccountsInv'
    BY <2>6, InsertUserFits
  <2>7. ASSUME NEW r \in Requests, DeleteUser(r) PROVE AccountsInv'
    BY <2>7, DeleteUserFits
  <2>8. ASSUME NEW r \in Requests, DeleteLogin(r) PROVE AccountsInv'
    BY <2>8, DeleteLoginFits
  <2>9. ASSUME NEW r \in Requests, FindForReport(r) \/ InsertReport(r) PROVE AccountsInv'
    BY <2>9, ReportingFits
  <2>10. ASSUME NEW r \in Requests, RequestFails(r) PROVE AccountsInv'
    BY <2>10, RepliesFit DEF RequestFails
  <2> QED
    BY <2>1, <2>2, <2>3, <2>4, <2>5, <2>6, <2>7, <2>8, <2>9, <2>10 DEF AccountsNext
<1> QED
  BY <1>1, <1>2, PTL DEF AccountsSpec

(* register, deleteMe and report, overlapping, repeated and failing: a profile has its      *)
(* login, and a withdrawn account its record with consents and reports; a registration with *)
(* a token of an account that is being withdrawn is excepted.                               *)
THEOREM AccountsHold == AccountsSpec => []AccountsAgree
<1>1. AccountsInv => AccountsAgree
  <2> SUFFICES ASSUME AccountsInv PROVE AccountsAgree
    OBVIOUS
  <2>1. \A r \in Requests : request[r].kind = "withdraw" /\ request[r].answer = "ok" => login # request[r].uid
    BY DEF AccountsInv, AccountsTyped, CallsFit, CallFits
  <2> QED
    BY <2>1 DEF AccountsInv, LoginFits, AccountsAgree, ProfileAndLoginAgree
<1> QED
  BY <1>1, AccountsKeep, PTL

(* Besides, numbers stay within what has been given out, and a record has a row it is of.   *)
AccountsBounded ==
  /\ uids <= MaxUids /\ ids <= MaxUids /\ mishaps \in 0..MaxMishaps
  /\ consents \subseteq 1..MaxUids /\ slipped \subseteq Reports
  /\ archive \subseteq [no : 1..record, id : 1..MaxUids, full : BOOLEAN]
  /\ \A f \in Reports : filed[f].record <= record

LEMMA DeleteUserBounded ==
  ASSUME AccountsInv, AccountsBounded, NEW r \in Requests, DeleteUser(r)
  PROVE  AccountsBounded'
<1> USE DEF firebase
<1>1. /\ UNCHANGED <<uids, ids, mishaps>> /\ record' = record + 1 /\ record \in Nat
      /\ consents' \subseteq consents /\ slipped' \subseteq Reports
  BY DEF DeleteUser, AccountsBounded, AccountsInv, AccountsTyped, About
<1>2. request[r].id \in 1..MaxUids /\ request[r].kept.full \in BOOLEAN
  <2>1. request[r] \in RequestRecords /\ CallFits(r, request[r])
    BY DEF AccountsInv, AccountsTyped, CallsFit
  <2>2. request[r].id # 0 /\ request[r].id <= ids
    BY <2>1 DEF DeleteUser, In, CallFits
  <2> QED
    BY <2>1, <2>2, AccountsAssumption DEF AccountsBounded, RequestRecords, AccountsInv, AccountsTyped
<1>3. archive' \subseteq [no : 1..record', id : 1..MaxUids, full : BOOLEAN]
  <2>1. archive' = archive \union {[no |-> record + 1, id |-> request[r].id, full |-> request[r].kept.full]}
    BY DEF DeleteUser
  <2>2. [no |-> record + 1, id |-> request[r].id, full |-> request[r].kept.full]
          \in [no : 1..record', id : 1..MaxUids, full : BOOLEAN]
    BY <1>1, <1>2
  <2>3. 1..record \subseteq 1..record'
    BY <1>1
  <2>4. archive \subseteq [no : 1..record', id : 1..MaxUids, full : BOOLEAN]
    BY <2>3 DEF AccountsBounded
  <2> QED
    BY <2>1, <2>2, <2>4
<1>4. ASSUME NEW f \in Reports PROVE filed'[f].record <= record'
  <2>1. filed'[f].record \in {filed[f].record, record + 1}
    BY DEF DeleteUser, AccountsInv, AccountsTyped
  <2>2. filed[f].record \in Nat /\ filed[f].record <= record
    BY DEF AccountsInv, AccountsTyped, AccountsBounded
  <2> QED
    BY <1>1, <2>1, <2>2
<1> QED
  BY <1>1, <1>3, <1>4 DEF AccountsBounded

LEMMA RequestsBounded ==
  ASSUME AccountsInv, AccountsBounded, NEW r \in Requests,
         \/ Asks(r, "register") \/ Asks(r, "withdraw") \/ FindForRegister(r) \/ FindForWithdraw(r) \/ ArchiveFirst(r)
         \/ InsertUser(r) \/ DeleteLogin(r) \/ FindForReport(r) \/ InsertReport(r) \/ RequestFails(r)
  PROVE  AccountsBounded'
<1> USE DEF firebase, profile, evidence, past
<1>1. CASE \/ Asks(r, "register") \/ Asks(r, "withdraw") \/ FindForRegister(r) \/ FindForWithdraw(r) \/ ArchiveFirst(r)
           \/ DeleteLogin(r) \/ FindForReport(r)
  <2>1. UNCHANGED <<uids, ids, consents, slipped, archive, filed, record, mishaps>>
    BY <1>1 DEF Asks, FindForRegister, FindForWithdraw, ArchiveFirst, DeleteLogin, FindForReport
  <2> QED
    BY <2>1 DEF AccountsBounded
<1>2. CASE InsertUser(r)
  <2>1. UNCHANGED <<uids, slipped, archive, filed, record, mishaps>>
    BY <1>2 DEF InsertUser
  <2>2. \/ UNCHANGED <<ids, consents>>
        \/ ids < MaxUids /\ ids' = ids + 1 /\ consents' = consents \union {ids + 1}
    BY <1>2 DEF InsertUser
  <2>3. ids \in Nat /\ MaxUids \in Nat
    BY AccountsAssumption DEF AccountsInv, AccountsTyped
  <2>4. ids' <= MaxUids /\ consents' \subseteq 1..MaxUids
    <3>1. CASE UNCHANGED <<ids, consents>>
      BY <3>1 DEF AccountsBounded
    <3>2. CASE ids < MaxUids /\ ids' = ids + 1 /\ consents' = consents \union {ids + 1}
      <4>1. ids + 1 \in 1..MaxUids
        BY <2>3, <3>2
      <4>2. consents' \subseteq 1..MaxUids
        BY <3>2, <4>1 DEF AccountsBounded
      <4>3. ids' <= MaxUids
        BY <2>3, <3>2
      <4> QED
        BY <4>2, <4>3
    <3> QED
      BY <2>2, <3>1, <3>2
  <2> QED
    BY <2>1, <2>4 DEF AccountsBounded
<1>3. CASE InsertReport(r)
  <2>1. UNCHANGED <<uids, ids, consents, slipped, archive, record, mishaps>>
    BY <1>3 DEF InsertReport
  <2>2. \A f \in Reports : filed'[f].record = filed[f].record
    BY <1>3 DEF InsertReport, AccountsInv, AccountsTyped
  <2> QED
    BY <2>1, <2>2 DEF AccountsBounded
<1>4. CASE RequestFails(r)
  <2>1. UNCHANGED <<uids, ids, consents, slipped, archive, filed, record>> /\ mishaps > 0 /\ mishaps' = mishaps - 1
    BY <1>4 DEF RequestFails, Mishap
  <2>2. mishaps' \in 0..MaxMishaps
    BY <2>1, AccountsAssumption DEF AccountsBounded
  <2> QED
    BY <2>1, <2>2 DEF AccountsBounded
<1> QED
  BY <1>1, <1>2, <1>3, <1>4

LEMMA OutsideBounded ==
  ASSUME AccountsInv, AccountsBounded, SignUp \/ PurgeRecords PROVE AccountsBounded'
<1> USE DEF firebase, profile, evidence, past
<1>1. CASE SignUp
  <2>1. UNCHANGED <<ids, consents, slipped, archive, filed, record, mishaps>> /\ uids < MaxUids /\ uids' = uids + 1
    BY <1>1 DEF SignUp
  <2>2. uids' <= MaxUids
    BY <2>1, AccountsAssumption DEF AccountsInv, AccountsTyped
  <2> QED
    BY <2>1, <2>2 DEF AccountsBounded
<1>2. CASE PurgeRecords
  <2>1. UNCHANGED <<uids, ids, consents, slipped, record>> /\ archive' \subseteq archive /\ mishaps > 0 /\ mishaps' = mishaps - 1
    BY <1>2 DEF PurgeRecords, Mishap
  <2>2. mishaps' \in 0..MaxMishaps
    BY <2>1, AccountsAssumption DEF AccountsBounded
  <2>3. ASSUME NEW f \in Reports PROVE filed'[f].record <= record
    <3>1. filed'[f] = filed[f] \/ filed'[f] = [filed[f] EXCEPT !.record = 0]
      BY <1>2 DEF PurgeRecords
    <3>2. filed'[f].record \in {0, filed[f].record} /\ record \in Nat
      BY <3>1 DEF AccountsInv, AccountsTyped
    <3> QED
      BY <3>2 DEF AccountsBounded
  <2> QED
    BY <2>1, <2>2, <2>3 DEF AccountsBounded
<1> QED
  BY <1>1, <1>2

LEMMA AccountsAreTyped == ASSUME AccountsInv, AccountsBounded PROVE AccountsTypeOK
<1> USE AccountsAssumption
<1>1. /\ login \in 0..MaxUids /\ uids \in 0..MaxUids /\ ids \in 0..MaxUids /\ left \subseteq 1..MaxUids
      /\ record \in Nat /\ overlap \in BOOLEAN
  BY DEF AccountsInv, AccountsTyped, AccountsBounded
<1>2. row \in [id : 0..MaxUids, uid : 0..MaxUids]
  <2>1. row \in [id : Nat, uid : Nat] /\ row.id \in 0..MaxUids /\ row.uid \in 0..MaxUids
    BY <1>1 DEF AccountsInv, AccountsTyped
  <2> QED
    BY <2>1
<1>3. filed \in [Reports -> [about : 0..MaxUids, was : 0..MaxUids, record : 0..record]]
  <2>1. ASSUME NEW f \in Reports PROVE filed[f] \in [about : 0..MaxUids, was : 0..MaxUids, record : 0..record]
    <3>1. filed[f] \in [about : Nat, was : Nat, record : Nat]
      BY DEF AccountsInv, AccountsTyped
    <3>2. /\ filed[f].was <= ids /\ filed[f].about \in {0, filed[f].was}
          /\ filed[f].record <= record
      BY DEF AccountsInv, ReportsFit, AccountsBounded
    <3>3. filed[f].was \in 0..MaxUids /\ filed[f].about \in 0..MaxUids /\ filed[f].record \in 0..record
      BY <1>1, <3>1, <3>2
    <3> QED
      BY <3>1, <3>3
  <2> QED
    BY <2>1 DEF AccountsInv, AccountsTyped
<1>4. request \in [Requests ->
       [kind : {"none", "register", "withdraw", "report"}, uid : 0..MaxUids, id : 0..MaxUids,
        phase : {"idle", "find", "insert", "begin", "delete", "login", "done"},
        kept : [full : BOOLEAN, found : SUBSET Reports], answer : {"none", "ok", "refused", "failed"}]]
  <2>1. ASSUME NEW r \in Requests
        PROVE  request[r] \in [kind : {"none", "register", "withdraw", "report"}, uid : 0..MaxUids, id : 0..MaxUids,
                 phase : {"idle", "find", "insert", "begin", "delete", "login", "done"},
                 kept : [full : BOOLEAN, found : SUBSET Reports], answer : {"none", "ok", "refused", "failed"}]
    <3>1. request[r] \in RequestRecords /\ CallFits(r, request[r])
      BY DEF AccountsInv, AccountsTyped, CallsFit
    <3>2. request[r].uid \in 0..MaxUids /\ request[r].id \in 0..MaxUids
      BY <1>1, <3>1 DEF CallFits, RequestRecords
    <3> QED
      BY <3>1, <3>2 DEF RequestRecords
  <2> QED
    BY <2>1 DEF AccountsInv, AccountsTyped
<1> QED
  BY <1>1, <1>2, <1>3, <1>4 DEF AccountsBounded, AccountsTypeOK

(* Rows, records, reports and requests under way are always what they should be, and every  *)
(* record is of a row there was.                                                            *)
THEOREM AccountsStayTyped == AccountsSpec => []AccountsTypeOK
<1>1. AccountsInit => AccountsBounded
  <2> SUFFICES ASSUME AccountsInit PROVE AccountsBounded
    OBVIOUS
  <2>1. \A f \in Reports : filed[f].record = 0
    BY DEF AccountsInit
  <2> QED
    BY <2>1, AccountsAssumption DEF AccountsInit, AccountsBounded
<1>2. AccountsInv /\ AccountsBounded /\ [AccountsNext]_accountsVars => AccountsBounded'
  <2> SUFFICES ASSUME AccountsInv, AccountsBounded, [AccountsNext]_accountsVars PROVE AccountsBounded'
    OBVIOUS
  <2>1. CASE UNCHANGED accountsVars
    BY <2>1 DEF accountsVars, AccountsBounded
  <2> QED
    BY <2>1, DeleteUserBounded, RequestsBounded, OutsideBounded DEF AccountsNext
<1>3. AccountsInv /\ AccountsBounded => AccountsTypeOK
  BY AccountsAreTyped
<1> QED
  BY <1>1, <1>2, <1>3, AccountsKeep, PTL DEF AccountsSpec

-----------------------------------------------------------------------------
(* Rankings.  What was fetched after the end of the season differs from what the ledger says *)
(* by late rows and withdrawals only; and a withdrawal that has cleared the key has marked    *)
(* whoever holds a list that was fetched before.                                              *)
RankedPostings == [phase : {"idle", "open", "in", "void"}, by : Players \union {"none"},
                   type : Entries \union {"none"}, late : BOOLEAN]
RankingsTyped ==
  /\ ranked \in {"users", "teams"} /\ season \in {"ongoing", "ended"} /\ dayLong \in BOOLEAN
  /\ playing \subseteq Players /\ posting \in [Postings -> RankedPostings]
  /\ DOMAIN reader = Readers /\ farewell \in [Players -> {"no", "deleted", "done", "failed"}]
ReaderFits(f) ==
  /\ f \in [phase : {"idle", "clock", "fetch", "write"}, ended : BOOLEAN, rows : {f.rows}, cleared : {f.cleared}]
FinalAsOf(list) ==
  /\ season = "ended"
  /\ \A s \in (Fetched \ list) \union (list \ Fetched) : Straddled(s[1]) \/ s[1] \in Players \ playing
MarksTheGone(list, marked) ==
  list # NoList /\ ranked = "users"
    => \A s \in list : s[1] \in Players /\ (farewell[s[1]] = "done" => s[1] \in marked)
ReadersFit ==
  \A r \in Readers : \A f : reader[r] = f =>
    /\ ReaderFits(f)
    /\ f.ended => season = "ended"
    /\ f.phase = "write" /\ f.ended => FinalAsOf(f.rows)
    /\ MarksTheGone(f.rows, f.cleared)
CacheFits ==
  \A h, o : hof = h /\ overtaken = o => (dayLong => FinalAsOf(h)) /\ MarksTheGone(h, o)
GoneAreGone == \A u \in Players : farewell[u] # "no" => u \notin playing
RankingsInv == RankingsTyped /\ ReadersFit /\ CacheFits /\ GoneAreGone

(* A step of the ledger, a withdrawal or nothing at all: who gets another score is straddled. *)
LEMMA ScoreStays ==
  ASSUME RankingsTyped, season = "ended",
         UNCHANGED posting \/ \E p \in Postings : PostCommit(p) \/ \E u \in Players, e \in Entries : PostBegin(p, u, e),
         NEW who, ~Straddled(who)'
  PROVE  /\ PersonalScore(who)' = PersonalScore(who)
         /\ TeamScore(who)' = TeamScore(who)
<1>1. CASE UNCHANGED posting
      BY <1>1 DEF PersonalScore, TeamScore, InLedger
<1>2. CASE \E p \in Postings : PostCommit(p)
  <2>1. PICK p \in Postings : PostCommit(p)
        BY <1>2
  <2>2. /\ posting[p].phase = "open" /\ p \notin InLedger
        /\ \A q \in Postings \ {p} : posting'[q] = posting[q]
        /\ posting'[p].phase \in {"in", "void"}
        /\ posting'[p].phase = "in" => posting'[p].late /\ posting'[p].by = posting[p].by
    <3>1. CASE posting[p].by \in playing
      <4>1. posting' = [posting EXCEPT ![p] = [posting[p] EXCEPT !.phase = "in", !.late = TRUE]]
            BY <2>1, <3>1 DEF PostCommit
      <4>2. posting[p].phase = "open"
            BY <2>1 DEF PostCommit
      <4> QED BY <4>1, <4>2 DEF RankingsTyped, RankedPostings, InLedger
    <3>2. CASE posting[p].by \notin playing
      <4>1. posting' = [posting EXCEPT ![p] = [Unposted EXCEPT !.phase = "void"]]
            BY <2>1, <3>2 DEF PostCommit
      <4>2. posting[p].phase = "open"
            BY <2>1 DEF PostCommit
      <4> QED BY <4>1, <4>2 DEF RankingsTyped, RankedPostings, InLedger, Unposted
    <3> QED BY <3>1, <3>2
  <2>3. posting'[p].phase = "in" => who # posting'[p].by /\ who # SideOf[posting'[p].by]
        BY <2>2 DEF Straddled, InLedger
  <2>4. {q \in InLedger : posting[q].by = who}' = {q \in InLedger : posting[q].by = who}
        BY <2>2, <2>3 DEF InLedger
  <2>5. {q \in InLedger : SideOf[posting[q].by] = who}' = {q \in InLedger : SideOf[posting[q].by] = who}
        BY <2>2, <2>3 DEF InLedger
  <2>6. \A q \in InLedger : posting'[q] = posting[q]
        BY <2>2 DEF InLedger
  <2>7. PersonalScore(who)' = PersonalScore(who)
    <3>1. [p1 \in {q \in InLedger : posting[q].by = who} |-> PersonalPoints(posting[p1].type)]'
            = [p1 \in {q \in InLedger : posting[q].by = who} |-> PersonalPoints(posting[p1].type)]
          BY <2>4, <2>6
    <3> QED BY <3>1 DEF PersonalScore
  <2>8. TeamScore(who)' = TeamScore(who)
    <3>1. [p1 \in {q \in InLedger : SideOf[posting[q].by] = who} |-> TeamPoints(posting[p1].type)]'
            = [p1 \in {q \in InLedger : SideOf[posting[q].by] = who} |-> TeamPoints(posting[p1].type)]
          BY <2>5, <2>6
    <3> QED BY <3>1 DEF TeamScore
  <2> QED BY <2>7, <2>8
<1>3. CASE \E p \in Postings, u \in Players, e \in Entries : PostBegin(p, u, e)
      BY <1>3 DEF PostBegin
<1> QED BY <1>1, <1>2, <1>3

LEMMA LedgerOnlyGrows ==
  ASSUME RankingsTyped, RankingsNext, season = "ended", NEW who, Straddled(who)
  PROVE  Straddled(who)'
<1>1. PICK q \in InLedger : posting[q].late /\ who \in {posting[q].by, SideOf[posting[q].by]}
      BY DEF Straddled
<1>2. posting'[q] = posting[q]
  <2>1. q \in Postings /\ posting[q].phase = "in"
        BY DEF InLedger
  <2>2. CASE UNCHANGED posting
        BY <2>2
  <2>3. ASSUME NEW p \in Postings, PostCommit(p) PROVE posting'[q] = posting[q]
        BY <2>1, <2>3 DEF PostCommit, RankingsTyped
  <2>4. ASSUME NEW p \in Postings, NEW u \in Players, NEW e \in Entries, PostBegin(p, u, e) PROVE posting'[q] = posting[q]
        BY <2>1, <2>4 DEF PostBegin, RankingsTyped
  <2> QED BY <2>2, <2>3, <2>4 DEF RankingsNext, Look, ReadFirst, ReadSecond, CacheRanking, RemoveUser,
             InvalidateUserRanking, SeasonEnds, RankingLapses
<1>3. q \in InLedger'
      BY <1>2 DEF InLedger
<1> QED BY <1>1, <1>2, <1>3 DEF Straddled

LEMMA FinalStays ==
  ASSUME RankingsTyped, RankingsNext, NEW list, FinalAsOf(list)
  PROVE  FinalAsOf(list)'
<1>1. season' = "ended" /\ playing' \subseteq playing /\ ranked' = ranked /\ season = "ended"
      BY DEF FinalAsOf, RankingsNext, PostBegin, PostCommit, Look, ReadFirst, ReadSecond, CacheRanking, RemoveUser,
             InvalidateUserRanking, SeasonEnds, RankingLapses
<1>2. UNCHANGED posting \/ \E p \in Postings : PostCommit(p) \/ \E u \in Players, e \in Entries : PostBegin(p, u, e)
      BY DEF RankingsNext, Look, ReadFirst, ReadSecond, CacheRanking, RemoveUser, InvalidateUserRanking, SeasonEnds,
             RankingLapses
<1>3. \A who : ~Straddled(who)' => PersonalScore(who)' = PersonalScore(who) /\ TeamScore(who)' = TeamScore(who)
      BY <1>1, <1>2, ScoreStays
<1>4. ASSUME NEW s, s \in (Fetched' \ Fetched) \union (Fetched \ Fetched')
      PROVE  Straddled(s[1])' \/ s[1] \in Players \ playing'
  <2> SUFFICES ASSUME ~Straddled(s[1])', s[1] \notin Players \ playing' PROVE FALSE
      OBVIOUS
  <2>1. PersonalScore(s[1])' = PersonalScore(s[1]) /\ TeamScore(s[1])' = TeamScore(s[1])
        BY <1>3
  <2>2. CASE ranked = "users"
    <3>1. Fetched = {x \in Scores : x[2] > 0} /\ Fetched' = {x \in Scores' : x[2] > 0}
          BY <1>1, <2>2 DEF Fetched
    <3>2. s \in Scores <=> s \in Scores'
      <4>1. s \in Scores => s[1] \in playing /\ s = <<s[1], PersonalScore(s[1])>>
            BY DEF Scores
      <4>2. s \in Scores' => s[1] \in playing' /\ s = <<s[1], PersonalScore(s[1])'>>
            BY DEF Scores
      <4>3. s[1] \in playing /\ s = <<s[1], PersonalScore(s[1])>> => s \in Scores
            BY DEF Scores
      <4>4. s[1] \in playing' /\ s = <<s[1], PersonalScore(s[1])'>> => s \in Scores'
            BY DEF Scores
      <4>5. s[1] \in playing <=> s[1] \in playing'
            BY <1>1 DEF RankingsTyped
      <4> QED BY <2>1, <4>1, <4>2, <4>3, <4>4, <4>5
    <3> QED BY <1>4, <3>1, <3>2
  <2>3. CASE ranked = "teams"
    <3>1. Fetched = {x \in SideScores : x[2] > 0} /\ Fetched' = {x \in SideScores' : x[2] > 0}
          BY <1>1, <2>3 DEF Fetched
    <3>2. s \in SideScores <=> s \in SideScores'
      <4>1. s \in SideScores => s[1] \in Sides /\ s = <<s[1], TeamScore(s[1])>>
            BY DEF SideScores
      <4>2. s \in SideScores' => s[1] \in Sides /\ s = <<s[1], TeamScore(s[1])'>>
            BY DEF SideScores
      <4>3. s[1] \in Sides /\ s = <<s[1], TeamScore(s[1])>> => s \in SideScores
            BY DEF SideScores
      <4>4. s[1] \in Sides /\ s = <<s[1], TeamScore(s[1])'>> => s \in SideScores'
            BY DEF SideScores
      <4> QED BY <2>1, <4>1, <4>2, <4>3, <4>4
    <3> QED BY <1>4, <3>1, <3>2
  <2> QED BY <2>2, <2>3 DEF RankingsTyped
<1>5. ASSUME NEW s, s \in (Fetched' \ list) \union (list \ Fetched')
      PROVE  Straddled(s[1])' \/ s[1] \in Players \ playing'
  <2>1. CASE s \in (Fetched \ list) \union (list \ Fetched)
    <3>1. Straddled(s[1]) \/ s[1] \in Players \ playing
          BY <2>1 DEF FinalAsOf
    <3>2. Straddled(s[1]) => Straddled(s[1])'
          BY <1>1, LedgerOnlyGrows
    <3> QED BY <1>1, <3>1, <3>2
  <2>2. CASE s \notin (Fetched \ list) \union (list \ Fetched)
        BY <1>4, <1>5, <2>2
  <2> QED BY <2>1, <2>2
<1> QED BY <1>1, <1>5 DEF FinalAsOf

LEMMA FetchedIsOfPlayers ==
  ASSUME RankingsTyped, GoneAreGone, NEW marked
  PROVE  MarksTheGone(Fetched, marked)
<1> SUFFICES ASSUME ranked = "users", NEW s \in Fetched PROVE s[1] \in Players /\ farewell[s[1]] = "no"
    BY DEF MarksTheGone
<1>1. s \in Scores
      BY DEF Fetched
<1>2. s[1] \in playing
      BY <1>1 DEF Scores
<1> QED BY <1>2 DEF RankingsTyped, GoneAreGone

(* What is fetched now, once the season is over, is final; and so it stays. *)
LEMMA FetchedIsFinal == season = "ended" => FinalAsOf(Fetched)
<1> QED BY DEF FinalAsOf

LEMMA MarksStay ==
  ASSUME RankingsTyped, RankingsNext, NEW list, NEW marked, MarksTheGone(list, marked),
         \A u \in Players : farewell'[u] = "done" => farewell[u] = "done"
  PROVE  MarksTheGone(list, marked)'
<1>1. ranked' = ranked
      BY DEF RankingsNext, PostBegin, PostCommit, Look, ReadFirst, ReadSecond, CacheRanking, RemoveUser,
             InvalidateUserRanking, SeasonEnds, RankingLapses
<1> QED BY <1>1 DEF MarksTheGone

LEMMA MarksGrow ==
  ASSUME RankingsTyped, NEW u \in Players, NEW list, NEW marked, MarksTheGone(list, marked),
         ranked' = ranked, farewell' = [farewell EXCEPT ![u] = "done"]
  PROVE  MarksTheGone(list, marked \union {u})'
<1> QED BY DEF MarksTheGone, RankingsTyped

LEMMA RankingsTypesKept ==
  ASSUME RankingsTyped, GoneAreGone, ReadersFit, RankingsNext
  PROVE  RankingsTyped' /\ GoneAreGone'
<1> USE DEF RankingsTyped, GoneAreGone
<1>1. ASSUME NEW p \in Postings, PostCommit(p) PROVE RankingsTyped' /\ GoneAreGone'
  <2>1. posting' \in [Postings -> RankedPostings]
    <3>1. PICK b \in BOOLEAN : b = (season = "ended")
          OBVIOUS
    <3>2. \/ posting' = [posting EXCEPT ![p] = [posting[p] EXCEPT !.phase = "in", !.late = b]]
          \/ posting' = [posting EXCEPT ![p] = [Unposted EXCEPT !.phase = "void"]]
          BY <1>1, <3>1 DEF PostCommit
    <3>3. CASE posting' = [posting EXCEPT ![p] = [posting[p] EXCEPT !.phase = "in", !.late = b]]
          BY <3>3 DEF RankedPostings
    <3>4. CASE posting' = [posting EXCEPT ![p] = [Unposted EXCEPT !.phase = "void"]]
      <4>1. [Unposted EXCEPT !.phase = "void"] \in RankedPostings
            BY DEF RankedPostings, Unposted
      <4> QED BY <3>4, <4>1
    <3> QED BY <3>2, <3>3, <3>4
  <2> QED BY <1>1, <2>1 DEF PostCommit
<1>2. ASSUME NEW p \in Postings, NEW u \in Players, NEW e \in Entries, PostBegin(p, u, e)
      PROVE  RankingsTyped' /\ GoneAreGone'
      BY <1>2 DEF PostBegin, RankedPostings
<1>3. ASSUME NEW r \in Readers, Look(r) \/ ReadFirst(r) \/ ReadSecond(r)
      PROVE  RankingsTyped' /\ GoneAreGone'
      BY <1>3 DEF Look, ReadFirst, ReadSecond
<1>4. ASSUME NEW r \in Readers, CacheRanking(r) PROVE RankingsTyped' /\ GoneAreGone'
  <2>1. reader[r].ended \in BOOLEAN
        BY DEF ReadersFit, ReaderFits
  <2> QED BY <1>4, <2>1 DEF CacheRanking
<1>5. ASSUME NEW u \in Players, RemoveUser(u) PROVE RankingsTyped' /\ GoneAreGone'
      BY <1>5 DEF RemoveUser
<1>6. ASSUME NEW u \in Players, InvalidateUserRanking(u) PROVE RankingsTyped' /\ GoneAreGone'
      BY <1>6 DEF InvalidateUserRanking
<1>7. ASSUME SeasonEnds \/ RankingLapses PROVE RankingsTyped' /\ GoneAreGone'
      BY <1>7 DEF SeasonEnds, RankingLapses
<1> QED BY <1>1, <1>2, <1>3, <1>4, <1>5, <1>6, <1>7 DEF RankingsNext

LEMMA ReadersKept ==
  ASSUME RankingsInv, RankingsNext
  PROVE  ReadersFit'
<1> SUFFICES ASSUME NEW r \in Readers, NEW f, reader'[r] = f
             PROVE  /\ ReaderFits(f)
                    /\ f.ended => season' = "ended"
                    /\ f.phase = "write" /\ f.ended => FinalAsOf(f.rows)'
                    /\ MarksTheGone(f.rows, f.cleared)'
    BY DEF ReadersFit
<1>1. PICK e : reader[r] = e
      OBVIOUS
<1>2. /\ ReaderFits(e) /\ (e.ended => season = "ended")
      /\ (e.phase = "write" /\ e.ended => FinalAsOf(e.rows))
      /\ MarksTheGone(e.rows, e.cleared)
      BY <1>1 DEF RankingsInv, ReadersFit
<1>3. season = "ended" => season' = "ended"
      BY DEF RankingsNext, PostBegin, PostCommit, Look, ReadFirst, ReadSecond, CacheRanking, RemoveUser,
             InvalidateUserRanking, SeasonEnds, RankingLapses
<1>4. RankingsTyped /\ GoneAreGone
      BY DEF RankingsInv
<1>5. \A list : FinalAsOf(list) => FinalAsOf(list)'
      BY <1>4, FinalStays
<1>6. ASSUME \A u \in Players : farewell'[u] = "done" => farewell[u] = "done",
             NEW list, NEW marked, MarksTheGone(list, marked)
      PROVE  MarksTheGone(list, marked)'
      BY <1>4, <1>6, MarksStay
<1> DEFINE Good == /\ ReaderFits(f)
                   /\ f.ended => season' = "ended"
                   /\ f.phase = "write" /\ f.ended => FinalAsOf(f.rows)'
                   /\ MarksTheGone(f.rows, f.cleared)'
<1>7. ASSUME f = e, farewell' = farewell \/ \E u \in Players : farewell' = [farewell EXCEPT ![u] = "deleted"]
      PROVE  Good
  <2>1. \A u \in Players : farewell'[u] = "done" => farewell[u] = "done"
        BY <1>4, <1>7 DEF RankingsTyped
  <2>2. MarksTheGone(f.rows, f.cleared)'
        BY <1>2, <1>6, <1>7, <2>1
  <2> QED BY <1>2, <1>3, <1>5, <1>7, <2>2
<1>8. ASSUME NEW q \in Readers, Look(q) PROVE Good
  <2>1. farewell' = farewell /\ reader' = [reader EXCEPT ![q].phase = "clock"]
        BY <1>8 DEF Look
  <2>2. CASE q = r
    <3>1. /\ f.phase = "clock" /\ f.ended = e.ended /\ f.rows = e.rows /\ f.cleared = e.cleared /\ ReaderFits(f)
          BY <1>1, <1>2, <1>4, <2>1, <2>2 DEF ReaderFits, RankingsTyped
    <3>2. MarksTheGone(f.rows, f.cleared)'
          BY <1>2, <1>6, <2>1, <3>1
    <3> QED BY <1>2, <1>3, <3>1, <3>2
  <2>3. CASE q # r
        BY <1>1, <1>4, <1>7, <2>1, <2>3 DEF RankingsTyped
  <2> QED BY <2>2, <2>3
<1>9. ASSUME NEW q \in Readers, ReadFirst(q) PROVE Good
  <2>1. farewell' = farewell /\ season' = season
        BY <1>9 DEF ReadFirst
  <2>2. PICK b \in BOOLEAN : b = (season = "ended")
        OBVIOUS
  <2>3. reader' = [reader EXCEPT ![q] = [[reader[q] EXCEPT !.ended = b] EXCEPT !.phase = "fetch"]]
        BY <1>9, <2>2 DEF ReadFirst, Step, ReadingOrder, ClockFirst
  <2>4. CASE q = r
    <3>1. /\ f.phase = "fetch" /\ f.ended = b /\ f.rows = e.rows /\ f.cleared = e.cleared /\ ReaderFits(f)
          BY <1>1, <1>2, <1>4, <2>3, <2>4 DEF ReaderFits, RankingsTyped
    <3>2. MarksTheGone(f.rows, f.cleared)'
          BY <1>2, <1>6, <2>1, <3>1
    <3> QED BY <2>1, <2>2, <3>1, <3>2
  <2>5. CASE q # r
        BY <1>1, <1>4, <1>7, <2>1, <2>3, <2>5 DEF RankingsTyped
  <2> QED BY <2>4, <2>5
<1>10. ASSUME NEW q \in Readers, ReadSecond(q) PROVE Good
  <2>1. farewell' = farewell /\ season' = season
        BY <1>10 DEF ReadSecond
  <2>2. PICK list : list = Fetched
        OBVIOUS
  <2>3. reader' = [reader EXCEPT ![q] = [[reader[q] EXCEPT !.rows = list] EXCEPT !.phase = "write"]]
        BY <1>10, <2>2 DEF ReadSecond, Step, ReadingOrder, ClockFirst
  <2>4. CASE q = r
    <3>1. /\ f.phase = "write" /\ f.ended = e.ended /\ f.rows = list /\ f.cleared = e.cleared /\ ReaderFits(f)
          BY <1>1, <1>2, <1>4, <2>3, <2>4 DEF ReaderFits, RankingsTyped
    <3>2. MarksTheGone(list, e.cleared)
          BY <1>4, <2>2, FetchedIsOfPlayers
    <3>3. MarksTheGone(f.rows, f.cleared)'
          BY <1>6, <2>1, <3>1, <3>2
    <3>4. e.ended => FinalAsOf(list)
          BY <1>2, <2>2, FetchedIsFinal
    <3> QED BY <1>2, <1>3, <1>5, <3>1, <3>3, <3>4
  <2>5. CASE q # r
        BY <1>1, <1>4, <1>7, <2>1, <2>3, <2>5 DEF RankingsTyped
  <2> QED BY <2>4, <2>5
<1>11. ASSUME NEW q \in Readers, CacheRanking(q) PROVE Good
  <2>1. farewell' = farewell /\ reader' = [reader EXCEPT ![q] = Away]
        BY <1>11 DEF CacheRanking
  <2>2. CASE q = r
    <3>1. f = Away
          BY <1>4, <2>1, <2>2 DEF RankingsTyped
    <3> QED BY <3>1 DEF Away, ReaderFits, MarksTheGone
  <2>3. CASE q # r
        BY <1>1, <1>4, <1>7, <2>1, <2>3 DEF RankingsTyped
  <2> QED BY <2>2, <2>3
<1>12. ASSUME NEW u \in Players, InvalidateUserRanking(u) PROVE Good
  <2>1. ranked' = ranked /\ season' = season
        BY <1>12 DEF InvalidateUserRanking
  <2>2. CASE /\ farewell' = [farewell EXCEPT ![u] = "done"]
             /\ reader' = [q \in Readers |-> IF reader[q].rows # NoList
                             THEN [reader[q] EXCEPT !.cleared = @ \union {u}] ELSE reader[q]]
    <3>1. CASE e.rows # NoList
      <4>1. f = [e EXCEPT !.cleared = e.cleared \union {u}]
            BY <1>1, <2>2, <3>1
      <4>2. /\ f.phase = e.phase /\ f.ended = e.ended /\ f.rows = e.rows
            /\ f.cleared = e.cleared \union {u} /\ ReaderFits(f)
            BY <1>2, <4>1 DEF ReaderFits
      <4>3. MarksTheGone(e.rows, e.cleared \union {u})'
            BY <1>2, <1>4, <2>1, <2>2, MarksGrow
      <4> QED BY <1>2, <1>3, <1>5, <4>2, <4>3
    <3>2. CASE e.rows = NoList
      <4>1. f = e
            BY <1>1, <2>2, <3>2
      <4> QED BY <1>2, <1>3, <1>5, <3>2, <4>1 DEF MarksTheGone
    <3> QED BY <3>1, <3>2
  <2>3. CASE farewell' = [farewell EXCEPT ![u] = "failed"] /\ reader' = reader
    <3>1. f = e
          BY <1>1, <2>3
    <3>2. \A v \in Players : farewell'[v] = "done" => farewell[v] = "done"
          BY <1>4, <2>3 DEF RankingsTyped
    <3>3. MarksTheGone(f.rows, f.cleared)'
          BY <1>2, <1>6, <3>1, <3>2
    <3> QED BY <1>2, <1>3, <1>5, <3>1, <3>3
  <2> QED BY <1>12, <2>2, <2>3 DEF InvalidateUserRanking
<1>13. ASSUME NEW p \in Postings,
              PostCommit(p) \/ \E u \in Players, t \in Entries : PostBegin(p, u, t)
       PROVE  Good
  <2>1. reader' = reader /\ farewell' = farewell
        BY <1>13 DEF PostCommit, PostBegin
  <2> QED BY <1>1, <1>7, <2>1
<1>14. ASSUME NEW u \in Players, RemoveUser(u) PROVE Good
  <2>1. reader' = reader /\ farewell' = [farewell EXCEPT ![u] = "deleted"]
        BY <1>14 DEF RemoveUser
  <2> QED BY <1>1, <1>7, <2>1
<1>15. ASSUME SeasonEnds \/ RankingLapses PROVE Good
  <2>1. reader' = reader /\ farewell' = farewell
        BY <1>15 DEF SeasonEnds, RankingLapses
  <2> QED BY <1>1, <1>7, <2>1
<1> QED BY <1>8, <1>9, <1>10, <1>11, <1>12, <1>13, <1>14, <1>15 DEF RankingsNext

LEMMA CacheKept ==
  ASSUME RankingsInv, RankingsNext
  PROVE  CacheFits'
<1> SUFFICES ASSUME NEW h, NEW o, hof' = h, overtaken' = o
             PROVE  (dayLong' => FinalAsOf(h)') /\ MarksTheGone(h, o)'
    BY DEF CacheFits
<1>1. RankingsTyped /\ GoneAreGone
      BY DEF RankingsInv
<1>2. (dayLong => FinalAsOf(hof)) /\ MarksTheGone(hof, overtaken)
      BY DEF RankingsInv, CacheFits
<1>3. \A list : FinalAsOf(list) => FinalAsOf(list)'
      BY <1>1, FinalStays
<1>4. ASSUME \A u \in Players : farewell'[u] = "done" => farewell[u] = "done",
             NEW list, NEW marked, MarksTheGone(list, marked)
      PROVE  MarksTheGone(list, marked)'
      BY <1>1, <1>4, MarksStay
<1> DEFINE Good == (dayLong' => FinalAsOf(h)') /\ MarksTheGone(h, o)'
<1>5. ASSUME UNCHANGED <<hof, overtaken, dayLong>>, \A u \in Players : farewell'[u] = "done" => farewell[u] = "done"
      PROVE  Good
  <2>1. h = hof /\ o = overtaken /\ dayLong' = dayLong
        BY <1>5
  <2>2. MarksTheGone(h, o)'
        BY <1>2, <1>4, <1>5, <2>1
  <2> QED BY <1>2, <1>3, <2>1, <2>2
<1>6. ASSUME h = NoList, dayLong' = FALSE PROVE Good
      BY <1>6 DEF MarksTheGone
<1>7. ASSUME NEW r \in Readers, Look(r) \/ ReadFirst(r) \/ ReadSecond(r) PROVE Good
  <2>1. UNCHANGED <<hof, overtaken, dayLong>> /\ farewell' = farewell
        BY <1>7 DEF Look, ReadFirst, ReadSecond
  <2> QED BY <1>5, <2>1
<1>8. ASSUME NEW r \in Readers, CacheRanking(r) PROVE Good
  <2>1. farewell' = farewell
        BY <1>8 DEF CacheRanking
  <2>2. CASE hof' = reader[r].rows /\ dayLong' = reader[r].ended /\ overtaken' = reader[r].cleared
    <3>1. PICK e : e = reader[r]
          OBVIOUS
    <3>2. /\ reader[r].phase = "write" /\ h = e.rows /\ o = e.cleared /\ dayLong' = e.ended
          BY <1>8, <2>2, <3>1 DEF CacheRanking
    <3>3. (e.phase = "write" /\ e.ended => FinalAsOf(e.rows)) /\ MarksTheGone(e.rows, e.cleared)
          BY <3>1 DEF RankingsInv, ReadersFit
    <3>4. MarksTheGone(h, o)'
          BY <1>4, <2>1, <3>2, <3>3
    <3> QED BY <1>3, <3>1, <3>2, <3>3, <3>4
  <2>3. CASE UNCHANGED <<hof, dayLong, overtaken>>
        BY <1>5, <2>1, <2>3
  <2> QED BY <1>8, <2>2, <2>3 DEF CacheRanking
<1>9. ASSUME NEW u \in Players, InvalidateUserRanking(u) PROVE Good
  <2>1. ranked' = ranked
        BY <1>9 DEF InvalidateUserRanking
  <2>2. CASE farewell' = [farewell EXCEPT ![u] = "done"] /\ ranked = "users" /\ hof' = NoList /\ dayLong' = FALSE
        BY <1>6, <2>2
  <2>3. CASE ranked # "users" /\ UNCHANGED <<hof, dayLong, overtaken>>
    <3>1. h = hof /\ dayLong' = dayLong
          BY <2>3
    <3> QED BY <1>2, <1>3, <2>1, <2>3, <3>1 DEF MarksTheGone
  <2>4. CASE farewell' = [farewell EXCEPT ![u] = "failed"] /\ UNCHANGED <<hof, dayLong, overtaken>>
    <3>1. \A v \in Players : farewell'[v] = "done" => farewell[v] = "done"
          BY <1>1, <2>4 DEF RankingsTyped
    <3> QED BY <1>5, <2>4, <3>1
  <2> QED BY <1>9, <2>2, <2>3, <2>4 DEF InvalidateUserRanking
<1>10. ASSUME NEW p \in Postings,
              PostCommit(p) \/ \E u \in Players, t \in Entries : PostBegin(p, u, t)
       PROVE  Good
  <2>1. UNCHANGED <<hof, overtaken, dayLong>> /\ farewell' = farewell
        BY <1>10 DEF PostCommit, PostBegin
  <2> QED BY <1>5, <2>1
<1>11. ASSUME NEW u \in Players, RemoveUser(u) PROVE Good
  <2>1. UNCHANGED <<hof, overtaken, dayLong>> /\ farewell' = [farewell EXCEPT ![u] = "deleted"]
        BY <1>11 DEF RemoveUser
  <2>2. \A v \in Players : farewell'[v] = "done" => farewell[v] = "done"
        BY <1>1, <2>1 DEF RankingsTyped
  <2> QED BY <1>5, <2>1, <2>2
<1>12. CASE SeasonEnds
  <2>1. UNCHANGED <<hof, overtaken, dayLong>> /\ farewell' = farewell
        BY <1>12 DEF SeasonEnds
  <2> QED BY <1>5, <2>1
<1>13. CASE RankingLapses
      BY <1>6, <1>13 DEF RankingLapses
<1> QED BY <1>7, <1>8, <1>9, <1>10, <1>11, <1>12, <1>13 DEF RankingsNext

LEMMA RankingsKeep == RankingsSpec => []RankingsInv
<1>1. RankingsInit => RankingsInv
  <2> SUFFICES ASSUME RankingsInit PROVE RankingsInv
      OBVIOUS
  <2>1. RankingsTyped
    <3>1. posting \in [Postings -> RankedPostings]
          BY DEF RankingsInit, Unposted, RankedPostings
    <3> QED BY <3>1 DEF RankingsInit, RankingsTyped
  <2>2. ReadersFit
    <3>1. \A r \in Readers : reader[r] = Away
          BY DEF RankingsInit
    <3>2. ReaderFits(Away) /\ Away.phase = "idle" /\ Away.ended = FALSE /\ Away.rows = NoList
          BY DEF Away, ReaderFits
    <3> QED BY <3>1, <3>2 DEF ReadersFit, MarksTheGone
  <2>3. CacheFits /\ GoneAreGone
        BY DEF RankingsInit, CacheFits, GoneAreGone, MarksTheGone
  <2> QED BY <2>1, <2>2, <2>3 DEF RankingsInv
<1>2. RankingsInv /\ [RankingsNext]_rankingsVars => RankingsInv'
  <2> SUFFICES ASSUME RankingsInv, [RankingsNext]_rankingsVars PROVE RankingsInv'
      OBVIOUS
  <2>1. CASE RankingsNext
    <3>1. RankingsTyped' /\ GoneAreGone'
          BY <2>1, RankingsTypesKept DEF RankingsInv
    <3> QED BY <2>1, <3>1, ReadersKept, CacheKept DEF RankingsInv
  <2>2. CASE UNCHANGED rankingsVars
    <3>1. RankingsTyped' /\ GoneAreGone'
          BY <2>2 DEF rankingsVars, RankingsInv, RankingsTyped, GoneAreGone
    <3>2. Fetched' = Fetched /\ \A who : Straddled(who)' <=> Straddled(who)
          BY <2>2 DEF rankingsVars, Fetched, Scores, SideScores, PersonalScore, TeamScore, InLedger, Straddled
    <3>3. \A list : FinalAsOf(list) => FinalAsOf(list)'
          BY <2>2, <3>2 DEF rankingsVars, FinalAsOf
    <3>4. \A list, marked : MarksTheGone(list, marked) => MarksTheGone(list, marked)'
          BY <2>2 DEF rankingsVars, MarksTheGone
    <3>5. UNCHANGED <<reader, season, hof, overtaken, dayLong>>
          BY <2>2 DEF rankingsVars
    <3>6. ReadersFit'
          BY <3>3, <3>4, <3>5 DEF RankingsInv, ReadersFit
    <3>7. CacheFits'
          BY <3>3, <3>4, <3>5 DEF RankingsInv, CacheFits
    <3> QED BY <3>1, <3>6, <3>7 DEF RankingsInv
  <2> QED BY <2>1, <2>2
<1> QED BY <1>1, <1>2, PTL DEF RankingsSpec

(* Whatever the readers, the ledger, the end of the season and the withdrawals do between     *)
(* two awaits, the ranking that hall-of-fame.service.ts caches for a day is final, and who    *)
(* has withdrawn is on none: for every number of users, teams, rows and requests.             *)
THEOREM RankingsHold == RankingsSpec => []CachedRankingHolds
<1>1. RankingsInv => CachedRankingHolds
  <2> SUFFICES ASSUME RankingsInv PROVE CachedRankingHolds
      OBVIOUS
  <2>1. (dayLong => FinalAsOf(hof)) /\ MarksTheGone(hof, overtaken)
        BY DEF RankingsInv, CacheFits
  <2> QED BY <2>1 DEF CachedRankingHolds, FinalRankingIsFinal, WithdrawnIsNotRanked, FinalAsOf, MarksTheGone
<1> QED BY <1>1, RankingsKeep, PTL

(* Scores are sums over finitely many rows of one point each at most, so whoever is on a      *)
(* list stands there with a number that the ledger can make up.                               *)
LEMMA ScoresAreSmall ==
  ASSUME NEW S \in SUBSET Postings, NEW f, DOMAIN f = S, \A p \in S : f[p] \in {-1, 0, 1}
  PROVE  SumFunction(f) \in Int /\ SumFunction(f) <= Cardinality(Postings)
<1>1. SumFunction(f) = Sum(f, S)
  BY DEF SumFunction, SumFunctionOnSet, FoldFunctionOnSet, Sum, MapThenSumSet
<1>2. IsFiniteSet(S) /\ Cardinality(S) <= Cardinality(Postings)
  BY RankingsAssumption, FS_Subset
<1>3. Cardinality(S) \in Nat /\ Cardinality(Postings) \in Nat
  BY <1>2, RankingsAssumption, FS_CardinalityType
<1>4. \A x \in S : f[x] \in Int /\ f[x] \in Int
  OBVIOUS
<1>5. PICK a \in Int, b \in Int : a = 1 /\ b = 0
  OBVIOUS
<1>6. \A x \in S : a * f[x] - b * f[x] \in -a..a
  <2> SUFFICES ASSUME NEW x \in S PROVE a * f[x] - b * f[x] \in -a..a
    OBVIOUS
  <2>1. f[x] = -1 \/ f[x] = 0 \/ f[x] = 1
    OBVIOUS
  <2> QED
    BY <1>5, <2>1
<1>7. /\ Sum(f, S) \in Int /\ Sum(f, S) \in Int
      /\ a * Sum(f, S) - b * Sum(f, S) \in -(a * Cardinality(S))..a * Cardinality(S)
  BY <1>2, <1>4, <1>6, SumsAreClose
<1> QED
  BY <1>1, <1>2, <1>3, <1>5, <1>7

LEMMA FetchedIsList == ASSUME RankingsTyped PROVE Fetched \in Lists
<1> USE DEF RankingsTyped
<1>1. ASSUME NEW who PROVE PersonalScore(who) \in Int /\ PersonalScore(who) <= Cardinality(Postings)
  <2> DEFINE S == {p \in InLedger : posting[p].by = who}
             f == [p \in S |-> PersonalPoints(posting[p].type)]
  <2>1. S \in SUBSET Postings /\ DOMAIN f = S /\ \A p \in S : f[p] \in {-1, 0, 1}
    BY DEF InLedger, PersonalPoints
  <2>2. PersonalScore(who) = SumFunction(f)
    BY DEF PersonalScore
  <2> HIDE DEF f, S
  <2> QED
    BY <2>1, <2>2, ScoresAreSmall
<1>2. ASSUME NEW who PROVE TeamScore(who) \in Int /\ TeamScore(who) <= Cardinality(Postings)
  <2> DEFINE S == {p \in InLedger : SideOf[posting[p].by] = who}
             f == [p \in S |-> TeamPoints(posting[p].type)]
  <2>1. S \in SUBSET Postings /\ DOMAIN f = S /\ \A p \in S : f[p] \in {-1, 0, 1}
    BY DEF InLedger, TeamPoints
  <2>2. TeamScore(who) = SumFunction(f)
    BY DEF TeamScore
  <2> HIDE DEF f, S
  <2> QED
    BY <2>1, <2>2, ScoresAreSmall
<1>3. Cardinality(Postings) \in Nat
  BY RankingsAssumption, FS_CardinalityType
<1> SUFFICES ASSUME NEW s \in Fetched PROVE s \in (Players \union Sides) \X (1..Cardinality(Postings))
  BY DEF Lists
<1>4. s \in Scores \union SideScores /\ s[2] > 0
  BY DEF Fetched
<1>5. CASE s \in Scores
  <2>1. PICK u \in playing : s = <<u, PersonalScore(u)>>
    BY <1>5 DEF Scores
  <2>2. PersonalScore(u) \in 1..Cardinality(Postings)
    BY <1>1, <1>3, <1>4, <2>1
  <2> QED
    BY <2>1, <2>2
<1>6. CASE s \in SideScores
  <2>1. PICK t \in Sides : s = <<t, TeamScore(t)>>
    BY <1>6 DEF SideScores
  <2>2. TeamScore(t) \in 1..Cardinality(Postings)
    BY <1>2, <1>3, <1>4, <2>1
  <2> QED
    BY <2>1, <2>2
<1> QED
  BY <1>4, <1>5, <1>6

HeldByReader(f) == f.rows \in Lists \union {NoList} /\ f.cleared \subseteq Players
ListsFit ==
  /\ reader = [r \in Readers |-> reader[r]]
  /\ hof \in Lists \union {NoList} /\ overtaken \subseteq Players /\ faults \in 0..MaxFaults
  /\ \A r \in Readers : \A f : reader[r] = f => HeldByReader(f)

LEMMA ListsKept == ASSUME RankingsInv, ListsFit, RankingsNext PROVE ListsFit'
<1>1. DOMAIN reader = Readers /\ \A r \in Readers : ReaderFits(reader[r]) /\ HeldByReader(reader[r])
  BY DEF RankingsInv, RankingsTyped, ReadersFit, ListsFit
<1>2. Fetched \in Lists
  BY FetchedIsList DEF RankingsInv
<1>3. faults' \in 0..MaxFaults
  <2>1. faults' = faults \/ (faults > 0 /\ faults' = faults - 1)
    BY DEF RankingsNext, PostBegin, PostCommit, Look, ReadFirst, ReadSecond, CacheRanking, RemoveUser,
           InvalidateUserRanking, SeasonEnds, RankingLapses, Fault
  <2> QED
    BY <2>1, RankingsAssumption DEF ListsFit
<1>4. ASSUME UNCHANGED <<hof, overtaken, reader>> PROVE ListsFit'
  BY <1>3, <1>4 DEF ListsFit
<1>5. ASSUME NEW r \in Readers, NEW f, HeldByReader(f), reader' = [reader EXCEPT ![r] = f],
             hof' \in Lists \union {NoList}, overtaken' \subseteq Players
      PROVE  ListsFit'
  BY <1>1, <1>3, <1>5 DEF ListsFit, HeldByReader
<1>6. ASSUME NEW r \in Readers, Look(r) \/ ReadFirst(r) \/ ReadSecond(r) PROVE ListsFit'
  <2>1. UNCHANGED <<hof, overtaken>>
    BY <1>6 DEF Look, ReadFirst, ReadSecond
  <2>2. \E f : HeldByReader(f) /\ reader' = [reader EXCEPT ![r] = f]
    <3>1. CASE Look(r)
      <4>1. reader' = [reader EXCEPT ![r] = [reader[r] EXCEPT !.phase = "clock"]]
        BY <3>1 DEF Look
      <4>2. HeldByReader([reader[r] EXCEPT !.phase = "clock"])
        BY <1>1 DEF HeldByReader, ReaderFits
      <4> QED
        BY <4>1, <4>2
    <3>2. ASSUME NEW k PROVE Step(r, k) = [reader[r] EXCEPT !.ended = (season = "ended")]
                             \/ Step(r, k) = [reader[r] EXCEPT !.rows = Fetched]
      BY DEF Step
    <3>3. ASSUME NEW k, NEW p
          PROVE  HeldByReader([Step(r, k) EXCEPT !.phase = p])
      <4>1. CASE Step(r, k) = [reader[r] EXCEPT !.ended = (season = "ended")]
        BY <4>1, <1>1 DEF HeldByReader, ReaderFits
      <4>2. CASE Step(r, k) = [reader[r] EXCEPT !.rows = Fetched]
        BY <4>2, <1>1, <1>2 DEF HeldByReader, ReaderFits
      <4> QED
        BY <3>2, <4>1, <4>2
    <3>4. CASE ReadFirst(r)
      BY <3>3, <3>4 DEF ReadFirst
    <3>5. CASE ReadSecond(r)
      BY <3>3, <3>5 DEF ReadSecond
    <3> QED
      BY <1>6, <3>1, <3>4, <3>5
  <2> QED
    BY <1>5, <2>1, <2>2 DEF ListsFit
<1>7. ASSUME NEW r \in Readers, CacheRanking(r) PROVE ListsFit'
  <2>1. reader' = [reader EXCEPT ![r] = Away] /\ HeldByReader(Away)
    BY <1>7 DEF CacheRanking, Away, HeldByReader
  <2>2. hof' \in Lists \union {NoList} /\ overtaken' \subseteq Players
    BY <1>1, <1>7 DEF CacheRanking, HeldByReader, ListsFit
  <2> QED
    BY <1>5, <2>1, <2>2
<1>8. ASSUME NEW u \in Players, InvalidateUserRanking(u) PROVE ListsFit'
  <2>1. hof' \in Lists \union {NoList} /\ overtaken' \subseteq Players
    BY <1>8 DEF InvalidateUserRanking, ListsFit
  <2>2. \A r \in Readers : HeldByReader(reader'[r])
    <3>1. CASE reader' = reader
      BY <1>1, <3>1
    <3>2. CASE reader' = [r \in Readers |-> IF reader[r].rows # NoList
                           THEN [reader[r] EXCEPT !.cleared = @ \union {u}] ELSE reader[r]]
      <4> SUFFICES ASSUME NEW r \in Readers PROVE HeldByReader(reader'[r])
        OBVIOUS
      <4>1. reader'[r] = reader[r] \/ reader'[r] = [reader[r] EXCEPT !.cleared = reader[r].cleared \union {u}]
        BY <3>2
      <4> QED
        BY <1>1, <4>1 DEF HeldByReader, ReaderFits
    <3> QED
      BY <1>8, <3>1, <3>2 DEF InvalidateUserRanking
  <2>3. reader' = [r \in Readers |-> reader'[r]]
    <3>1. CASE reader' = reader
      BY <3>1 DEF ListsFit
    <3>2. CASE reader' = [r \in Readers |-> IF reader[r].rows # NoList
                           THEN [reader[r] EXCEPT !.cleared = @ \union {u}] ELSE reader[r]]
      BY <3>2
    <3> QED
      BY <1>8, <3>1, <3>2 DEF InvalidateUserRanking
  <2> QED
    BY <1>3, <2>1, <2>2, <2>3 DEF ListsFit
<1>9. ASSUME \/ SeasonEnds \/ \E u \in Players : RemoveUser(u)
             \/ \E p \in Postings : PostCommit(p) \/ \E u \in Players, e \in Entries : PostBegin(p, u, e)
      PROVE  ListsFit'
  BY <1>4, <1>9 DEF SeasonEnds, RemoveUser, PostCommit, PostBegin
<1>10. ASSUME RankingLapses PROVE ListsFit'
  <2>1. hof' = NoList /\ overtaken' = {} /\ reader' = reader
    BY <1>10 DEF RankingLapses
  <2> QED
    BY <1>3, <2>1 DEF ListsFit
<1> QED
  BY <1>6, <1>7, <1>8, <1>9, <1>10 DEF RankingsNext

(* The ledger, the cache, the requests and the withdrawals are always what they should be:    *)
(* in particular a ranking, wherever it is held, names players or teams with a number of      *)
(* points that the rows of the ledger can add up to.                                          *)
THEOREM RankingsStayTyped == RankingsSpec => []RankingsTypeOK
<1>1. RankingsInit => ListsFit
  <2> SUFFICES ASSUME RankingsInit PROVE ListsFit
    OBVIOUS
  <2>1. \A r \in Readers : reader[r] = Away
    BY DEF RankingsInit
  <2>2. HeldByReader(Away)
    BY DEF Away, HeldByReader
  <2> QED
    BY <2>1, <2>2, RankingsAssumption DEF RankingsInit, ListsFit
<1>2. RankingsInv /\ ListsFit /\ [RankingsNext]_rankingsVars => ListsFit'
  <2> SUFFICES ASSUME RankingsInv, ListsFit, [RankingsNext]_rankingsVars PROVE ListsFit'
    OBVIOUS
  <2>1. CASE UNCHANGED rankingsVars
    BY <2>1 DEF rankingsVars, ListsFit
  <2> QED
    BY <2>1, ListsKept
<1>3. RankingsInv /\ ListsFit => RankingsTypeOK
  <2> SUFFICES ASSUME RankingsInv, ListsFit PROVE RankingsTypeOK
    OBVIOUS
  <2>1. reader \in [Readers -> [phase : {"idle", "clock", "fetch", "write"}, ended : BOOLEAN,
                                rows : Lists \union {NoList}, cleared : SUBSET Players]]
    <3>1. DOMAIN reader = Readers
      BY DEF RankingsInv, RankingsTyped
    <3>2. reader = [r \in Readers |-> reader[r]]
      BY DEF ListsFit
    <3>3. ASSUME NEW r \in Readers
          PROVE  reader[r] \in [phase : {"idle", "clock", "fetch", "write"}, ended : BOOLEAN,
                                rows : Lists \union {NoList}, cleared : SUBSET Players]
      BY DEF RankingsInv, ReadersFit, ReaderFits, ListsFit, HeldByReader
    <3> QED
      BY <3>2, <3>3
  <2> QED
    BY <2>1 DEF RankingsInv, RankingsTyped, RankedPostings, ListsFit, RankingsTypeOK
<1> QED
  BY <1>1, <1>2, <1>3, RankingsKeep, PTL DEF RankingsSpec

-----------------------------------------------------------------------------
(* Festivals.  While a run goes on, what it got from any page is among the keys it will      *)
(* spare, and is stored, waits to be upserted, or has been deleted by another run.            *)
FestivalRows == [coords : {Unknown, "point"}, end : Nat \union {-1}, areacode : {Unknown, "6"},
        sigungucode : {Unknown, "kto"}]
SyncRuns == [phase : {"idle", "fetch", "upsert", "delete", "done", "failed"}, page : Nat, pages : Nat,
        rows : Seq(UsableItems), ids : SUBSET ContentIds, got : SUBSET ContentIds]
NewRows == [coords : {Unknown, "point"}, end : Nat, areacode : {Unknown, "6"}, sigungucode : {Unknown, "kto"}]
FestivalsTyped ==
  /\ festival \in [ContentIds -> FestivalRows] /\ sync \in [Syncs -> SyncRuns]
  /\ known \in [ContentIds -> SUBSET Columns] /\ dropped \subseteq Syncs \X ContentIds
RowFits(r, k) ==
  /\ k \subseteq Filled(r)
  /\ r.sigungucode # Unknown => r.areacode = "6"
RowsFit == \A c \in ContentIds : RowFits(festival[c], known[c])
StoredOrDropped(s, c) == RowExists(c) \/ \E o \in Syncs \ {s} : <<o, c>> \in dropped
RunFits(s, f) ==
  /\ f.phase \in {"fetch", "upsert", "delete"} => f.ids = f.got
  /\ f.phase \in {"idle", "failed"} => f.got = {}
  /\ f.phase = "upsert" => KeysOf(f.rows) \subseteq f.got
  /\ \A c \in f.got : StoredOrDropped(s, c) \/ (f.phase = "upsert" /\ c \in KeysOf(f.rows))
RunsFit == \A s \in Syncs, f \in SyncRuns : sync[s] = f => RunFits(s, f)
FestivalsInv == FestivalsTyped /\ RowsFit /\ RunsFit

LEMMA ResponseIsSeq ==
  ASSUME NEW rows \in Responses
  PROVE  rows \in Seq(UsableItems) /\ KeysOf(rows) \subseteq ContentIds
<1>1. PICK n \in 0..PageSize : rows \in [1..n -> UsableItems]
      BY DEF Responses
<1>2. n \in Nat
      BY FestivalsAssumption
<1>3. rows \in Seq(UsableItems)
      BY <1>1, <1>2
<1>4. KeysOf(rows) \subseteq ContentIds
      BY <1>1 DEF KeysOf, ContentIds, UsableItems
<1> QED BY <1>3, <1>4

(* The last row of a key is a row of that key. *)
LEMMA LastOfIsOne ==
  ASSUME NEW rows \in Seq(UsableItems), NEW c \in KeysOf(rows)
  PROVE  LastOf(rows, c) \in UsableItems
<1> DEFINE n == Len(rows)
           T == {n - j : j \in {i \in 1..n : rows[i].contentId = c}}
           L(j) == j \in DOMAIN rows /\ rows[j].contentId = c /\ \A k \in j + 1..Len(rows) : rows[k].contentId # c
<1>1. n \in Nat /\ DOMAIN rows = 1..n /\ \A i \in 1..n : rows[i] \in UsableItems
      OBVIOUS
<1>2. PICK i \in 1..n : rows[i].contentId = c
      BY <1>1 DEF KeysOf
<1>3. T \subseteq Nat /\ n - i \in T
      BY <1>1, <1>2
<1>4. PICK m \in T : \A k \in T : m <= k
      BY <1>3, LeastOf
<1>5. PICK j \in 1..n : rows[j].contentId = c /\ m = n - j
      BY <1>4
<1>6. L(j)
  <2> SUFFICES ASSUME NEW k \in j + 1..n, rows[k].contentId = c PROVE FALSE
      BY <1>1, <1>5
  <2>1. k \in 1..n /\ n - k \in T
        BY <1>1, <1>5
  <2>2. m <= n - k
        BY <1>4, <2>1
  <2> QED BY <1>1, <1>5, <2>1, <2>2
<1>7. PICK h : h = CHOOSE k \in DOMAIN rows : /\ rows[k].contentId = c
                                             /\ \A l \in k + 1..Len(rows) : rows[l].contentId # c
      OBVIOUS
<1>8. h \in DOMAIN rows
      BY <1>6, <1>7
<1> QED BY <1>1, <1>7, <1>8 DEF LastOf

(* What is read from an item, or from a row of the file, can be stored. *)
LEMMA RowOfFits ==
  ASSUME NEW i \in UsableItems
  PROVE  RowOf(i) \in NewRows /\ (RowOf(i).sigungucode # Unknown => RowOf(i).areacode = "6")
<1>1. i.coords \in {Unknown, "point"} /\ i.end \in Nat
      BY FestivalsAssumption DEF UsableItems
<1>2. District(i) \in {Unknown, "kto"} /\ (District(i) # Unknown => RegionOf(i) = "busan")
      BY DEF District, OwnCode
<1> QED BY <1>1, <1>2 DEF RowOf, NewRows

LEMMA SeedRowFits ==
  ASSUME NEW r \in CsvRows
  PROVE  SeedRow(r) \in NewRows /\ (SeedRow(r).sigungucode # Unknown => SeedRow(r).areacode = "6")
<1>1. r.coords \in {Unknown, "point"} /\ r.end \in Nat
      BY FestivalsAssumption
<1> QED BY <1>1 DEF SeedRow, NormalizedCode, NewRows

(* Filling a row column by column keeps what is known of it. *)
LEMMA FillingFits ==
  ASSUME FestivalsTyped, RowsFit, NEW c \in ContentIds, NEW new \in NewRows,
         new.sigungucode # Unknown => new.areacode = "6"
  PROVE  /\ Filling(c, new) \in FestivalRows
         /\ Filling(c, new) # NoFestival
         /\ RowFits(Filling(c, new), known[c] \union Filled(new))
<1> DEFINE r == Filling(c, new)
           o == festival[c]
<1>1. /\ o \in FestivalRows /\ known[c] \subseteq Filled(o)
      /\ o.sigungucode # Unknown => o.areacode = "6"
      BY DEF FestivalsTyped, RowsFit, RowFits
<1>2. /\ r = [coords |-> r.coords, end |-> r.end, areacode |-> r.areacode, sigungucode |-> r.sigungucode]
      /\ r.coords = IF new.coords = Unknown THEN o.coords ELSE new.coords
      /\ r.areacode = IF new.areacode = Unknown THEN o.areacode ELSE new.areacode
      /\ r.sigungucode = IF new.sigungucode = Unknown THEN o.sigungucode ELSE new.sigungucode
      /\ r.end = new.end
      BY DEF Filling, Coalesced
<1> HIDE DEF r, o
<1>3. r \in FestivalRows
      BY <1>1, <1>2 DEF FestivalRows, NewRows
<1>4. r # NoFestival
      BY <1>2 DEF NoFestival, NewRows
<1>5. Filled(o) \subseteq Filled(r) /\ Filled(new) \subseteq Filled(r)
      BY <1>1, <1>2 DEF Filled, Columns, NewRows, FestivalRows
<1>6. r.sigungucode # Unknown => r.areacode = "6"
      BY <1>1, <1>2 DEF NewRows, Unknown
<1> QED BY <1>1, <1>3, <1>4, <1>5, <1>6 DEF RowFits, r

(* Rows that are filled are stored, and known of as much as they hold. *)
LEMMA RowsFilled ==
  ASSUME FestivalsTyped, RowsFit, NEW rowKeys \in SUBSET ContentIds, NEW of \in [rowKeys -> NewRows],
         \A c \in rowKeys : of[c].sigungucode # Unknown => of[c].areacode = "6",
         festival' = [c \in ContentIds |-> IF c \in rowKeys THEN Filling(c, of[c]) ELSE festival[c]],
         known' = [c \in ContentIds |-> IF c \in rowKeys THEN known[c] \union Filled(of[c]) ELSE known[c]]
  PROVE  /\ festival' \in [ContentIds -> FestivalRows] /\ known' \in [ContentIds -> SUBSET Columns]
         /\ RowsFit'
         /\ \A c \in ContentIds : (c \in rowKeys => festival'[c] # NoFestival) /\ (c \notin rowKeys => festival'[c] = festival[c])
<1>1. \A c \in rowKeys : /\ Filling(c, of[c]) \in FestivalRows /\ Filling(c, of[c]) # NoFestival
                      /\ RowFits(Filling(c, of[c]), known[c] \union Filled(of[c]))
      BY FillingFits
<1>2. festival' \in [ContentIds -> FestivalRows]
      BY <1>1 DEF FestivalsTyped
<1>3. known' \in [ContentIds -> SUBSET Columns]
      BY DEF FestivalsTyped, Filled
<1>4. ASSUME NEW c \in ContentIds PROVE RowFits(festival'[c], known'[c])
  <2>1. CASE c \in rowKeys
        BY <1>1, <2>1
  <2>2. CASE c \notin rowKeys
        BY <2>2 DEF RowsFit
  <2> QED BY <2>1, <2>2
<1>5. RowsFit'
      BY <1>4 DEF RowsFit
<1>6. \A c \in ContentIds : (c \in rowKeys => festival'[c] # NoFestival) /\ (c \notin rowKeys => festival'[c] = festival[c])
      BY <1>1
<1> QED BY <1>2, <1>3, <1>5, <1>6

LEMMA FilledIsStored ==
  ASSUME NEW rowKeys \in SUBSET ContentIds, dropped' = dropped \ (Syncs \X rowKeys),
         \A c \in ContentIds : (c \in rowKeys => festival'[c] # NoFestival) /\ (c \notin rowKeys => festival'[c] = festival[c]),
         NEW s \in Syncs, NEW c \in ContentIds, StoredOrDropped(s, c) \/ c \in rowKeys
  PROVE  StoredOrDropped(s, c)'
<1>1. CASE c \in rowKeys
      BY <1>1 DEF StoredOrDropped, RowExists
<1>2. CASE c \notin rowKeys
      BY <1>2 DEF StoredOrDropped, RowExists
<1> QED BY <1>1, <1>2

LEMMA RunsOnlyFilled ==
  ASSUME FestivalsTyped, RunsFit, UNCHANGED sync, NEW rowKeys \in SUBSET ContentIds, dropped' = dropped \ (Syncs \X rowKeys),
         \A c \in ContentIds : (c \in rowKeys => festival'[c] # NoFestival) /\ (c \notin rowKeys => festival'[c] = festival[c])
  PROVE  RunsFit'
<1> SUFFICES ASSUME NEW s \in Syncs, NEW f \in SyncRuns, sync'[s] = f PROVE RunFits(s, f)'
    BY DEF RunsFit
<1>1. RunFits(s, f)
      BY DEF RunsFit
<1>2. \A c \in f.got : StoredOrDropped(s, c) => StoredOrDropped(s, c)'
      BY FilledIsStored DEF SyncRuns
<1> QED BY <1>1, <1>2 DEF RunFits

(* Of the step of one run, the others see the rows only. *)
LEMMA RunFitsStays ==
  ASSUME NEW s \in Syncs, NEW f \in SyncRuns, RunFits(s, f),
         \A c \in f.got : StoredOrDropped(s, c) => StoredOrDropped(s, c)'
  PROVE  RunFits(s, f)'
<1> QED BY DEF RunFits

LEMMA UnstartedIsRun == Unstarted \in SyncRuns /\ Unstarted.got = {}
<1>1. <<>> \in Seq(UsableItems)
      OBVIOUS
<1> QED BY <1>1 DEF Unstarted, SyncRuns

LEMMA FetchKeeps ==
  ASSUME FestivalsTyped, RunsFit, NEW s \in Syncs, FetchFirst(s) \/ FetchNext(s) \/ SyncFails(s)
  PROVE  sync' \in [Syncs -> SyncRuns] /\ RunsFit'
<1>1. UNCHANGED <<festival, known, dropped>>
      BY DEF FetchFirst, FetchNext, SyncFails
<1>2. \A o \in Syncs, c \in ContentIds : StoredOrDropped(o, c)' <=> StoredOrDropped(o, c)
      BY <1>1 DEF StoredOrDropped, RowExists
<1>3. PICK e \in SyncRuns : e = sync[s]
      BY DEF FestivalsTyped
<1>4. RunFits(s, e)
      BY <1>3 DEF RunsFit
<1>5. PICK f : /\ f \in SyncRuns /\ sync' = [sync EXCEPT ![s] = f] /\ RunFits(s, f)'
  <2>1. CASE FetchFirst(s)
    <3>1. PICK n \in 1..MaxPages, rows \in Responses :
            sync' = [sync EXCEPT ![s] = [Unstarted EXCEPT !.phase = "upsert", !.pages = n, !.rows = rows,
                                                     !.ids = KeysOf(rows), !.got = KeysOf(rows)]]
          BY <2>1 DEF FetchFirst
    <3>2. rows \in Seq(UsableItems) /\ KeysOf(rows) \subseteq ContentIds
          BY ResponseIsSeq
    <3> DEFINE f == [Unstarted EXCEPT !.phase = "upsert", !.pages = n, !.rows = rows,
                                      !.ids = KeysOf(rows), !.got = KeysOf(rows)]
    <3>3. f \in SyncRuns /\ f.phase = "upsert" /\ f.ids = f.got /\ KeysOf(f.rows) = f.got
      <4>1. PICK k \in SUBSET ContentIds : k = KeysOf(rows)
            BY <3>2
      <4>2. n \in Nat
            BY FestivalsAssumption
      <4>3. f = [Unstarted EXCEPT !.phase = "upsert", !.pages = n, !.rows = rows, !.ids = k, !.got = k]
            BY <4>1
      <4> HIDE DEF f
      <4>4. /\ f \in SyncRuns /\ f.phase = "upsert" /\ f.ids = k /\ f.got = k /\ f.rows = rows
            BY <3>2, <4>1, <4>2, <4>3, UnstartedIsRun DEF SyncRuns
      <4> QED BY <4>1, <4>4
    <3>4. sync' = [sync EXCEPT ![s] = f]
          BY <3>1
    <3> HIDE DEF f
    <3>5. RunFits(s, f)'
          BY <3>3 DEF RunFits
    <3> QED BY <3>3, <3>4, <3>5
  <2>2. CASE FetchNext(s)
    <3>1. PICK rows \in Responses :
            sync' = [sync EXCEPT ![s].phase = "upsert", ![s].ids = Gathered(s, KeysOf(rows)),
                                 ![s].got = @ \union KeysOf(rows), ![s].rows = rows]
          BY <2>2 DEF FetchNext
    <3>2. rows \in Seq(UsableItems) /\ KeysOf(rows) \subseteq ContentIds
          BY ResponseIsSeq
    <3> DEFINE f == sync'[s]
    <3>3. sync' \in [Syncs -> SyncRuns] /\ \A o \in Syncs \ {s} : sync'[o] = sync[o]
      <4>1. Gathered(s, KeysOf(rows)) \in SUBSET ContentIds /\ sync[s].got \union KeysOf(rows) \in SUBSET ContentIds
            BY <3>2 DEF FestivalsTyped, SyncRuns, Gathered
      <4>2. PICK a, b : a = Gathered(s, KeysOf(rows)) /\ b = sync[s].got \union KeysOf(rows)
            OBVIOUS
      <4>3. sync' = [sync EXCEPT ![s].phase = "upsert", ![s].ids = a, ![s].got = b, ![s].rows = rows]
            BY <3>1, <4>2
      <4>4. sync \in [Syncs -> SyncRuns] /\ a \in SUBSET ContentIds /\ b \in SUBSET ContentIds
            BY <4>1, <4>2 DEF FestivalsTyped
      <4> HIDE DEF f
      <4>5. PICK g \in [Syncs -> SyncRuns] : g = [sync EXCEPT ![s].phase = "upsert", ![s].ids = a, ![s].got = b]
            BY <4>4 DEF SyncRuns
      <4>6. [g EXCEPT ![s].rows = rows] \in [Syncs -> SyncRuns]
            BY <3>2 DEF SyncRuns
      <4>7. sync' = [g EXCEPT ![s].rows = rows]
            BY <4>3, <4>5
      <4> QED BY <4>5, <4>6, <4>7
    <3>4. sync' = [sync EXCEPT ![s] = f]
          BY <3>3 DEF FestivalsTyped
    <3>5. f.phase = "upsert" /\ f.ids = e.ids \union KeysOf(rows) /\ f.got = e.got \union KeysOf(rows) /\ f.rows = rows
          BY <1>3, <3>1 DEF FestivalsTyped, SyncRuns, Gathered
    <3>6. e.phase = "fetch"
          BY <1>3, <2>2 DEF FetchNext
    <3>7. e.ids = e.got /\ \A c \in e.got : StoredOrDropped(s, c)'
          BY <1>2, <1>4, <3>6 DEF RunFits, SyncRuns
    <3>8. PICK g : g = f
          OBVIOUS
    <3>9. RunFits(s, g)'
          BY <3>5, <3>7, <3>8 DEF RunFits
    <3> QED BY <3>3, <3>4, <3>8, <3>9
  <2>3. CASE SyncFails(s)
    <3> DEFINE f == [Unstarted EXCEPT !.phase = "failed"]
    <3>1. sync' = [sync EXCEPT ![s] = f]
          BY <2>3 DEF SyncFails
    <3>2. f \in SyncRuns /\ f.phase = "failed" /\ f.got = {}
          BY UnstartedIsRun DEF SyncRuns
    <3> HIDE DEF f
    <3>3. RunFits(s, f)'
          BY <3>2 DEF RunFits
    <3> QED BY <3>1, <3>2, <3>3
  <2> QED BY <2>1, <2>2, <2>3
<1>6. sync' \in [Syncs -> SyncRuns]
      BY <1>5 DEF FestivalsTyped
<1>7. ASSUME NEW o \in Syncs, NEW g \in SyncRuns, sync'[o] = g PROVE RunFits(o, g)'
  <2>1. CASE o = s
        BY <1>5, <1>7, <2>1 DEF FestivalsTyped
  <2>2. CASE o # s
    <3>1. sync[o] = g
          BY <1>5, <1>7, <2>2 DEF FestivalsTyped
    <3>2. RunFits(o, g)
          BY <3>1 DEF RunsFit
    <3>3. \A c \in g.got : StoredOrDropped(o, c) => StoredOrDropped(o, c)'
          BY <1>2 DEF SyncRuns
    <3> QED BY <3>2, <3>3, RunFitsStays
  <2> QED BY <2>1, <2>2
<1> QED BY <1>6, <1>7 DEF RunsFit

LEMMA UpsertKeeps ==
  ASSUME FestivalsInv, NEW s \in Syncs, UpsertBatch(s)
  PROVE  FestivalsInv'
<1>1. PICK e \in SyncRuns : e = sync[s]
      BY DEF FestivalsInv, FestivalsTyped
<1>2. RunFits(s, e) /\ e.phase = "upsert"
      BY <1>1 DEF FestivalsInv, RunsFit, UpsertBatch
<1> DEFINE rowKeys == KeysOf(e.rows)
           new == [c \in rowKeys |-> RowOf(LastOf(e.rows, c))]
<1>3. rowKeys \in SUBSET ContentIds /\ rowKeys \subseteq e.got
      BY <1>2 DEF RunFits, SyncRuns
<1>4. \A c \in rowKeys : LastOf(e.rows, c) \in UsableItems
      BY LastOfIsOne DEF SyncRuns
<1>5. new \in [rowKeys -> NewRows] /\ \A c \in rowKeys : new[c].sigungucode # Unknown => new[c].areacode = "6"
      BY <1>4, RowOfFits
<1>6. /\ festival' = [c \in ContentIds |-> IF c \in rowKeys THEN Filling(c, new[c]) ELSE festival[c]]
      /\ known' = [c \in ContentIds |-> IF c \in rowKeys THEN known[c] \union Filled(new[c]) ELSE known[c]]
      /\ dropped' = dropped \ (Syncs \X rowKeys)
  <2>1. festival' = [c \in ContentIds |-> IF c \in rowKeys THEN Filling(c, RowOf(LastOf(e.rows, c))) ELSE festival[c]]
        BY <1>1 DEF UpsertBatch, Upserted
  <2>2. known' = [c \in ContentIds |-> IF c \in rowKeys THEN known[c] \union Filled(RowOf(LastOf(e.rows, c))) ELSE known[c]]
        BY <1>1 DEF UpsertBatch
  <2>3. dropped' = dropped \ (Syncs \X rowKeys)
        BY <1>1 DEF UpsertBatch
  <2> QED BY <2>1, <2>2, <2>3
<1> HIDE DEF rowKeys, new
<1>7. /\ festival' \in [ContentIds -> FestivalRows] /\ known' \in [ContentIds -> SUBSET Columns] /\ RowsFit'
      /\ \A c \in ContentIds : (c \in rowKeys => festival'[c] # NoFestival) /\ (c \notin rowKeys => festival'[c] = festival[c])
      BY <1>3, <1>5, <1>6, RowsFilled DEF FestivalsInv
<1>8. PICK p \in {"fetch", "delete"} : p = IF sync[s].page < sync[s].pages THEN "fetch" ELSE "delete"
      OBVIOUS
<1>9. sync' = [sync EXCEPT ![s].rows = <<>>, ![s].page = @ + 1, ![s].phase = p]
      BY <1>8 DEF UpsertBatch
<1>10. /\ sync' \in [Syncs -> SyncRuns]
       /\ \A o \in Syncs \ {s} : sync'[o] = sync[o]
       /\ sync'[s].phase = p /\ sync'[s].got = e.got /\ sync'[s].ids = e.ids
  <2>1. <<>> \in Seq(UsableItems) /\ sync \in [Syncs -> SyncRuns]
        BY DEF FestivalsInv, FestivalsTyped
  <2> QED BY <1>1, <1>9, <2>1 DEF SyncRuns
<1>11. \A o \in Syncs, c \in ContentIds : StoredOrDropped(o, c) \/ c \in rowKeys => StoredOrDropped(o, c)'
       BY <1>3, <1>6, <1>7, FilledIsStored
<1>12. ASSUME NEW o \in Syncs, NEW g \in SyncRuns, sync'[o] = g PROVE RunFits(o, g)'
  <2>1. CASE o = s
    <3>1. g.phase = p /\ g.got = e.got /\ g.ids = e.ids
          BY <1>10, <1>12, <2>1
    <3>2. e.ids = e.got /\ \A c \in e.got : StoredOrDropped(s, c)'
          BY <1>2, <1>11 DEF RunFits, SyncRuns, rowKeys
    <3> QED BY <2>1, <3>1, <3>2 DEF RunFits
  <2>2. CASE o # s
    <3>1. sync[o] = g
          BY <1>10, <1>12, <2>2
    <3>2. RunFits(o, g)
          BY <3>1 DEF FestivalsInv, RunsFit
    <3>3. \A c \in g.got : StoredOrDropped(o, c) => StoredOrDropped(o, c)'
          BY <1>11 DEF SyncRuns
    <3> QED BY <3>2, <3>3, RunFitsStays
  <2> QED BY <2>1, <2>2
<1>13. dropped' \subseteq Syncs \X ContentIds
       BY <1>6 DEF FestivalsInv, FestivalsTyped
<1> QED BY <1>7, <1>10, <1>12, <1>13 DEF FestivalsInv, FestivalsTyped, RunsFit

LEMMA SeedKeeps ==
  ASSUME FestivalsInv, Seed
  PROVE  FestivalsInv'
<1>1. PICK rows \in Files :
        LET rowKeys == {ContentIdOf(rows[j]) : j \in DOMAIN rows}
            Of(c) == SeedRow(rows[CHOOSE j \in DOMAIN rows : ContentIdOf(rows[j]) = c])
        IN  /\ rows # <<>> /\ Distinct(rows)
            /\ festival' = [c \in ContentIds |-> IF c \in rowKeys THEN Filling(c, Of(c)) ELSE festival[c]]
            /\ known' = [c \in ContentIds |-> IF c \in rowKeys THEN known[c] \union Filled(Of(c)) ELSE known[c]]
            /\ dropped' = dropped \ (Syncs \X rowKeys)
      BY DEF Seed
<1> DEFINE rowKeys == {ContentIdOf(rows[j]) : j \in DOMAIN rows}
           of(c) == rows[CHOOSE j \in DOMAIN rows : ContentIdOf(rows[j]) = c]
           new == [c \in rowKeys |-> SeedRow(of(c))]
<1>2. \A j \in DOMAIN rows : rows[j] \in CsvRows
      BY DEF Files
<1>3. rowKeys \in SUBSET ContentIds
      BY <1>2 DEF ContentIds
<1>4. \A c \in rowKeys : of(c) \in CsvRows
      BY <1>2
<1> HIDE DEF of
<1>5. new \in [rowKeys -> NewRows] /\ \A c \in rowKeys : new[c].sigungucode # Unknown => new[c].areacode = "6"
      BY <1>4, SeedRowFits
<1>6. /\ festival' = [c \in ContentIds |-> IF c \in rowKeys THEN Filling(c, new[c]) ELSE festival[c]]
      /\ known' = [c \in ContentIds |-> IF c \in rowKeys THEN known[c] \union Filled(new[c]) ELSE known[c]]
      /\ dropped' = dropped \ (Syncs \X rowKeys)
  <2>1. festival' = [c \in ContentIds |-> IF c \in rowKeys THEN Filling(c, SeedRow(of(c))) ELSE festival[c]]
        BY <1>1, Zenon DEF of
  <2>2. known' = [c \in ContentIds |-> IF c \in rowKeys THEN known[c] \union Filled(SeedRow(of(c))) ELSE known[c]]
        BY <1>1, Zenon DEF of
  <2>3. dropped' = dropped \ (Syncs \X rowKeys)
        BY <1>1, Zenon
  <2>4. \A c \in rowKeys : new[c] = SeedRow(of(c))
        OBVIOUS
  <2> HIDE DEF rowKeys, new
  <2> QED BY <2>1, <2>2, <2>3, <2>4
<1>7. UNCHANGED sync
      BY DEF Seed
<1> HIDE DEF rowKeys, new
<1>8. /\ festival' \in [ContentIds -> FestivalRows] /\ known' \in [ContentIds -> SUBSET Columns] /\ RowsFit'
      /\ \A c \in ContentIds : (c \in rowKeys => festival'[c] # NoFestival) /\ (c \notin rowKeys => festival'[c] = festival[c])
      BY <1>3, <1>5, <1>6, RowsFilled DEF FestivalsInv
<1>9. RunsFit'
      BY <1>3, <1>6, <1>7, <1>8, RunsOnlyFilled DEF FestivalsInv
<1>10. dropped' \subseteq Syncs \X ContentIds /\ sync' \in [Syncs -> SyncRuns]
       BY <1>6, <1>7 DEF FestivalsInv, FestivalsTyped
<1> QED BY <1>8, <1>9, <1>10 DEF FestivalsInv, FestivalsTyped

LEMMA DeleteKeeps ==
  ASSUME FestivalsInv, NEW s \in Syncs, DeleteOver(s)
  PROVE  FestivalsInv'
<1>1. PICK e \in SyncRuns : e = sync[s]
      BY DEF FestivalsInv, FestivalsTyped
<1>2. RunFits(s, e) /\ e.phase = "delete"
      BY <1>1 DEF FestivalsInv, RunsFit, DeleteOver
<1>3. PICK gone \in SUBSET (ContentIds \ e.ids) :
        /\ festival' = [c \in ContentIds |-> IF c \in gone THEN NoFestival ELSE festival[c]]
        /\ known' = [c \in ContentIds |-> IF c \in gone THEN {} ELSE known[c]]
        /\ dropped' = dropped \union ({s} \X gone)
  <2>1. PICK gone : /\ gone = IF e.ids = {} THEN {} ELSE {c \in ContentIds \ e.ids : Over(c)}
                    /\ festival' = [c \in ContentIds |-> IF c \in gone THEN NoFestival ELSE festival[c]]
                    /\ known' = [c \in ContentIds |-> IF c \in gone THEN {} ELSE known[c]]
                    /\ dropped' = dropped \union ({s} \X gone)
        BY <1>1 DEF DeleteOver
  <2>2. gone \in SUBSET (ContentIds \ e.ids)
        BY <2>1
  <2> QED BY <2>1, <2>2
<1>4. sync' = [sync EXCEPT ![s].phase = "done"]
      BY DEF DeleteOver
<1>5. /\ sync' \in [Syncs -> SyncRuns]
      /\ \A o \in Syncs \ {s} : sync'[o] = sync[o]
      /\ sync'[s].phase = "done" /\ sync'[s].got = e.got
  <2>1. sync \in [Syncs -> SyncRuns]
        BY DEF FestivalsInv, FestivalsTyped
  <2> QED BY <1>1, <1>4, <2>1 DEF SyncRuns
<1>6. NoFestival \in FestivalRows /\ RowFits(NoFestival, {})
      BY DEF NoFestival, FestivalRows, RowFits
<1>7. /\ festival' \in [ContentIds -> FestivalRows] /\ known' \in [ContentIds -> SUBSET Columns]
      /\ dropped' \subseteq Syncs \X ContentIds
      BY <1>3, <1>6 DEF FestivalsInv, FestivalsTyped
<1>8. RowsFit'
  <2> SUFFICES ASSUME NEW c \in ContentIds PROVE RowFits(festival'[c], known'[c])
      BY DEF RowsFit
  <2>1. CASE c \in gone
        BY <1>3, <1>6, <2>1
  <2>2. CASE c \notin gone
        BY <1>3, <2>2 DEF FestivalsInv, RowsFit
  <2> QED BY <2>1, <2>2
<1>9. ASSUME NEW o \in Syncs, NEW c \in ContentIds, StoredOrDropped(o, c), o # s \/ c \notin gone
      PROVE  StoredOrDropped(o, c)'
  <2>1. CASE c \in gone
        BY <1>3, <1>9, <2>1 DEF StoredOrDropped
  <2>2. CASE c \notin gone
        BY <1>3, <1>9, <2>2 DEF StoredOrDropped, RowExists
  <2> QED BY <2>1, <2>2
<1>10. ASSUME NEW o \in Syncs, NEW g \in SyncRuns, sync'[o] = g PROVE RunFits(o, g)'
  <2>1. CASE o = s
    <3>1. g.phase = "done" /\ g.got = e.got
          BY <1>5, <1>10, <2>1
    <3>2. e.got \intersect gone = {} /\ \A c \in e.got : StoredOrDropped(s, c)
          BY <1>2, <1>3 DEF RunFits
    <3>3. \A c \in e.got : StoredOrDropped(s, c)'
          BY <1>9, <3>2 DEF SyncRuns
    <3> QED BY <2>1, <3>1, <3>3 DEF RunFits
  <2>2. CASE o # s
    <3>1. sync[o] = g
          BY <1>5, <1>10, <2>2
    <3>2. RunFits(o, g)
          BY <3>1 DEF FestivalsInv, RunsFit
    <3>3. \A c \in g.got : StoredOrDropped(o, c) => StoredOrDropped(o, c)'
          BY <1>9, <2>2 DEF SyncRuns
    <3> QED BY <3>2, <3>3, RunFitsStays
  <2> QED BY <2>1, <2>2
<1> QED BY <1>5, <1>7, <1>8, <1>10 DEF FestivalsInv, FestivalsTyped, RunsFit

LEMMA FestivalsKeep == FestivalsSpec => []FestivalsInv
<1>1. FestivalsInit => FestivalsInv
  <2> SUFFICES ASSUME FestivalsInit PROVE FestivalsInv
      OBVIOUS
  <2>1. NoFestival \in FestivalRows /\ RowFits(NoFestival, {})
        BY DEF NoFestival, FestivalRows, RowFits
  <2>2. FestivalsTyped
        BY <2>1, UnstartedIsRun DEF FestivalsInit, FestivalsTyped
  <2>3. RowsFit
        BY <2>1 DEF FestivalsInit, RowsFit
  <2>4. RunsFit
    <3> SUFFICES ASSUME NEW s \in Syncs, NEW f \in SyncRuns, sync[s] = f PROVE RunFits(s, f)
        BY DEF RunsFit
    <3>1. f.phase = "idle" /\ f.got = {}
          BY DEF FestivalsInit, Unstarted
    <3> QED BY <3>1 DEF RunFits
  <2> QED BY <2>2, <2>3, <2>4 DEF FestivalsInv
<1>2. FestivalsInv /\ [FestivalsNext]_festivalsVars => FestivalsInv'
  <2> SUFFICES ASSUME FestivalsInv, [FestivalsNext]_festivalsVars PROVE FestivalsInv'
      OBVIOUS
  <2>0. ASSUME UNCHANGED <<festival, sync, known, dropped>> PROVE FestivalsInv'
        BY <2>0 DEF FestivalsInv, FestivalsTyped, RowsFit, RunsFit, RunFits, StoredOrDropped, RowExists
  <2>1. ASSUME NEW s \in Syncs, FetchFirst(s) \/ FetchNext(s) \/ SyncFails(s) PROVE FestivalsInv'
    <3>1. sync' \in [Syncs -> SyncRuns] /\ RunsFit'
          BY <2>1, FetchKeeps DEF FestivalsInv
    <3>2. UNCHANGED <<festival, known, dropped>>
          BY <2>1 DEF FetchFirst, FetchNext, SyncFails
    <3> QED BY <3>1, <3>2 DEF FestivalsInv, FestivalsTyped, RowsFit
  <2>2. ASSUME NEW s \in Syncs, UpsertBatch(s) PROVE FestivalsInv'
        BY <2>2, UpsertKeeps
  <2>3. ASSUME NEW s \in Syncs, DeleteOver(s) PROVE FestivalsInv'
        BY <2>3, DeleteKeeps
  <2>4. CASE Seed
        BY <2>4, SeedKeeps
  <2>5. CASE DayPasses
        BY <2>0, <2>5 DEF DayPasses
  <2>6. CASE UNCHANGED festivalsVars
        BY <2>0, <2>6 DEF festivalsVars
  <2> QED BY <2>1, <2>2, <2>3, <2>4, <2>5, <2>6 DEF FestivalsNext
<1> QED BY <1>1, <1>2, PTL DEF FestivalsSpec

(* A finished synchronisation has kept every page's rows, and no column of a stored row is    *)
(* forgotten (syncFromApi and upsertBatch of festivals.service.ts, and the seed): for every   *)
(* number of runs side by side, of pages and of rows, and every item the API may answer.      *)
THEOREM FestivalsKept == FestivalsSpec => []FestivalsAreKept
<1>1. FestivalsInv => FestivalsAreKept
  <2> SUFFICES ASSUME FestivalsInv PROVE FestivalsAreKept
      OBVIOUS
  <2>1. ASSUME NEW s \in Syncs, sync[s].phase = "done", NEW c \in sync[s].got
        PROVE  RowExists(c) \/ \E o \in Syncs \ {s} : <<o, c>> \in dropped
    <3>1. sync[s] \in SyncRuns
          BY DEF FestivalsInv, FestivalsTyped
    <3>2. RunFits(s, sync[s])
          BY <3>1 DEF FestivalsInv, RunsFit
    <3> QED BY <2>1, <3>2 DEF RunFits, StoredOrDropped
  <2>2. ASSUME NEW c \in ContentIds
        PROVE  /\ known[c] \subseteq Filled(festival[c])
               /\ festival[c].sigungucode # Unknown => festival[c].sigungucode = "kto" /\ festival[c].areacode = "6"
    <3>1. festival[c] \in FestivalRows /\ RowFits(festival[c], known[c])
          BY DEF FestivalsInv, FestivalsTyped, RowsFit
    <3> QED BY <3>1 DEF RowFits, FestivalRows
  <2> QED BY <2>1, <2>2 DEF FestivalsAreKept
<1> QED BY <1>1, FestivalsKeep, PTL

(* Besides, no run turns over more pages than its first response has told of.                 *)
PageFits(f) == /\ f.pages \in 1..MaxPages /\ 1 <= f.page /\ f.page <= f.pages + 1
               /\ f.phase \in {"fetch", "upsert"} => f.page <= f.pages
PagesFit == festDay \in 0..LastDay /\ \A s \in Syncs, f \in SyncRuns : sync[s] = f => PageFits(f)

LEMMA PagesKept == ASSUME FestivalsInv, PagesFit, FestivalsNext PROVE PagesFit'
<1>1. sync \in [Syncs -> SyncRuns] /\ \A s \in Syncs : sync[s] \in SyncRuns /\ PageFits(sync[s])
  BY DEF FestivalsInv, FestivalsTyped, PagesFit
<1>2. ASSUME NEW s \in Syncs, NEW f, sync' = [sync EXCEPT ![s] = f], PageFits(f), festDay' = festDay PROVE PagesFit'
  BY <1>1, <1>2 DEF PagesFit
<1>3. PageFits(Unstarted) /\ Unstarted.phase = "idle" /\ 1 \in 1..MaxPages
  BY FestivalsAssumption DEF PageFits, Unstarted
<1>4. ASSUME NEW s \in Syncs, FetchFirst(s) PROVE PagesFit'
  <2>1. PICK n \in 1..MaxPages, rows \in Responses :
          sync' = [sync EXCEPT ![s] = [Unstarted EXCEPT !.phase = "upsert", !.pages = n, !.rows = rows,
                                                        !.ids = KeysOf(rows), !.got = KeysOf(rows)]]
    BY <1>4 DEF FetchFirst
  <2> DEFINE f == [Unstarted EXCEPT !.phase = "upsert", !.pages = n, !.rows = rows,
                                    !.ids = KeysOf(rows), !.got = KeysOf(rows)]
  <2>2. f.pages = n /\ f.page = 1 /\ f.phase = "upsert"
    BY DEF Unstarted
  <2>3. n \in Nat /\ 1 <= n
    BY FestivalsAssumption
  <2> HIDE DEF f
  <2>4. PageFits(f)
    BY <2>2, <2>3 DEF PageFits
  <2>5. sync' = [sync EXCEPT ![s] = f] /\ festDay' = festDay
    BY <1>4, <2>1 DEF FetchFirst, f
  <2> QED
    BY <1>2, <2>4, <2>5
<1>5. ASSUME NEW s \in Syncs, FetchNext(s) PROVE PagesFit'
  <2>1. PICK rows \in Responses :
          sync' = [sync EXCEPT ![s].phase = "upsert", ![s].ids = Gathered(s, KeysOf(rows)),
                               ![s].got = @ \union KeysOf(rows), ![s].rows = rows]
    BY <1>5 DEF FetchNext
  <2> DEFINE f == [sync[s] EXCEPT !.phase = "upsert", !.ids = Gathered(s, KeysOf(rows)),
                                  !.got = sync[s].got \union KeysOf(rows), !.rows = rows]
  <2>2. sync' = [sync EXCEPT ![s] = f] /\ festDay' = festDay
    BY <1>1, <1>5, <2>1 DEF FetchNext
  <2>3. f.pages = sync[s].pages /\ f.page = sync[s].page /\ f.phase = "upsert" /\ sync[s].phase = "fetch"
    BY <1>1, <1>5 DEF FetchNext, SyncRuns
  <2> HIDE DEF f
  <2> QED
    BY <1>1, <1>2, <2>2, <2>3 DEF PageFits
<1>6. ASSUME NEW s \in Syncs, UpsertBatch(s) PROVE PagesFit'
  <2> DEFINE f == [sync[s] EXCEPT !.rows = <<>>, !.page = sync[s].page + 1,
                                  !.phase = IF sync[s].page < sync[s].pages THEN "fetch" ELSE "delete"]
  <2>1. sync' = [sync EXCEPT ![s] = f] /\ festDay' = festDay /\ sync[s].phase = "upsert"
    BY <1>1, <1>6 DEF UpsertBatch
  <2>2. /\ f.pages = sync[s].pages /\ f.page = sync[s].page + 1
        /\ f.phase = IF sync[s].page < sync[s].pages THEN "fetch" ELSE "delete"
    BY <1>1 DEF SyncRuns
  <2>3. sync[s].page \in Nat /\ sync[s].pages \in Nat
    BY <1>1 DEF SyncRuns
  <2> HIDE DEF f
  <2>4. PageFits(f)
    BY <1>1, <2>1, <2>2, <2>3 DEF PageFits
  <2> QED
    BY <1>2, <2>1, <2>4
<1>7. ASSUME NEW s \in Syncs, DeleteOver(s) PROVE PagesFit'
  <2> DEFINE f == [sync[s] EXCEPT !.phase = "done"]
  <2>1. sync' = [sync EXCEPT ![s] = f] /\ festDay' = festDay
    BY <1>7 DEF DeleteOver
  <2>2. f.pages = sync[s].pages /\ f.page = sync[s].page /\ f.phase = "done"
    BY <1>1 DEF SyncRuns
  <2> HIDE DEF f
  <2> QED
    BY <1>1, <1>2, <2>1, <2>2 DEF PageFits
<1>8. ASSUME NEW s \in Syncs, SyncFails(s) PROVE PagesFit'
  <2>1. sync' = [sync EXCEPT ![s] = [Unstarted EXCEPT !.phase = "failed"]] /\ festDay' = festDay
    BY <1>8 DEF SyncFails
  <2>2. PageFits([Unstarted EXCEPT !.phase = "failed"])
    BY <1>3 DEF PageFits, Unstarted
  <2> QED
    BY <1>2, <2>1, <2>2
<1>9. CASE Seed
  BY <1>9 DEF Seed, PagesFit
<1>10. CASE DayPasses
  <2>1. festDay' \in 0..LastDay /\ sync' = sync
    BY <1>10, FestivalsAssumption DEF DayPasses, PagesFit
  <2> QED
    BY <2>1 DEF PagesFit
<1> QED
  BY <1>4, <1>5, <1>6, <1>7, <1>8, <1>9, <1>10 DEF FestivalsNext

(* The rows and runs of the festivals are always what they should be: in particular no run    *)
(* asks for a page beyond those the API has told of.                                          *)
THEOREM FestivalsStayTyped == FestivalsSpec => []FestivalsTypeOK
<1>1. FestivalsInit => PagesFit
  <2> SUFFICES ASSUME FestivalsInit PROVE PagesFit
    OBVIOUS
  <2>1. PageFits(Unstarted)
    BY FestivalsAssumption DEF PageFits, Unstarted
  <2> QED
    BY <2>1, FestivalsAssumption DEF FestivalsInit, PagesFit
<1>2. FestivalsInv /\ PagesFit /\ [FestivalsNext]_festivalsVars => PagesFit'
  <2> SUFFICES ASSUME FestivalsInv, PagesFit, [FestivalsNext]_festivalsVars PROVE PagesFit'
    OBVIOUS
  <2>1. CASE UNCHANGED festivalsVars
    BY <2>1 DEF festivalsVars, PagesFit
  <2> QED
    BY <2>1, PagesKept
<1>3. FestivalsInv /\ PagesFit => FestivalsTypeOK
  <2> SUFFICES ASSUME FestivalsInv, PagesFit PROVE FestivalsTypeOK
    OBVIOUS
  <2>1. ASSUME NEW s \in Syncs
        PROVE  /\ sync[s].phase \in {"idle", "fetch", "upsert", "delete", "done", "failed"}
               /\ sync[s].page \in 1..MaxPages + 1 /\ sync[s].pages \in 1..MaxPages
               /\ Range(sync[s].rows) \subseteq UsableItems /\ (sync[s].ids \union sync[s].got) \subseteq ContentIds
    <3>1. sync[s] \in SyncRuns
      BY DEF FestivalsInv, FestivalsTyped
    <3>2. PageFits(sync[s])
      BY <3>1 DEF PagesFit
    <3>3. sync[s].page \in 1..MaxPages + 1 /\ sync[s].pages \in 1..MaxPages
      BY <3>1, <3>2, FestivalsAssumption DEF PageFits, SyncRuns
    <3>4. Range(sync[s].rows) \subseteq UsableItems
      <4>1. sync[s].rows \in Seq(UsableItems)
        BY <3>1 DEF SyncRuns
      <4> QED
        BY <4>1 DEF Range
    <3> QED
      BY <3>1, <3>3, <3>4 DEF SyncRuns
  <2>2. festival \in [ContentIds -> [coords : {Unknown, "point"}, end : Nat \union {-1},
                                     areacode : {Unknown, "6"}, sigungucode : {Unknown, "kto", "ldong"}]]
    BY DEF FestivalsInv, FestivalsTyped, FestivalRows
  <2> QED
    BY <2>1, <2>2 DEF FestivalsInv, FestivalsTyped, PagesFit, FestivalsTypeOK
<1> QED
  BY <1>1, <1>2, <1>3, FestivalsKeep, PTL DEF FestivalsSpec

-----------------------------------------------------------------------------
(* The seed of the spots.  A statement that deletes has locked no spot that a transaction   *)
(* under way refers to; it leaves spots that had a record when it began, and a record it    *)
(* takes along was stored beside it; and it runs only when a row with the prefix is in, which *)
(* it leaves, or none of the file that was of use had it.                                    *)
SeedPosts == [phase : {"idle", "found", "open", "stored", "refused"}, kind : RecordKinds, spot : Nat, beside : BOOLEAN]
SeedRuns == [phase : {"idle", "upsert", "clean", "delete", "ended", "failed"}, dry : BOOLEAN,
             file : SpotFiles \union {<<>>}, stale : SUBSET (Keys \ Prefixed), locked : SUBSET Nat]
SeedTyped ==
  /\ spotIds \in Nat /\ spotId \in [Keys -> Nat] /\ codes \in [Keys -> {"legacy", "valid"}]
  /\ post \in [Posts -> SeedPosts] /\ run \in SeedRuns
  /\ records \union swept \subseteq [by : Posts, kind : RecordKinds, spot : Nat]
  /\ misnamed \in BOOLEAN
SpotsFit ==
  /\ \A c \in Keys : spotId[c] <= spotIds
  /\ \A c, d \in Keys : spotId[c] = spotId[d] /\ spotId[c] # Gone => c = d
  /\ \A c \in Keys \ Legacy : spotId[c] # Gone => codes[c] = "valid"
StoredFit ==
  /\ \A r \in records \union swept : post[r.by].phase = "stored"
  /\ \A r \in records : r.spot # Gone
PostsFit ==
  \A p \in Posts : /\ post[p].phase \in {"found", "open"} => post[p].spot # Gone
                   /\ post[p].phase = "open" => /\ There(post[p].spot) /\ post[p].spot \notin run.locked
                                                /\ run.phase = "delete" => post[p].beside
SeedRunFits ==
  /\ run.phase = "upsert" => run.file \in SpotFiles
  /\ run.phase # "delete" => run.locked = {} /\ run.stale = {}
  /\ run.phase = "delete" =>
       /\ ~run.dry /\ run.locked \subseteq {spotId[c] : c \in run.stale}
       /\ \A c \in run.stale : spotId[c] # Gone
       /\ \A c \in run.stale, r \in records : r.spot = spotId[c] => post[r.by].beside
       /\ \A c \in (Keys \ Prefixed) \ run.stale : spotId[c] # Gone => \E r \in records : r.spot = spotId[c]
  /\ run.phase \in {"clean", "delete"} /\ ~run.dry => misnamed \/ \E c \in Keys \cap Prefixed : spotId[c] # Gone
SpotSeedInv == SeedTyped /\ SpotsFit /\ StoredFit /\ PostsFit /\ SeedRunFits /\ SeedLosesNothing

(* A finite set can be numbered on from any number. *)
LEMMA NumbersThere ==
  ASSUME NEW S, IsFiniteSet(S), NEW a \in Nat
  PROVE  /\ Cardinality(S) \in Nat
         /\ \E f \in [S -> a + 1..a + Cardinality(S)] : IsInjective(f)
<1> DEFINE n == Cardinality(S)
<1>1. n \in Nat /\ ExistsBijection(1..n, S)
      BY FS_CardinalityType
<1> HIDE DEF n
<1>2. PICK b \in [1..n -> S] : (\A i, j \in 1..n : i # j => b[i] # b[j]) /\ \A x \in S : \E i \in 1..n : b[i] = x
      BY <1>1 DEF ExistsBijection, Bijection, Injection, Surjection, IsInjective
<1> DEFINE at == [x \in S |-> CHOOSE i \in 1..n : b[i] = x]
           f == [x \in S |-> a + at[x]]
<1>3. \A x \in S : at[x] \in 1..n /\ b[at[x]] = x
      BY <1>2
<1> HIDE DEF at
<1>4. f \in [S -> a + 1..a + n]
      BY <1>1, <1>3
<1>5. \A x, y \in S : f[x] = f[y] => x = y
      BY <1>1, <1>3
<1>6. DOMAIN f = S
      OBVIOUS
<1> HIDE DEF f
<1>7. IsInjective(f)
      BY <1>5, <1>6 DEF IsInjective
<1> QED BY <1>1, <1>4, <1>7 DEF n

(* The rows of a file that are stored have keys. *)
LEMMA FileKeys ==
  ASSUME NEW file \in SpotFiles
  PROVE  /\ IsFiniteSet({r.id : r \in Storable(file)})
         /\ \A r \in Storable(file) : r.id \in Keys
<1>1. PICK n \in 1..MaxSpotRows : file \in [1..n -> SpotRows]
      BY DEF SpotFiles
<1> DEFINE D == {j \in 1..n : file[j].id # "" /\ file[j].titled}
           K == {file[i].id : i \in D}
<1>2. n \in Nat /\ IsFiniteSet(1..n)
      BY SpotSeedAssumption, FS_Interval
<1>3. IsFiniteSet(D)
      BY <1>2, FS_Subset
<1>4. Storable(file) = {file[i] : i \in D}
      BY <1>1 DEF Storable
<1>5. {r.id : r \in Storable(file)} = K
      BY <1>4
<1>6. [i \in D |-> file[i].id] \in Surjection(D, K)
      BY DEF Surjection
<1>7. IsFiniteSet(K)
  <2> HIDE DEF D, K
  <2>1. PICK g : g \in Surjection(D, K)
        BY <1>6
  <2> QED BY <1>3, <2>1, FS_Surjection
<1>8. \A r \in Storable(file) : r \in SpotRows /\ r.id # ""
      BY <1>1, <1>4
<1> QED BY <1>5, <1>7, <1>8 DEF Keys

LEMMA UnrunIsRun == Unrun \in SeedRuns /\ Unrun.locked = {} /\ Unrun.stale = {} /\ Unrun.phase = "idle" /\ ~Unrun.dry
BY DEF Unrun, SeedRuns

LEMMA SeedInitially == SpotSeedInit => SpotSeedInv
<1> SUFFICES ASSUME SpotSeedInit PROVE SpotSeedInv
    OBVIOUS
<1> DEFINE n == Cardinality(Legacy)
<1>1. n \in Nat /\ \E f \in [Legacy -> 0 + 1..0 + n] : IsInjective(f)
      BY SpotSeedAssumption, NumbersThere
<1>2. \E f \in [Legacy -> 1..n] : IsInjective(f)
      BY <1>1
<1>3. PICK f \in [Legacy -> 1..n] : IsInjective(f) /\ spotId = [c \in Keys |-> IF c \in Legacy THEN f[c] ELSE Gone]
      BY <1>2 DEF SpotSeedInit
<1>4. \A c, d \in Legacy : f[c] = f[d] => c = d
      BY <1>3 DEF IsInjective
<1>5. spotIds = n /\ codes = [c \in Keys |-> "legacy"] /\ records = {} /\ swept = {} /\ misnamed = FALSE
      BY DEF SpotSeedInit
<1>6. post = [p \in Posts |-> NoPost] /\ run = Unrun
      BY DEF SpotSeedInit
<1> HIDE DEF n
<1>7. \A c \in Keys : spotId[c] \in Nat /\ spotId[c] <= n /\ (spotId[c] # Gone <=> c \in Legacy)
      BY <1>1, <1>3 DEF Gone
<1>8. NoPost \in SeedPosts /\ NoPost.phase = "idle"
      BY DEF NoPost, SeedPosts, RecordKinds, Gone
<1>9. spotId \in [Keys -> Nat]
      BY <1>3, <1>7
<1>10. SeedTyped
      BY <1>1, <1>5, <1>6, <1>8, <1>9, UnrunIsRun DEF SeedTyped
<1>11. SpotsFit
      BY <1>3, <1>4, <1>5, <1>7 DEF SpotsFit, Keys
<1>12. StoredFit /\ PostsFit
      BY <1>5, <1>6, <1>8 DEF StoredFit, PostsFit
<1>13. SeedRunFits
      BY <1>6, UnrunIsRun DEF SeedRunFits
<1>14. SeedLosesNothing
      BY <1>5, <1>6, <1>7, UnrunIsRun, SpotSeedAssumption DEF SeedLosesNothing, Keys
<1> QED BY <1>10, <1>11, <1>12, <1>13, <1>14 DEF SpotSeedInv

-----------------------------------------------------------------------------
(* A transaction of a user: whatever it does, it is one that may be. *)
LEMMA PostMoves ==
  ASSUME SpotSeedInv, NEW p \in Posts, NEW q \in SeedPosts, post' = [post EXCEPT ![p] = q],
         UNCHANGED <<spotId, codes, spotIds, run, swept, misnamed>>,
         records' = records \/ (records' = records \union {[by |-> p, kind |-> q.kind, spot |-> q.spot]} /\ q.phase = "stored"
                                /\ q.spot # Gone /\ There(q.spot) /\ q.spot \notin run.locked /\ (run.phase = "delete" => q.beside)),
         post[p].phase # "stored",
         q.phase \in {"found", "open"} => q.spot # Gone,
         q.phase = "open" => There(q.spot) /\ q.spot \notin run.locked /\ (run.phase = "delete" => q.beside)
  PROVE  SpotSeedInv'
<1> DEFINE new == [by |-> p, kind |-> q.kind, spot |-> q.spot]
<1>1. post' \in [Posts -> SeedPosts] /\ post'[p] = q /\ \A r \in Posts : r # p => post'[r] = post[r]
      BY DEF SpotSeedInv, SeedTyped
<1>2. new \in [by : Posts, kind : RecordKinds, spot : Nat] /\ new.by = p /\ new.spot = q.spot
      BY DEF SeedPosts
<1> HIDE DEF new
<1>3. records' = records \/ (records' = records \union {new} /\ q.phase = "stored" /\ q.spot # Gone /\ There(q.spot)
                             /\ q.spot \notin run.locked /\ (run.phase = "delete" => q.beside))
      BY DEF new
<1>4. There(q.spot)' <=> There(q.spot)
      BY DEF There
<1>5. \A r \in records \union swept : r.by \in Posts /\ r.by # p
      BY DEF SpotSeedInv, SeedTyped, StoredFit
<1>6. SeedTyped'
      BY <1>1, <1>2, <1>3 DEF SpotSeedInv, SeedTyped
<1>7. SpotsFit'
      BY DEF SpotSeedInv, SpotsFit
<1>8. StoredFit'
      BY <1>1, <1>2, <1>3, <1>5 DEF SpotSeedInv, StoredFit
<1>9. PostsFit'
      BY <1>1 DEF SpotSeedInv, PostsFit, There
<1>10. SeedRunFits'
  <2>1. run.phase = "delete" => \A c \in run.stale, r \in records' : r.spot = spotId[c] => post'[r.by].beside
        BY <1>1, <1>2, <1>3, <1>5 DEF SpotSeedInv, SeedRunFits
  <2>2. records \subseteq records'
        BY <1>3
  <2> QED BY <2>1, <2>2 DEF SpotSeedInv, SeedRunFits
<1>11. SeedLosesNothing'
  <2>1. \A r \in swept : post'[r.by].beside
        BY <1>1, <1>5 DEF SpotSeedInv, SeedLosesNothing
  <2>2. \A r \in records' : There(r.spot)
        BY <1>2, <1>3 DEF SpotSeedInv, SeedLosesNothing
  <2>3. records \subseteq records'
        BY <1>3
  <2> QED BY <2>1, <2>2, <2>3 DEF SpotSeedInv, SeedLosesNothing, There
<1> QED BY <1>6, <1>7, <1>8, <1>9, <1>10, <1>11 DEF SpotSeedInv

LEMMA PostsKeep ==
  ASSUME SpotSeedInv, NEW p \in Posts, LooksUp(p) \/ InsertsRecord(p) \/ EndsPost(p)
  PROVE  SpotSeedInv'
<1>1. post[p] \in SeedPosts /\ spotId \in [Keys -> Nat] /\ run \in SeedRuns
      BY DEF SpotSeedInv, SeedTyped
<1>2. CASE LooksUp(p)
  <2>1. PICK c \in Keys, k \in RecordKinds :
          /\ spotId[c] # Gone
          /\ post' = [post EXCEPT ![p] = [NoPost EXCEPT !.phase = "found", !.kind = k, !.spot = spotId[c]]]
        BY <1>2 DEF LooksUp
  <2> DEFINE q == [NoPost EXCEPT !.phase = "found", !.kind = k, !.spot = spotId[c]]
  <2>2. q \in SeedPosts /\ q.phase = "found" /\ q.spot = spotId[c]
        BY <1>1 DEF NoPost, SeedPosts
  <2> HIDE DEF q
  <2>3. post' = [post EXCEPT ![p] = q]
        BY <2>1 DEF q
  <2> QED BY <1>2, <2>1, <2>2, <2>3, PostMoves DEF LooksUp
<1>3. CASE InsertsRecord(p)
  <2> DEFINE ph == IF There(post[p].spot) THEN "open" ELSE "refused"
             q == [[post[p] EXCEPT !.phase = ph] EXCEPT !.beside = run.phase = "delete"]
  <2>1. (run.phase = "delete") \in BOOLEAN
        OBVIOUS
  <2>2. PICK b \in BOOLEAN : b <=> run.phase = "delete"
        OBVIOUS
  <2>3. post' = [post EXCEPT ![p].phase = ph, ![p].beside = b]
        BY <1>3, <2>2 DEF InsertsRecord
  <2> DEFINE after == [[post[p] EXCEPT !.phase = ph] EXCEPT !.beside = b]
  <2>4. post' = [post EXCEPT ![p] = after]
        BY <1>1, <2>3 DEF SpotSeedInv, SeedTyped
  <2>5. after \in SeedPosts /\ after.phase = ph /\ after.beside = b /\ after.spot = post[p].spot
        BY <1>1 DEF SeedPosts
  <2>6. post[p].phase = "found" /\ post[p].spot \notin run.locked /\ post[p].spot # Gone
        BY <1>3 DEF InsertsRecord, SpotSeedInv, PostsFit
  <2>7. after.phase # "found" /\ (after.phase = "open" => There(after.spot))
        BY <2>5
  <2>8. UNCHANGED <<spotId, codes, spotIds, records, run, swept, misnamed>>
        BY <1>3 DEF InsertsRecord
  <2> HIDE DEF after
  <2> QED BY <2>2, <2>4, <2>5, <2>6, <2>7, <2>8, PostMoves
<1>4. CASE EndsPost(p)
  <2>1. post[p].phase = "open" /\ UNCHANGED <<spotId, codes, spotIds, run, swept, misnamed>>
        BY <1>4 DEF EndsPost
  <2>2. PICK ph \in {"stored", "refused"} :
          /\ post' = [post EXCEPT ![p].phase = ph]
          /\ records' = records \/ (records' = records \union {RecordOf(p)} /\ ph = "stored")
        BY <1>4 DEF EndsPost
  <2> DEFINE q == [post[p] EXCEPT !.phase = ph]
  <2>3. post' = [post EXCEPT ![p] = q]
        BY <2>2 DEF SpotSeedInv, SeedTyped
  <2>4. q \in SeedPosts /\ q.phase = ph /\ q.beside = post[p].beside /\ q.spot = post[p].spot /\ q.kind = post[p].kind
        BY <1>1 DEF SeedPosts
  <2> HIDE DEF q
  <2>5. /\ post[p].spot # Gone /\ There(post[p].spot) /\ post[p].spot \notin run.locked
        /\ run.phase = "delete" => post[p].beside
        BY <2>1 DEF SpotSeedInv, PostsFit
  <2>6. RecordOf(p) = [by |-> p, kind |-> q.kind, spot |-> q.spot]
        BY <2>4 DEF RecordOf
  <2> QED BY <2>1, <2>2, <2>3, <2>4, <2>5, <2>6, PostMoves
<1> QED BY <1>2, <1>3, <1>4

-----------------------------------------------------------------------------
(* A step of the seed that neither deletes nor stores leaves a run that may be. *)
LEMMA RunMoves ==
  ASSUME SpotSeedInv, NEW f \in SeedRuns, run' = f, f.phase \in {"upsert", "clean", "failed"},
         f.locked = {}, f.stale = {}, f.phase = "upsert" => f.file \in SpotFiles,
         f.phase = "clean" /\ ~f.dry => misnamed' \/ \E c \in Keys \cap Prefixed : spotId'[c] # Gone,
         misnamed' \in BOOLEAN, misnamed => misnamed' \/ \E c \in Keys : spotId'[c] # Gone,
         \A c \in Keys : spotId[c] # Gone => spotId'[c] = spotId[c],
         SpotsFit', spotIds' \in Nat, spotId' \in [Keys -> Nat], codes' \in [Keys -> {"legacy", "valid"}],
         UNCHANGED <<records, post, swept>>
  PROVE  SpotSeedInv'
<1>1. SeedTyped'
      BY DEF SpotSeedInv, SeedTyped
<1>2. StoredFit'
      BY DEF SpotSeedInv, StoredFit
<1>3. \A s : s # Gone /\ There(s) => There(s)'
      BY DEF There
<1>4. PostsFit'
      BY <1>3 DEF SpotSeedInv, PostsFit
<1>5. SeedRunFits'
      BY DEF SeedRunFits
<1>6. SeedLosesNothing'
  <2>1. \A r \in records : There(r.spot)'
        BY <1>3 DEF SpotSeedInv, StoredFit, SeedLosesNothing
  <2> QED BY <2>1 DEF SpotSeedInv, SeedLosesNothing
<1> QED BY <1>1, <1>2, <1>4, <1>5, <1>6 DEF SpotSeedInv

LEMMA LoadsKeeps ==
  ASSUME SpotSeedInv, Loads
  PROVE  SpotSeedInv'
<1>1. PICK file \in SpotFiles, dry \in BOOLEAN :
        run' = IF NoDuplicates(file) THEN [Unrun EXCEPT !.phase = "upsert", !.dry = dry, !.file = file]
                                      ELSE [Unrun EXCEPT !.phase = "failed"]
      BY DEF Loads
<1>2. UNCHANGED <<spotId, codes, spotIds, records, post, swept, misnamed>>
      BY DEF Loads
<1>3. SpotsFit'
      BY <1>2 DEF SpotSeedInv, SpotsFit
<1>4. spotIds' \in Nat /\ spotId' \in [Keys -> Nat] /\ codes' \in [Keys -> {"legacy", "valid"}] /\ misnamed' \in BOOLEAN
      BY <1>2 DEF SpotSeedInv, SeedTyped
<1>5. PICK f : run' = f
      OBVIOUS
<1>6. CASE NoDuplicates(file)
  <2>1. f = [Unrun EXCEPT !.phase = "upsert", !.dry = dry, !.file = file]
        BY <1>1, <1>5, <1>6
  <2>2. f \in SeedRuns /\ f.phase = "upsert" /\ f.locked = {} /\ f.stale = {} /\ f.file = file
        BY <2>1, UnrunIsRun DEF SeedRuns
  <2> QED BY <1>2, <1>3, <1>4, <1>5, <2>2, RunMoves
<1>7. CASE ~NoDuplicates(file)
  <2>1. f = [Unrun EXCEPT !.phase = "failed"]
        BY <1>1, <1>5, <1>7
  <2>2. f \in SeedRuns /\ f.phase = "failed" /\ f.locked = {} /\ f.stale = {}
        BY <2>1, UnrunIsRun DEF SeedRuns
  <2> QED BY <1>2, <1>3, <1>4, <1>5, <2>2, RunMoves
<1> QED BY <1>6, <1>7

(* The rows of a file go in: nothing is renumbered, and what is new is numbered apart. *)
LEMMA AppliesFits ==
  ASSUME SpotSeedInv, NEW file \in SpotFiles, Applies(Storable(file))
  PROVE  /\ SpotsFit' /\ spotIds' \in Nat /\ spotId' \in [Keys -> Nat] /\ codes' \in [Keys -> {"legacy", "valid"}]
         /\ \A c \in Keys : spotId[c] # Gone => spotId'[c] = spotId[c]
         /\ \A r \in Storable(file) : r.id \in Keys /\ spotId'[r.id] # Gone
<1> DEFINE rowKeys == {r.id : r \in Storable(file)}
           fresh == {c \in rowKeys : spotId[c] = Gone}
           n == Cardinality(fresh)
<1>1. IsFiniteSet(rowKeys) /\ \A c \in rowKeys : c \in Keys
      BY FileKeys
<1>2. IsFiniteSet(fresh) /\ spotIds \in Nat
      BY <1>1, FS_Subset DEF SpotSeedInv, SeedTyped
<1>3. n \in Nat /\ \E f \in [fresh -> spotIds + 1..spotIds + n] : IsInjective(f)
      BY <1>2, NumbersThere
<1>4. PICK f \in [fresh -> spotIds + 1..spotIds + n] :
        /\ IsInjective(f)
        /\ spotId' = [c \in Keys |-> IF c \in fresh THEN f[c] ELSE spotId[c]]
      BY <1>3 DEF Applies
<1>5. codes' = [c \in Keys |-> IF c \in rowKeys THEN "valid" ELSE codes[c]] /\ spotIds' = spotIds + n
      BY DEF Applies
<1>6. \A c, d \in fresh : f[c] = f[d] => c = d
      BY <1>4 DEF IsInjective
<1>7. \A c \in fresh : spotId[c] = Gone /\ c \in rowKeys /\ f[c] \in spotIds + 1..spotIds + n
      BY <1>4
<1>8. \A r \in Storable(file) : r.id \in rowKeys
      OBVIOUS
<1>9. \A c \in rowKeys : c \in fresh \/ spotId[c] # Gone
      OBVIOUS
<1> HIDE DEF n, fresh, rowKeys
<1>10. \A c \in Keys : spotId[c] \in Nat /\ spotId[c] <= spotIds
      BY DEF SpotSeedInv, SeedTyped, SpotsFit
<1>11. \A c \in Keys : spotId'[c] \in Nat /\ spotId'[c] <= spotIds'
      BY <1>2, <1>3, <1>4, <1>5, <1>7, <1>10
<1>12. \A c \in Keys : c \notin fresh => spotId'[c] = spotId[c]
      BY <1>4
<1>13. \A c \in Keys : c \in fresh => spotId'[c] > spotIds /\ spotId'[c] = f[c]
      BY <1>2, <1>3, <1>4, <1>7
<1>14. \A c, d \in Keys : spotId'[c] = spotId'[d] /\ spotId'[c] # Gone => c = d
  <2>1. \A c, d \in Keys : spotId[c] = spotId[d] /\ spotId[c] # Gone => c = d
        BY DEF SpotSeedInv, SpotsFit
  <2> SUFFICES ASSUME NEW c \in Keys, NEW d \in Keys, spotId'[c] = spotId'[d], spotId'[c] # Gone
               PROVE  c = d
      OBVIOUS
  <2>2. CASE c \in fresh /\ d \in fresh
        BY <2>2, <1>6, <1>13
  <2>3. CASE c \notin fresh /\ d \notin fresh
        BY <2>1, <2>3, <1>12
  <2>4. CASE c \in fresh <=> d \notin fresh
        BY <2>4, <1>2, <1>10, <1>12, <1>13
  <2> QED BY <2>2, <2>3, <2>4
<1>15. \A c \in Keys \ Legacy : spotId'[c] # Gone => codes'[c] = "valid"
      BY <1>5, <1>7, <1>12 DEF SpotSeedInv, SpotsFit
<1>16. \A c \in rowKeys : spotId'[c] # Gone
      BY <1>1, <1>2, <1>9, <1>12, <1>13 DEF Gone
<1>17. SpotsFit'
      BY <1>11, <1>14, <1>15 DEF SpotsFit
<1>18. spotIds' \in Nat /\ codes' \in [Keys -> {"legacy", "valid"}]
      BY <1>2, <1>3, <1>5 DEF SpotSeedInv, SeedTyped
<1>19. spotId' \in [Keys -> Nat]
      BY <1>4, <1>11
<1> QED BY <1>1, <1>7, <1>8, <1>12, <1>16, <1>17, <1>18, <1>19

LEMMA UpsertSpotsKeeps ==
  ASSUME SpotSeedInv, UpsertSpots
  PROVE  SpotSeedInv'
<1> DEFINE rows == Storable(run.file)
<1>1. run.phase = "upsert" /\ run.file \in SpotFiles /\ run \in SeedRuns /\ run.locked = {} /\ run.stale = {}
      BY DEF UpsertSpots, SpotSeedInv, SeedRunFits, SeedTyped
<1>2. UNCHANGED <<records, post, swept>>
      BY DEF UpsertSpots
<1>3. \/ /\ ~run.dry /\ Applies(rows) /\ GoesOnWith(rows)
         /\ run' = [Unrun EXCEPT !.phase = "clean"] /\ misnamed' = Misnames(rows)
      \/ /\ ~run.dry /\ Applies(rows)
         /\ run' = [Unrun EXCEPT !.phase = "failed"] /\ misnamed' = misnamed
      \/ /\ run.dry /\ run' = [run EXCEPT !.phase = "clean", !.file = <<>>]
         /\ UNCHANGED <<spotId, codes, spotIds, misnamed>>
      \/ /\ run' = [Unrun EXCEPT !.phase = "failed"]
         /\ UNCHANGED <<spotId, codes, spotIds, misnamed>>
      BY DEF UpsertSpots
<1>4. PICK f : run' = f
      OBVIOUS
<1>5. UNCHANGED <<spotId, codes, spotIds, misnamed>> =>
         /\ SpotsFit' /\ spotIds' \in Nat /\ spotId' \in [Keys -> Nat] /\ codes' \in [Keys -> {"legacy", "valid"}]
         /\ \A c \in Keys : spotId[c] # Gone => spotId'[c] = spotId[c]
         /\ misnamed' \in BOOLEAN /\ (misnamed => misnamed')
      BY DEF SpotSeedInv, SpotsFit, SeedTyped
<1>6. Applies(rows) =>
         /\ SpotsFit' /\ spotIds' \in Nat /\ spotId' \in [Keys -> Nat] /\ codes' \in [Keys -> {"legacy", "valid"}]
         /\ \A c \in Keys : spotId[c] # Gone => spotId'[c] = spotId[c]
         /\ \A r \in rows : r.id \in Keys /\ spotId'[r.id] # Gone
      BY <1>1, AppliesFits
<1>7. misnamed \in BOOLEAN
      BY DEF SpotSeedInv, SeedTyped
<1>8. CASE /\ ~run.dry /\ Applies(rows) /\ GoesOnWith(rows)
           /\ run' = [Unrun EXCEPT !.phase = "clean"] /\ misnamed' = Misnames(rows)
  <2>1. f \in SeedRuns /\ f.phase = "clean" /\ f.locked = {} /\ f.stale = {}
        BY <1>4, <1>8, UnrunIsRun DEF SeedRuns
  <2> HIDE DEF rows
  <2>2. misnamed' \in BOOLEAN
        BY <1>8 DEF Misnames
  <2>3. PICK r \in rows : misnamed' \/ r.id \in Prefixed
        BY <1>8 DEF Misnames, GoesOnWith
  <2>4. misnamed' \/ \E c \in Keys \cap Prefixed : spotId'[c] # Gone
        BY <1>6, <1>8, <2>3
  <2> QED BY <1>2, <1>4, <1>6, <1>8, <2>1, <2>2, <2>4, RunMoves
<1>9. CASE /\ ~run.dry /\ Applies(rows)
           /\ run' = [Unrun EXCEPT !.phase = "failed"] /\ misnamed' = misnamed
  <2>1. f \in SeedRuns /\ f.phase = "failed" /\ f.locked = {} /\ f.stale = {}
        BY <1>4, <1>9, UnrunIsRun DEF SeedRuns
  <2> HIDE DEF rows
  <2> QED BY <1>2, <1>4, <1>6, <1>7, <1>9, <2>1, RunMoves
<1>10. CASE run.dry /\ run' = [run EXCEPT !.phase = "clean", !.file = <<>>] /\ UNCHANGED <<spotId, codes, spotIds, misnamed>>
  <2>1. f \in SeedRuns /\ f.phase = "clean" /\ f.dry /\ f.locked = {} /\ f.stale = {}
        BY <1>1, <1>4, <1>10 DEF SeedRuns
  <2> QED BY <1>2, <1>4, <1>5, <1>10, <2>1, RunMoves
<1>11. CASE run' = [Unrun EXCEPT !.phase = "failed"] /\ UNCHANGED <<spotId, codes, spotIds, misnamed>>
  <2>1. f \in SeedRuns /\ f.phase = "failed" /\ f.locked = {} /\ f.stale = {}
        BY <1>4, <1>11, UnrunIsRun DEF SeedRuns
  <2> QED BY <1>2, <1>4, <1>5, <1>11, <2>1, RunMoves
<1> QED BY <1>3, <1>8, <1>9, <1>10, <1>11

LEMMA CleanFailsKeeps ==
  ASSUME SpotSeedInv, CleanFails
  PROVE  SpotSeedInv'
<1>1. UNCHANGED <<spotId, codes, spotIds, records, post, swept, misnamed>> /\ run' = [Unrun EXCEPT !.phase = "failed"]
      BY DEF CleanFails
<1>2. PICK f : run' = f
      OBVIOUS
<1>3. f \in SeedRuns /\ f.phase = "failed" /\ f.locked = {} /\ f.stale = {}
      BY <1>1, <1>2, UnrunIsRun DEF SeedRuns
<1>4. /\ SpotsFit' /\ spotIds' \in Nat /\ spotId' \in [Keys -> Nat] /\ codes' \in [Keys -> {"legacy", "valid"}]
      /\ misnamed' \in BOOLEAN
      BY <1>1 DEF SpotSeedInv, SpotsFit, SeedTyped
<1> QED BY <1>1, <1>2, <1>3, <1>4, RunMoves

(* The statement begins: nobody has a record of what it has chosen, and who is about to     *)
(* store one is beside it.                                                                   *)
LEMMA BeginsKeeps ==
  ASSUME SpotSeedInv, BeginsDelete
  PROVE  SpotSeedInv'
<1> DEFINE chosen == {c \in Stale : NoUserRecords(spotId[c])}
<1>1. run.phase = "clean" /\ run \in SeedRuns /\ run.locked = {} /\ run.stale = {}
      BY DEF BeginsDelete, SpotSeedInv, SeedRunFits, SeedTyped
<1>2. run' = [run EXCEPT !.phase = IF run.dry THEN "ended" ELSE "delete", !.stale = IF run.dry THEN {} ELSE chosen]
      BY DEF BeginsDelete
<1>3. post' = [p \in Posts |-> [post[p] EXCEPT !.beside = @ \/ (~run.dry /\ post[p].phase = "open")]]
      BY DEF BeginsDelete
<1>4. UNCHANGED <<spotId, codes, spotIds, records, runs, swept, misnamed>>
      BY DEF BeginsDelete
<1>5. chosen \subseteq Keys \ Prefixed /\ \A c \in chosen : spotId[c] # Gone
      BY DEF Stale
<1>6. \A c \in chosen, r \in records : r.spot # spotId[c]
  <2> SUFFICES ASSUME NEW c \in chosen, NEW r \in records, r.spot = spotId[c] PROVE FALSE
      OBVIOUS
  <2>1. r.kind \notin RecordKinds
        BY DEF NoUserRecords, LookedAt
  <2> QED BY <2>1 DEF SpotSeedInv, SeedTyped
<1>7. \A c \in Keys \ Prefixed : spotId[c] # Gone /\ c \notin chosen => \E r \in records : r.spot = spotId[c]
      BY DEF Stale, NoUserRecords, LookedAt
<1> HIDE DEF chosen
<1>8. PICK ph, st : ph = (IF run.dry THEN "ended" ELSE "delete") /\ st = (IF run.dry THEN {} ELSE chosen)
      OBVIOUS
<1>9. ph \in {"ended", "delete"} /\ st \subseteq Keys \ Prefixed /\ (ph = "ended" => st = {} /\ run.dry) /\ (ph = "delete" => st = chosen /\ ~run.dry)
      BY <1>1, <1>5, <1>8 DEF SeedRuns
<1>10. run' = [run EXCEPT !.phase = ph, !.stale = st]
      BY <1>2, <1>8
<1>11. /\ run' \in SeedRuns /\ run'.phase = ph /\ run'.stale = st /\ run'.locked = {} /\ run'.dry = run.dry
      BY <1>1, <1>9, <1>10 DEF SeedRuns
<1>12. \A p \in Posts : /\ post'[p] \in SeedPosts /\ post'[p].phase = post[p].phase /\ post'[p].spot = post[p].spot
                        /\ post[p].beside => post'[p].beside
                        /\ post[p].phase = "open" /\ ~run.dry => post'[p].beside
  <2> SUFFICES ASSUME NEW p \in Posts
               PROVE  /\ post'[p] \in SeedPosts /\ post'[p].phase = post[p].phase /\ post'[p].spot = post[p].spot
                      /\ post[p].beside => post'[p].beside
                      /\ post[p].phase = "open" /\ ~run.dry => post'[p].beside
      OBVIOUS
  <2>1. post[p] \in SeedPosts
        BY DEF SpotSeedInv, SeedTyped
  <2>2. PICK b \in BOOLEAN : b <=> (post[p].beside \/ (~run.dry /\ post[p].phase = "open"))
        OBVIOUS
  <2>3. (post[p].beside \/ (~run.dry /\ post[p].phase = "open")) \in BOOLEAN
        OBVIOUS
  <2>4. post'[p] = [post[p] EXCEPT !.beside = (post[p].beside \/ (~run.dry /\ post[p].phase = "open"))]
        BY <1>3, <2>1
  <2>5. post'[p] = [post[p] EXCEPT !.beside = b]
        BY <2>2, <2>3, <2>4
  <2> QED BY <2>1, <2>2, <2>5 DEF SeedPosts
<1>13. post' \in [Posts -> SeedPosts]
      BY <1>3, <1>12
<1>14. SeedTyped'
      BY <1>4, <1>11, <1>13 DEF SpotSeedInv, SeedTyped
<1>15. SpotsFit'
      BY <1>4 DEF SpotSeedInv, SpotsFit
<1>16. \A r \in records \union swept : r.by \in Posts
      BY DEF SpotSeedInv, SeedTyped
<1>17. StoredFit'
      BY <1>4, <1>12, <1>16 DEF SpotSeedInv, StoredFit
<1>18. \A s : There(s)' <=> There(s)
      BY <1>4 DEF There
<1>19. PostsFit'
      BY <1>9, <1>11, <1>12, <1>18 DEF SpotSeedInv, PostsFit
<1>20. SeedRunFits'
  <2>1. ~run.dry => misnamed \/ \E c \in Keys \cap Prefixed : spotId[c] # Gone
        BY <1>1 DEF SpotSeedInv, SeedRunFits
  <2> QED BY <1>4, <1>5, <1>6, <1>7, <1>9, <1>11, <2>1 DEF SeedRunFits
<1>21. SeedLosesNothing'
      BY <1>4, <1>9, <1>11, <1>12, <1>16, <1>18 DEF SpotSeedInv, SeedLosesNothing
<1> QED BY <1>14, <1>15, <1>17, <1>19, <1>20, <1>21 DEF SpotSeedInv

LEMMA TakesRowKeeps ==
  ASSUME SpotSeedInv, TakesRow
  PROVE  SpotSeedInv'
<1>1. PICK c \in run.stale : /\ spotId[c] \notin run.locked
                             /\ \A p \in Posts : post[p].phase = "open" => post[p].spot # spotId[c]
                             /\ run' = [run EXCEPT !.locked = @ \union {spotId[c]}]
      BY DEF TakesRow
<1>2. run.phase = "delete" /\ UNCHANGED <<spotId, codes, spotIds, records, post, runs, swept, misnamed>>
      BY DEF TakesRow
<1>3. run \in SeedRuns /\ c \in Keys /\ spotId[c] \in Nat
      BY DEF SpotSeedInv, SeedTyped, SeedRuns
<1>4. /\ run' \in SeedRuns /\ run'.phase = "delete" /\ run'.stale = run.stale /\ run'.dry = run.dry
      /\ run'.locked = run.locked \union {spotId[c]}
      BY <1>1, <1>2, <1>3 DEF SeedRuns
<1>5. SeedTyped'
      BY <1>2, <1>4 DEF SpotSeedInv, SeedTyped
<1>6. SpotsFit' /\ StoredFit'
      BY <1>2 DEF SpotSeedInv, SpotsFit, StoredFit
<1>7. \A s : There(s)' <=> There(s)
      BY <1>2 DEF There
<1>8. PostsFit'
      BY <1>1, <1>2, <1>4, <1>7 DEF SpotSeedInv, PostsFit
<1>9. SeedRunFits'
      BY <1>2, <1>4 DEF SpotSeedInv, SeedRunFits
<1>10. SeedLosesNothing'
      BY <1>2, <1>4, <1>7 DEF SpotSeedInv, SeedLosesNothing
<1> QED BY <1>5, <1>6, <1>8, <1>9, <1>10 DEF SpotSeedInv

(* The statement ends: the spots that are left over have a record or come from the file.    *)
LEMMA EndsDeleteKeeps ==
  ASSUME SpotSeedInv, EndsDelete
  PROVE  SpotSeedInv'
<1> DEFINE cascaded == {r \in records : r.spot \in run.locked}
<1>1. run.phase = "delete" /\ run.locked = {spotId[c] : c \in run.stale} /\ run \in SeedRuns
      BY DEF EndsDelete, SpotSeedInv, SeedTyped
<1>2. /\ spotId' = [c \in Keys |-> IF c \in run.stale THEN Gone ELSE spotId[c]]
      /\ records' = records \ cascaded /\ swept' = swept \union cascaded
      /\ run' = [run EXCEPT !.phase = "ended", !.stale = {}, !.locked = {}]
      /\ UNCHANGED <<codes, spotIds, post, runs, misnamed>>
      BY DEF EndsDelete
<1>3. /\ ~run.dry /\ run.stale \subseteq Keys \ Prefixed
      /\ \A c \in run.stale : spotId[c] # Gone
      /\ \A c \in run.stale, r \in records : r.spot = spotId[c] => post[r.by].beside
      /\ \A c \in (Keys \ Prefixed) \ run.stale : spotId[c] # Gone => \E r \in records : r.spot = spotId[c]
      BY <1>1 DEF SpotSeedInv, SeedRunFits, SeedRuns
<1>4. misnamed \/ \E k \in Keys \cap Prefixed : spotId[k] # Gone
      BY <1>1, <1>3 DEF SpotSeedInv, SeedRunFits
<1>5. /\ run' \in SeedRuns /\ run'.phase = "ended" /\ run'.stale = {} /\ run'.dry = run.dry /\ run'.locked = {}
      BY <1>1, <1>2 DEF SeedRuns
<1>6. /\ records' \subseteq records /\ records' \union swept' = records \union swept
      /\ \A r \in records' : \A c \in run.stale : r.spot # spotId[c]
      /\ \A r \in swept' : r \in swept \/ \E c \in run.stale : r \in records /\ r.spot = spotId[c]
      BY <1>1, <1>2
<1>7. \A c \in Keys : /\ c \in run.stale => spotId'[c] = Gone
                      /\ c \notin run.stale => spotId'[c] = spotId[c]
      BY <1>2
<1>8. spotId' \in [Keys -> Nat]
      BY <1>2 DEF SpotSeedInv, SeedTyped, Gone
<1> HIDE DEF cascaded
<1>9. SeedTyped'
      BY <1>2, <1>5, <1>6, <1>8 DEF SpotSeedInv, SeedTyped
<1>10. SpotsFit'
  <2>1. \A c \in Keys : spotId'[c] <= spotIds
        BY <1>7 DEF SpotSeedInv, SpotsFit, SeedTyped, Gone
  <2> QED BY <1>2, <1>7, <2>1 DEF SpotSeedInv, SpotsFit
<1>11. StoredFit'
      BY <1>2, <1>6 DEF SpotSeedInv, StoredFit
<1>12. \A s : There(s) /\ (\A c \in run.stale : s # spotId[c]) => There(s)'
      BY <1>7 DEF There
<1>13. \A p \in Posts : post[p].phase = "open" => \A c \in run.stale : post[p].spot # spotId[c]
      BY <1>1 DEF SpotSeedInv, PostsFit
<1>14. PostsFit'
      BY <1>2, <1>5, <1>12, <1>13 DEF SpotSeedInv, PostsFit
<1>15. SeedRunFits'
      BY <1>5 DEF SeedRunFits
<1>16. SeedLosesNothing'
  <2>1. \A r \in swept' : post'[r.by].beside
        BY <1>2, <1>3, <1>6 DEF SpotSeedInv, SeedLosesNothing
  <2>2. \A r \in records' : There(r.spot)'
        BY <1>6, <1>12 DEF SpotSeedInv, SeedLosesNothing
  <2>3. misnamed' \/ \E c \in Keys : spotId'[c] # Gone
        BY <1>2, <1>3, <1>4, <1>7
  <2>4. \A c \in Keys : spotId'[c] # Gone /\ codes'[c] # "valid" => \E r \in records' \union swept' : r.spot = spotId'[c]
    <3> SUFFICES ASSUME NEW c \in Keys, spotId'[c] # Gone, codes'[c] # "valid"
                 PROVE  \E r \in records' \union swept' : r.spot = spotId'[c]
        OBVIOUS
    <3>1. c \notin run.stale /\ spotId'[c] = spotId[c] /\ c \in Legacy
          BY <1>2, <1>7 DEF SpotSeedInv, SpotsFit
    <3>2. c \in Keys \ Prefixed
          BY <3>1, SpotSeedAssumption
    <3> QED BY <1>3, <1>6, <3>1, <3>2
  <2> QED BY <2>1, <2>2, <2>3, <2>4 DEF SeedLosesNothing
<1> QED BY <1>9, <1>10, <1>11, <1>14, <1>15, <1>16 DEF SpotSeedInv

LEMMA SeedKeepsOn == SpotSeedSpec => []SpotSeedInv
<1>1. SpotSeedInv /\ [SpotSeedNext]_spotSeedVars => SpotSeedInv'
  <2> SUFFICES ASSUME SpotSeedInv, [SpotSeedNext]_spotSeedVars PROVE SpotSeedInv'
      OBVIOUS
  <2>1. CASE SpotSeedNext
        BY <2>1, PostsKeep, LoadsKeeps, UpsertSpotsKeeps, BeginsKeeps, TakesRowKeeps, EndsDeleteKeeps, CleanFailsKeeps DEF SpotSeedNext
  <2>2. CASE UNCHANGED spotSeedVars
    <3>1. \A s : There(s)' <=> There(s)
          BY <2>2 DEF spotSeedVars, There
    <3>2. SeedTyped' /\ SpotsFit' /\ StoredFit' /\ PostsFit' /\ SeedRunFits' /\ SeedLosesNothing'
          BY <2>2, <3>1 DEF spotSeedVars, SpotSeedInv, SeedTyped, SpotsFit, StoredFit, PostsFit, SeedRunFits, SeedLosesNothing
    <3> QED BY <3>2 DEF SpotSeedInv
  <2> QED BY <2>1, <2>2
<1> QED BY <1>1, SeedInitially, PTL DEF SpotSeedSpec

(* Cleaning up after a new file costs nobody what he did, however the statement that        *)
(* deletes and the transactions of the users interleave, for every file, whatever the keys  *)
(* of its rows, and for any number of users and of runs; and the map keeps spots, unless no *)
(* usable row of the file has the prefix (seed-spots-csv.ts, claims.service.ts).            *)
THEOREM SeedHolds == SpotSeedSpec => []SeedLosesNothing
<1>1. SpotSeedInv => SeedLosesNothing
      BY DEF SpotSeedInv
<1> QED BY <1>1, SeedKeepsOn, PTL

(* Besides, ids are only ever given out, so that a record is of a number there was.         *)
SweptFits == runs \in 0..MaxSeeds /\ \A r \in swept : r.spot \in 1..spotIds

LEMMA IdsGrow == ASSUME SpotSeedInv, SpotSeedNext PROVE spotIds' \in Nat /\ spotIds <= spotIds'
<1>1. spotIds \in Nat
  BY DEF SpotSeedInv, SeedTyped
<1>2. CASE UNCHANGED spotIds
  BY <1>1, <1>2
<1>3. CASE UpsertSpots /\ Applies(Storable(run.file))
  <2>1. run.file \in SpotFiles
    BY <1>3 DEF UpsertSpots, SpotSeedInv, SeedRunFits
  <2> DEFINE rowKeys == {r.id : r \in Storable(run.file)}
             fresh == {c \in rowKeys : spotId[c] = Gone}
  <2>2. IsFiniteSet(fresh)
    BY <2>1, FileKeys, FS_Subset
  <2>3. spotIds' = spotIds + Cardinality(fresh)
    BY <1>3 DEF Applies
  <2> HIDE DEF fresh
  <2> QED
    BY <1>1, <2>2, <2>3, FS_CardinalityType
<1> QED
  BY <1>2, <1>3 DEF SpotSeedNext, LooksUp, InsertsRecord, EndsPost, Loads, UpsertSpots, BeginsDelete, TakesRow,
                    EndsDelete, CleanFails

LEMMA RecordsNumbered == ASSUME SpotSeedInv, NEW r \in records PROVE r.spot \in 1..spotIds
<1>1. There(r.spot) /\ r.spot # Gone
  BY DEF SpotSeedInv, SeedLosesNothing, StoredFit
<1>2. PICK c \in Keys : spotId[c] = r.spot
  BY <1>1 DEF There
<1> QED
  BY <1>1, <1>2 DEF SpotSeedInv, SeedTyped, SpotsFit, Gone

LEMMA SweptKept == ASSUME SpotSeedInv, SweptFits, SpotSeedNext PROVE SweptFits'
<1>1. spotIds \in Nat /\ spotIds' \in Nat /\ spotIds <= spotIds'
  BY IdsGrow DEF SpotSeedInv, SeedTyped
<1>2. runs' \in 0..MaxSeeds
  <2>1. runs' = runs \/ (runs < MaxSeeds /\ runs' = runs + 1)
    BY DEF SpotSeedNext, LooksUp, InsertsRecord, EndsPost, Loads, UpsertSpots, BeginsDelete, TakesRow, EndsDelete, CleanFails
  <2> QED
    BY <2>1, SpotSeedAssumption DEF SweptFits
<1>3. \A r \in swept' : r \in swept \/ r \in records
  <2>1. CASE EndsDelete
    BY <2>1 DEF EndsDelete
  <2>2. CASE UNCHANGED swept
    BY <2>2
  <2> QED
    BY <2>1, <2>2 DEF SpotSeedNext, LooksUp, InsertsRecord, EndsPost, Loads, UpsertSpots, BeginsDelete, TakesRow, CleanFails
<1>4. \A r \in swept' : r.spot \in 1..spotIds
  BY <1>3, RecordsNumbered DEF SweptFits
<1>5. \A r \in swept' : r.spot \in 1..spotIds'
  BY <1>1, <1>4
<1> QED
  BY <1>2, <1>5 DEF SweptFits

(* Spots, records and the run of the seed are always what they should be: in particular no  *)
(* two spots have one id, and every record, swept ones too, is of an id that was given out. *)
THEOREM SeedStaysTyped == SpotSeedSpec => []SpotSeedTypeOK
<1>1. SpotSeedInit => SweptFits
  BY SpotSeedAssumption DEF SpotSeedInit, SweptFits
<1>2. SpotSeedInv /\ SweptFits /\ [SpotSeedNext]_spotSeedVars => SweptFits'
  <2> SUFFICES ASSUME SpotSeedInv, SweptFits, [SpotSeedNext]_spotSeedVars PROVE SweptFits'
    OBVIOUS
  <2>1. CASE UNCHANGED spotSeedVars
    BY <2>1 DEF spotSeedVars, SweptFits
  <2> QED
    BY <2>1, SweptKept
<1>3. SpotSeedInv /\ SweptFits => SpotSeedTypeOK
  <2> SUFFICES ASSUME SpotSeedInv, SweptFits PROVE SpotSeedTypeOK
    OBVIOUS
  <2>1. spotId \in [Keys -> 0..spotIds]
    BY DEF SpotSeedInv, SeedTyped, SpotsFit
  <2>2. ASSUME NEW r \in records \union swept PROVE r \in [by : Posts, kind : RecordKinds, spot : 1..spotIds]
    <3>1. r \in [by : Posts, kind : RecordKinds, spot : Nat]
      BY DEF SpotSeedInv, SeedTyped
    <3>2. r.spot \in 1..spotIds
      BY RecordsNumbered DEF SweptFits
    <3> QED
      BY <3>1, <3>2
  <2>3. \A p \in Posts : post[p].phase \in {"idle", "found", "open", "stored", "refused"}
    BY DEF SpotSeedInv, SeedTyped, SeedPosts
  <2>4. run.phase \in {"idle", "upsert", "clean", "delete", "ended", "failed"} /\ run.stale \subseteq Keys \ Prefixed /\ misnamed \in BOOLEAN
    BY DEF SpotSeedInv, SeedTyped, SeedRuns
  <2> QED
    BY <2>1, <2>2, <2>3, <2>4 DEF SpotSeedInv, SeedTyped, SpotsFit, SweptFits, SpotSeedTypeOK
<1> QED
  BY <1>1, <1>2, <1>3, SeedKeepsOn, PTL DEF SpotSeedSpec
-----------------------------------------------------------------------------
(* DistrictBoot. *)
LEMMA SumOverIsSum == \A g, S : SumOver(g, S) = Sum(g, S)
BY DEF SumOver, Sum

LEMMA Quotient ==
  ASSUME NEW a \in Int, NEW b \in Nat \ {0}
  PROVE  /\ a \div b \in Int
         /\ b * (a \div b) <= a /\ a < b * (a \div b) + b
BY SMT

-----------------------------------------------------------------------------
(* The weights of a file. *)
LEMMA FileIsFinite ==
  ASSUME NEW f \in Releases
  PROVE  /\ Rows(f) \subseteq Codes /\ Sharing(f) \subseteq Rows(f)
         /\ IsFiniteSet(Sharing(f)) /\ Cardinality(Sharing(f)) \in Nat
         /\ Cardinality(Sharing(f)) = 0 <=> Sharing(f) = {}
<1>1. IsFiniteSet(DOMAIN f) /\ Sharing(f) \subseteq DOMAIN f
    BY DistrictBootAssumption DEF Sharing, Rows
<1>2. IsFiniteSet(Sharing(f))
    BY <1>1, FS_Subset
<1>3. Rows(f) \subseteq Codes /\ Sharing(f) \subseteq Rows(f)
    BY DEF Codes, Rows, Sharing
<1> QED
    BY <1>2, <1>3, FS_CardinalityType, FS_EmptySet

LEMMA SharesArePositive ==
  ASSUME NEW f \in Releases, NEW c \in Sharing(f)
  PROVE  ShareOf(f, c) \in Nat \ {0}
<1>1. c \in DOMAIN f
    BY DEF Sharing, Rows
<1>2. PICK n \in ForeignVisitorShare(f, c) : n > 0
    BY DEF Sharing
<1>3. ForeignVisitorShare(f, c) \subseteq Int /\ \A m \in ForeignVisitorShare(f, c) : m = n
    BY <1>1, <1>2, DistrictBootAssumption DEF ForeignVisitorShare
<1>4. ShareOf(f, c) = n
    BY <1>2, <1>3 DEF ShareOf
<1> QED
    BY <1>2, <1>3, <1>4

LEMMA ShareSumIsPositive ==
  ASSUME NEW f \in Releases
  PROVE  ShareSum(f) \in Nat /\ (Sharing(f) # {} => ShareSum(f) \in Nat \ {0})
<1> DEFINE g == [c \in Sharing(f) |-> ShareOf(f, c)]
<1>1. \A c \in Sharing(f) : g[c] \in Nat \ {0}
    BY SharesArePositive
<1>2. ShareSum(f) = Sum(g, Sharing(f))
    BY SumOverIsSum DEF ShareSum, Averaged
<1> HIDE DEF g
<1> QED
    BY <1>1, <1>2, FileIsFinite, SumIsPositive

Product(f, c) == 2 * ShareOf(f, c) * Cardinality(Sharing(f)) * Scale

(* A weight is the share against the mean, rounded to the nearest unit of the scale.       *)
LEMMA WeightIsRounded ==
  ASSUME NEW f \in Releases, NEW c \in Sharing(f)
  PROVE  /\ Weight(f, c) \in Nat /\ Product(f, c) \in Nat
         /\ 2 * ShareSum(f) * Weight(f, c) - Product(f, c) \in -ShareSum(f)..ShareSum(f)
<1> DEFINE s == ShareSum(f)
           p == Product(f, c)
           w == Weight(f, c)
<1>1. s \in Nat \ {0}
    BY ShareSumIsPositive
<1>2. p \in Nat
  <2>1. ShareOf(f, c) \in Nat /\ Cardinality(Sharing(f)) \in Nat /\ Scale \in Nat
      BY SharesArePositive, FileIsFinite, DistrictBootAssumption
  <2> QED
      BY <2>1 DEF Product
<1>3. w = (p + s) \div (2 * s)
    BY DEF Weight, Product, Averaged
<1> HIDE DEF s, p, w
<1>4. p + s \in Int /\ 2 * s \in Nat \ {0}
    BY <1>1, <1>2
<1>5. w \in Int /\ (2 * s) * w <= p + s /\ p + s < (2 * s) * w + 2 * s
    BY <1>3, <1>4, Quotient
<1>6. w >= 0
    BY <1>1, <1>2, <1>5
<1>7. 2 * s * w - p \in -s..s
    BY <1>1, <1>2, <1>5
<1> QED
    BY <1>2, <1>5, <1>6, <1>7 DEF s, p, w

LEMMA WeightIsNat ==
  ASSUME NEW f \in Releases, NEW c \in Rows(f)
  PROVE  Weight(f, c) \in Nat
BY WeightIsRounded, DistrictBootAssumption DEF Weight

(* A greater share never weighs less. *)
LEMMA WeightIsMonotone ==
  ASSUME NEW f \in Releases, NEW c \in Sharing(f), NEW d \in Sharing(f), ShareOf(f, c) >= ShareOf(f, d)
  PROVE  Weight(f, c) >= Weight(f, d)
<1> DEFINE s == ShareSum(f)
           k == 2 * Cardinality(Sharing(f)) * Scale
           x == Weight(f, c)
           y == Weight(f, d)
<1>1. s \in Nat \ {0}
    BY ShareSumIsPositive
<1>2. ShareOf(f, c) \in Nat /\ ShareOf(f, d) \in Nat /\ k \in Nat
    BY SharesArePositive, FileIsFinite, DistrictBootAssumption
<1>3. Product(f, c) = ShareOf(f, c) * k /\ Product(f, d) = ShareOf(f, d) * k
    BY <1>2, SharesArePositive, FileIsFinite, DistrictBootAssumption DEF Product
<1> HIDE DEF k
<1>4. Product(f, c) >= Product(f, d)
    BY <1>2, <1>3
<1>5. x = (Product(f, c) + s) \div (2 * s) /\ y = (Product(f, d) + s) \div (2 * s)
    BY DEF Weight, Product, Averaged
<1>6. Product(f, c) \in Nat /\ Product(f, d) \in Nat
    BY WeightIsRounded
<1> HIDE DEF s, x, y
<1>7. Product(f, c) + s \in Int /\ Product(f, d) + s \in Int /\ 2 * s \in Nat \ {0}
    BY <1>1, <1>6
<1>8. /\ x \in Int /\ (2 * s) * x <= Product(f, c) + s /\ Product(f, c) + s < (2 * s) * x + 2 * s
      /\ y \in Int /\ (2 * s) * y <= Product(f, d) + s /\ Product(f, d) + s < (2 * s) * y + 2 * s
    BY <1>5, <1>7, Quotient
<1>9. (2 * s) * y < (2 * s) * (x + 1)
    BY <1>1, <1>4, <1>6, <1>8
<1>10. y < x + 1
    BY <1>1, <1>8, <1>9
<1> QED
    BY <1>8, <1>10 DEF x, y

(* Those with a share weigh one on the average, up to the rounding. *)
LEMMA WeightsAverageOne ==
  ASSUME NEW f \in Releases, NEW w, \A c \in Sharing(f) : w[c] = Weight(f, c)
  PROVE  LET n == Cardinality(Sharing(f))
         IN  Sum(w, Sharing(f)) \in n * Scale - n..n * Scale + n
<1> DEFINE S == Sharing(f)
           n == Cardinality(S)
           g == [c \in S |-> ShareOf(f, c)]
           s == ShareSum(f)
           b == 2 * n * Scale
           t == Sum(w, S)
<1>1. IsFiniteSet(S) /\ n \in Nat /\ b \in Nat /\ s \in Nat /\ Scale \in Nat
    BY FileIsFinite, ShareSumIsPositive, DistrictBootAssumption
<1>2. s = Sum(g, S)
    BY SumOverIsSum DEF ShareSum, Averaged
<1>3. ASSUME NEW c \in S
      PROVE  g[c] \in Int /\ w[c] \in Int /\ (2 * s) * w[c] - b * g[c] \in -s..s
  <2>1. ShareOf(f, c) \in Nat /\ Weight(f, c) \in Nat /\ 2 * s * Weight(f, c) - Product(f, c) \in -s..s
      BY SharesArePositive, WeightIsRounded
  <2>2. Product(f, c) = b * ShareOf(f, c)
      BY <2>1, <1>1 DEF Product
  <2>3. g[c] = ShareOf(f, c) /\ w[c] = Weight(f, c)
      OBVIOUS
  <2> QED
      BY <2>1, <2>2, <2>3
<1>4. CASE S = {}
  <2>1. n = 0
      BY <1>4, FS_EmptySet
  <2>2. t = 0
    <3>1. t = Added(w, Iterated(w, S), S)
        BY <1>1, IteratedAdds, SumIsIterated
    <3> QED
        BY <3>1, <1>4 DEF Added
  <2> QED
      BY <2>1, <2>2, <1>1
<1>5. CASE S # {}
  <2>1. s \in Nat \ {0}
      BY <1>5, ShareSumIsPositive
  <2> HIDE DEF S, n, g, s, b, t
  <2>2. 2 * s \in Int /\ b \in Int /\ s \in Int /\ IsFiniteSet(S)
      BY <1>1
  <2>10. /\ \A x \in S : g[x] \in Int /\ w[x] \in Int
         /\ \A x \in S : (2 * s) * w[x] - b * g[x] \in -s..s
      BY <1>3
  <2>3. /\ Sum(g, S) \in Int /\ Sum(w, S) \in Int
        /\ (2 * s) * Sum(w, S) - b * Sum(g, S) \in -(s * Cardinality(S))..s * Cardinality(S)
      BY <2>2, <2>10, SumsAreClose
  <2>4. t \in Int /\ (2 * s) * t - b * s \in -(s * n)..s * n
      BY <2>3, <1>2 DEF t, n
  <2>5. b = 2 * (n * Scale)
      BY <1>1 DEF b
  <2> DEFINE m == n * Scale
  <2>6. m \in Int
      BY <1>1
  <2> HIDE DEF m
  <2>7. s * (2 * t - 2 * m) <= s * n /\ s * (-n) <= s * (2 * t - 2 * m)
      BY <2>1, <2>4, <2>5, <2>6, <1>1 DEF m
  <2>8. 2 * t - 2 * m <= n /\ -n <= 2 * t - 2 * m
      BY <2>1, <2>4, <2>6, <2>7, <1>1
  <2>9. t \in m - n..m + n
      BY <2>4, <2>6, <2>8, <1>1
  <2> QED
      BY <2>9 DEF m, n, t, S
<1> QED
    BY <1>4, <1>5
-----------------------------------------------------------------------------
(* The state: who is about to load has stored its file, and the table says so as long as   *)
(* nobody else has stored one since; who serves has taken its weights from there.          *)
RowsStored(f, weights) == \A c \in Rows(f) : weights[c] # NoWeight
OwnWeights(f, weights) == \A c \in Rows(f) : weights[c] = Weight(f, c)

BootFits(s) ==
  /\ server[s].phase # "down" => server[s].file \in Releases
  /\ server[s].phase = "load" => /\ RowsStored(server[s].file, scoreWeight)
                                 /\ seeder = s => OwnWeights(server[s].file, scoreWeight)
  /\ server[s].phase = "serves" => /\ RowsStored(server[s].file, server[s].weights)
                                   /\ server[s].own => OwnWeights(server[s].file, server[s].weights)

ServerRecord == [phase : {"down", "seed", "load", "serves"}, file : Releases \union {<<>>},
                 weights : [Codes -> Nat \union {NoWeight}], own : BOOLEAN]

BootInv == /\ DistrictBootTypeOK /\ server \in [Servers -> ServerRecord]
           /\ \A s \in Servers : BootFits(s)

LEMMA DownIsRecord == Down \in ServerRecord /\ Down.phase = "down"
BY DEF Down, ServerRecord

LEMMA BootInitially == DistrictBootInit => BootInv
<1> SUFFICES ASSUME DistrictBootInit PROVE BootInv
    OBVIOUS
<1>1. server \in [Servers -> ServerRecord] /\ \A s \in Servers : server[s].phase = "down"
    BY DownIsRecord DEF DistrictBootInit
<1>2. DistrictBootTypeOK
    BY <1>1, DistrictBootAssumption DEF DistrictBootInit, DistrictBootTypeOK, ServerRecord
<1> QED
    BY <1>1, <1>2 DEF BootInv, BootFits

(* The types of a step that changes one server. *)
LEMMA OneServer ==
  ASSUME BootInv, NEW s \in Servers, NEW r \in ServerRecord, server' = [server EXCEPT ![s] = r]
  PROVE  /\ server' \in [Servers -> ServerRecord]
         /\ server'[s] = r /\ \A o \in Servers \ {s} : server'[o] = server[o]
BY DEF BootInv

LEMMA BootTyped ==
  ASSUME server' \in [Servers -> ServerRecord], scoreWeight' \in [Codes -> Nat \union {NoWeight}],
         seeder' \in Servers \union {Nobody}, boots' \in 0..MaxBoots
  PROVE  DistrictBootTypeOK'
BY DEF DistrictBootTypeOK, ServerRecord

LEMMA BootsKeep == ASSUME BootInv, NEW s \in Servers, Boots(s) PROVE BootInv'
<1>1. PICK f \in Releases : server' = [server EXCEPT ![s] = [Down EXCEPT !.phase = "seed", !.file = f]]
    BY DEF Boots
<1> DEFINE r == [Down EXCEPT !.phase = "seed", !.file = f]
<1>2. r \in ServerRecord /\ r.phase = "seed" /\ r.file = f
    BY DEF Down, ServerRecord
<1> HIDE DEF r
<1>3. /\ server' \in [Servers -> ServerRecord]
      /\ server'[s] = r /\ \A o \in Servers \ {s} : server'[o] = server[o]
    BY <1>1, <1>2, OneServer DEF r
<1>4. scoreWeight' = scoreWeight /\ seeder' = seeder /\ boots' \in 0..MaxBoots
    BY DistrictBootAssumption DEF Boots, BootInv, DistrictBootTypeOK
<1>5. DistrictBootTypeOK'
    BY <1>3, <1>4, BootTyped DEF BootInv, DistrictBootTypeOK
<1>6. \A o \in Servers : BootFits(o)'
    BY <1>2, <1>3, <1>4 DEF BootInv, BootFits
<1> QED
    BY <1>3, <1>5, <1>6 DEF BootInv

LEMMA SeedFromCsvKeeps == ASSUME BootInv, NEW s \in Servers, SeedFromCsv(s) PROVE BootInv'
<1> DEFINE f == server[s].file
           r == [server[s] EXCEPT !.phase = "load"]
<1>1. server[s] \in ServerRecord /\ f \in Releases /\ Rows(f) \subseteq Codes
    BY FileIsFinite DEF BootInv, BootFits, SeedFromCsv
<1>2. r \in ServerRecord /\ r.phase = "load" /\ r.file = f
    BY <1>1 DEF ServerRecord
<1>3. server' = [server EXCEPT ![s] = r]
    BY DEF SeedFromCsv
<1> HIDE DEF r
<1>4. /\ server' \in [Servers -> ServerRecord]
      /\ server'[s] = r /\ \A o \in Servers \ {s} : server'[o] = server[o]
    BY <1>2, <1>3, OneServer
<1>5. /\ scoreWeight' = [c \in Codes |-> IF c \in Rows(f) THEN Weight(f, c) ELSE scoreWeight[c]]
      /\ seeder' = IF Rows(f) = {} THEN seeder ELSE s
      /\ boots' = boots
    BY DEF SeedFromCsv
<1> HIDE DEF f
<1>6. \A c \in Rows(f) : Weight(f, c) \in Nat
    BY <1>1, WeightIsNat
<1>7. scoreWeight \in [Codes -> Nat \union {NoWeight}] /\ seeder \in Servers \union {Nobody} /\ boots \in 0..MaxBoots
    BY DEF BootInv, DistrictBootTypeOK
<1>8. scoreWeight' \in [Codes -> Nat \union {NoWeight}]
    BY <1>5, <1>6, <1>7
<1>9. DistrictBootTypeOK'
    BY <1>4, <1>5, <1>7, <1>8, BootTyped
<1>10. \A c \in Codes : scoreWeight[c] # NoWeight => scoreWeight'[c] # NoWeight
    BY <1>5, <1>6 DEF NoWeight
<1>11. BootFits(s)'
  <2>1. \A c \in Rows(f) : scoreWeight'[c] = Weight(f, c) /\ Weight(f, c) # NoWeight
      BY <1>1, <1>5, <1>6 DEF NoWeight
  <2> QED
      BY <2>1, <1>1, <1>2, <1>4 DEF BootFits, RowsStored, OwnWeights
<1>12. ASSUME NEW o \in Servers \ {s} PROVE BootFits(o)'
  <2>1. BootFits(o) /\ server'[o] = server[o]
      BY <1>4 DEF BootInv
  <2>2. CASE server[o].phase = "load"
    <3>1. server[o].file \in Releases /\ Rows(server[o].file) \subseteq Codes
        BY <2>1, <2>2, FileIsFinite DEF BootFits
    <3>2. RowsStored(server[o].file, scoreWeight')
        BY <2>1, <2>2, <3>1, <1>10 DEF BootFits, RowsStored
    <3>3. ASSUME seeder' = o PROVE OwnWeights(server[o].file, scoreWeight')
      <4>1. seeder = o /\ Rows(f) = {}
          BY <3>3, <1>5
      <4>2. \A c \in Codes : scoreWeight'[c] = scoreWeight[c]
          BY <4>1, <1>5
      <4> QED
          BY <2>1, <2>2, <3>1, <4>1, <4>2 DEF BootFits, OwnWeights
    <3> QED
        BY <2>1, <2>2, <3>1, <3>2, <3>3 DEF BootFits
  <2>3. CASE server[o].phase # "load"
      BY <2>1, <2>3 DEF BootFits
  <2> QED
      BY <2>2, <2>3
<1> QED
    BY <1>4, <1>9, <1>11, <1>12 DEF BootInv

LEMMA LoadCacheKeeps == ASSUME BootInv, NEW s \in Servers, LoadWeightCache(s) PROVE BootInv'
<1> DEFINE t == [server[s] EXCEPT !.phase = "serves", !.weights = scoreWeight, !.own = seeder = s]
           r == IF \A c \in Codes : scoreWeight[c] = NoWeight THEN Down ELSE t
<1>1. server[s] \in ServerRecord /\ BootFits(s) /\ server[s].phase = "load"
    BY DEF BootInv, LoadWeightCache
<1>2. scoreWeight \in [Codes -> Nat \union {NoWeight}]
    BY DEF BootInv, DistrictBootTypeOK
<1>3. /\ t \in ServerRecord /\ t.phase = "serves" /\ t.file = server[s].file
      /\ t.weights = scoreWeight /\ t.own = (seeder = s)
    BY <1>1, <1>2 DEF ServerRecord
<1>4. server' = [server EXCEPT ![s] = r]
    BY DEF LoadWeightCache
<1> HIDE DEF t
<1>5. r \in ServerRecord /\ (r = Down \/ r = t)
    BY <1>3, DownIsRecord
<1> HIDE DEF r
<1>6. /\ server' \in [Servers -> ServerRecord]
      /\ server'[s] = r /\ \A o \in Servers \ {s} : server'[o] = server[o]
    BY <1>4, <1>5, OneServer
<1>7. scoreWeight' = scoreWeight /\ seeder' = seeder /\ boots' = boots
    BY DEF LoadWeightCache
<1>8. DistrictBootTypeOK'
    BY <1>6, <1>7, BootTyped DEF BootInv, DistrictBootTypeOK
<1>9. BootFits(s)'
    BY <1>1, <1>3, <1>5, <1>6, <1>7, DownIsRecord DEF BootFits
<1>10. \A o \in Servers \ {s} : BootFits(o)'
    BY <1>6, <1>7 DEF BootInv, BootFits
<1> QED
    BY <1>6, <1>8, <1>9, <1>10 DEF BootInv

LEMMA EndsKeep == ASSUME BootInv, NEW s \in Servers, Ends(s) PROVE BootInv'
<1>1. /\ server' \in [Servers -> ServerRecord]
      /\ server'[s] = Down /\ \A o \in Servers \ {s} : server'[o] = server[o]
    BY OneServer, DownIsRecord DEF Ends
<1>2. scoreWeight' = scoreWeight /\ seeder' = seeder /\ boots' = boots
    BY DEF Ends
<1>3. DistrictBootTypeOK'
    BY <1>1, <1>2, BootTyped DEF BootInv, DistrictBootTypeOK
<1>4. \A o \in Servers : BootFits(o)'
    BY <1>1, <1>2, DownIsRecord DEF BootInv, BootFits
<1> QED
    BY <1>1, <1>3, <1>4 DEF BootInv

LEMMA BootHolds == DistrictBootSpec => []BootInv
<1>1. BootInv /\ [DistrictBootNext]_districtBootVars => BootInv'
  <2> SUFFICES ASSUME BootInv, [DistrictBootNext]_districtBootVars PROVE BootInv'
      OBVIOUS
  <2>1. CASE DistrictBootNext
      BY <2>1, BootsKeep, SeedFromCsvKeeps, LoadCacheKeeps, EndsKeep DEF DistrictBootNext
  <2>2. CASE UNCHANGED districtBootVars
      BY <2>2 DEF districtBootVars, BootInv, DistrictBootTypeOK, BootFits
  <2> QED
      BY <2>1, <2>2
<1> QED
    BY <1>1, BootInitially, PTL DEF DistrictBootSpec

LEMMA FairByInv == BootInv => ServesFairWeights
<1> SUFFICES ASSUME BootInv, NEW s \in Servers, server[s].phase = "serves"
             PROVE  LET f == server[s].file
                    IN  /\ \A c \in Rows(f) : server[s].weights[c] # NoWeight
                        /\ server[s].own =>
                             LET total == Sum([c \in Sharing(f) |-> GetWeight(s, c)], Sharing(f))
                                 n == Cardinality(Sharing(f))
                             IN  /\ total \in n * Scale - n..n * Scale + n
                                 /\ \A c \in Rows(f) \ Sharing(f) : GetWeight(s, c) = Scale
                                 /\ \A c, d \in Sharing(f) : ShareOf(f, c) >= ShareOf(f, d) => GetWeight(s, c) >= GetWeight(s, d)
    BY SumOverIsSum DEF ServesFairWeights
<1> DEFINE f == server[s].file
           w == [c \in Sharing(f) |-> GetWeight(s, c)]
<1>1. f \in Releases /\ \A c \in Rows(f) : server[s].weights[c] # NoWeight
    BY DEF BootInv, BootFits, RowsStored
<1>2. ASSUME server[s].own PROVE \A c \in Rows(f) : GetWeight(s, c) = Weight(f, c)
    BY <1>1, <1>2 DEF BootInv, BootFits, OwnWeights, GetWeight
<1> HIDE DEF f
<1>3. Sharing(f) \subseteq Rows(f)
    BY DEF Sharing
<1>4. ASSUME server[s].own
      PROVE  Sum(w, Sharing(f)) \in Cardinality(Sharing(f)) * Scale - Cardinality(Sharing(f))
                                        ..Cardinality(Sharing(f)) * Scale + Cardinality(Sharing(f))
  <2>1. \A c \in Sharing(f) : w[c] = Weight(f, c)
      BY <1>2, <1>3, <1>4
  <2> HIDE DEF w
  <2> QED
      BY <2>1, <1>1, WeightsAverageOne
<1>5. ASSUME server[s].own, NEW c \in Rows(f) \ Sharing(f) PROVE GetWeight(s, c) = Scale
    BY <1>2, <1>5 DEF Weight
<1>6. ASSUME server[s].own, NEW c \in Sharing(f), NEW d \in Sharing(f), ShareOf(f, c) >= ShareOf(f, d)
      PROVE  GetWeight(s, c) >= GetWeight(s, d)
    BY <1>1, <1>2, <1>3, <1>6, WeightIsMonotone
<1> QED
    BY <1>1, <1>4, <1>5, <1>6 DEF f

THEOREM WeightsAreFair == DistrictBootSpec => []ServesFairWeights
<1> QED
    BY BootHolds, FairByInv, PTL

(* The weights of the table and of every server stay numbers, and none is stored or served  *)
(* that is not.                                                                             *)
THEOREM BootStaysTyped == DistrictBootSpec => []DistrictBootTypeOK
<1>1. BootInv => DistrictBootTypeOK
    BY DEF BootInv
<1> QED
    BY <1>1, BootHolds, PTL

-----------------------------------------------------------------------------
(* The components side by side.  The model that is run moves one of them and leaves the    *)
(* others alone, so that every step of it is a step of each component or a stutter, and    *)
(* whatever was shown of a component above holds in it.                                    *)
Foci == {"visits", "capital", "accounts", "rankings", "festivals", "seed", "boot"}

LEMMA VisitsAsComponent == ServicesSpec => VisitsSpec
<1>1. ServicesInit => VisitsInit
  BY DEF ServicesInit
<1>2. [ServicesNext]_servicesVars => [VisitsNext]_visitVars
  BY DEF ServicesNext, servicesVars
<1> QED
  BY <1>1, <1>2, PTL DEF ServicesSpec, VisitsSpec

LEMMA CapitalAsComponent == ServicesSpec => CapitalSpec
<1>1. ServicesInit => CapitalInit
  BY DEF ServicesInit
<1>2. [ServicesNext]_servicesVars => [CapitalNext]_capitalVars
  BY DEF ServicesNext, servicesVars
<1> QED
  BY <1>1, <1>2, PTL DEF ServicesSpec, CapitalSpec

LEMMA AccountsAsComponent == ServicesSpec => AccountsSpec
<1>1. ServicesInit => AccountsInit
  BY DEF ServicesInit
<1>2. [ServicesNext]_servicesVars => [AccountsNext]_accountsVars
  BY DEF ServicesNext, servicesVars
<1> QED
  BY <1>1, <1>2, PTL DEF ServicesSpec, AccountsSpec

LEMMA RankingsAsComponent == ServicesSpec => RankingsSpec
<1>1. ServicesInit => RankingsInit
  BY DEF ServicesInit
<1>2. [ServicesNext]_servicesVars => [RankingsNext]_rankingsVars
  BY DEF ServicesNext, servicesVars
<1> QED
  BY <1>1, <1>2, PTL DEF ServicesSpec, RankingsSpec

LEMMA FestivalsAsComponent == ServicesSpec => FestivalsSpec
<1>1. ServicesInit => FestivalsInit
  BY DEF ServicesInit
<1>2. [ServicesNext]_servicesVars => [FestivalsNext]_festivalsVars
  BY DEF ServicesNext, servicesVars
<1> QED
  BY <1>1, <1>2, PTL DEF ServicesSpec, FestivalsSpec

LEMMA SpotSeedAsComponent == ServicesSpec => SpotSeedSpec
<1>1. ServicesInit => SpotSeedInit
  BY DEF ServicesInit
<1>2. [ServicesNext]_servicesVars => [SpotSeedNext]_spotSeedVars
  BY DEF ServicesNext, servicesVars
<1> QED
  BY <1>1, <1>2, PTL DEF ServicesSpec, SpotSeedSpec

LEMMA DistrictBootAsComponent == ServicesSpec => DistrictBootSpec
<1>1. ServicesInit => DistrictBootInit
  BY DEF ServicesInit
<1>2. [ServicesNext]_servicesVars => [DistrictBootNext]_districtBootVars
  BY DEF ServicesNext, servicesVars
<1> QED
  BY <1>1, <1>2, PTL DEF ServicesSpec, DistrictBootSpec

(* What runs side by side behaves as each component by itself: a step of Services is a step *)
(* of the one in focus and leaves the others as they are.                                   *)
THEOREM ServicesCompose ==
  ServicesSpec => /\ VisitsSpec /\ CapitalSpec /\ AccountsSpec /\ RankingsSpec /\ FestivalsSpec
                  /\ SpotSeedSpec /\ DistrictBootSpec
<1> QED
  BY VisitsAsComponent, CapitalAsComponent, AccountsAsComponent, RankingsAsComponent, FestivalsAsComponent, SpotSeedAsComponent, DistrictBootAsComponent

(* So everything that was shown of a component holds of all of them together.               *)
THEOREM ServicesHold ==
  ServicesSpec => /\ [](OncePerDay /\ FailedVisitLeavesNothing /\ CapitalIsDesignated /\ AccountsAgree)
                  /\ [](CachedRankingHolds /\ FestivalsAreKept /\ SeedLosesNothing /\ ServesFairWeights)
                  /\ CapitalNotHidden /\ EarnedDefenceStays
<1>1. VisitsSpec => []OncePerDay /\ []FailedVisitLeavesNothing /\ EarnedDefenceStays
  BY VisitsHold, NothingIsLeftBehind, DefenceIsKept
<1>2. CapitalSpec => []CapitalIsDesignated /\ CapitalNotHidden
  BY CapitalHolds, CapitalStaysVisible
<1>3. (AccountsSpec => []AccountsAgree) /\ (RankingsSpec => []CachedRankingHolds)
  BY AccountsHold, RankingsHold
<1>4. (FestivalsSpec => []FestivalsAreKept) /\ (SpotSeedSpec => []SeedLosesNothing)
  BY FestivalsKept, SeedHolds
<1>5. DistrictBootSpec => []ServesFairWeights
  BY WeightsAreFair
<1> QED
  BY <1>1, <1>2, <1>3, <1>4, <1>5, ServicesCompose, PTL

(* And the component that moves keeps its types.                                            *)
THEOREM ServicesTyped == ServicesSpec => []ServicesTypeOK
<1>1. ServicesSpec => [](focus \in Foci)
  <2>1. ServicesInit => focus \in Foci
    BY DEF ServicesInit, Foci
  <2>2. focus \in Foci /\ [ServicesNext]_servicesVars => (focus \in Foci)'
    BY DEF ServicesNext, servicesVars
  <2> QED
    BY <2>1, <2>2, PTL DEF ServicesSpec
<1>2. /\ focus \in Foci /\ VisitsTypeOK /\ CapitalTypeOK /\ AccountsTypeOK /\ RankingsTypeOK /\ FestivalsTypeOK
      /\ SpotSeedTypeOK /\ DistrictBootTypeOK
      => ServicesTypeOK
  BY DEF Foci, ServicesTypeOK
<1> QED
  BY <1>1, <1>2, ServicesCompose, VisitsTyped, CapitalTyped, AccountsStayTyped, RankingsStayTyped, FestivalsStayTyped,
     SeedStaysTyped, BootStaysTyped, PTL
=============================================================================
