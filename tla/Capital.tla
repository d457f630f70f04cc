------------------------------ MODULE Capital -------------------------------
(***************************************************************************)
(* The weekly capital (districts/districts.service.ts): a job, its         *)
(* retries, and every process that boots designate the capital of the      *)
(* week, in a table whose weekStart is unique; whoever claims a spot reads *)
(* it through a cache in Redis, one key a week.                            *)
(*                                                                         *)
(* The cache is best effort: a call that does not answer in time counts as *)
(* a miss, and a write that was given up may still be carried out later    *)
(* (common/utils/redis-cache.util.ts).                                     *)
(***************************************************************************)
EXTENDS Integers, FiniteSets

CONSTANTS
  Districts,   \* those with a spot that has coordinates
  Workers,     \* designations and reads in flight
  MaxWeek      \* weeks that begin

Undesignated == "none"
CAPITAL_NONE == "-"

ASSUME CapitalAssumption ==
  /\ Districts # {} /\ {Undesignated, CAPITAL_NONE} \intersect Districts = {}
  /\ MaxWeek \in Nat

Weeks == 0..MaxWeek

VARIABLES
  week,      \* the present week, by startOfKstWeek
  capital,   \* rows of capital_designations by week
  cache,     \* the key of each week
  late,      \* writes that were given up and are still on their way
  worker,    \* designations and reads
  overdue    \* history: weeks designated after they had ended

capitalVars == <<week, capital, cache, late, worker, overdue>>

Resting == [phase |-> "idle", week |-> 0, value |-> Undesignated]

CapitalInit ==
  /\ week = 0 /\ late = {} /\ overdue = {}
  /\ capital = [w \in Weeks |-> Undesignated] /\ cache = [w \in Weeks |-> Undesignated]
  /\ worker = [p \in Workers |-> Resting]

Becomes(p, phase, value) ==
  worker' = [worker EXCEPT ![p].phase = phase, ![p].value = value]
Leaves(p) == worker' = [worker EXCEPT ![p] = Resting]

(* The key of a week names the week: a key of the present capital alone would outlive it. *)
CacheKey(w) == w

(* SET, and SET NX for the sentinel that says "no capital yet". *)
PlainSet(c, w, value) == [c EXCEPT ![CacheKey(w)] = value]
Stored(c, w, value) ==
  IF value = CAPITAL_NONE /\ c[CacheKey(w)] # Undesignated THEN c ELSE [c EXCEPT ![CacheKey(w)] = value]

(* A write is carried out, lost, or given up and carried out later. *)
WriteCache(w, value) ==
  \/ cache' = Stored(cache, w, value) /\ UNCHANGED late
  \/ UNCHANGED <<cache, late>>
  \/ late' = late \union {<<w, value>>} /\ UNCHANGED cache

LateWrite ==
  \E d \in late :
    /\ cache' = Stored(cache, d[1], d[2])
    /\ late' = late \ {d}
    /\ UNCHANGED <<week, capital, worker, overdue>>

-----------------------------------------------------------------------------
(* designateWeeklyCapital: by the job of Monday, its retries, and at every boot. *)

DesignateBegin(p) ==
  /\ worker[p].phase = "idle"
  /\ worker' = [worker EXCEPT ![p] = [phase |-> "find", week |-> week, value |-> Undesignated]]
  /\ UNCHANGED <<week, capital, cache, late, overdue>>

(* A week that has its row is only cached again. *)
DesignateFind(p) ==
  /\ worker[p].phase = "find"
  /\ LET row == capital[worker[p].week]
     IN  IF row # Undesignated THEN Becomes(p, "cache", row) ELSE Becomes(p, "pick", Undesignated)
  /\ UNCHANGED <<week, capital, cache, late, overdue>>

(* Any district but the capital of the week before; that one too if there is no other. *)
Previous(w) == IF w = 0 THEN Undesignated ELSE capital[w - 1]
Candidates(w) ==
  IF Districts \ {Previous(w)} = {} THEN Districts ELSE Districts \ {Previous(w)}

DesignatePick(p) ==
  /\ worker[p].phase = "pick"
  /\ \E d \in Candidates(worker[p].week) : Becomes(p, "insert", d)
  /\ UNCHANGED <<week, capital, cache, late, overdue>>

(* The unique column decides who designates; the others take over the row that is there. *)
KeepsOwn(p) == worker[p].value
Confirmed(p) == capital[worker[p].week]
DesignateInsert(p) ==
  /\ worker[p].phase = "insert"
  /\ LET w == worker[p].week
     IN  IF capital[w] = Undesignated
           THEN /\ capital' = [capital EXCEPT ![w] = worker[p].value]
                /\ overdue' = IF w < week THEN overdue \union {w} ELSE overdue
                /\ Becomes(p, "cache", worker[p].value)
           ELSE Becomes(p, "cache", Confirmed(p)) /\ UNCHANGED <<capital, overdue>>
  /\ UNCHANGED <<week, cache, late>>

WriteBack(p) ==
  /\ worker[p].phase = "cache"
  /\ WriteCache(worker[p].week, worker[p].value)
  /\ Leaves(p)
  /\ UNCHANGED <<week, capital, overdue>>

-----------------------------------------------------------------------------
(* getCurrentCapital, for the multiplier of a claim. *)

(* The cache answers, or it misses, or its answer does not come in time. *)
ReadBegin(p) ==
  /\ worker[p].phase = "idle"
  /\ LET cached == cache[CacheKey(week)]
     IN  \/ /\ cached # Undesignated
            /\ worker' = [worker EXCEPT ![p] =
                 [phase |-> "answer", week |-> week,
                  value |-> IF cached = CAPITAL_NONE THEN Undesignated ELSE cached]]
         \/ worker' = [worker EXCEPT ![p] = [phase |-> "miss", week |-> week, value |-> Undesignated]]
  /\ UNCHANGED <<week, capital, cache, late, overdue>>

ReadLedger(p) ==
  /\ worker[p].phase = "miss"
  /\ LET row == capital[worker[p].week]
     IN  Becomes(p, "cache", IF row = Undesignated THEN CAPITAL_NONE ELSE row)
  /\ UNCHANGED <<week, capital, cache, late, overdue>>

ReadAnswer(p) ==
  /\ worker[p].phase = "answer"
  /\ Leaves(p)
  /\ UNCHANGED <<week, capital, cache, late, overdue>>

-----------------------------------------------------------------------------
NextWeek ==
  /\ week < MaxWeek
  /\ week' = week + 1
  /\ UNCHANGED <<capital, cache, late, worker, overdue>>

(* The sentinel lapses after a minute, a capital only after its week. *)
CapitalLapses ==
  \E w \in Weeks :
    /\ cache[w] = CAPITAL_NONE \/ (cache[w] # Undesignated /\ w < week)
    /\ cache' = [cache EXCEPT ![w] = Undesignated]
    /\ UNCHANGED <<week, capital, late, worker, overdue>>

(* A query fails or the process dies: the job is tried again, a boot goes on without. *)
Abandon(p) ==
  /\ worker[p].phase # "idle"
  /\ Leaves(p)
  /\ UNCHANGED <<week, capital, cache, late, overdue>>

CapitalNext ==
  \/ \E p \in Workers : \/ DesignateBegin(p) \/ DesignateFind(p) \/ DesignatePick(p)
                        \/ DesignateInsert(p) \/ WriteBack(p)
                        \/ ReadBegin(p) \/ ReadLedger(p) \/ ReadAnswer(p) \/ Abandon(p)
  \/ LateWrite \/ NextWeek \/ CapitalLapses

CapitalSpec == CapitalInit /\ [][CapitalNext]_capitalVars

-----------------------------------------------------------------------------
CapitalTypeOK ==
  /\ week \in Weeks /\ overdue \subseteq Weeks
  /\ capital \in [Weeks -> Districts \union {Undesignated}]
  /\ cache \in [Weeks -> Districts \union {Undesignated, CAPITAL_NONE}]
  /\ late \subseteq Weeks \X (Districts \union {CAPITAL_NONE})
  /\ worker \in [Workers -> [phase : {"idle", "find", "pick", "insert", "cache", "miss", "answer"},
                             week : Weeks, value : Districts \union {Undesignated, CAPITAL_NONE}]]

(* The cache holds no capital that the table does not have, whoever lost the race for the *)
(* week and however late a write arrives, and nobody is answered one: no phantom capital. *)
NoPhantomCapital ==
  /\ \A w \in Weeks : cache[w] \in Districts => cache[w] = capital[w]
  /\ \A p \in Workers : worker[p].phase \in {"cache", "answer"} /\ worker[p].value \in Districts
                        => worker[p].value = capital[worker[p].week]

(* While its week lasts, a cached capital is not hidden by a reader's "no capital yet"    *)
(* that was read before the designation and arrives after it.                             *)
CapitalNotHidden ==
  [][\A w \in Weeks : w = week /\ cache[w] \in Districts => cache'[w] = cache[w]]_capitalVars

(* No district is capital two weeks in a row while there is another candidate, except     *)
(* when the first of the two weeks was designated after it had ended.                     *)
NoTwoWeeksRunning ==
  \A w \in Weeks \ {0} :
    capital[w] # Undesignated /\ capital[w] = capital[w - 1]
      => w - 1 \in overdue \/ Cardinality(Districts) = 1

(* The capital everybody sees is the one that was designated, by the rules.               *)
CapitalIsDesignated == NoPhantomCapital /\ NoTwoWeeksRunning
=============================================================================
