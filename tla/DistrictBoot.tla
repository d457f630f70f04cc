---------------------------- MODULE DistrictBoot ----------------------------
(***************************************************************************)
(* What a server does with the districts before it serves (districts/      *)
(* districts.service.ts, onModuleInit): it stores the file it was built    *)
(* with in the table that all servers share, and loads the weight of every *)
(* district from that table into its own memory, where it stays until the  *)
(* server ends.  During a deployment servers with different files boot and *)
(* serve beside each other.                                                *)
(***************************************************************************)
EXTENDS Integers, FiniteSets, FiniteSetsExt

CONSTANTS
  Releases,   \* files: functions from the districts they name to rows
  Servers,
  Scale,      \* a weight of 1: weights have four decimals
  MaxBoots

(* A row: whether it has all its columns, and its share of visitors, if the column holds  *)
(* a number: a set of at most one.                                                        *)
Codes == UNION {DOMAIN f : f \in Releases}
ASSUME DistrictBootAssumption ==
  /\ \A f \in Releases : IsFiniteSet(DOMAIN f) /\ \A c \in DOMAIN f :
       f[c].full \in BOOLEAN /\ f[c].share \subseteq Int /\ \A m, n \in f[c].share : m = n
  /\ Scale \in Nat \ {0} /\ MaxBoots \in Nat

VARIABLES
  scoreWeight,   \* the table of districts: the weight of each, or NoWeight if it has no row
  server,        \* servers: where each is, its file, and its weights
  seeder,        \* history: who has stored a file last
  boots

districtBootVars == <<scoreWeight, server, seeder, boots>>

NoWeight == -1
Nobody == "nobody"
Down == [phase |-> "down", file |-> <<>>, weights |-> [c \in Codes |-> NoWeight], own |-> FALSE]

DistrictBootInit ==
  /\ scoreWeight = [c \in Codes |-> NoWeight]
  /\ server = [s \in Servers |-> Down]
  /\ seeder = Nobody /\ boots = 0

-----------------------------------------------------------------------------
(* Rows with too few columns are skipped; a negative share counts as none. *)
Rows(f) == {c \in DOMAIN f : f[c].full}
ForeignVisitorShare(f, c) == {n \in f[c].share : n >= 0}
Sharing(f) == {c \in Rows(f) : \E n \in ForeignVisitorShare(f, c) : n > 0}
ShareOf(f, c) == CHOOSE n \in ForeignVisitorShare(f, c) : TRUE
NotNegative(f) == {c \in Rows(f) : ForeignVisitorShare(f, c) # {}}
Averaged(f) == Sharing(f)
SumOver(g, districts) == MapThenSumSet(LAMBDA c : g[c], districts)
ShareSum(f) == SumOver([c \in Averaged(f) |-> ShareOf(f, c)], Averaged(f))

(* Against the mean of those that have a share: all others count once. *)
Weight(f, c) ==
  IF c \in Sharing(f)
    THEN (2 * ShareOf(f, c) * Cardinality(Averaged(f)) * Scale + ShareSum(f)) \div (2 * ShareSum(f))
    ELSE Scale

Boots(s) ==
  /\ server[s].phase = "down" /\ boots < MaxBoots
  /\ \E f \in Releases : server' = [server EXCEPT ![s] = [Down EXCEPT !.phase = "seed", !.file = f]]
  /\ boots' = boots + 1
  /\ UNCHANGED <<scoreWeight, seeder>>

(* seedFromCsv: one statement for all rows, none for a file without any. *)
SeedFromCsv(s) ==
  /\ server[s].phase = "seed"
  /\ LET f == server[s].file
     IN  /\ scoreWeight' = [c \in Codes |-> IF c \in Rows(f) THEN Weight(f, c) ELSE scoreWeight[c]]
         /\ seeder' = IF Rows(f) = {} THEN seeder ELSE s
  /\ server' = [server EXCEPT ![s].phase = "load"]
  /\ UNCHANGED boots

(* loadWeightCache: with no weight at all the server does not begin to serve. *)
LoadWeightCache(s) ==
  /\ server[s].phase = "load"
  /\ server' = [server EXCEPT ![s] =
       IF \A c \in Codes : scoreWeight[c] = NoWeight THEN Down
       ELSE [@ EXCEPT !.phase = "serves", !.weights = scoreWeight, !.own = seeder = s]]
  /\ UNCHANGED <<scoreWeight, seeder, boots>>

(* A statement fails, and the boot with it; or the server ends. *)
Ends(s) ==
  /\ server[s].phase # "down"
  /\ server' = [server EXCEPT ![s] = Down]
  /\ UNCHANGED <<scoreWeight, seeder, boots>>

DistrictBootNext == \E s \in Servers : Boots(s) \/ SeedFromCsv(s) \/ LoadWeightCache(s) \/ Ends(s)

DistrictBootSpec == DistrictBootInit /\ [][DistrictBootNext]_districtBootVars

GetWeight(s, c) == IF server[s].weights[c] = NoWeight THEN Scale ELSE server[s].weights[c]

-----------------------------------------------------------------------------
DistrictBootTypeOK ==
  /\ scoreWeight \in [Codes -> Nat \union {NoWeight}] /\ seeder \in Servers \union {Nobody} /\ boots \in 0..MaxBoots
  /\ \A s \in Servers : /\ server[s].phase \in {"down", "seed", "load", "serves"}
                        /\ server[s].weights \in [Codes -> Nat \union {NoWeight}] /\ server[s].own \in BOOLEAN

(* A server that serves has a weight for every district of its file, and when no other    *)
(* has stored a file between its own and its reading the table, the weights shift points  *)
(* between districts without adding any: those with a share of the visitors weigh one on  *)
(* the average, up to the rounding, a greater share never less, and the others one each.  *)
(* (A share below 1 in 2 * Scale of the mean is rounded to a weight of nothing.)          *)
ServesFairWeights ==
  \A s \in Servers : server[s].phase = "serves" =>
    LET f == server[s].file
    IN  /\ \A c \in Rows(f) : server[s].weights[c] # NoWeight
        /\ server[s].own =>
             LET total == SumOver([c \in Sharing(f) |-> GetWeight(s, c)], Sharing(f))
                 n == Cardinality(Sharing(f))
             IN  /\ total \in n * Scale - n..n * Scale + n
                 /\ \A c \in Rows(f) \ Sharing(f) : GetWeight(s, c) = Scale
                 /\ \A c, d \in Sharing(f) : ShareOf(f, c) >= ShareOf(f, d) => GetWeight(s, c) >= GetWeight(s, d)
=============================================================================
