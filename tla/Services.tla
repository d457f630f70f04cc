------------------------------ MODULE Services ------------------------------
(***************************************************************************)
(* The components behind the HTTP interface in one model.  They share no   *)
(* variable, so nothing is learnt from interleaving them: a behaviour is   *)
(* about one of them, its focus, and the others stay as they began.        *)
(***************************************************************************)
EXTENDS Visits, Capital, Accounts, Rankings, Festivals, SpotSeed, DistrictBoot

VARIABLE focus   \* the component this behaviour is about

ServicesInit ==
  /\ focus \in {"visits", "capital", "accounts", "rankings", "festivals", "seed", "boot"}
  /\ VisitsInit /\ CapitalInit /\ AccountsInit /\ RankingsInit /\ FestivalsInit /\ SpotSeedInit /\ DistrictBootInit
  /\ focus # "visits" => asked = "claim"
  /\ focus # "rankings" => ranked = "users"

ServicesNext ==
  /\ UNCHANGED focus
  /\ \/ /\ focus = "visits" /\ VisitsNext
        /\ UNCHANGED <<capitalVars, accountsVars, rankingsVars, festivalsVars, spotSeedVars, districtBootVars>>
     \/ /\ focus = "capital" /\ CapitalNext
        /\ UNCHANGED <<visitVars, accountsVars, rankingsVars, festivalsVars, spotSeedVars, districtBootVars>>
     \/ /\ focus = "accounts" /\ AccountsNext
        /\ UNCHANGED <<visitVars, capitalVars, rankingsVars, festivalsVars, spotSeedVars, districtBootVars>>
     \/ /\ focus = "rankings" /\ RankingsNext
        /\ UNCHANGED <<visitVars, capitalVars, accountsVars, festivalsVars, spotSeedVars, districtBootVars>>
     \/ /\ focus = "festivals" /\ FestivalsNext
        /\ UNCHANGED <<visitVars, capitalVars, accountsVars, rankingsVars, spotSeedVars, districtBootVars>>
     \/ /\ focus = "seed" /\ SpotSeedNext
        /\ UNCHANGED <<visitVars, capitalVars, accountsVars, rankingsVars, festivalsVars, districtBootVars>>
     \/ /\ focus = "boot" /\ DistrictBootNext
        /\ UNCHANGED <<visitVars, capitalVars, accountsVars, rankingsVars, festivalsVars, spotSeedVars>>

servicesVars == <<focus, visitVars, capitalVars, accountsVars, rankingsVars, festivalsVars, spotSeedVars, districtBootVars>>

ServicesSpec == ServicesInit /\ [][ServicesNext]_servicesVars

\* Types of the component that moves.
ServicesTypeOK ==
  CASE focus = "visits" -> VisitsTypeOK [] focus = "capital" -> CapitalTypeOK [] focus = "accounts" -> AccountsTypeOK
    [] focus = "rankings" -> RankingsTypeOK [] focus = "festivals" -> FestivalsTypeOK [] focus = "seed" -> SpotSeedTypeOK
    [] focus = "boot" -> DistrictBootTypeOK
=============================================================================
