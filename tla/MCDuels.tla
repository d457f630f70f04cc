------------------------------ MODULE MCDuels ------------------------------
EXTENDS Duels, TLC
CONSTANTS ann, amy, bob, r1
MCUsers == {ann, amy, bob}
MCTeam == [u \in MCUsers |-> IF u = bob THEN "blue" ELSE "red"]
\* The ids sort against the alphabet: the user asked most sorts first.
MCRank == [u \in MCUsers |-> IF u = bob THEN 1 ELSE IF u = ann THEN 2 ELSE 3]
Ask(u, t, r) == [user |-> u, target |-> t, requestId |-> r]
SlotSymmetry == Permutations(Slots)
\* One challenger and one opponent.
OnePair == {Ask(ann, bob, r1)}
\* Crossed requests of one pair; the one with a requestId may be sent twice.
CrossedPair == {Ask(ann, bob, r1), Ask(bob, ann, NoRequest)}
\* Crossed requests of one pair and a third player after the same opponent.
Crossed == {Ask(ann, bob, r1), Ask(bob, ann, NoRequest), Ask(amy, bob, NoRequest)}
=============================================================================
