----------------------------- MODULE MCServices -----------------------------
(* Values of the constants of Services for TLC: a small instance of every component. *)
EXTENDS Services, TLC

CONSTANTS x1, x2, x3, y1, y2, z, A, B   \* model values; the components share them

MCTeamOf == [u \in Visitors |-> IF u = z THEN B ELSE A]
MCSideOf == [u \in Players |-> A]
Item(id, end, coords, regn, area, addr, sigungu, code) ==
  [contentId |-> id, dated |-> TRUE, end |-> end, coords |-> coords, regnCd |-> regn,
   areacode |-> area, addr1 |-> addr, sigungucode |-> sigungu, signguCd |-> code]
MCItems == {Item("f1", 0, "point", "26", "null", "null", "kto", "null"),
            Item("f1", 0, "null", "null", "null", "null", "ldong", "known"),
            Item("f2", 1, "null", "null", "6", "seoul", "ldong", "new"),
            Item("f2", 0, "null", "null", "null", "seoul", "kto", "null")}
Row(source, id, end, coords, code) ==
  [source |-> source, id |-> id, dated |-> TRUE, end |-> end, coords |-> coords, code |-> code]
MCCsvRows == {Row("kto_festival", "f1", 1, "null", "name"), Row("busan_festival", "f1", 0, "point", "other"),
              Row("kto_festival", "", 0, "point", "number")}
SpotRow(id, titled, code) == [id |-> id, titled |-> titled, code |-> code]
MCSpotRows == {SpotRow("MISSION1", TRUE, "valid"), SpotRow("MISSION2", TRUE, "bad"), SpotRow("MISSION1", FALSE, "valid"),
               SpotRow("KTO1", TRUE, "valid")}
Share(n) == [full |-> TRUE, share |-> n]
MCReleases == {[c \in {"1", "2", "3", "4"} |-> CASE c = "1" -> Share({5}) [] c = "2" -> Share({2}) [] c = "3" -> Share({0})
                                               [] c = "4" -> Share({})],
               [c \in {"1", "3", "4"} |-> CASE c = "1" -> Share({4}) [] c = "3" -> Share({3}) [] c = "4" -> Share({-2})],
               [c \in {"2", "4"} |-> Share(IF c = "2" THEN {1} ELSE {40000})],   \* one rounds to nothing
               [c \in {"2"} |-> [full |-> FALSE, share |-> {}]]}
MCSymmetry == Permutations({x1, x2, x3}) \union Permutations({y1, y2})
=============================================================================
