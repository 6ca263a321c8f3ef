---------------------------- MODULE MC_RegionCSV ----------------------------
(* Instantiates RegionCSV for TLC.  Cluster ids 0, 1 and 11 make the      *)
(* insert positions differ from the file order and give two ids with the  *)
(* same last digit; 0, 1 and 2 distinct last digits, for three-line     *)
(* files in different orders.                                           *)
EXTENDS RegionCSV

MCClusterIds == {0, 1, 11}

MCClusterIdsSmall == {0, 1, 2}
====
