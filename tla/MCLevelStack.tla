---------------------------- MODULE MCLevelStack ----------------------------
(* Small containers for LevelStack: three entries over four timestamps   *)
(* give every overlap shape of up to three intervals, touching ends and  *)
(* identical intervals included.                                         *)
EXTENDS LevelStack

MCEntries == {1, 2, 3}
MCTimes == 0..3
MCMaxStamp == 100
=============================================================================
