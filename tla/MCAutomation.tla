---------------------------- MODULE MCAutomation -----------------------------
(* Automation with two schedules and one scene that may take each other's   *)
(* place.                                                                    *)
EXTENDS Automation, TLC

CONSTANTS a, b, evening

TwoIds  == {a, b}
OneScene == {evening}

\* Ids are only compared with each other.
Symmetry == Permutations(TwoIds)
=============================================================================
