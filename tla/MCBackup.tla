---------------------------------- MODULE MCBackup ----------------------------------
(* BackupScreen for TLC. *)
EXTENDS BackupScreen, TLC

CallsAreAlike == Permutations(Calls)
=============================================================================
