------------------------------ MODULE MCBleLink ------------------------------
(* Friends that may be exchanged: no property and no step tells them apart. *)
EXTENDS BleLink, TLC

Renamings == Permutations(Friends)
=============================================================================
