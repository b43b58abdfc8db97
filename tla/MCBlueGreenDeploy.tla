-------------------------- MODULE MCBlueGreenDeploy --------------------------
(* Small instances of BlueGreenDeploy for TLC. *)
EXTENDS BlueGreenDeploy, TLC

=============================================================================
