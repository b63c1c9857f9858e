-------------------------- MODULE MCDaemonProcess ---------------------------
(* Symmetry for DaemonProcess: launches and PIDs are only names.           *)
EXTENDS DaemonProcess, TLC

LaunchSymmetry == Permutations(Daemons) \cup Permutations(Pids)
=============================================================================
