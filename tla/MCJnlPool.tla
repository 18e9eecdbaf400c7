----------------------------- MODULE MCJnlPool -----------------------------
(***************************************************************************)
(* Small instances of JnlPool for TLC.                                     *)
(***************************************************************************)
EXTENDS JnlPool, TLC

CONSTANTS u1, u2, src, none

\* The program points at which a process inside UPDATE_JPL_RSRV_WRITE_ADDR has
\* stored something outside of the slot array.
InReservation == {"lastlen", "rsrv"}

AllKillPoints == (Points \union CleanupPoints) \ {"idle", "none", "salvage", "written"}

KillsOutsideReservation == AllKillPoints \ InReservation

Symmetry == Permutations(Updaters)
============================================================================
