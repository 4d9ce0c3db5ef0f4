--------------------------- MODULE MCSettingsStore ---------------------------
(* Model checking SettingsStore.  No symmetry: the run checks liveness. *)
EXTENDS SettingsStore
=============================================================================
