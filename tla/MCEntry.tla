--------------------------------- MODULE MCEntry -------------------------------
(***************************************************************************)
(* Two entries of two contracts each, either way round, with every call    *)
(* free to fail: enough for a partial fill, a fill that races the cancel,  *)
(* and an abandoned order that fills while the next entry is worked on.    *)
(***************************************************************************)
EXTENDS EntryLifecycle

MCDirections == {1, -1}
MCFaults == {"read", "refuse", "lost", "cancel", "noid"}
================================================================================
