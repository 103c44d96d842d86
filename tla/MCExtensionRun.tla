---------------------------- MODULE MCExtensionRun ----------------------------
(* Two hooks at each end, one of them fail-closed, around two wrappers. *)
EXTENDS ExtensionRun

MCStartHooks == <<"audit.start", "vault.start">>
MCStopHooks  == <<"audit.stop", "vault.stop">>
=============================================================================
