------------------------ MODULE MCConfigurationsPage ------------------------
(***************************************************************************)
(* Small instances of the list page of configuration objects.              *)
(***************************************************************************)
EXTENDS ConfigurationsPage
=============================================================================
