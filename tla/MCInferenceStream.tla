------------------------- MODULE MCInferenceStream -------------------------
(* Model-checking module of RemoteProvider, the service and its client. *)
EXTENDS RemoteProvider
=============================================================================
