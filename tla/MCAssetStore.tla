---------------------------- MODULE MCAssetStore ----------------------------
(* Model-checking module of AssetStore. *)
EXTENDS AssetStore, TLC
=============================================================================
