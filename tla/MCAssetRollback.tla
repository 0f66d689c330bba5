-------------------------- MODULE MCAssetRollback --------------------------
(***************************************************************************)
(* Small instance of AssetRollback: two releases, the older of which       *)
(* cannot read the compact history.                                        *)
(***************************************************************************)
EXTENDS AssetRollback

MCVersion == {"v1", "v2"}
MCAssetsOf == [v \in MCVersion |-> IF v = "v1" THEN "a1" ELSE "a2"]
MCReader == {"v2"}
=============================================================================
