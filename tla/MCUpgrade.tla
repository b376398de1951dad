----------------------------- MODULE MCUpgrade -----------------------------
(***************************************************************************)
(* An instance of Upgrade for TLC: three versions, a minor release apart.  *)
(***************************************************************************)
EXTENDS Upgrade

MCMinor == <<1, 2, 3>>
=============================================================================
