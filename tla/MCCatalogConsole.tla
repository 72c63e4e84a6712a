-------------------------- MODULE MCCatalogConsole --------------------------
(***************************************************************************)
(* Bounds for CatalogConsole: two units on the shelf and two prices.       *)
(***************************************************************************)
EXTENDS CatalogConsole
=============================================================================
