--------------------------- MODULE MCProcessGroups ---------------------------
(***************************************************************************)
(* TLC instance of ProcessGroups.  Two commands give two generations: one  *)
(* that ends while the next is installed.                                  *)
(***************************************************************************)
EXTENDS ProcessGroups
=============================================================================
