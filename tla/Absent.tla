------------------------------- MODULE Absent -------------------------------
(***************************************************************************)
(* The value that stands for "there is none": an absent file, a nil        *)
(* pointer, a JSON null.                                                   *)
(***************************************************************************)
CONSTANT Null
=============================================================================
