----------------------------- MODULE Sequencing -----------------------------
(***************************************************************************)
(* With names a value, as LET does, for code written as a sequence of      *)
(* operators on a record.  Through the bound variable of the set TLC       *)
(* evaluates the value once, and not at each use.                          *)
(***************************************************************************)
With(value, Use(_)) == CHOOSE result \in {Use(v) : v \in {value}} : TRUE
=============================================================================
