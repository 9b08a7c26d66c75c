------------------------------- MODULE Option -------------------------------
(* Rust's Option::None, a value no other value equals. *)
CONSTANT None
=============================================================================
