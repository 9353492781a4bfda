-------------------------- MODULE MCAstronodeLink --------------------------
(***************************************************************************)
(* The serial link with two slots and a modem that holds one payload.      *)
(***************************************************************************)
EXTENDS AstronodeLink

MCIds == {1, 2}
=============================================================================
