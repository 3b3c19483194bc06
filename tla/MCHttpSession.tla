--------------------------- MODULE MCHttpSession ---------------------------
(* An instance of HttpSession for TLC; the cfg gives the bound its value. *)
EXTENDS HttpSession

=============================================================================
