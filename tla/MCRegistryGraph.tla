--------------------------- MODULE MCRegistryGraph ---------------------------
(* Two records stand for the three of the identity; they are alike.        *)
EXTENDS RegistryGraph
=============================================================================
