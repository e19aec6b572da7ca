-------------------------- MODULE MCManifestRegistry --------------------------
(* ManifestRegistry for TLC: one manifest of one path. *)
EXTENDS ManifestRegistry

CONSTANT p

One == {{p}}
=============================================================================
