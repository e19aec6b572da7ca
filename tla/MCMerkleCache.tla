--------------------------- MODULE MCMerkleCache ---------------------------
(* The tree MerkleCache is checked on:                                      *)
(*                                                                          *)
(*     root / g                   a file at the root                        *)
(*     root / d / f               a file, selected by the manifest          *)
(*     root / d / s / h           s selected by the manifest as a directory *)
EXTENDS MerkleCache

CONSTANTS root, d, s, f, g, h

MCParent == [n \in {d, s, f, g, h} |->
                CASE n \in {d, g} -> root
                  [] n \in {s, f} -> d
                  [] n = h        -> s]

MCAbove == [n \in {root, d, s, f, g, h} |->
                CASE n = root        -> {}
                  [] n \in {d, g}    -> {root}
                  [] n \in {s, f}    -> {root, d}
                  [] n = h           -> {root, d, s}]
=============================================================================
