----------------------------- MODULE MCVirtio -----------------------------
(* Small instances of Virtio for TLC.                                      *)
EXTENDS VirtioInv

CONSTANTS p1, p2, p3
=============================================================================
