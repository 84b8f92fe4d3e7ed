----------------------------- MODULE MCUmalloc -----------------------------
(* A small instance of Umalloc for TLC: 1024 is scaled to 8, 256 to 2, and *)
(* the request of 1281 headers to 10.                                      *)
EXTENDS Umalloc
=============================================================================
