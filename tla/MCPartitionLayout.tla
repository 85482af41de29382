-------------------------- MODULE MCPartitionLayout --------------------------
(* Disks at and around every limit, with the code's macros. *)
EXTENDS PartitionLayout

Around(n) == {n - 1, n, n + 1}

MCSizes == {0, 20480} \union Around(2 * 2048) \union Around(2048 + 102400)
  \union Around(2048 + 204800) \union Around(2048 + 409600)
  \union Around(1000000) \union {8 * 204800, 8 * 300001}
=============================================================================
