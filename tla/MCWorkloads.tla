---------------------------- MODULE MCWorkloads ----------------------------
(* Workloads on eight-bit words, four-bit bytes and buffers of a few bytes. *)
EXTENDS Workloads
MCSizes == << 1, 2, 4 >>
MCNumbers == 0..13
MCSeeds == {0, 5, 7, 128, 200, 255}
=============================================================================
