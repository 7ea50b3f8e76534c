---------------------------- MODULE MCFemtovgE2e ----------------------------
(***************************************************************************)
(* Two passes of two frames, two vertex arrays, two command streams of     *)
(* different lengths, up to two flushes in a frame.                        *)
(***************************************************************************)
EXTENDS FemtovgE2e, TLC

CONSTANTS v1, v2, c1, c2

MCVerts == {v1, v2}
MCStreams == {c1, c2}
MCCountOf == (c1 :> 3) @@ (c2 :> 4)
=============================================================================
