----------------------------- MODULE MCStateIo -----------------------------
(* Two bytes around blocks of two bytes and of none; buffers and blobs of  *)
(* every size up to one more than the save.                                *)
EXTENDS StateIo
MCOff == [f \in 0..4 |-> <<0, 1, 3, 3, 4>>[f + 1]]
=============================================================================
