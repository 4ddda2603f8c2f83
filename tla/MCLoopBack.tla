------------------------------ MODULE MCLoopBack ------------------------------
(***************************************************************************)
(* LoopBack with two pieces of data, of different lengths: the longer one  *)
(* begins with a zero byte.  With bytes below 8 and start bytes 6 and 7    *)
(* neither occurs in the rest of a frame.                                  *)
(***************************************************************************)
EXTENDS LoopBack

MCDatas == {<<1>>, <<0, 2>>}
=============================================================================
