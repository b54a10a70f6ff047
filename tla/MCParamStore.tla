---------------------------- MODULE MCParamStore ----------------------------
(* Model-checking instance of ParamStore: two sectors of two or three slots,  *)
(* sequence numbers that wrap after a few saves.                              *)
EXTENDS ParamStore
=============================================================================
