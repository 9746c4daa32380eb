---------------------------- MODULE MCBotControl ----------------------------
(***************************************************************************)
(* Instances of BotControl for TLC.                                         *)
(***************************************************************************)
EXTENDS BotControl, TLC

CONSTANTS w1, w2, a1, a2

(* Processes of one kind run the same code, and no property names one.  Used   *)
(* by the runs that check safety only.                                         *)
Interchangeable == Permutations(Workers) \cup Permutations(Apis)
=============================================================================
