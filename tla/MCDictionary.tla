---------------------------- MODULE MCDictionary ----------------------------
(***************************************************************************)
(* Five words for TLC.  Word 4 has exactly MAX_WORD_LENGTH characters and  *)
(* word 5 continues it: put() cuts 5 to 4.                                 *)
(***************************************************************************)
EXTENDS Dictionary

MCWord == 1..5
MCCut == [w \in MCWord |-> IF w = 5 THEN 4 ELSE w]
=============================================================================
