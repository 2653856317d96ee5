---------------------------- MODULE MCBootMemory ----------------------------
(* Small instances of BootMemory for TLC.                                  *)
EXTENDS BootMemory

(* create_user_translation_table asks for 1, 1, 1 and 4 frames.            *)
Levels == <<1, 1, 1, 4>>
=============================================================================
