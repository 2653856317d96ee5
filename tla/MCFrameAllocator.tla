-------------------------- MODULE MCFrameAllocator --------------------------
(* Small instances of FrameAllocator for TLC.                              *)
EXTENDS FrameAllocator

(* The single frames of the page loops of generic_mmap, and one longer run *)
(* as create_user_translation_table asks for its last tables.              *)
SingleAndLong == {1, 3}
=============================================================================
