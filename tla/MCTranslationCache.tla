------------------------ MODULE MCTranslationCache ------------------------
(* TranslationCache on a small instance. *)
EXTENDS TranslationCache

CONSTANTS t1, t2
=============================================================================
