-------------------------------- MODULE Pairs --------------------------------
(* The keys and values of util/pair.h that an instance of the model has.     *)
EXTENDS Integers, Sequences

CONSTANTS Keys,       \* INVALID, the empty key, is not one of them
          Values      \* NONE is not one of them
=============================================================================
