------------------------------- MODULE Kernel -------------------------------
(* What all system call handlers share: they answer with a number, which is *)
(* negative, minus an error number, when the call fails.                    *)
EXTENDS UefiErrno

VARIABLE ret   \* result of the last handler
=============================================================================
