------------------------------ MODULE MCNolibc ------------------------------
(* Every exported function, every system call the dispatcher knows and one  *)
(* it does not, two file handles, and descriptors of each kind.             *)
EXTENDS Nolibc, TLC

MCFdArg == {-1, 0, 1, 3, 5, 17, 20}
MCIncrement == {-1, 0, 1}
MCPid == {0, 1, 2}
MCSignal == {0, 9, 30}
MCStatus == {0, 1, 256}
MCSyscallNo ==
  FileNo \cup {9, 10, 11, 23, 24, 39, 60, 62, 96, 102, 104, 105, 106, 107, 108,
               110, 169, 186, 400}
MCSymmetry == Permutations(Handle)
=============================================================================
