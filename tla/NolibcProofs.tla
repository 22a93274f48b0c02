---------------------------- MODULE NolibcProofs ----------------------------
(* The file descriptor table, and the C library over it.                    *)
(*                                                                          *)
(* Whatever the size of the table, the handles of the firmware and the      *)
(* numbers a program passes, no descriptor is ever issued and no handle is  *)
(* ever closed.  All of it comes from one invariant: the table stays empty, *)
(* so that every handler but fd_stat fails and changes nothing.             *)
(*                                                                          *)
(* Whatever a program calls, in whatever order, with any descriptors, any   *)
(* blocks of memory and any firmware: errno is set by failing calls only,   *)
(* the library opens no handle, memory is accounted for, and nobody but the *)
(* program itself follows the handle of a volume that was not found.        *)
EXTENDS Nolibc, FiniteSetTheorems, TLAPS

TableEmpty == \A i \in Slot : fds[i] = NULL

(* Each stat that has succeeded has left a handle open behind it. *)
EveryStatLeaksAHandle == stats <= Cardinality(open)

(* The invariant: the properties above and those the runs check, and that the firmware has *)
(* finitely many handles open, without which they could not be counted.    *)
TableInv ==
  /\ FdTypeOK
  /\ NoDescriptorIssued
  /\ EveryStatLeaksAHandle
  /\ IsFiniteSet(open)

(* An outcome that changes nothing and reports an error. *)
Failure(x) == x \in {Fail(EBADF), Fail(EACCES), Fail(EMFILE)}

(* The error of a status code is a positive number. *)
LEMMA ErrnoIsPositive ==
  ASSUME NEW s \in EfiError
  PROVE  efi_status_to_errno(s) \in Nat \ {0}
BY DEF EfiError, efi_status_to_errno, EROFS, EACCES, ENOSPC, ENOENT, EINVAL, EIO

(* A descriptor that passes the checks of a handler is a slot of the table. *)
LEMMA CheckedFdIsSlot ==
  ASSUME NEW fd \in FdArg, ~(fd > MAX_FDS), ~(fd < VIRTUAL_FD_BASE)
  PROVE  TO_REAL_FD(fd) \in Slot
<1>1. fd \in Int
  BY FdTableAssumption
<1> QED
  BY <1>1, FdTableAssumption DEF Slot, TO_REAL_FD

(* With an empty table there is no free slot to be found ... *)
LEMMA NoSlotFound ==
  ASSUME TableEmpty
  PROVE  fd_real_find_free = -1
BY DEF TableEmpty, fd_real_find_free

(* ... and no handle behind any descriptor. *)
LEMMA NoHandleBehind ==
  ASSUME TableEmpty, NEW fd \in FdArg, ~(fd > MAX_FDS), ~(fd < VIRTUAL_FD_BASE)
  PROVE  fds[TO_REAL_FD(fd)] = NULL
BY CheckedFdIsSlot DEF TableEmpty

(* So every handler that takes a descriptor fails. *)
LEMMA HandlersFail ==
  ASSUME TableEmpty, NEW fd \in FdArg
  PROVE  /\ \A x \in fd_close(fd) : Failure(x)
         /\ \A x \in fd_fsync(fd) : Failure(x)
         /\ \A x \in fd_dup(fd) : Failure(x)
         /\ \A x \in fd_lseek(fd) : Failure(x)
         /\ \A x \in fd_getdents64(fd) : Failure(x)
         /\ \A x \in fd_fstat(fd) : Failure(x)
         /\ \A x \in fd_read_file(fd) : Failure(x)
         /\ \A x \in fd_write_file(fd) : Failure(x)
<1>1. CASE fd > MAX_FDS
  BY <1>1 DEF OnHandle, Failure, fd_close, fd_fsync, fd_dup, fd_lseek,
              fd_getdents64, fd_fstat, fd_read_file, fd_write_file
<1>2. CASE ~(fd > MAX_FDS) /\ fd < VIRTUAL_FD_BASE
  BY <1>2 DEF OnHandle, Failure, fd_close, fd_fsync, fd_dup, fd_lseek,
              fd_getdents64, fd_fstat, fd_read_file, fd_write_file
<1>3. CASE ~(fd > MAX_FDS) /\ ~(fd < VIRTUAL_FD_BASE)
  BY <1>3, NoHandleBehind
     DEF OnHandle, Failure, fd_close, fd_fsync, fd_dup, fd_lseek,
         fd_getdents64, fd_fstat, fd_read_file, fd_write_file
<1> QED
  BY <1>1, <1>2, <1>3

(* fd_dup2 reads outside the table, but whatever it finds there, it fails. *)
LEMMA Dup2Fails ==
  ASSUME TableEmpty, NEW old \in FdArg, NEW new \in FdArg
  PROVE  \A x \in fd_dup2(old, new) : Failure(x)
<1>1. CASE old > MAX_FDS
  BY <1>1 DEF fd_dup2, Failure
<1>2. CASE ~(old > MAX_FDS) /\ old < VIRTUAL_FD_BASE
  BY <1>2 DEF fd_dup2, Failure
<1>3. CASE ~(old > MAX_FDS) /\ ~(old < VIRTUAL_FD_BASE)
  <2>1. fds[TO_REAL_FD(old)] = NULL
    BY <1>3, NoHandleBehind
  <2>2. \A x \in fd_close(new) : Failure(x)
    BY HandlersFail
  <2>3. ASSUME NEW x \in fd_dup2(old, new) PROVE Failure(x)
    <3> DEFINE Closed(occupied) == IF occupied THEN fd_close(new) ELSE {Result(0)}
               After(y) == LET h == y.fds[TO_REAL_FD(old)]
                           IN  IF h = NULL THEN Outcome(y.fds, y.open, -EBADF)
                               ELSE IF new < 0 THEN Outcome(y.fds, y.open, -EMFILE)
                               ELSE Outcome([y.fds EXCEPT ![new] = h], y.open,
                                            TO_VIRTUAL_FD(new))
    <3>1. PICK occupied \in MayBeOccupied(new) :
            \/ x \in {y \in Closed(occupied) : y.ret < 0}
            \/ x \in {After(y) : y \in {z \in Closed(occupied) : z.ret >= 0}}
      BY <1>3 DEF fd_dup2
    <3>2. CASE x \in {y \in Closed(occupied) : y.ret < 0}
      <4>1. Result(0).ret = 0
        BY DEF Result, Outcome
      <4> QED
        BY <2>2, <3>2, <4>1
    <3>3. CASE x \in {After(y) : y \in {z \in Closed(occupied) : z.ret >= 0}}
      <4>1. PICK y \in Closed(occupied) : y.ret >= 0 /\ x = After(y)
        BY <3>3
      <4>2. \A z : Failure(z) => z.ret \in {-9, -13, -24}
        BY DEF Failure, Fail, Result, Outcome, EBADF, EACCES, EMFILE
      <4>3. y = Result(0)
        <5>1. y \in fd_close(new) \/ y = Result(0)
          BY <4>1
        <5>2. CASE y \in fd_close(new)
          <6>1. y.ret \in {-9, -13, -24}
            BY <2>2, <4>2, <5>2
          <6> QED
            BY <4>1, <6>1
        <5> QED
          BY <5>1, <5>2
      <4>4. y.fds = fds /\ y.open = open
        BY <4>3 DEF Result, Outcome
      <4> QED
        BY <2>1, <4>1, <4>4 DEF Failure, Fail, Result
    <3> QED
      BY <3>1, <3>2, <3>3
  <2> QED
    BY <2>3
<1> QED
  BY <1>1, <1>2, <1>3

(* open fails for want of a slot, before it asks the firmware for anything. *)
LEMMA OpenFails ==
  ASSUME TableEmpty
  PROVE  \A x \in fd_open : Failure(x)
BY NoSlotFound DEF fd_open, Failure

(* stat leaves the table alone and opens at most one handle. *)
LEMMA StatOutcomes ==
  ASSUME FdTypeOK, NEW x \in fd_stat
  PROVE  /\ x.fds = fds
         /\ x.ret \in Int
         /\ \/ x.open = open /\ x.ret # 0
            \/ \E h \in Handle \ open : x.open = open \cup {h}
<1>1. CASE x \in {Fail(efi_status_to_errno(s)) : s \in EfiError}
  BY <1>1, ErrnoIsPositive DEF Fail, Result, Outcome
<1>2. CASE \E h \in Handle \ open,
              r \in {0} \cup {-efi_status_to_errno(s) : s \in EfiError} :
                x = Outcome(fds, open \cup {h}, r)
  BY <1>2, ErrnoIsPositive DEF Outcome
<1> QED
  BY <1>1, <1>2 DEF fd_stat

(* A handler that can only fail does not change the state of the files. *)
LEMMA FailedRun ==
  ASSUME NEW name, name # "stat",
         NEW outcomes, \A x \in outcomes : Failure(x),
         Run(name, outcomes)
  PROVE  /\ fds' = fds /\ open' = open /\ stats' = stats
         /\ ret' \in Int /\ ret' < 0
         /\ call' = name
<1>1. PICK x \in outcomes :
        /\ fds' = x.fds /\ open' = x.open /\ ret' = x.ret /\ call' = name
        /\ stats' = stats
  BY DEF Run
<1>2. x.fds = fds /\ x.open = open /\ x.ret \in {-9, -13, -24}
  BY DEF Failure, Fail, Result, Outcome, EBADF, EACCES, EMFILE
<1> QED
  BY <1>1, <1>2

(* Whatever the program calls, one of two things happens: the handler      *)
(* fails and changes nothing, or stat runs.                                *)
LEMMA StepFailsOrStats ==
  ASSUME TableEmpty, FdNext
  PROVE  \/ /\ fds' = fds /\ open' = open /\ stats' = stats
            /\ ret' \in Int /\ ret' < 0
         \/ Run("stat", fd_stat)
<1>1. CASE Run("open", fd_open)
  BY <1>1, OpenFails, FailedRun
<1>2. CASE Run("stat", fd_stat)
  BY <1>2
<1>3. ASSUME NEW fd \in FdArg, Run("close", fd_close(fd))
      PROVE  open' = open /\ fds' = fds /\ stats' = stats /\ ret' \in Int /\ ret' < 0
  BY <1>3, HandlersFail, FailedRun
<1>4. ASSUME NEW fd \in FdArg, Run("fsync", fd_fsync(fd))
      PROVE  open' = open /\ fds' = fds /\ stats' = stats /\ ret' \in Int /\ ret' < 0
  BY <1>4, HandlersFail, FailedRun
<1>5. ASSUME NEW fd \in FdArg, Run("dup", fd_dup(fd))
      PROVE  open' = open /\ fds' = fds /\ stats' = stats /\ ret' \in Int /\ ret' < 0
  BY <1>5, HandlersFail, FailedRun
<1>6. ASSUME NEW fd \in FdArg, Run("lseek", fd_lseek(fd))
      PROVE  open' = open /\ fds' = fds /\ stats' = stats /\ ret' \in Int /\ ret' < 0
  BY <1>6, HandlersFail, FailedRun
<1>7. ASSUME NEW fd \in FdArg, Run("getdents64", fd_getdents64(fd))
      PROVE  open' = open /\ fds' = fds /\ stats' = stats /\ ret' \in Int /\ ret' < 0
  BY <1>7, HandlersFail, FailedRun
<1>8. ASSUME NEW fd \in FdArg, Run("fstat", fd_fstat(fd))
      PROVE  open' = open /\ fds' = fds /\ stats' = stats /\ ret' \in Int /\ ret' < 0
  BY <1>8, HandlersFail, FailedRun
<1>9. ASSUME NEW fd \in FdArg, Run("read", fd_read_file(fd))
      PROVE  open' = open /\ fds' = fds /\ stats' = stats /\ ret' \in Int /\ ret' < 0
  BY <1>9, HandlersFail, FailedRun
<1>10. ASSUME NEW fd \in FdArg, Run("write", fd_write_file(fd))
       PROVE  open' = open /\ fds' = fds /\ stats' = stats /\ ret' \in Int /\ ret' < 0
  BY <1>10, HandlersFail, FailedRun
<1>11. ASSUME NEW fd \in FdArg, NEW new \in FdArg, Run("dup2", fd_dup2(fd, new))
       PROVE  open' = open /\ fds' = fds /\ stats' = stats /\ ret' \in Int /\ ret' < 0
  BY <1>11, Dup2Fails, FailedRun
<1> QED
  BY <1>1, <1>2, <1>3, <1>4, <1>5, <1>6, <1>7, <1>8, <1>9, <1>10, <1>11 DEF FdNext

(* What a run of stat does: it fails and the open handles stay as they     *)
(* are, or one more is open and at most one more stat has succeeded.       *)
LEMMA StatStep ==
  ASSUME FdTypeOK, Run("stat", fd_stat)
  PROVE  /\ fds' = fds /\ ret' \in Int /\ call' = "stat"
         /\ \/ open' = open /\ stats' = stats
            \/ /\ \E h \in Handle \ open : open' = open \cup {h}
               /\ stats' \in {stats, stats + 1}
<1>1. PICK x \in fd_stat :
        /\ fds' = x.fds /\ open' = x.open /\ ret' = x.ret /\ call' = "stat"
        /\ stats' = IF x.ret = 0 THEN stats + 1 ELSE stats
  BY DEF Run
<1>2. /\ x.fds = fds /\ x.ret \in Int
      /\ \/ x.open = open /\ x.ret # 0
         \/ \E h \in Handle \ open : x.open = open \cup {h}
  BY StatOutcomes
<1> QED
  BY <1>1, <1>2 DEF FdTypeOK

(* efi_main clears the table before anything uses it.                       *)
LEMMA TableInvInit ==
  FdInit => TableInv
<1> SUFFICES ASSUME FdInit PROVE TableInv
  OBVIOUS
<1>1. IsFiniteSet({}) /\ Cardinality({}) = 0
  BY FS_EmptySet
<1> QED
  BY <1>1 DEF FdInit, TableInv, FdTypeOK, NoDescriptorIssued, EveryStatLeaksAHandle

(* Every call of the program preserves the invariant. *)
LEMMA TableInvNext ==
  TableInv /\ [FdNext]_fdVars => TableInv'
<1> SUFFICES ASSUME TableInv, [FdNext]_fdVars PROVE TableInv'
  OBVIOUS
<1> USE DEF TableInv, FdTypeOK, NoDescriptorIssued, EveryStatLeaksAHandle
<1>1. CASE fds' = fds /\ open' = open /\ stats' = stats /\ ret' \in Int /\ ret' < 0
  BY <1>1
<1>2. CASE Run("stat", fd_stat)
  <2>1. CASE open' = open /\ stats' = stats
    BY <1>2, <2>1, StatStep
  <2>2. ASSUME NEW h \in Handle \ open,
               open' = open \cup {h}, stats' \in {stats, stats + 1}
        PROVE  TableInv'
    <3>1. IsFiniteSet(open') /\ Cardinality(open') = Cardinality(open) + 1
      BY <2>2, FS_AddElement
    <3>2. Cardinality(open) \in Nat
      BY FS_CardinalityType
    <3> QED
      BY <1>2, <2>2, <3>1, <3>2, StatStep
  <2> QED
    BY <1>2, <2>1, <2>2, StatStep
<1>3. CASE UNCHANGED fdVars
  BY <1>3 DEF fdVars
<1> QED
  BY <1>1, <1>2, <1>3, StepFailsOrStats DEF TableEmpty

(* The invariant of the file descriptor table. *)
THEOREM TableAlways == FdSpec => []TableInv
<1> QED
  BY TableInvInit, TableInvNext, PTL DEF FdSpec

(* The types of the table and of the results. *)
THEOREM FdTypesAlways == FdSpec => []FdTypeOK
<1>1. TableInv => FdTypeOK
  BY DEF TableInv
<1> QED
  BY <1>1, TableAlways, PTL

(* fd_open, fd_dup and fd_dup2 never issue a descriptor: fd_real_find_free *)
(* looks for an occupied slot, and there never is one, so the table stays  *)
(* as efi_main left it.                                                    *)
THEOREM NoDescriptorEver == FdSpec => []NoDescriptorIssued
<1>1. TableInv => NoDescriptorIssued
  BY DEF TableInv
<1> QED
  BY <1>1, TableAlways, PTL

(* In every order of calls, the firmware has at least as many handles open *)
(* as there were successful stats: fd_stat leaks each handle it opens.     *)
THEOREM StatAlwaysLeaks == FdSpec => []EveryStatLeaksAHandle
<1>1. TableInv => EveryStatLeaksAHandle
  BY DEF TableInv
<1> QED
  BY <1>1, TableAlways, PTL

(* No call closes a handle of the firmware, and none but stat opens one.   *)
THEOREM HandlesNeverClose == FdSpec => HandlesOnlyAccumulate
<1>1. TableInv /\ [FdNext]_fdVars =>
        [open \subseteq open' /\ (open' # open => call' = "stat")]_fdVars
  <2> SUFFICES ASSUME TableInv, FdNext
               PROVE  open \subseteq open' /\ (open' # open => call' = "stat")
    OBVIOUS
  <2> QED
    BY StepFailsOrStats, StatStep DEF TableInv, TableEmpty, NoDescriptorIssued
<1> QED
  BY <1>1, TableAlways, PTL DEF FdSpec, HandlesOnlyAccumulate

-----------------------------------------------------------------------------
(* The library. *)

(* What a system call may answer: minus an error number, or no error. *)
Answer(r) == r \in Int /\ (r < 0 => -r \in Errno)

(* The invariant.  The table stays empty, which keeps every answer of a    *)
(* file handler an error of this code or a number that is no error.        *)
LibInv ==
  /\ NolibcTypeOK
  /\ TableEmpty
  /\ Answer(ret)
  /\ MemoryAccounted
  /\ KillReturnsOnlyErrors
  /\ FailedStartupHarmless

-----------------------------------------------------------------------------
(* A status the firmware fails with is an answer with a known error.        *)
LEMMA ErrnoIsAnswer ==
  ASSUME NEW s \in EfiError
  PROVE  Answer(-efi_status_to_errno(s)) /\ -efi_status_to_errno(s) < 0
<1>1. efi_status_to_errno(s) \in Errno
  BY DEF EfiError, efi_status_to_errno, Errno
<1>2. efi_status_to_errno(s) \in Nat \ {0}
  BY ErrnoIsPositive
<1> QED
  BY <1>1, <1>2 DEF Answer

(* A handler that fails leaves table and handles alone.                     *)
LEMMA FailureIsAnswer ==
  ASSUME NEW x, Failure(x)
  PROVE  x.fds = fds /\ x.open = open /\ Answer(x.ret)
BY DEF Failure, Fail, Result, Outcome, Answer, Errno, EBADF, EACCES, EMFILE

(* So does a read or write of the console.                                  *)
LEMMA ConsoleIsAnswer ==
  ASSUME NEW x \in ConsoleRead \cup ConsoleWrite
  PROVE  x.fds = fds /\ x.open = open /\ Answer(x.ret)
BY DEF ConsoleRead, ConsoleWrite, Fail, Result, Outcome, Answer, Errno, EIO

(* A file handler other than stat leaves the files as they are. *)
LEMMA FileOutcomes ==
  ASSUME TableEmpty, NEW no \in FileNo \ {4, 6}, NEW x \in FileCall(no)
  PROVE  x.fds = fds /\ x.open = open /\ Answer(x.ret)
<1>1. CASE no = 2
  BY <1>1, OpenFails, FailureIsAnswer DEF FileCall
<1>2. CASE no = 0
  <2>1. PICK fd \in FdArg : x \in IF fd = 0 THEN ConsoleRead ELSE fd_read_file(fd)
    BY <1>2 DEF FileCall
  <2> QED
    BY <2>1, HandlersFail, FailureIsAnswer, ConsoleIsAnswer
<1>3. CASE no = 1
  <2>1. PICK fd \in FdArg : x \in IF fd \in {1, 2} THEN ConsoleWrite ELSE fd_write_file(fd)
    BY <1>3 DEF FileCall
  <2> QED
    BY <2>1, HandlersFail, FailureIsAnswer, ConsoleIsAnswer
<1>4. CASE no = 33
  <2>1. PICK fd \in FdArg : x \in UNION {fd_dup2(fd, new) : new \in FdArg}
    BY <1>4 DEF FileCall
  <2> QED
    BY <2>1, Dup2Fails, FailureIsAnswer
<1>5. CASE no \in {3, 5, 8, 32, 74, 75, 217}
  <2>1. PICK fd \in FdArg :
          x \in fd_close(fd) \cup fd_fstat(fd) \cup fd_lseek(fd) \cup fd_dup(fd)
                \cup fd_fsync(fd) \cup fd_getdents64(fd)
    BY <1>5 DEF FileCall
  <2> QED
    BY <2>1, HandlersFail, FailureIsAnswer
<1> QED
  BY <1>1, <1>2, <1>3, <1>4, <1>5 DEF FileNo

-----------------------------------------------------------------------------
(* The groups of system calls, one lemma for what each may change. *)

(* A file handler, stat among them.                                         *)
LEMMA FileStep ==
  ASSUME FdTypeOK, TableEmpty, NEW no \in FileNo,
         Run(IF no \in {4, 6} THEN "stat" ELSE "file", FileCall(no))
  PROVE  /\ FdTypeOK' /\ fds' = fds /\ Answer(ret')
         /\ no \notin {4, 6} => open' = open
<1>1. CASE no \notin {4, 6}
  <2>1. PICK x \in FileCall(no) :
          fds' = x.fds /\ open' = x.open /\ ret' = x.ret /\ stats' = stats
    BY <1>1 DEF Run
  <2>2. x.fds = fds /\ x.open = open /\ Answer(x.ret)
    BY <1>1, FileOutcomes
  <2> QED
    BY <1>1, <2>1, <2>2 DEF FdTypeOK, Answer
<1>2. CASE no \in {4, 6}
  <2>1. PICK x \in fd_stat :
          /\ fds' = x.fds /\ open' = x.open /\ ret' = x.ret
          /\ stats' \in {stats, stats + 1}
    BY <1>2 DEF Run, FileCall
  <2>2. /\ x.fds = fds
        /\ \/ x.open = open
           \/ \E h \in Handle \ open : x.open = open \cup {h}
    BY StatOutcomes
  <2>3. Answer(x.ret)
    <3>1. CASE \E s \in EfiError : x = Fail(efi_status_to_errno(s))
      BY <3>1, ErrnoIsAnswer DEF Fail, Result, Outcome
    <3>2. CASE \E h \in Handle \ open,
                  r \in {0} \cup {-efi_status_to_errno(s) : s \in EfiError} :
                    x = Outcome(fds, open \cup {h}, r)
      <4>1. Answer(0)
        BY DEF Answer
      <4> QED
        BY <3>2, <4>1, ErrnoIsAnswer DEF Outcome
    <3> QED
      BY <3>1, <3>2 DEF fd_stat
  <2> QED
    BY <1>2, <2>1, <2>2, <2>3 DEF FdTypeOK, Answer
<1> QED
  BY <1>1, <1>2

(* mem_mmap.                                                                *)
LEMMA MmapStep ==
  ASSUME MemTypeOK, MemoryAccounted, NEW fd, mem_mmap(fd), Mapped
  PROVE  MemTypeOK' /\ MemoryAccounted' /\ Answer(ret')
<1>1. CASE pool' = pool /\ Answer(ret') /\ ret' < 0
  <2>1. ret' \notin Block
    BY <1>1, MemoryAssumption DEF Answer
  <2> QED
    BY <1>1, <2>1 DEF Mapped, MemTypeOK, MemoryAccounted
<1>2. ASSUME NEW b \in Block \ pool, ret' = b, pool' = pool \cup {b}
      PROVE  MemTypeOK' /\ MemoryAccounted' /\ Answer(ret')
  <2>1. Answer(ret')
    BY <1>2, MemoryAssumption DEF Answer
  <2>2. owner' = [owner EXCEPT ![b] = "program"]
    BY <1>2 DEF Mapped
  <2> QED
    BY <1>2, <2>1, <2>2 DEF MemTypeOK, MemoryAccounted
<1>3. ENOTSUP \in Errno /\ ENOTSUP = 95
  BY DEF Errno, ENOTSUP
<1>4. Answer(-ENOTSUP) /\ -ENOTSUP < 0
  BY <1>3 DEF Answer
<1> QED
  BY <1>1, <1>2, <1>4, ErrnoIsAnswer DEF mem_mmap

(* Both ways to unmap: the caller looks at the answer, or does not. *)
LEMMA MunmapStep ==
  ASSUME MemTypeOK, MemoryAccounted, NEW addr \in Address, mem_munmap(addr),
         (\E whole \in BOOLEAN : Unmapped(addr, whole)) \/ GivenBack(addr)
  PROVE  MemTypeOK' /\ MemoryAccounted' /\ Answer(ret')
<1>1. CASE pool' = pool /\ Answer(ret') /\ ret' < 0
  <2>1. CASE owner' = owner
    BY <1>1, <2>1 DEF MemTypeOK, MemoryAccounted
  <2>2. CASE /\ addr \in Block /\ owner[addr] = "program"
             /\ owner' = [owner EXCEPT ![addr] = "lost"]
    BY <1>1, <2>2 DEF MemTypeOK, MemoryAccounted
  <2>3. ret' # 0
    BY <1>1 DEF Answer
  <2> QED
    BY <2>1, <2>2, <2>3 DEF Unmapped, GivenBack
<1>2. CASE addr \in pool /\ ret' = 0 /\ pool' = pool \ {addr}
  <2>1. addr \in Block
    BY <1>2 DEF MemTypeOK
  <2>2. PICK o \in {"none", "split"} : owner' = [owner EXCEPT ![addr] = o]
    BY <1>2, <2>1 DEF Unmapped, GivenBack
  <2>3. Answer(ret')
    BY <1>2 DEF Answer
  <2> QED
    BY <1>2, <2>1, <2>2, <2>3 DEF MemTypeOK, MemoryAccounted
<1> QED
  BY <1>1, <1>2, ErrnoIsAnswer DEF mem_munmap

(* kill comes back with one of three errors, or not at all. *)
LEMMA KillStep ==
  ASSUME NEW pid \in Pid, NEW sig \in Signal, machine = "running", Answer(ret),
         proc_kill(pid, sig)
  PROVE  /\ machine' \in Machine \ {"null", "wild"} /\ Answer(ret')
         /\ machine' = "running" => ret' \in {-EPERM, -ESRCH, -EINVAL}
BY DEF proc_kill, proc_abort, BsExit, Machine, Answer, Errno, EPERM, ESRCH, EINVAL

(* power_reboot: the machine is off, has followed a null pointer, or goes   *)
(* on with an answer.                                                       *)
LEMMA RebootStep ==
  ASSUME NEW m1 \in Magic, NEW m2 \in Magic, NEW cmd \in RebootCmd,
         NEW arg \in Pointer,
         machine = "running", Answer(ret), power_reboot(m1, m2, cmd, arg)
  PROVE  machine' \in Machine \ {"wild"} /\ Answer(ret')
<1>1. CASE ret' = -EINVAL /\ UNCHANGED machine
  <2>1. EINVAL \in Errno /\ EINVAL = 22
    BY DEF Errno, EINVAL
  <2>2. machine' = "running"
    BY <1>1
  <2> QED
    BY <1>1, <2>1, <2>2 DEF Machine, Answer
<1>2. CASE machine' \in {"halted", "null"} /\ UNCHANGED ret
  BY <1>2 DEF Machine, Answer
<1>3. CASE /\ cmd \in {"POWER_OFF", "RESTART", "RESTART2"}
           /\ machine' \in {PowerState[cmd], "running"} /\ ret' = 0
  BY <1>3 DEF Machine, Answer, PowerState
<1> QED
  BY <1>1, <1>2, <1>3 DEF power_reboot, PowerState

(* fd_select and the sleeps behind it.                                      *)
LEMMA SelectIsAnswer ==
  ASSUME NEW r \in fd_select(TRUE) \cup fd_select(FALSE)
  PROVE  Answer(r)
<1>1. Answer(0) /\ Answer(ENOTSUP)
  BY DEF Answer, ENOTSUP
<1> QED
  BY <1>1, ErrnoIsAnswer DEF fd_select, time_sleep, Errors

(* The system calls that only answer.                                       *)
LEMMA ValueIsAnswer ==
  ASSUME NEW no \in Nat, no \notin {9, 11}, NEW r \in Value(no)
  PROVE  Answer(r)
<1>1. Answer(0) /\ Answer(EMU_PID) /\ Answer(EMU_PID - 1) /\ Answer(EMU_UID) /\ Answer(EMU_GID)
  BY DEF Answer, EMU_PID, EMU_UID, EMU_GID
<1>2. /\ EPERM \in Errno /\ EPERM = 1
      /\ ENOSYS \in Errno /\ ENOSYS = 38
  BY DEF Errno, EPERM, ENOSYS
<1>3. Answer(-EPERM) /\ Answer(-ENOSYS)
  BY <1>2 DEF Answer
<1>4. \/ r \in fd_select(TRUE) \cup fd_select(FALSE)
      \/ r \in {0, EMU_PID, EMU_PID - 1, EMU_UID, EMU_GID, -EPERM, -ENOSYS}
  BY DEF Value
<1> QED
  BY <1>1, <1>3, <1>4, SelectIsAnswer

(* Any system call. *)
LEMMA SyscallStep ==
  ASSUME LibInv, machine = "running", NEW no \in Nat, syscall_emu_x86_64(no)
  PROVE  /\ FdTypeOK' /\ fds' = fds /\ Answer(ret')
         /\ MemTypeOK' /\ MemoryAccounted'
         /\ machine' \in Machine
         /\ no \notin {4, 6} => open' = open /\ machine' # "wild"
         /\ no \notin {0, 1, 4, 6, 23, 60, 62, 96, 169} => machine' = "running"
<1> USE DEF LibInv, NolibcTypeOK, kept, filesKept, memVars
<1>1. CASE /\ \/ FollowsGarbage(no) /\ machine' = "wild"
              \/ MayFollowNull(no) /\ machine' = "null"
           /\ UNCHANGED <<kept, ret>>
  <2>1. UsesVolume(no) => no \in {4, 6}
    BY NoSlotFound DEF UsesVolume
  <2>2. /\ no \in {0, 1, 4, 6, 23, 96} /\ machine' \in {"null", "wild"}
        /\ machine' = "wild" => no \in {4, 6}
    BY <1>1, <2>1 DEF FollowsGarbage, MayFollowNull
  <2>3. FdTypeOK' /\ fds' = fds /\ open' = open /\ Answer(ret')
    BY <1>1 DEF FdTypeOK
  <2>4. MemTypeOK' /\ MemoryAccounted'
    BY <1>1 DEF MemTypeOK, MemoryAccounted
  <2> QED
    BY <2>2, <2>3, <2>4 DEF Machine
<1>2. CASE /\ no \in FileNo
           /\ Run(IF no \in {4, 6} THEN "stat" ELSE "file", FileCall(no))
           /\ UNCHANGED <<memVars, machine>>
  BY <1>2, FileStep DEF MemTypeOK, MemoryAccounted, FileNo
<1>3. CASE MemoryCall(no) /\ UNCHANGED <<filesKept, machine>>
  <2>1. MemTypeOK' /\ MemoryAccounted' /\ Answer(ret')
    BY <1>3, MmapStep, MunmapStep DEF MemoryCall
  <2>2. no \in {9, 11}
    BY <1>3 DEF MemoryCall
  <2>3. FdTypeOK'
    BY <1>3, <2>1 DEF FdTypeOK, Answer
  <2> QED
    BY <1>3, <2>1, <2>2, <2>3
<1>4. CASE ProcessCall(no) /\ UNCHANGED kept
  <2>1. machine' \in Machine \ {"wild"} /\ Answer(ret')
    <3>1. CASE no = 60 /\ \E s \in Status : proc_exit(s)
      BY <3>1 DEF proc_exit, BsExit, Machine, Answer
    <3>2. CASE no = 62 /\ \E pid \in Pid, sig \in Signal : proc_kill(pid, sig)
      BY <3>2, KillStep
    <3>3. CASE no = 169 /\ \E m1, m2 \in Magic, cmd \in RebootCmd, arg \in Pointer :
                            power_reboot(m1, m2, cmd, arg)
      BY <3>3, RebootStep
    <3> QED
      BY <1>4, <3>1, <3>2, <3>3 DEF ProcessCall
  <2>2. no \in {60, 62, 169}
    BY <1>4 DEF ProcessCall
  <2>3. FdTypeOK'
    BY <1>4, <2>1 DEF FdTypeOK, Answer
  <2>4. MemTypeOK' /\ MemoryAccounted'
    BY <1>4 DEF MemTypeOK, MemoryAccounted
  <2> QED
    BY <1>4, <2>1, <2>2, <2>3, <2>4
<1>5. CASE /\ no \notin FileNo \cup {9, 11, 60, 62, 169}
           /\ ret' \in Value(no)
           /\ UNCHANGED <<kept, machine>>
  <2>1. Answer(ret')
    BY <1>5, ValueIsAnswer
  <2>2. FdTypeOK'
    BY <1>5, <2>1 DEF FdTypeOK, Answer
  <2>3. MemTypeOK' /\ MemoryAccounted'
    BY <1>5 DEF MemTypeOK, MemoryAccounted
  <2> QED
    BY <1>5, <2>1, <2>2, <2>3
<1> QED
  BY <1>1, <1>2, <1>3, <1>4, <1>5 DEF syscall_emu_x86_64

-----------------------------------------------------------------------------
(* What is known of the numbers behind the exported functions: none is one *)
(* of stat's.                                                              *)
SpecialNumber(f, no) ==
  /\ no \in Nat /\ no \notin {4, 6}
  /\ f \notin {"kill", "heap_dealloc", "my_syscall"}

(* No function of the tables makes a call of stat's.                        *)
LEMMA LibraryNumbers ==
  ASSUME NEW table \in ErrnoTables, NEW f \in DOMAIN table
  PROVE  SpecialNumber(f, table[f])
<1>1. CASE table = Numbers1
  BY <1>1 DEF Numbers1, SpecialNumber
<1>2. CASE table = Numbers2
  BY <1>2 DEF Numbers2, SpecialNumber
<1>3. CASE table = Numbers3
  BY <1>3 DEF Numbers3, SpecialNumber
<1>4. CASE table = Numbers4
  BY <1>4 DEF Numbers4, SpecialNumber
<1>5. CASE table = Numbers5
  BY <1>5 DEF Numbers5, SpecialNumber
<1>6. CASE table = Numbers6
  BY <1>6 DEF Numbers6, SpecialNumber
<1>7. CASE table = Numbers7
  BY <1>7 DEF Numbers7, SpecialNumber
<1>8. CASE table = Numbers8
  BY <1>8 DEF Numbers8, SpecialNumber
<1>9. CASE table = Numbers9
  BY <1>9 DEF Numbers9, SpecialNumber
<1> QED
  BY <1>1, <1>2, <1>3, <1>4, <1>5, <1>6, <1>7, <1>8, <1>9 DEF ErrnoTables

(* The functions that leave errno alone only make calls that return.        *)
LEMMA RawLibraryNumbers ==
  ASSUME NEW f \in DOMAIN RawNumbers
  PROVE  /\ RawNumbers[f] \in Nat
         /\ RawNumbers[f] \notin {0, 1, 4, 6, 23, 60, 62, 96, 169}
         /\ f \notin {"kill", "heap_dealloc", "my_syscall"}
BY DEF RawNumbers

(* SET_ERRNO and return -1, after a call that has answered. *)
LEMMA SetErrnoStep ==
  ASSUME LibInv, Answer(ret'), SetErrno
  PROVE  /\ errno' \in Errno \cup {0} /\ res' \in Int
         /\ errno' # errno => res' = -1 /\ machine' = "running"
         /\ machine' = "running" /\ ret' < 0 => res' = -1 /\ errno' = -ret'
BY DEF LibInv, NolibcTypeOK, SetErrno, Answer

-----------------------------------------------------------------------------
(* What each step does besides keeping the invariant: the two action       *)
(* properties.                                                             *)
StepFacts ==
  /\ fn' # "my_syscall" => open' = open /\ fds' = fds
  /\ errno' # errno /\ fn' # "heap_dealloc" => res' = -1 /\ machine' = "running"

(* The parts of the invariant a system call leaves as it found them. *)
KeptParts ==
  /\ FdTypeOK' /\ fds' = fds /\ Answer(ret')
  /\ MemTypeOK' /\ MemoryAccounted'
  /\ machine' \in Machine

(* A call that leaves table, pool and handles alone keeps their parts.      *)
LEMMA KeptUnchanged ==
  ASSUME LibInv, UNCHANGED kept, Answer(ret'), machine' \in Machine
  PROVE  KeptParts
BY DEF LibInv, NolibcTypeOK, FdTypeOK, MemTypeOK, MemoryAccounted, kept, filesKept,
       memVars, KeptParts, Answer

(* From the parts to the whole. *)
LEMMA InvFromParts ==
  ASSUME LibInv, KeptParts, errno' \in Errno \cup {0}, res' \in Int,
         fn' = "kill" /\ machine' = "running" => res' = -1 /\ errno' \in {EPERM, ESRCH, EINVAL},
         machine' = "wild" => fn' = "my_syscall"
  PROVE  LibInv'
BY DEF LibInv, NolibcTypeOK, TableEmpty, KillReturnsOnlyErrors, FailedStartupHarmless,
       KeptParts, Answer

(* The functions that make a call and SET_ERRNO.                            *)
LEMMA ErrnoCallStep ==
  ASSUME LibInv, machine = "running",
         NEW table \in ErrnoTables, NEW f \in DOMAIN table,
         syscall_emu_x86_64(table[f]), SetErrno, fn' = f
  PROVE  LibInv' /\ StepFacts
<1>1. SpecialNumber(f, table[f])
  BY LibraryNumbers
<1>2. KeptParts /\ open' = open /\ machine' # "wild"
  BY <1>1, SyscallStep DEF KeptParts, SpecialNumber
<1>3. /\ errno' \in Errno \cup {0} /\ res' \in Int
      /\ errno' # errno => res' = -1 /\ machine' = "running"
  BY <1>2, SetErrnoStep DEF KeptParts
<1>4. fn' # "kill"
  BY <1>1 DEF SpecialNumber
<1>5. LibInv'
  BY <1>2, <1>3, <1>4, InvFromParts
<1> QED
  BY <1>2, <1>3, <1>5 DEF StepFacts, KeptParts

(* The functions that return what the call returned.                        *)
LEMMA RawCallStep ==
  ASSUME LibInv, machine = "running", NEW f \in DOMAIN RawNumbers, CallRaw(f)
  PROVE  LibInv' /\ StepFacts
<1>1. /\ RawNumbers[f] \in Nat
      /\ RawNumbers[f] \notin {0, 1, 4, 6, 23, 60, 62, 96, 169}
      /\ f \notin {"kill", "heap_dealloc", "my_syscall"}
  BY RawLibraryNumbers
<1>2. KeptParts /\ open' = open /\ machine' = "running"
  BY <1>1, SyscallStep DEF KeptParts, CallRaw
<1>3. errno' = errno /\ errno \in Errno \cup {0} /\ res' \in Int /\ fn' = f
  BY <1>2 DEF CallRaw, KeptParts, Answer, LibInv, NolibcTypeOK
<1>4. LibInv'
  BY <1>1, <1>2, <1>3, InvFromParts
<1> QED
  BY <1>2, <1>3, <1>4 DEF StepFacts, KeptParts

(* brk and sbrk: the call is not dispatched. *)
LEMMA BrkStep ==
  ASSUME LibInv, machine = "running", brk \/ \E inc \in Increment : sbrk(inc)
  PROVE  LibInv' /\ StepFacts
<1>1. /\ syscall_emu_x86_64(12) /\ fn' \in {"brk", "sbrk"}
      /\ \/ errno' = ENOMEM /\ res' = -1
         \/ errno' = errno /\ (res' = 0 \/ \E inc \in Increment : res' = ret' + inc)
  BY DEF brk, sbrk
<1>2. KeptParts /\ open' = open /\ machine' = "running"
  BY <1>1, SyscallStep DEF KeptParts
<1>3. ret' \in Int /\ Increment \subseteq Int
  BY <1>2, NolibcAssumption DEF KeptParts, Answer
<1>4. ENOMEM \in Errno
  BY DEF Errno
<1>5. errno' \in Errno \cup {0} /\ res' \in Int
  BY <1>1, <1>3, <1>4 DEF LibInv, NolibcTypeOK
<1>6. LibInv'
  BY <1>1, <1>2, <1>5, InvFromParts
<1> QED
  BY <1>1, <1>2, <1>6 DEF StepFacts, KeptParts

(* kill, with the probe told apart. *)
LEMMA KillCallStep ==
  ASSUME LibInv, machine = "running", NEW pid \in Pid, NEW sig \in Signal,
         kill(pid, sig)
  PROVE  LibInv' /\ StepFacts
<1>1. /\ machine' \in Machine \ {"null", "wild"} /\ Answer(ret')
      /\ machine' = "running" => ret' \in {-EPERM, -ESRCH, -EINVAL}
  BY KillStep DEF kill, LibInv
<1>2. /\ UNCHANGED kept /\ SetErrno /\ fn' \in {"kill", "probe"}
      /\ KeptParts
  BY <1>1, KeptUnchanged DEF kill
<1>3. /\ errno' \in Errno \cup {0} /\ res' \in Int
      /\ errno' # errno => res' = -1 /\ machine' = "running"
      /\ machine' = "running" /\ ret' < 0 => res' = -1 /\ errno' = -ret'
  BY <1>1, <1>2, SetErrnoStep
<1>4. ASSUME machine' = "running"
      PROVE  res' = -1 /\ errno' \in {EPERM, ESRCH, EINVAL}
  <2>1. EPERM = 1 /\ ESRCH = 3 /\ EINVAL = 22
    BY DEF EPERM, ESRCH, EINVAL
  <2> QED
    BY <1>1, <1>3, <1>4, <2>1
<1>5. LibInv'
  BY <1>1, <1>2, <1>3, <1>4, InvFromParts
<1> QED
  BY <1>2, <1>3, <1>5 DEF StepFacts, kept, filesKept

(* reboot, exit and the return from main.                                   *)
LEMMA EndStep ==
  ASSUME LibInv, machine = "running",
         \/ \E cmd \in RebootCmd : reboot(cmd)
         \/ \E status \in Status : exit(status) \/ return_from_main(status)
  PROVE  LibInv' /\ StepFacts
<1>1. CASE \E cmd \in RebootCmd : reboot(cmd)
  <2>1. machine' \in Machine \ {"wild"} /\ Answer(ret')
    BY <1>1, RebootStep DEF reboot, Magic, Pointer, LibInv
  <2>2. KeptParts
    BY <1>1, <2>1, KeptUnchanged DEF reboot
  <2>3. /\ errno' \in Errno \cup {0} /\ res' \in Int
        /\ errno' # errno => res' = -1 /\ machine' = "running"
    BY <1>1, <2>1, SetErrnoStep DEF reboot
  <2>4. fn' = "reboot" /\ open' = open
    BY <1>1 DEF reboot, kept, filesKept
  <2>5. LibInv'
    BY <2>1, <2>2, <2>3, <2>4, InvFromParts
  <2> QED
    BY <2>2, <2>3, <2>4, <2>5 DEF StepFacts, KeptParts
<1>2. CASE \E status \in Status : exit(status) \/ return_from_main(status)
  <2>1. /\ machine' \in {"END_OF_FILE", "SUCCESS", "hung"}
        /\ UNCHANGED <<kept, ret, errno, res>> /\ fn' \in {"exit", "main"}
    BY <1>2 DEF exit, return_from_main, main_returns, BsExit
  <2>2. KeptParts
    BY <2>1, KeptUnchanged DEF LibInv, Machine
  <2>3. LibInv'
    BY <2>1, <2>2, InvFromParts DEF LibInv, NolibcTypeOK
  <2> QED
    BY <2>1, <2>3 DEF StepFacts, kept, filesKept
<1> QED
  BY <1>1, <1>2

(* sleep and usleep.                                                        *)
LEMMA SleepStep ==
  ASSUME LibInv, machine = "running", sleep(SleepTime) \/ usleep
  PROVE  LibInv' /\ StepFacts
<1>1. /\ ret' \in fd_select(FALSE) /\ UNCHANGED <<kept, machine, errno>>
      /\ res' \in {SleepTime, 0, ret'} /\ fn' \in {"sleep", "usleep"}
  BY DEF sleep, usleep
<1>2. Answer(ret')
  BY <1>1, SelectIsAnswer
<1>3. KeptParts
  BY <1>1, <1>2, KeptUnchanged DEF Machine
<1>4. res' \in Int
  BY <1>1, <1>2, NolibcAssumption DEF Answer
<1>5. LibInv'
  BY <1>1, <1>3, <1>4, InvFromParts DEF LibInv, NolibcTypeOK
<1> QED
  BY <1>1, <1>5 DEF StepFacts, kept, filesKept

(* mmap, munmap, heap_alloc and heap_dealloc.                               *)
LEMMA MemoryStep ==
  ASSUME LibInv, machine = "running",
         \/ \E fd \in FdArg : mmap(fd)
         \/ \E addr \in Address, whole \in BOOLEAN : munmap(addr, whole)
         \/ heap_alloc
         \/ \E memptr \in Address : heap_dealloc(memptr)
  PROVE  LibInv' /\ StepFacts
<1> USE DEF LibInv, NolibcTypeOK
<1>1. MemTypeOK' /\ MemoryAccounted' /\ Answer(ret')
  BY MmapStep, MunmapStep DEF mmap, munmap, heap_alloc, heap_dealloc
<1>2. /\ UNCHANGED <<filesKept, machine>>
      /\ \/ SetErrno /\ fn' \in {"mmap", "munmap", "heap_alloc"}
         \/ /\ res' = res /\ errno' = IF ret' < 0 THEN -ret' ELSE errno
            /\ fn' = "heap_dealloc"
  BY DEF mmap, munmap, heap_alloc, heap_dealloc
<1>3. KeptParts
  BY <1>1, <1>2 DEF KeptParts, filesKept, FdTypeOK, Answer, Machine
<1>4. /\ errno' \in Errno \cup {0} /\ res' \in Int
      /\ errno' # errno /\ fn' # "heap_dealloc" => res' = -1 /\ machine' = "running"
  BY <1>1, <1>2, SetErrnoStep DEF Answer
<1>5. LibInv'
  BY <1>2, <1>3, <1>4, InvFromParts
<1> QED
  BY <1>2, <1>4, <1>5 DEF StepFacts, filesKept

(* A program that uses the macros my_syscall itself.                        *)
LEMMA MacroStep ==
  ASSUME LibInv, machine = "running", NEW no \in SyscallNo, my_syscall(no)
  PROVE  LibInv' /\ StepFacts
<1>1. no \in Nat /\ syscall_emu_x86_64(no) /\ fn' = "my_syscall" /\ errno' = errno
  BY NolibcAssumption DEF my_syscall
<1>2. KeptParts
  BY <1>1, SyscallStep DEF KeptParts
<1>3. errno' \in Errno \cup {0} /\ res' \in Int
  BY <1>1, <1>2 DEF my_syscall, KeptParts, Answer, LibInv, NolibcTypeOK
<1>4. LibInv'
  BY <1>1, <1>2, <1>3, InvFromParts
<1> QED
  BY <1>1, <1>4 DEF StepFacts

-----------------------------------------------------------------------------
(* The library at the entry of main.                                        *)
LEMMA LibInvInit == NolibcInit => LibInv
<1> SUFFICES ASSUME NolibcInit PROVE LibInv
  OBVIOUS
<1>1. FdTypeOK /\ TableEmpty /\ Answer(ret)
  BY DEF NolibcInit, FdInit, FdTypeOK, TableEmpty, Answer
<1>2. MemTypeOK /\ MemoryAccounted
  BY DEF NolibcInit, MemInit, MemTypeOK, MemoryAccounted
<1> QED
  BY <1>1, <1>2 DEF NolibcInit, GetVolume, LibInv, NolibcTypeOK, Machine,
                    KillReturnsOnlyErrors, FailedStartupHarmless

(* One step of the program, whatever it calls. *)
LEMMA LibInvNext ==
  ASSUME LibInv, NolibcNext
  PROVE  LibInv' /\ StepFacts
<1>1. machine = "running"
  BY DEF NolibcNext
<1>2. ASSUME NEW f, CallWithErrno(f)
      PROVE  LibInv' /\ StepFacts
  BY <1>1, <1>2, ErrnoCallStep DEF CallWithErrno
<1> QED
  BY <1>1, <1>2, RawCallStep, BrkStep, KillCallStep, EndStep, SleepStep, MemoryStep, MacroStep
     DEF NolibcNext

(* Stuttering keeps the invariant.                                          *)
LEMMA LibStutter ==
  LibInv /\ UNCHANGED libcVars => LibInv'
BY DEF LibInv, NolibcTypeOK, FdTypeOK, MemTypeOK, TableEmpty, Answer, MemoryAccounted,
       KillReturnsOnlyErrors, FailedStartupHarmless, libcVars, fdVars, memVars

(* The invariant of the library. *)
THEOREM LibraryAlways == NolibcSpec => []LibInv
<1>1. LibInv /\ [NolibcNext]_libcVars => LibInv'
  BY LibInvNext, LibStutter
<1> QED
  BY <1>1, LibInvInit, PTL DEF NolibcSpec

(* The types; in particular, errno only holds numbers of the table in      *)
(* linux-uefi.h, whatever the firmware answers.                            *)
THEOREM LibraryTypesAlways == NolibcSpec => []NolibcTypeOK
<1>1. LibInv => NolibcTypeOK
  BY DEF LibInv
<1> QED
  BY <1>1, LibraryAlways, PTL

(* A kill with a signal other than 0 returns with one of three errors or   *)
(* not at all, whatever BS->Exit does.                                     *)
THEOREM KillNeverSucceeds == NolibcSpec => []KillReturnsOnlyErrors
<1>1. LibInv => KillReturnsOnlyErrors
  BY DEF LibInv
<1> QED
  BY <1>1, LibraryAlways, PTL

(* A block that mmap has answered with is allocated until it is unmapped,  *)
(* and is not afterwards; those unmapped in part, and those given back by  *)
(* heap_dealloc, which does not look at the answer, are left out.          *)
THEOREM MemoryAlwaysAccounted == NolibcSpec => []MemoryAccounted
<1>1. LibInv => MemoryAccounted
  BY DEF LibInv
<1> QED
  BY <1>1, LibraryAlways, PTL

(* After a startup that has not found a volume, the handle nobody has      *)
(* written is followed by a program's own stat and open, and by no         *)
(* function of the library.                                                *)
THEOREM StartupHarmless == NolibcSpec => []FailedStartupHarmless
<1>1. LibInv => FailedStartupHarmless
  BY DEF LibInv
<1> QED
  BY <1>1, LibraryAlways, PTL

(* errno is set by calls that return -1, and by heap_dealloc. *)
THEOREM ErrnoSetByFailures == NolibcSpec => ErrnoOnlyOnFailure
<1>1. LibInv /\ [NolibcNext]_libcVars =>
        [errno' # errno /\ fn' # "heap_dealloc" => res' = -1 /\ machine' = "running"]_libcVars
  BY LibInvNext DEF StepFacts
<1> QED
  BY <1>1, LibraryAlways, PTL DEF NolibcSpec, ErrnoOnlyOnFailure

(* No function of the library opens or closes a handle of the firmware.    *)
LibraryOpensNoHandle ==
  [][fn' # "my_syscall" => open' = open /\ fds' = fds]_libcVars

(* No exported function reaches a handle of the firmware: the numbers      *)
(* nolibc uses for open, dup2 and stat are not dispatched.                 *)
THEOREM LibraryNeverOpens == NolibcSpec => LibraryOpensNoHandle
<1>1. LibInv /\ [NolibcNext]_libcVars =>
        [fn' # "my_syscall" => open' = open /\ fds' = fds]_libcVars
  BY LibInvNext DEF StepFacts
<1> QED
  BY <1>1, LibraryAlways, PTL DEF NolibcSpec, LibraryOpensNoHandle

-----------------------------------------------------------------------------
(* The table of files as a program over the library and the macros finds it.*)

(* A step leaves the handles and the count of stats alone, or runs fd_stat. *)
HandleStep ==
  \/ open' = open /\ stats' = stats
  \/ Run("stat", fd_stat)

(* No system call but stat opens a handle, by whatever number.              *)
LEMMA SyscallHandles ==
  ASSUME TableEmpty, NEW no \in Nat, syscall_emu_x86_64(no)
  PROVE  HandleStep
<1>1. CASE UNCHANGED filesKept
  BY <1>1 DEF filesKept, HandleStep
<1>2. CASE no \in {4, 6} /\ Run("stat", FileCall(no))
  BY <1>2 DEF FileCall, HandleStep
<1>3. CASE no \in FileNo \ {4, 6} /\ Run("file", FileCall(no))
  <2>1. PICK x \in FileCall(no) : open' = x.open /\ stats' = stats
    BY <1>3 DEF Run
  <2>2. x.open = open
    BY <1>3, FileOutcomes
  <2> QED
    BY <2>1, <2>2 DEF HandleStep
<1> QED
  BY <1>1, <1>2, <1>3 DEF syscall_emu_x86_64, kept

(* Nor does a function of the library.                                      *)
LEMMA LibraryHandles ==
  ASSUME LibInv, NolibcNext
  PROVE  HandleStep
<1> USE DEF LibInv
<1>1. ASSUME NEW f, CallWithErrno(f) PROVE HandleStep
  <2>1. PICK table \in ErrnoTables : f \in DOMAIN table /\ syscall_emu_x86_64(table[f])
    BY <1>1 DEF CallWithErrno
  <2>2. table[f] \in Nat
    BY <2>1, LibraryNumbers DEF SpecialNumber
  <2> QED
    BY <2>1, <2>2, SyscallHandles
<1>2. ASSUME NEW f \in DOMAIN RawNumbers, CallRaw(f) PROVE HandleStep
  BY <1>2, RawLibraryNumbers, SyscallHandles DEF CallRaw
<1>3. CASE brk \/ \E inc \in Increment : sbrk(inc)
  BY <1>3, SyscallHandles DEF brk, sbrk
<1>4. ASSUME NEW no \in SyscallNo, my_syscall(no) PROVE HandleStep
  BY <1>4, SyscallHandles, NolibcAssumption DEF my_syscall
<1>5. CASE UNCHANGED filesKept
  BY <1>5 DEF filesKept, HandleStep
<1> QED
  BY <1>1, <1>2, <1>3, <1>4, <1>5
  DEF NolibcNext, kill, reboot, exit, sleep, usleep, mmap, munmap, heap_alloc, heap_dealloc,
      return_from_main, kept

(* With finitely many handles open, which is what makes them countable. *)
LeakInv == LibInv /\ IsFiniteSet(open) /\ EveryStatLeaksAHandle

(* Each stat that succeeds adds a handle, and nothing takes one away.       *)
LEMMA LeakNext == LeakInv /\ [NolibcNext]_libcVars => LeakInv'
<1> SUFFICES ASSUME LeakInv, [NolibcNext]_libcVars
             PROVE  IsFiniteSet(open') /\ EveryStatLeaksAHandle'
  BY LibInvNext, LibStutter DEF LeakInv
<1>1. FdTypeOK /\ IsFiniteSet(open) /\ stats <= Cardinality(open) /\ stats \in Nat
  BY DEF LeakInv, LibInv, NolibcTypeOK, FdTypeOK, EveryStatLeaksAHandle
<1>2. CASE open' = open /\ stats' = stats
  BY <1>1, <1>2 DEF EveryStatLeaksAHandle
<1>3. CASE Run("stat", fd_stat)
  <2>1. ASSUME NEW h \in Handle \ open,
               open' = open \cup {h}, stats' \in {stats, stats + 1}
        PROVE  IsFiniteSet(open') /\ stats' <= Cardinality(open')
    <3>1. IsFiniteSet(open') /\ Cardinality(open') = Cardinality(open) + 1
      BY <1>1, <2>1, FS_AddElement
    <3>2. Cardinality(open) \in Nat
      BY <1>1, FS_CardinalityType
    <3> QED
      BY <1>1, <2>1, <3>1, <3>2
  <2> QED
    BY <1>1, <1>2, <1>3, <2>1, StatStep DEF EveryStatLeaksAHandle
<1>4. HandleStep \/ UNCHANGED libcVars
  BY LibraryHandles DEF LeakInv
<1> QED
  BY <1>2, <1>3, <1>4 DEF HandleStep, libcVars, fdVars

(* What was proved of the handlers on their own stands in a program that    *)
(* mixes them with memory, sleep and power: each successful stat of a       *)
(* macro has leaked a handle.                                               *)
THEOREM StatAlwaysLeaksInLibrary == NolibcSpec => []EveryStatLeaksAHandle
<1>1. NolibcInit => LeakInv
  BY LibInvInit, FS_EmptySet DEF NolibcInit, FdInit, LeakInv, EveryStatLeaksAHandle
<1>2. LeakInv => EveryStatLeaksAHandle
  BY DEF LeakInv
<1> QED
  BY <1>1, <1>2, LeakNext, PTL DEF NolibcSpec

(* And no function of the library, nor any system call, closes a handle. *)
THEOREM HandlesNeverCloseInLibrary == NolibcSpec => HandlesOnlyAccumulate
<1>1. LibInv /\ [NolibcNext]_libcVars =>
        [open \subseteq open' /\ (open' # open => call' = "stat")]_fdVars
  <2> SUFFICES ASSUME LibInv, NolibcNext
               PROVE  open \subseteq open' /\ (open' # open => call' = "stat")
    BY DEF libcVars
  <2> QED
    BY LibraryHandles, StatStep DEF HandleStep, LibInv, NolibcTypeOK
<1> QED
  BY <1>1, LibraryAlways, PTL DEF NolibcSpec, HandlesOnlyAccumulate

-----------------------------------------------------------------------------
(* The functions that are to hand out a descriptor. *)
Opens == {"open", "dup", "dup2", "dup3", "memfd_create"}

OpenErrors == {EBADF, EACCES, EMFILE, ENOSYS}

(* Such a function has just failed, with an errno that says why. *)
NoDescriptorReturned ==
  fn \in Opens /\ machine = "running" =>
    res = -1 /\ errno \in OpenErrors

(* Their numbers are those of calls nobody dispatches, except for dup. *)
LEMMA OpensNumbers ==
  ASSUME NEW table \in ErrnoTables, NEW f \in DOMAIN table, f \in Opens
  PROVE  table[f] \in {32, 257, 292, 319}
<1>1. CASE table \in {Numbers1, Numbers2, Numbers3}
  BY <1>1 DEF Numbers1, Numbers2, Numbers3, Opens
<1>2. CASE table \in {Numbers4, Numbers5, Numbers6}
  BY <1>2 DEF Numbers4, Numbers5, Numbers6, Opens
<1>3. CASE table \in {Numbers7, Numbers8, Numbers9}
  BY <1>3 DEF Numbers7, Numbers8, Numbers9, Opens
<1> QED
  BY <1>1, <1>2, <1>3 DEF ErrnoTables

(* The system calls that should give out a descriptor fail.                 *)
LEMMA OpensFail ==
  ASSUME LibInv, machine = "running", NEW no \in {32, 257, 292, 319},
         syscall_emu_x86_64(no)
  PROVE  \E e \in OpenErrors : ret' = -e
<1>1. CASE no = 32
  <2>1. Run("file", FileCall(no))
    BY <1>1 DEF syscall_emu_x86_64, FollowsGarbage, MayFollowNull, UsesVolume, MemoryCall,
              ProcessCall, FileNo
  <2>2. PICK x \in FileCall(no) : ret' = x.ret
    BY <2>1 DEF Run
  <2>3. PICK fd \in FdArg : x \in fd_dup(fd)
    BY <1>1, <2>2 DEF FileCall
  <2>4. x \in {Fail(EBADF), Fail(EACCES), Fail(EMFILE)}
    BY <2>3, HandlersFail DEF LibInv, Failure
  <2> QED
    BY <2>2, <2>4 DEF Fail, Result, Outcome, OpenErrors
<1>2. CASE no # 32
  <2>1. ret' \in Value(no)
    BY <1>2 DEF syscall_emu_x86_64, FollowsGarbage, MayFollowNull, UsesVolume, MemoryCall,
              ProcessCall, FileNo
  <2>2. no = 257 \/ no = 292 \/ no = 319
    BY <1>2
  <2>3. ret' \in {-ENOSYS}
    <3>1. CASE no = 257
      BY <2>1, <3>1 DEF Value
    <3>2. CASE no = 292
      BY <2>1, <3>2 DEF Value
    <3>3. CASE no = 319
      BY <2>1, <3>3 DEF Value
    <3> QED
      BY <2>2, <3>1, <3>2, <3>3
  <2>4. ret' = -ENOSYS
    BY <2>3
  <2> QED
    BY <2>4 DEF OpenErrors
<1> QED
  BY <1>1, <1>2

(* Only a call of one of them makes it the last function called. *)
LEMMA OpensNext ==
  LibInv /\ NoDescriptorReturned /\ [NolibcNext]_libcVars => NoDescriptorReturned'
<1> SUFFICES ASSUME LibInv, NoDescriptorReturned, [NolibcNext]_libcVars,
                    fn' \in Opens, machine' = "running"
             PROVE  res' = -1 /\ errno' \in OpenErrors
  BY DEF NoDescriptorReturned
<1>1. CASE UNCHANGED libcVars
  BY <1>1 DEF NoDescriptorReturned, libcVars
<1>2. ASSUME NEW f, CallWithErrno(f), machine = "running"
      PROVE  res' = -1 /\ errno' \in OpenErrors
  <2>1. PICK table \in ErrnoTables :
          /\ f \in DOMAIN table /\ syscall_emu_x86_64(table[f]) /\ SetErrno /\ fn' = f
    BY <1>2 DEF CallWithErrno
  <2>2. PICK e \in OpenErrors : ret' = -e
    BY <1>2, <2>1, OpensNumbers, OpensFail
  <2>3. e \in {9, 13, 24, 38}
    BY DEF OpenErrors, EBADF, EACCES, EMFILE, ENOSYS
  <2>4. ret' < 0 /\ -ret' = e
    BY <2>2, <2>3
  <2> QED
    BY <2>1, <2>4 DEF SetErrno
<1>3. ASSUME NEW f \in DOMAIN RawNumbers, CallRaw(f) PROVE FALSE
  BY <1>3 DEF CallRaw, RawNumbers, Opens
<1> QED
  BY <1>1, <1>2, <1>3
  DEF NolibcNext, brk, sbrk, kill, reboot, exit, sleep, usleep, mmap, munmap, heap_alloc,
      heap_dealloc, my_syscall, return_from_main, Opens

(* No function of the library ever gives a program a file descriptor:       *)
(* whatever was called before, open, dup and their like return -1, and      *)
(* errno is one of four numbers.                                            *)
THEOREM LibraryIssuesNoDescriptor == NolibcSpec => []NoDescriptorReturned
<1>1. NolibcInit => LibInv /\ NoDescriptorReturned
  BY LibInvInit DEF NolibcInit, NoDescriptorReturned, Opens
<1>2. LibInv /\ NoDescriptorReturned /\ [NolibcNext]_libcVars
        => (LibInv /\ NoDescriptorReturned)'
  BY OpensNext, LibInvNext, LibStutter
<1> QED
  BY <1>1, <1>2, PTL DEF NolibcSpec
=============================================================================
