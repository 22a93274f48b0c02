------------------------------- MODULE Nolibc -------------------------------
(***************************************************************************)
(* The system call dispatcher and the C library functions on top of it.    *)
(*                                                                         *)
(* A program calls an exported function of nolibc, which passes a system   *)
(* call number to syscall_emu_x86_64 and turns the result into a return    *)
(* value and errno; or it uses the my_syscall macros itself.  The system   *)
(* call numbers are those the kernel headers give on x86-64; where nolibc  *)
(* has a choice it takes the newer call (openat for open).                 *)
(***************************************************************************)
EXTENDS FdTable, Memory, Startup

CONSTANTS
  MaxNfds,    \* bound: the most descriptors passed to select
  Increment,  \* the increments passed to sbrk
  SleepTime,  \* the time passed to sleep
  SyscallNo   \* the numbers passed to the my_syscall macros

ASSUME NolibcAssumption ==
  /\ MaxNfds \in Nat
  /\ Increment \subseteq Int
  /\ SleepTime \in Nat
  /\ SyscallNo \subseteq Nat

VARIABLES
  errno,   \* the C variable
  res,     \* what the function returned to the program
  fn       \* history: the function the program called last

libcVars == <<fdVars, memVars, machine, volume, errno, res, fn>>

(* What a handler leaves alone that is not one of the file handlers, or    *)
(* not one of the memory's.                                                *)
filesKept == <<fds, open, call, stats>>
kept == <<filesKept, memVars>>

-----------------------------------------------------------------------------
(* syscall_emu_x86_64 *)

FileNo == {0, 1, 2, 3, 4, 5, 6, 8, 32, 33, 74, 75, 217}

(* One byte from the console, by ConsoleIn; n bytes to it, by ConsoleOut. *)
ConsoleRead == {Result(1), Result(2)}
ConsoleWrite == {Result(1), Fail(EIO)}

FileCall(no) ==
  IF no = 2 THEN fd_open
  ELSE IF no \in {4, 6} THEN fd_stat
  ELSE UNION {
    CASE no = 0 -> IF fd = 0 THEN ConsoleRead ELSE fd_read_file(fd)
      [] no = 1 -> IF fd \in {1, 2} THEN ConsoleWrite ELSE fd_write_file(fd)
      [] no = 3 -> fd_close(fd)
      [] no = 5 -> fd_fstat(fd)
      [] no = 8 -> fd_lseek(fd)
      [] no = 32 -> fd_dup(fd)
      [] no = 33 -> UNION {fd_dup2(fd, new) : new \in FdArg}
      [] no \in {74, 75} -> fd_fsync(fd)
      [] no = 217 -> fd_getdents64(fd)
    : fd \in FdArg}

Errors == {-efi_status_to_errno(s) : s \in EfiError}

time_sleep == {0} \cup Errors

(* A select on descriptors answers with ENOTSUP, not with -ENOTSUP; one    *)
(* without is a way to sleep.                                              *)
fd_select(watching) == IF watching THEN {ENOTSUP} ELSE time_sleep

(* The calls that change nothing here. *)
Value(no) ==
  CASE no = 23 -> fd_select(TRUE) \cup fd_select(FALSE)
    [] no \in {10, 24, 96} -> {0}
    [] no \in {39, 186} -> {EMU_PID}
    [] no = 110 -> {EMU_PID - 1}
    [] no \in {102, 107} -> {EMU_UID}
    [] no \in {104, 108} -> {EMU_GID}
    [] no \in {105, 106} -> {-EPERM}
    [] OTHER -> {-ENOSYS}

MemoryCall(no) ==
  \/ no = 9 /\ \E fd \in FdArg : mem_mmap(fd) /\ Mapped
  \/ no = 11 /\ \E addr \in Address, whole \in BOOLEAN :
                  mem_munmap(addr) /\ Unmapped(addr, whole)

ProcessCall(no) ==
  \/ no = 60 /\ \E s \in Status : proc_exit(s)
  \/ no = 62 /\ \E pid \in Pid, sig \in Signal : proc_kill(pid, sig)
  \/ no = 169 /\ \E m1, m2 \in Magic, cmd \in RebootCmd, arg \in Pointer :
                   power_reboot(m1, m2, cmd, arg)

(* Variant: a break is missing, and close falls through into stat. *)
UsesVolumeFallsThrough(no) ==
  no \in {3, 4, 6} \/ (no = 2 /\ fd_real_find_free >= 0)

(* The calls that go through Volume, whatever that is: stat, and an open   *)
(* that has found a slot.                                                  *)
UsesVolume(no) ==
  no \in {4, 6} \/ (no = 2 /\ fd_real_find_free >= 0)

FollowsGarbage(no) == volume = "garbage" /\ UsesVolume(no)

(* The calls that follow a pointer of the program before they have failed: *)
(* the buffer of the console, the timeout of a select without descriptors, *)
(* the struct of gettimeofday, and the path in a call that uses Volume.    *)
(* (The string of a restart is an argument of power_reboot.)               *)
MayFollowNull(no) == no \in {0, 1, 23, 96} \/ UsesVolume(no)

syscall_emu_x86_64(no) ==
  \/ /\ FollowsGarbage(no)
     /\ machine' = "wild"
     /\ UNCHANGED <<kept, ret>>
  \/ /\ MayFollowNull(no)
     /\ machine' = "null"
     /\ UNCHANGED <<kept, ret>>
  \/ /\ no \in FileNo /\ ~FollowsGarbage(no)
     /\ Run(IF no \in {4, 6} THEN "stat" ELSE "file", FileCall(no))
     /\ UNCHANGED <<memVars, machine>>
  \/ MemoryCall(no) /\ UNCHANGED <<filesKept, machine>>
  \/ ProcessCall(no) /\ UNCHANGED kept
  \/ /\ no \notin FileNo \cup {9, 11, 60, 62, 169}
     /\ ret' \in Value(no)
     /\ UNCHANGED <<kept, machine>>

-----------------------------------------------------------------------------
(* The system call behind each exported function, in the order of the file.*)

Numbers1 == [chdir |-> 80, chmod |-> 268, chown |-> 260, chroot |-> 161,
             close |-> 3]
Numbers2 == [dup |-> 32, dup2 |-> 292, dup3 |-> 292, execve |-> 59]
Numbers3 == [fork |-> 56, fsync |-> 74, getdents64 |-> 217, getpgid |-> 121]
Numbers4 == [gettimeofday |-> 96, ioctl |-> 16, link |-> 265]
Numbers5 == [lseek |-> 8, mkdir |-> 258, mknod |-> 259]
Numbers6 == [mount |-> 165, open |-> 257, prctl |-> 157,
             pivot_root |-> 155]
Numbers7 == [poll |-> 271, read |-> 0, sched_yield |-> 24, select |-> 23]
Numbers8 == [setpgid |-> 109, setsid |-> 112, stat |-> 262, symlink |-> 266]
Numbers9 == [umount2 |-> 166, unlink |-> 263, wait |-> 61, wait4 |-> 61,
             waitpid |-> 61, write |-> 1, memfd_create |-> 319, tcsetpgrp |-> 16]

ErrnoTables == {Numbers1, Numbers2, Numbers3, Numbers4, Numbers5, Numbers6,
                Numbers7, Numbers8, Numbers9}

(* The functions that hand the result through as it is. *)
RawNumbers == [geteuid |-> 107, getpgrp |-> 121, getpid |-> 39, getppid |-> 110,
               gettid |-> 186, getuid |-> 102, umask |-> 95]

(* Variant: errno gets the negative number. *)
SetErrnoNegative ==
  IF machine' # "running" THEN UNCHANGED <<errno, res>>
  ELSE IF ret' < 0 THEN errno' = ret' /\ res' = -1
  ELSE res' = ret' /\ UNCHANGED errno

(* Variant: success clears errno. *)
SetErrnoAlways ==
  IF machine' # "running" THEN UNCHANGED <<errno, res>>
  ELSE IF ret' < 0 THEN errno' = -ret' /\ res' = -1
  ELSE res' = ret' /\ errno' = 0

(* if (ret < 0) { SET_ERRNO(-ret); ret = -1; }, for a call that returns. *)
SetErrno ==
  IF machine' # "running" THEN UNCHANGED <<errno, res>>
  ELSE IF ret' < 0 THEN errno' = -ret' /\ res' = -1
  ELSE res' = ret' /\ UNCHANGED errno

CallWithErrno(f) ==
  \E table \in ErrnoTables :
    /\ f \in DOMAIN table
    /\ syscall_emu_x86_64(table[f])
    /\ SetErrno
    /\ fn' = f

CallRaw(f) ==
  /\ syscall_emu_x86_64(RawNumbers[f])
  /\ res' = ret' /\ UNCHANGED errno
  /\ fn' = f

(* A null pointer is the failure brk looks for; there is no system call 12,*)
(* and -ENOSYS is no null pointer.                                         *)
brk ==
  /\ syscall_emu_x86_64(12)
  /\ IF ret' = 0 THEN errno' = ENOMEM /\ res' = -1
                 ELSE res' = 0 /\ UNCHANGED errno
  /\ fn' = "brk"

(* Both calls of sys_brk answer alike: only an increment of 0 succeeds. *)
sbrk(inc) ==
  /\ syscall_emu_x86_64(12)
  /\ IF ret' # 0 /\ ret' + inc = ret'
       THEN res' = ret' + inc /\ UNCHANGED errno
       ELSE errno' = ENOMEM /\ res' = -1
  /\ fn' = "sbrk"

(* A kill with signal 0 is recorded as what man(2) makes of it, a probe.   *)
kill(pid, sig) ==
  /\ proc_kill(pid, sig)
  /\ SetErrno
  /\ UNCHANGED kept
  /\ fn' = IF sig = 0 THEN "probe" ELSE "kill"

(* The library never passes a string for the restart. *)
reboot(cmd) ==
  /\ power_reboot("right", "right", cmd, "null")
  /\ SetErrno
  /\ UNCHANGED kept
  /\ fn' = "reboot"

(* status & 255; an exit that comes back spins. *)
exit(status) ==
  /\ BsExit(IF status % 256 # 0 THEN "END_OF_FILE" ELSE "SUCCESS", "hung")
  /\ UNCHANGED <<kept, ret, errno, res>>
  /\ fn' = "exit"

(* sleep and msleep return the whole time when select fails. *)
sleep(time) ==
  /\ ret' \in fd_select(FALSE)
  /\ res' = IF ret' < 0 THEN time ELSE 0
  /\ UNCHANGED <<kept, machine, errno>>
  /\ fn' = "sleep"

usleep ==
  /\ ret' \in fd_select(FALSE)
  /\ res' = ret'
  /\ UNCHANGED <<kept, machine, errno>>
  /\ fn' = "usleep"

mmap(fd) ==
  /\ mem_mmap(fd) /\ Mapped
  /\ UNCHANGED <<filesKept, machine>>
  /\ SetErrno
  /\ fn' = "mmap"

munmap(addr, whole) ==
  /\ mem_munmap(addr) /\ Unmapped(addr, whole)
  /\ UNCHANGED <<filesKept, machine>>
  /\ SetErrno
  /\ fn' = "munmap"

(* What the C library's heap takes its memory from: it gets MAP_FAILED,    *)
(* not a null pointer, when there is none.                                 *)
heap_alloc ==
  /\ mem_mmap(-1) /\ Mapped
  /\ UNCHANGED <<filesKept, machine>>
  /\ SetErrno
  /\ fn' = "heap_alloc"

(* The heap never hears that munmap has failed, although errno is set. *)
heap_dealloc(memptr) ==
  /\ mem_munmap(memptr) /\ GivenBack(memptr)
  /\ UNCHANGED <<filesKept, machine, res>>
  /\ errno' = IF ret' < 0 THEN -ret' ELSE errno
  /\ fn' = "heap_dealloc"

(* A program that uses the my_syscall macros. *)
my_syscall(no) ==
  /\ syscall_emu_x86_64(no)
  /\ res' = IF machine' = "running" THEN ret' ELSE res
  /\ UNCHANGED errno
  /\ fn' = "my_syscall"

return_from_main(status) ==
  /\ main_returns(status)
  /\ UNCHANGED <<kept, ret, errno, res>>
  /\ fn' = "main"

-----------------------------------------------------------------------------
NolibcInit ==
  /\ GetVolume
  /\ FdInit /\ MemInit
  /\ errno = 0 /\ res = 0 /\ fn = "none"

NolibcNext ==
  /\ machine = "running"
  /\ UNCHANGED volume
  /\ \/ \E f \in UNION {DOMAIN table : table \in ErrnoTables} : CallWithErrno(f)
     \/ \E f \in DOMAIN RawNumbers : CallRaw(f)
     \/ brk
     \/ \E inc \in Increment : sbrk(inc)
     \/ \E pid \in Pid, sig \in Signal : kill(pid, sig)
     \/ \E cmd \in RebootCmd : reboot(cmd)
     \/ \E status \in Status : exit(status)
     \/ sleep(SleepTime)
     \/ usleep
     \/ \E fd \in FdArg : mmap(fd)
     \/ \E addr \in Address, whole \in BOOLEAN : munmap(addr, whole)
     \/ heap_alloc
     \/ \E memptr \in Address : heap_dealloc(memptr)
     \/ \E no \in SyscallNo : my_syscall(no)
     \/ \E status \in Status : return_from_main(status)

NolibcSpec == NolibcInit /\ [][NolibcNext]_libcVars

-----------------------------------------------------------------------------
Machine == {"running", "END_OF_FILE", "SUCCESS", "ABORTED", "hung", "halted",
            "off", "restarted", "null", "wild"}

(* In particular, errno only ever holds numbers of include/linux-uefi.h. *)
NolibcTypeOK ==
  /\ FdTypeOK /\ MemTypeOK
  /\ machine \in Machine
  /\ errno \in Errno \cup {0}
  /\ res \in Int

(* A call that does not return -1 leaves errno alone, and so does one that *)
(* does not return at all; heap_dealloc, which returns nothing, does not.  *)
ErrnoOnlyOnFailure ==
  [][errno' # errno /\ fn' # "heap_dealloc"
       => res' = -1 /\ machine' = "running"]_libcVars

(* A kill that is no probe comes back only to report an error: with the    *)
(* process's own number and a signal below 30, the program has ended, even *)
(* if the firmware refuses BS->Exit.                                       *)
KillReturnsOnlyErrors ==
  fn = "kill" /\ machine = "running" => res = -1 /\ errno \in {EPERM, ESRCH, EINVAL}

(* Without a volume the library still works: unless HandleProtocol itself  *)
(* has failed, or the program makes system calls of its own, nobody        *)
(* follows the handle that GetVolume never got, because no function of the *)
(* library gets as far as Volume.                                          *)
FailedStartupHarmless ==
  machine = "wild" => fn \in {"none", "my_syscall"}

-----------------------------------------------------------------------------
(* README.md lists "File I/O" and "Directory I/O" as implemented: the      *)
(* functions that open, look up and redirect files may fail, but not for   *)
(* want of the system call.                                                *)
FileFunctionsDispatched ==
  fn \in {"open", "stat", "dup2"} /\ res = -1 => errno # ENOSYS

(* The parts of InterfaceMatchesManual; RestStaysMapped is in Memory.      *)
(*                                                                         *)
(* When its system call fails, brk or sbrk returns -1 and errno is ENOMEM. *)
BrkReportsFailure ==
  fn \in {"brk", "sbrk"} /\ ret < 0 => res = -1 /\ errno = ENOMEM

(* kill(2): with signal 0, no signal is sent. *)
ProbeOnlyProbes == fn = "probe" => machine = "running"

(* reboot(2) takes no string from its caller, select(2) blocks for want of *)
(* a timeout and gettimeofday(2) sets nothing for want of a struct: none   *)
(* of them follows a null pointer.                                         *)
NullIsNoPointer ==
  fn \in {"reboot", "select", "gettimeofday"} => machine # "null"

(* unistd.h says of the exported functions that their "interface must      *)
(* closely match the one documented in man(2)".                            *)
InterfaceMatchesManual ==
  BrkReportsFailure /\ ProbeOnlyProbes /\ RestStaysMapped /\ NullIsNoPointer

(* unistd.h says of the internal functions that they "return either a      *)
(* valid value or -errno"; for select, a valid value is a number of ready  *)
(* descriptors, at most the number it was given.                           *)
SelectValueIsValid == fn = "select" => ret <= MaxNfds
=============================================================================
