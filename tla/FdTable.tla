------------------------------ MODULE FdTable ------------------------------
(***************************************************************************)
(* The file descriptor table fds[MAX_FDS] and the handlers that use it.    *)
(*                                                                         *)
(* A program sees virtual descriptors: 0, 1 and 2 are the console, slot i  *)
(* of the table is descriptor i + VIRTUAL_FD_BASE.  A slot holds a file    *)
(* handle of the firmware, or NULL.  What the firmware has open besides    *)
(* the volume is the set open; it answers any call with an error whenever  *)
(* it likes.  Contents and positions of files are not modelled.            *)
(*                                                                         *)
(* A handler is a set of outcomes, one for each way it can go, because     *)
(* handlers call each other.                                               *)
(***************************************************************************)
EXTENDS Kernel, FiniteSets

CONSTANTS
  MAX_FDS,          \* slots of the table, 16
  VIRTUAL_FD_BASE,  \* the descriptor of slot 0, 4
  Handle,           \* the file handles the firmware can give out
  NULL,             \* (EFI_FILE_HANDLE)0
  FdArg             \* the integers programs pass as descriptors

Slot == 0..(MAX_FDS - 1)

ASSUME FdTableAssumption ==
  /\ MAX_FDS \in Nat /\ MAX_FDS > 0
  /\ VIRTUAL_FD_BASE \in Nat /\ VIRTUAL_FD_BASE > 0
  /\ NULL \notin Handle
  /\ FdArg \subseteq Int

VARIABLES
  fds,       \* the table
  open,      \* the handles the firmware holds open
  call,      \* history: the handler that ran last
  stats      \* history: how often fd_stat has succeeded

fdVars == <<fds, open, ret, call, stats>>

TO_REAL_FD(fd) == fd - VIRTUAL_FD_BASE
TO_VIRTUAL_FD(fd) == fd + VIRTUAL_FD_BASE

(* Variant: a loop bound one too high when the table is cleared. *)
FdInitOneMore ==
  /\ fds = [i \in 0..MAX_FDS |-> NULL]
  /\ open = {}
  /\ ret = 0 /\ call = "none" /\ stats = 0

(* efi_main clears the table before it calls main. *)
FdInit ==
  /\ fds = [i \in Slot |-> NULL]
  /\ open = {}
  /\ ret = 0 /\ call = "none" /\ stats = 0

-----------------------------------------------------------------------------
(* Outcomes: the table, the open handles and the result of a handler. *)

Outcome(f, o, r) == [fds |-> f, open |-> o, ret |-> r]
Result(r) == Outcome(fds, open, r)
Fail(errno) == Result(-errno)

(* A firmware call on a handle that changes nothing here. *)
StatusResults == {Result(0)} \cup {Fail(efi_status_to_errno(s)) : s \in EfiError}

(* Variant: 0 when there is none, the way fd_real_for_handle answers. *)
find_free_or_zero ==
  IF \E i \in Slot : fds[i] # NULL
    THEN CHOOSE i \in Slot : fds[i] # NULL /\ \A j \in 0..(i - 1) : fds[j] = NULL
    ELSE 0

(* The first occupied slot; -1 when there is none. *)
fd_real_find_free ==
  IF \E i \in Slot : fds[i] # NULL
    THEN CHOOSE i \in Slot : fds[i] # NULL /\ \A j \in 0..(i - 1) : fds[j] = NULL
    ELSE -1

(* The first slot of table f that holds h; 0 also when there is none. *)
fd_real_for_handle(f, h) ==
  IF \E i \in Slot : f[i] = h
    THEN CHOOSE i \in Slot : f[i] = h /\ \A j \in 0..(i - 1) : f[j] # h
    ELSE 0

fd_real_reset(i) == [fds EXCEPT ![i] = NULL]

(* The checks every handler starts with before it works on a handle. *)
OnHandle(fd, outcomes) ==
  IF fd > MAX_FDS THEN {Fail(EBADF)}
  ELSE IF fd < VIRTUAL_FD_BASE THEN {Fail(EACCES)}
  ELSE IF fds[TO_REAL_FD(fd)] = NULL THEN {Fail(EBADF)}
  ELSE outcomes

(* Volume->Open; no path out of fd_open closes the handle again, and none  *)
(* stores it in the table.                                                 *)
OpenOutcomes(fd) ==
  LET opened == {Outcome(fds, open \cup {h}, r) :
                   h \in Handle \ open,
                   r \in {TO_VIRTUAL_FD(fd), -ENOTDIR, -EISDIR}
                         \cup {-efi_status_to_errno(s) : s \in EfiError}}
  IN  opened \cup {Fail(efi_status_to_errno(s)) : s \in EfiError}

fd_open ==
  IF fd_real_find_free < 0 THEN {Fail(EMFILE)} ELSE OpenOutcomes(fd_real_find_free)

fd_close(fd) ==
  OnHandle(fd,
    LET h == fds[TO_REAL_FD(fd)]
        table == fd_real_reset(TO_REAL_FD(fd))
    IN  IF fd_real_for_handle(table, h) # 0
          THEN {Outcome(table, open, 0)}
          ELSE {Outcome(table, open \ {h}, 0)} \cup
               {Outcome(table, open, -efi_status_to_errno(s)) : s \in EfiError})

fd_fsync(fd) == OnHandle(fd, StatusResults)

fd_dup(old_fd) ==
  OnHandle(old_fd,
    IF fd_real_find_free < 0
      THEN {Fail(EMFILE)}
      ELSE {Outcome([fds EXCEPT ![fd_real_find_free] = fds[TO_REAL_FD(old_fd)]],
                    open, TO_VIRTUAL_FD(fd_real_find_free))})

(* Is fds[TO_REAL_FD(fd)] nonzero?  fd_dup2 does not check new_fd first;   *)
(* outside the table the answer is whatever lies in memory there.          *)
MayBeOccupied(fd) ==
  IF TO_REAL_FD(fd) \in Slot THEN {fds[TO_REAL_FD(fd)] # NULL} ELSE BOOLEAN

(* The store goes to slot new_fd, not TO_REAL_FD(new_fd); one outside the  *)
(* table leaves the table as it is.                                        *)
fd_dup2(old_fd, new_fd) ==
  IF old_fd > MAX_FDS THEN {Fail(EBADF)}
  ELSE IF old_fd < VIRTUAL_FD_BASE THEN {Fail(EACCES)}
  ELSE UNION {
    LET closed == IF occupied THEN fd_close(new_fd) ELSE {Result(0)}
    IN  {x \in closed : x.ret < 0} \cup
        {LET h == x.fds[TO_REAL_FD(old_fd)]
         IN  IF h = NULL THEN Outcome(x.fds, x.open, -EBADF)
             ELSE IF new_fd < 0 THEN Outcome(x.fds, x.open, -EMFILE)
             ELSE Outcome([x.fds EXCEPT ![new_fd] = h], x.open, TO_VIRTUAL_FD(new_fd))
         : x \in {y \in closed : y.ret >= 0}}
    : occupied \in MayBeOccupied(new_fd)}

(* A successful lseek, read, write or getdents64 returns a number that is  *)
(* not negative, 0 here.                                                   *)
fd_lseek(fd) == OnHandle(fd, StatusResults)
fd_getdents64(fd) == OnHandle(fd, StatusResults)
fd_fstat(fd) == OnHandle(fd, StatusResults)

(* The console is ConsoleIn and ConsoleOut; here, only what is left of     *)
(* fd_read and fd_write for descriptors that are not the console.          *)
fd_read_file(fd) == OnHandle(fd, StatusResults)
fd_write_file(fd) == OnHandle(fd, StatusResults)

(* The handle is opened, asked for its information, and never closed. *)
fd_stat ==
  {Fail(efi_status_to_errno(s)) : s \in EfiError} \cup
  {Outcome(fds, open \cup {h}, r) :
     h \in Handle \ open,
     r \in {0} \cup {-efi_status_to_errno(s) : s \in EfiError}}

-----------------------------------------------------------------------------
(* The handler called name runs, and goes one of the ways in outcomes. *)
Run(name, outcomes) ==
  \E x \in outcomes :
    /\ fds' = x.fds /\ open' = x.open /\ ret' = x.ret
    /\ call' = name
    /\ stats' = IF name = "stat" /\ x.ret = 0 THEN stats + 1 ELSE stats

FdNext ==
  \/ Run("open", fd_open)
  \/ Run("stat", fd_stat)
  \/ \E fd \in FdArg :
       \/ Run("close", fd_close(fd))
       \/ Run("fsync", fd_fsync(fd))
       \/ Run("dup", fd_dup(fd))
       \/ Run("lseek", fd_lseek(fd))
       \/ Run("getdents64", fd_getdents64(fd))
       \/ Run("fstat", fd_fstat(fd))
       \/ fd # 0 /\ Run("read", fd_read_file(fd))
       \/ fd \notin {1, 2} /\ Run("write", fd_write_file(fd))
       \/ \E new \in FdArg : Run("dup2", fd_dup2(fd, new))

FdSpec == FdInit /\ [][FdNext]_fdVars

-----------------------------------------------------------------------------
FdTypeOK ==
  /\ fds \in [Slot -> Handle \cup {NULL}]
  /\ open \subseteq Handle
  /\ ret \in Int
  /\ stats \in Nat

(* No program ever gets a file descriptor: the table stays empty, because  *)
(* fd_real_find_free looks for an occupied slot where it should look for a *)
(* free one, and open, dup and dup2 fail whatever was called before.       *)
NoDescriptorIssued ==
  /\ \A i \in Slot : fds[i] = NULL
  /\ call \in {"open", "dup", "dup2"} => ret < 0

(* No call closes a handle, and none but stat opens one. *)
HandlesOnlyAccumulate ==
  [][open \subseteq open' /\ (open' # open => call' = "stat")]_fdVars

(* EMFILE: "Too many open files".  fd_open answers with it only when there *)
(* is no free slot in the table.                                           *)
EmfileMeansTableFull ==
  call = "open" /\ ret = -EMFILE => \A i \in Slot : fds[i] # NULL

(* unistd.h says of the internal functions that they match "the raw        *)
(* syscall interface at the kernel level", where a stat gives the program  *)
(* no descriptor: once it has answered, the handles that are still open    *)
(* are those in the table, which a program may close.                      *)
StatLeavesNoHandleOpen ==
  call = "stat" => open \subseteq {fds[i] : i \in Slot}
=============================================================================
