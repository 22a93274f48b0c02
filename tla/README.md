# A verification development for UEFI Linux

UEFI Linux emulates basic Linux system calls inside the UEFI environment: a C
library (nolibc) makes its "system calls" by calling a dispatcher, whose
handlers ask the firmware. This directory holds TLA+ models of the handlers, of
the library above them and of what the firmware and the user may do below them,
the TLC runs that check them on small instances, and proofs for TLAPS of what
holds for all values of the constants.

There is one thread of control: nothing preempts a handler. What makes the code
hard to get right is elsewhere: the user types at any time, the firmware answers
any call with an error, the same buffer or table serves one call after another,
and the same bytes are translated at several levels.

## Inventory

| Part | Code | State | Operations | What makes it correct |
|---|---|---|---|---|
| Console output | `src/linux-uefi.c` 551-582, `src/clibc-user-impl.c` | the array `str_buf`, two indices; the screen | write, `_putchar`, `_puts` | stores inside the array; the screen shows what was written; calls end |
| Console input | `src/linux-uefi.c` 495-535 | caller's buffer, loop counter; the keyboard buffer of the firmware | read; the user's keys | keys in order, none lost, doubled or mixed; the byte count is right |
| Line input | `include/getdelim.h`, `src/main.c` 33-38 | growing buffer, its size, an index | my_getdelim, my_getline | stores inside the block; a line is the keys up to the delimiter; it ends |
| File descriptors | `src/linux-uefi.c` 291-493, 537-549, 584-683 | the table `fds`; the handles the firmware has open | open, close, fsync, dup, dup2, lseek, read, write, getdents64, fstat, stat | descriptors name open handles; handles are closed again |
| Time | `src/linux-uefi.c` 182-288 | none; the clock of the firmware | gettimeofday, sleep, dates of stat | the time is the clock's |
| Process, power | `src/linux-uefi.c` 106-179 | the one process, the machine | exit, kill, reboot | calls that end the program do not return as if they had not |
| Memory | `src/linux-uefi.c` 693-720, `src/clibc-user-impl.c` 21-43 | the pool of the firmware | mmap, munmap, heap_alloc, heap_dealloc | what the program has mapped is allocated, and nothing else is |
| Dispatcher | `src/linux-uefi.c` 725-762 | none | `syscall_emu_x86_64` | the right handler for the number |
| nolibc | `nolibc/*.h` | errno | some sixty exported functions | errors become -1 and errno |
| Startup | `src/linux-uefi.c` 43-73 | `Volume` | efi_main, GetVolume | a startup that failed does no harm |
| Paths | `src/linux-uefi.c` 75-91 | a static buffer | bstr_to_wstr | stores inside the buffer; the firmware reads the path, and nothing left behind by others |
| Demonstration program | `src/main.c`, `src/clibc-user-impl.c` 10-13 | its place in main, the line's buffer | main, `_getchar` | prints the line that was typed; ends at a return of its own |

The parts interact by calls, top down: program, nolibc (`my_syscallN`),
dispatcher, handler, firmware. There are no callbacks. What they share is the
table of descriptors, errno, the pool, the console, the static buffer of path
names, and, between successive calls of `my_getdelim`, the program's own buffer.
The hazards this leads to are listed,
each at its line, in `PROJECT.json`; the properties below are there for them.

## Modules

| Module | Models | Extends |
|---|---|---|
| `UefiErrno` | the error numbers; `efi_status_to_errno` | |
| `Kernel` | the result register shared by the handlers | `UefiErrno` |
| `Translation` | what the console makes of a text: each element replaced by a sequence | |
| `ConsoleOut` | console output, one byte of the copying loop per step | `UefiErrno`, `Translation` |
| `ConsoleIn` | console input, one key per step, and the user | |
| `LineInput` | abstract specification: what reading a line promises | |
| `GetLine` | `my_getdelim` on top of `fd_read` | `ConsoleIn`, `Translation`; implements `LineInput` |
| `FdTable` | the descriptor table and all its handlers | `Kernel` |
| `EfiTime` | conversion of dates, gettimeofday, a calendar clock | |
| `Process` | exit, kill, reboot | `Kernel` |
| `Memory` | mmap and munmap on the firmware's pool, and what their answers tell a program | `Kernel` |
| `Startup` | GetVolume and the end of efi_main | `Process` |
| `Nolibc` | the dispatcher and the exported functions | `FdTable`, `Memory`, `Startup` |
| `Paths` | `bstr_to_wstr` and the firmware that reads its string | |
| `Main` | the demonstration program on top of line input | `GetLine` |
| `TranslationProofs`, `EfiTimeProofs`, `ConsoleInProofs`, `PathsProofs`, `NolibcProofs` | proofs; `NolibcProofs` also of `FdTable` | the module they are about |
| `ConsoleOutProofs`, `GetLineProofs`, `MainProofs` | proofs | the module they are about, and `TranslationProofs`, that and `ConsoleInProofs`, `GetLineProofs` in turn |
| `MCHandlers` | an instance for TLC of three parts that share no state | `FdTable`, `EfiTime`, `Paths` |
| other `MC...` | instances for TLC | the module they check |

### How state and actions correspond to the code

*ConsoleOut.* `fd_write` runs as a loop whose body is one of the actions
`CopyNul`, `CopyNewline`, `CopyPlain`, by the byte at `it`; `Terminate` is the
store after the loop; `OutputString` and `OutputStringFails` are the answers of
the firmware. The array has one element more than in C: the one just past its
end, where the terminator may go. `todo` holds the buffers a library call has
still to write, two for `_puts`. Of bytes, only NUL, LF and the rest differ; CR
is one of the rest, so that a program's own `\r` is told from an expanded one by
its place only.

*ConsoleIn.* `typed` is all the user ever typed and `taken` how much of it the
firmware has delivered; what is between them is the firmware's keyboard buffer.
`Delivered` and `NotDelivered` are the two answers of `ReadKeyStroke`: in the second
the loop, which looks at no status, goes on with whatever its variable `key` holds,
any key at all. `got` is what the loop has worked on, made-up keys included.
`SkipBackspace` is the `continue` of line 516, which goes through the loop's
increment; `StoreNewline` the `break`, which does not; `ReturnFull` the loop
that ran to `count`. A key is told by its low byte (`Low`), and several keys may
have the same one.

*GetLine.* `*out` is a function with one element per allocated byte, empty while the
pointer is NULL. `ReadChar` calls `fd_read` of `ConsoleIn` with a count of 1; its loop
runs in `ConsoleStep`; then `AddChar` or `EndLine` handles the byte. After a backspace
the byte is whatever was in `c` (`Received1`). `malloc` (`AllocateFirst`) and `realloc`
may fail; the code stores through the null pointer all the same (`StoreToNull`), and
nothing is said of what comes after: `gpc` is "wild", a control point without steps.

*LineInput* knows nothing of buffers, calls or capacities. It says that the keys
become the bytes of a line in order, up to the delimiter; that a keyboard may slip in
keys; and that a line is lost only with the memory. Its keys are `Stream`: what has
come out of the keyboard, and behind it what waits there, so that a delivery changes
nothing and a failure inserts a key between the two. With `used = lineStart + out_idx`,
`busy = (gpc \in {"read", "wait"})`, `line` = the stored bytes and `starved = nomem`,
every step of GetLine is a step of it or changes nothing.

*Main* is main() as far as it depends on what it is given: the block of `malloc`, the
line, the cut at `input_len-1`, the printed string, which ends at the first NUL, and
the loop over `getchar`, which may read a byte a backspace has left unwritten. Its
pauses, its other output and its write to a file, which fails, change nothing here.

*FdTable.* A handler is an operator whose value is a set of outcomes (table,
open handles, result), one for each way the firmware may answer, since `fd_dup2`
calls `fd_close` and the dispatcher calls them all; `Run` turns it into an
action. `OnHandle` is the sequence of checks every handler starts with.
`fd_dup2` reads the table unchecked: outside it, what it reads is a
nondeterministic Boolean (`MayBeOccupied`).

*EfiTime.* Every constant of the conversion above an hour is a multiple of
86400, so a `time_t` is a pair of days and seconds, and the integers stay small.
The clock is an environment with a calendar of its own, which also counts days;
gettimeofday is compared with that count, and not with a copy of its own formula.
`Month` is a `UINT8`, hence the modulus in `MonthField`.

*Process.* `machine` says how the program ended, or that it went on through a null
pointer. `BS->Exit` may be refused by the firmware; each caller says what it does
then. `power_reboot` converts its string argument before a restart that has one, and
so follows a null pointer (`Pointer`) if that is what it was given.

*Memory.* Addresses are numbers and `AllocatePool` gives out any free one. `owner`
is the history of what a program knows of each block that believes the answers it
gets: mapped, given back, "split", when it unmapped a part and counts on the rest, or
"lost", when it gave the block back without looking at the answer (`heap_dealloc`,
`GivenBack`). `FreePool` may refuse, for a block it gave out and for any other address.
`MemoryAccounted` is about the first two; that the rest of a split block is gone is a
counterexample (`RestStaysMapped`), and of a lost block nothing is claimed.

*Startup.* `GetVolume` may leave `Volume` good, or garbage, or the machine "wild",
because the code followed a pointer nobody had written. With a garbage `Volume`, the
calls that go through it make the machine wild (`UsesVolume`, `FollowsGarbage`).

*Paths.* `fres` byte by byte, with what earlier paths have left in it; one character
of the copying loop per step; `CallFirmware` stands for any call that gets the string
and reads it up to its terminator.

*Nolibc.* The exported functions are listed in tables with the number of the
system call each makes, in the order of `nolibc/unistd.h`; `CallWithErrno` is the
body nearly all of them share, and those that differ are actions of their own.
The numbers are those the x86-64 kernel headers lead nolibc to: `openat` for
open, `dup3` for dup2, `newfstatat` for stat, `ppoll` for poll. `my_syscall` is a
program that uses the macros itself, and so reaches what the library does not.
Any pointer a program passes may be null; the calls that follow one before they have
failed are in `MayFollowNull`, and the machine is "null" after one of them has, as it
is after `reboot` with the command RESTART2, to which the library itself passes a null
pointer. A `kill` with signal 0 is recorded as "probe", to tell what the manual makes
of it from other signals.
A step is a whole library call here: the consoles are in their own modules and
appear by their results.

Definitions introduced by a comment "Variant:" are not part of the models. Each
is a plausible mistake in the code; with it in place of the definition after it,
the property named in the `mutants` of `PROJECT.json` fails, which is how we know
that the property depends on the code.

## Runs

| Run | Bounds | What it shows |
|---|---|---|
| `MCConsoleOut` | two plain bytes, buffers of up to 3 bytes, 2 calls | the stores of the loop stay in bounds; the terminator passes the end, by one element, exactly for buffers of newlines only (so in every `puts`); the screen shows the successful writes; every call ends |
| `MCConsoleIn` | 5 kinds of keys, 3 typed, 2 failures, reads of up to 3 bytes | keys arrive in order, whenever they are typed; a failing keyboard adds keys and takes none away; the result is exact only after a newline |
| `MCGetLine` | 3 kinds of keys, 3 typed, 1 failure of the keyboard, any of the memory, 3 lines, 2 delimiters | the buffer is safe to reuse; lines are the keys up to the delimiter; a delimiter ends the line; LineInput is implemented |
| `MCHandlers`, files | the real table, 3 handles, 10 descriptors around every limit | no descriptor is ever issued; no handle is ever closed |
| `MCHandlers`, clock | 28 years, first and last second of every day | gettimeofday is exact from 2001 on, shifted before, and 2019-03-31 when the clock fails |
| `MCHandlers`, paths | a buffer for 3 characters, paths of up to 5, 2 characters | no store leaves the buffer; the firmware reads the path, cut where it does not fit, whatever was in the buffer |
| `MCNolibc` | all functions, all numbers, 2 handles, 7 descriptors, 1 block | errno changes on failure only; a kill that is no probe returns errors only; memory is accounted for; no function of the library follows the volume that was not found |
| `MCMain` | 4 kinds of keys, 4 typed, 1 failure of the keyboard | main prints the line; it exits at a return of its own; two returns end it |

The following runs end with a counterexample, each to something a comment or
document of the repository says:

| Run | Property | What the code does |
|---|---|---|
| `MCConsoleInCount` | `ReadReturnsAtMostCount` | a read that fills its buffer returns one more |
| `MCFdTableEmfile` | `EmfileMeansTableFull` | open fails with EMFILE on an empty table |
| `MCFdTableStat` | `StatLeavesNoHandleOpen` | stat leaves its handle open |
| `MCNolibcFiles` | `FileFunctionsDispatched` | open, stat and dup2 make calls the dispatcher does not know |
| `MCNolibcManual` | `InterfaceMatchesManual` | four departures from man(2), below |
| `MCNolibcSelect` | `SelectValueIsValid` | select reports 95 ready descriptors |

`InterfaceMatchesManual` is what `nolibc/unistd.h` promises of the exported functions,
for the calls this code does answer, and TLC stops at its first counterexample. Four
more configurations of `MCNolibc` have one part of it each, and each is violated too:

| Configuration | Part | What the code does |
|---|---|---|
| `MCNolibcBrk.cfg` | `BrkReportsFailure` | brk and sbrk(0) succeed although the call failed |
| `MCNolibcKill.cfg` | `ProbeOnlyProbes` | kill with signal 0 ends the program |
| `MCNolibcMunmap.cfg` | `RestStaysMapped` | munmap of a part of a block frees all of it |
| `MCNolibcNull.cfg` | `NullIsNoPointer` | reboot with RESTART2, and select and gettimeofday with a null argument, follow a null pointer |

Why the bounds are enough. In ConsoleOut three bytes give every pair of byte
kinds in every order, at the beginning, the middle and the end of a buffer, and
two calls show what is left over from the first; the proofs then drop the bound.
In ConsoleIn and GetLine three keys and a made-up one are enough for a line that is
shorter than an earlier one, for one that is longer, and for a key that arrives in the
middle of a call; two failures in ConsoleIn give two in one call and one in each of
two; GetLine and Main get one failure, which is enough to shift all that follows, and
the proofs drop the bound. In FdTable and Nolibc the bounds are the code's own, but
for the number of handles, which two calls can exhaust, and of blocks: the pool treats
them alike, so that one block that is free, mapped, split or lost shows every case;
the handles are alike too, which is the symmetry of MCNolibc. The state space is
finite without any bound on the number of calls. In EfiTime the years are chosen
around every constant of the conversion: 1980 and 2000 (the workaround), 2038 (the two
paths), 2100 to 2300 (centuries), 2400 and 9999. In Paths a path may be shorter than
the buffer, fill it, or be cut, each after each of them; the proof has the real size.
In Main four keys are a line, the two returns, and one key anywhere.

Deadlock is checked in `MCHandlers` (and `MCFdTable`, which has the files alone for
the counterexamples), where something can always happen. In the other instances it is not, because there the system really may
stop: the program has ended, is wild or has made all its calls, or a read waits for a
user who types no more.

### Fairness

`ConsoleOut!FairSpec` has weak fairness of the steps of `fd_write`: the handler
runs on the only thread of a UEFI machine and nothing preempts it. The program's
next call is not fair. `GetLine!FairSpec` has weak fairness of the reader, for the
same reason, and none of the user: `DelimiterEndsLine` says only that a delimiter
that has been typed is found. Fairness is of the steps that leave `failed` alone:
the keyboard may fail as often as its bound allows but never has to, so that no
property rests on a failure to come. The wait for a key is not busy: with no key the
reader has no step to take. `Main!FairMainSpec` is the same for the whole program, and
`TwoReturnsEndProgram` a promise to a user who has pressed return twice.

## Proofs

Eight modules hold proofs; `tlapm` checks them to the last leaf. They assume
what the modules assume of their constants (`...Assumption`) and nothing else. Those
assumptions are what the code fixes: that the bytes differ that it tells apart, that
sizes are sizes, and in GetLine that a program may ask for one byte (`MaxCount >= 1`),
as `my_getdelim` does of every read.

*TranslationProofs.* `Translated(E, s)`, which says what is on the screen, is defined by
recursion, and that such a definition has a solution takes induction. The library's
induction theorems have an operator as a parameter, which the provers cannot fill in;
`SetInduction` gets round that with a set in its place, from `WFMin`, the theorem that
a nonempty set of numbers has a least member. `TranslationExists` and the uniqueness
of the prefixes follow, and from them the laws the other modules use:
`TranslatedEmpty`, `TranslatedAppend` and `TranslatedConcat`.

*EfiTimeProofs.* `ClockAlways`: the invariant `ClockInv` holds in every reachable
state, for any set of years from 1970 to 9999 and any times of the day.
`GettimeofdayIsExact` and three more theorems take the properties of the run from
it. `TimeIsExact` alone is not inductive: it relates the time read to a day count
that the next midnight changes, so the invariant adds that the count is always the
number of the date shown (`day = DayNumber(Year, Month, Day)`), which `NextDay`
carries across ends of months and years. The arithmetic is in two lemmas, one per
path of `time_year_to_secs`; the one for the cycles of 400 years splits the year
the way the code does. `TimeNeverRunsBackwards` and `ConversionKeepsOrder` are about
two times: what a program reads from a working clock never goes back from 2001 on, and
no two dates from then on change their order in the conversion, whichever of its paths
each takes. The premises are needed: December 2000 is read as December 3998, and a
clock that fails after 2019-03-31 goes back to that day.

*NolibcProofs, the table.* For any size of the table, any firmware handles and any
descriptors: `TableInv` is inductive. Because the table is empty, the search for
an occupied slot fails (`NoSlotFound`) and every handler that takes a descriptor
fails with it (`HandlersFail`, `Dup2Fails`, the second one whatever lies outside
the table), so a step either changes nothing or is a stat (`StepFailsOrStats`).
`NoDescriptorEver` and `HandlesNeverClose` follow, and `StatAlwaysLeaks`, which counts
what the run of `StatLeavesNoHandleOpen` shows once: as many handles are open for ever
as stats have succeeded.

*ConsoleOutProofs.* For buffers of any length: `CopyInv` says how far the index
into the array can be ahead, `str_it <= 2 * it`, with equality exactly when all
bytes so far were newlines. The bound alone is not enough, since the terminator's
place depends on equality, and neither of the two properties mentions `it` in
mid-loop. `StoresStayInBounds` and `TerminatorPlace` follow. `ScreenIsWhatWasWritten`
needs to know what the array holds in mid-loop: `ShownInv` says that its first `str_it`
elements are the translation of the first `it` bytes, which each byte extends by
`TranslatedAppend`. A translation has no NUL, so that the firmware reads as far as
the terminator and no further; the write that succeeds is then `TranslatedConcat`. The
last section is what `CallsFinish` rests on: `StepsLeft` counts the steps a call can
still take, `EveryStepIsProgress` shows each step of `fd_write` to make it smaller,
and `WorkIsBounded` that it is never more than two buffers take. With weak fairness
that is termination; the step from there to `~>` is what the prover cannot take.

*ConsoleInProofs.* For any keyboard, any number of keys, calls and failures: `InInv`
joins the order of the keys in the buffer, the meaning of the result and the loop's own
invariant (`LoopPart`): while a call runs, its counter is the number of keys it has
worked on, and no line break is among them. Neither property is inductive without it:
a key is stored at the counter's place, and what a result means is decided by how
the loop ended. `KeysInOrderAlways` and `ResultAlways` follow. `FailuresCostNoKey`
has an invariant of its own, with the set of places that hold made-up keys as a
witness (`Ghosts`): an iteration adds the new place to it or does not, and the number
of made-up keys before a place says where its key was typed.

*GetLineProofs.* For any keyboard, any number of keys, lines and failures, by the steps
of `ConsoleInProofs` for the console below. `LineInv` has three parts: `BlockPart`
relates the size of the block to `*out_size`, `out_idx` and the longest line so
far at every control point, and says that a missing block means missing memory;
`KeyPart` says which keys the call of `fd_read` in progress may have taken; `LinePart`
says which bytes the line has. `StoresInBounds` is not inductive by itself: it has to
know that before a store `out_idx` is at most `*out_size`, whichever earlier line made
the buffer grow. `LineMatchesKeys` needs the keys of the call in progress, which are
not yet in the line. `LineStoresInBounds`, `LineIsItsKeys` and `CutIsForLongestLine`
follow. `LineInputImplemented` is the safety half of the refinement: from the same
invariant and the count of the keys (`Counted`), each action is shown to be the step
of `LineInput` the mapping makes it, or none. What that takes is three facts about
the sequence `Stream`: a pressed key comes last, a delivered key stays where it is,
and a made-up key is slipped in between those used and those waiting.
`LineUsesConsole` (`Spec => InSpec`) says that what `my_getdelim` does on the console is
something any program may do there, so that the theorems of `ConsoleInProofs` hold
below it: `LinesLoseNoKey` is `FailuresCostNoKey`, for lines. `EchoIsEveryKeyButBackspaces`
holds only because `my_getdelim` reads one byte at a time, since a backspace is
left out only as the first byte of a read; that each read in progress is for one byte
is part of `LineInv`.

*MainProofs.* main from its first `malloc` to its exit. Its invariant has one part for
each stretch of the program; while the line is read it is `LineInv` together with the
fact that this is the first line, hence the longest, which by `CutHitsNewline`'s
argument makes the cut at the capacity hit the newline. After the cut, the bytes are
tied to the keys once and for all (`Shown`), and what is left is which keys `getchar`
has had. `FirstLinePrinted` and `ExitAtItsOwnReturn` follow. `BlockInv` keeps the memory
of that line for the whole program: `MainStoresInBounds` covers the reader's stores
and, with `CutsInsideBlock`, the cut at the capacity, and `WildOnlyWithoutMemory` says that
nothing but a failed `malloc` or `realloc` leads main to a null pointer.
`MainUsesConsole` connects the program with the console as `LineUsesConsole` does the
reader, and `MainLosesNoKey` and `MainEchoes` follow, over `my_getline` and `getchar`
alike.

*PathsProofs.* For a buffer of any size from 4 bytes on, and paths of any length:
`PathInv` says that the elements before the index are the path's characters and says
nothing of those behind it, which is all that is true of a buffer that has been used
before. `ConversionStaysInBounds` and `FirmwareAlwaysSeesCutPath` follow; the second
needs that the terminator is where the copy ended, and that no character before it
reads as one.

*NolibcProofs, the library.* For any table, handles, blocks, descriptors and numbers: `LibInv` takes
`TableEmpty` over from the table, since an answer of a file handler is an error
number of this code only as long as it comes from an empty table; with `Answer(ret)`,
every negative answer then has its number in `Errno`, which is what `NolibcTypeOK`
needs of errno. Two action properties come from the same case split (`StepFacts`):
one fact per exported function about errno and the result, and one about the handles
(`LibraryNeverOpens`). `StartupHarmless` also rests on the empty table, since an open
that found a slot would go through `Volume`; of null pointers it says nothing.
What holds of the table under its own calls is proved again for a program that mixes
them with memory, sleep and power: `HandleStep` says that a step of the library is a
stat or leaves the handles alone, and `StatAlwaysLeaksInLibrary` and
`HandlesNeverCloseInLibrary` follow from it. `LibraryIssuesNoDescriptor` goes from the
handlers up to the exported functions: open, dup and their like have all just returned
-1 with one of four numbers in errno, those whose call the dispatcher does not know among
them.

A note on the prover. The SMT translation of tlapm 1.4.5 gives every value with a
domain a length as if it were a sequence, so that a step which mentions both a
sequence and a function from 0 (`str_buf`, `out`, `buf`) could be proved for a wrong
reason. The steps of the proof modules have therefore also been run in Z3 with
that axiom restricted to what holds of functions, and go through.

Every safety invariant and every action property of the passing runs is stated by one
of these theorems. Only model-checked are the liveness properties (`CallsFinish`,
`DelimiterEndsLine`, `TwoReturnsEndProgram`) and the liveness half of
`ImplementsLineInput`, which need fairness and `ENABLED`.

## Not modelled

- The contents of files, directories and struct stat, the position in a file, the
  flags of open: no descriptor ever reaches a file (`NoDescriptorIssued`), so nothing
  in the system can depend on them. For the same reason `fd_dup2` of a descriptor onto
  itself, the limit of 16 in the checks of 4 to 19, and the paths of `fd_open` behind
  its search for a slot are translated, but have no property: no program reaches them
  before open stores its handle.
- `sys_stat`'s copy of its local struct after a failed call: a copy of data, of which
  no later step makes a decision.
- The fd_set macros: `FD_CLR` and `FD_ISSET` expand to names that do not exist, the
  shift of `FD_SET` is listed as a hazard, and select refuses every set.
- The contents of memory, and `heap_init` and the counters beside it, which do nothing.
- Time zones and the nanoseconds of the clock, which the code drops.
- The texts printed by reboot, `perror` and printf; the C library, a submodule that is
  not part of the repository, but for what main and the console need of its `malloc`,
  `realloc`, `printf` and `getchar`.
- The rest of main: output, pauses, and a write that fails, without a state.
- The build files and the type declarations.

## Plan

The components above are modelled as far as a model can say something that the code
decides. What is left:

1. An environment for `Nolibc` in which the program's own calls of `my_syscall` are
   interleaved with the console modules, in place of the sets `ConsoleRead` and
   `ConsoleWrite` of their results.
2. `ConsoleOut` with a screen that may be cut off in the middle of a string, if the
   firmware's `OutputString` is found to do so.
3. Proofs: what relates two components that no module composes yet, should item 1 be
   done; and the liveness properties, should a prover for fairness be at hand. Their
   safety halves are the measure of `fd_write` (done), and one for `my_getdelim`, which
   would have to count the keys in the buffer.
