------------------------------- MODULE Memory -------------------------------
(***************************************************************************)
(* mmap and munmap, on the pool of the firmware.                           *)
(*                                                                         *)
(* An address is a number; AllocatePool gives out those in Block.  Of the  *)
(* arguments only the descriptor, the address and whether the length is    *)
(* that of the whole block matter.  What the answers tell a program that   *)
(* knows mmap from its manual is the history owner.                        *)
(***************************************************************************)
EXTENDS Kernel

CONSTANT Block   \* the addresses of the blocks the pool can give out

ASSUME MemoryAssumption == Block \subseteq Nat \ {0}

VARIABLES
  pool,   \* the blocks that are allocated
  owner   \* history: what the program knows of each block: "none", not its
          \* own; "program", all of it mapped; "split", a part of it unmapped,
          \* the rest still its own; "lost", given back, whatever the answer was

memVars == <<pool, owner>>

MAP_FAILED == -1
Address == Block \cup {MAP_FAILED}

MemInit == pool = {} /\ owner = [b \in Block |-> "none"]

-----------------------------------------------------------------------------
(* Variant: the block is allocated before the descriptor is looked at. *)
mem_mmap_eager(fd) ==
  \/ \E b \in Block \ pool :
       pool' = pool \cup {b} /\ ret' = IF fd > 0 THEN -ENOTSUP ELSE b
  \/ \E s \in EfiError : ret' = -efi_status_to_errno(s) /\ UNCHANGED pool

(* A descriptor of 0, the console's, passes for "no file". *)
mem_mmap(fd) ==
  \/ fd > 0 /\ ret' = -ENOTSUP /\ UNCHANGED pool
  \/ fd <= 0 /\ \E b \in Block \ pool : ret' = b /\ pool' = pool \cup {b}
  \/ fd <= 0 /\ \E s \in EfiError : ret' = -efi_status_to_errno(s) /\ UNCHANGED pool

(* The length is ignored: all of the block goes.  FreePool refuses what it *)
(* has not given out, and may fail for a block it has.                     *)
mem_munmap(addr) ==
  \/ addr \in pool /\ ret' = 0 /\ pool' = pool \ {addr}
  \/ \E s \in EfiError : ret' = -efi_status_to_errno(s) /\ UNCHANGED pool

-----------------------------------------------------------------------------
(* What the program makes of the answers. *)

Mapped == owner' = IF ret' \in Block THEN [owner EXCEPT ![ret'] = "program"] ELSE owner

Unmapped(addr, whole) ==
  owner' = IF ret' = 0 /\ addr \in Block
             THEN [owner EXCEPT ![addr] = IF whole \/ @ = "lost" THEN "none" ELSE "split"]
             ELSE owner

(* The same for a caller that does not look at the answer. *)
GivenBack(addr) ==
  owner' = IF ret' # 0 /\ addr \in Block /\ owner[addr] = "program"
             THEN [owner EXCEPT ![addr] = "lost"]
           ELSE IF ret' = 0 /\ addr \in Block THEN [owner EXCEPT ![addr] = "none"]
           ELSE owner

-----------------------------------------------------------------------------
MemTypeOK ==
  /\ pool \subseteq Block
  /\ owner \in [Block -> {"none", "program", "split", "lost"}]

(* A block that is mapped, all of it, is allocated, and one the program    *)
(* knows nothing of is not: no failing mmap keeps a block and no failing   *)
(* or second munmap frees one, in whatever order they are called.  Nothing *)
(* is claimed of a block that was unmapped in part (RestStaysMapped) or    *)
(* given back by a caller that does not look at the answer.                *)
MemoryAccounted ==
  \A b \in Block :
    /\ owner[b] = "program" => b \in pool
    /\ owner[b] = "none" => b \notin pool

-----------------------------------------------------------------------------
(* unistd.h says of the exported functions that their interface closely    *)
(* matches man(2): munmap(2) deletes the mappings of the range it is       *)
(* given, so after unmapping a part of a block its rest is still there.    *)
RestStaysMapped == \A b \in Block : owner[b] = "split" => b \in pool
=============================================================================
