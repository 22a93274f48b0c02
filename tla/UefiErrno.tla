----------------------------- MODULE UefiErrno -----------------------------
(***************************************************************************)
(* The error numbers of include/linux-uefi.h and the translation of UEFI   *)
(* status codes into them, shared by every system call handler.            *)
(***************************************************************************)
EXTENDS Integers

EPERM   == 1
ENOENT  == 2
ESRCH   == 3
EIO     == 5
ENXIO   == 6
E2BIG   == 7
EBADF   == 9
ENOMEM  == 12
EACCES  == 13
EFAULT  == 14
ENOTBLK == 15
EEXIST  == 17
ENODEV  == 19
ENOTDIR == 20
EISDIR  == 21
EINVAL  == 22
EMFILE  == 24
ENOTTY  == 25
EFBIG   == 27
ENOSPC  == 28
ESPIPE  == 29
EROFS   == 30
ENAMETOOLONG == 36
ENOSYS  == 38
ENOTSUP == 95

(* The table of linux-uefi.h, as a set. *)
Errno == {EPERM, ENOENT, ESRCH, EIO, ENXIO, E2BIG, EBADF, ENOMEM, EACCES, EFAULT,
          ENOTBLK, EEXIST, ENODEV, ENOTDIR, EISDIR, EINVAL, EMFILE, ENOTTY, EFBIG,
          ENOSPC, ESPIPE, EROFS, ENAMETOOLONG, ENOSYS, ENOTSUP}

(* The error codes the firmware may answer with; OTHER stands for all those *)
(* the switch of efi_status_to_errno does not name (device error, out of    *)
(* resources, no media, ...).                                               *)
EfiError == {"WRITE_PROTECTED", "ACCESS_DENIED", "VOLUME_FULL", "NOT_FOUND",
             "INVALID_PARAMETER", "OTHER"}

efi_status_to_errno(status) ==
  CASE status = "WRITE_PROTECTED"   -> EROFS
    [] status = "ACCESS_DENIED"     -> EACCES
    [] status = "VOLUME_FULL"       -> ENOSPC
    [] status = "NOT_FOUND"         -> ENOENT
    [] status = "INVALID_PARAMETER" -> EINVAL
    [] OTHER                        -> EIO
=============================================================================
