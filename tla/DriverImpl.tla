----------------------------- MODULE DriverImpl -----------------------------
(***************************************************************************)
(* The Transport Handle: Driver::Impl in driver.cpp, which owns the one    *)
(* descriptor (fd, -1 when closed) through which every call of the driver *)
(* reaches the kernel. Its operations are action fragments that the API    *)
(* modules (TeecApi, McApi) conjoin into their actions: each returns an    *)
(* outcome and constrains fd and the kernel state it touches.              *)
(***************************************************************************)
EXTENDS TeeTransport

CONSTANTS
  MinVersion,   \* min_accepted_version_ given to the Driver constructor (0: none)
  ApiVersion,   \* MCDRVMODULEAPI_VERSION_MAJOR << 16 | ..._MINOR (mc_user.h)
  OpenFaults    \* errnos with which ::open of the device node may fail

ASSUME MinVersion \in Nat /\ ApiVersion \in Nat

VARIABLE fd     \* Impl::fd; NoFd stands for -1

\* version_nwd >> 16 and version_nwd & 0xffff
Major(v) == v \div 65536
Minor(v) == v % 65536

\* mutant: only the major number is compared
VersionMismatchMajorOnly(v) ==
  IF MinVersion # 0 THEN Major(v) # Major(MinVersion) ELSE Major(v) # Major(ApiVersion)

(* The version check of Impl::open (version_mismatch).                     *)
VersionMismatch(v) ==
  IF MinVersion # 0
  THEN \/ Major(v) # Major(MinVersion)
       \/ Minor(v) < Minor(MinVersion)
  ELSE \/ Major(v) # Major(ApiVersion)
       \/ Minor(v) # Minor(ApiVersion)

(***************************************************************************)
(* Impl::open. out is "ok" (returns true) or the errno it leaves behind    *)
(* (returns false). The descriptor opened first is closed again on every   *)
(* failure after ::open; on success it replaces fd whatever fd held.       *)
(***************************************************************************)
ImplOpen(out) ==
  \/ /\ out \in OpenFaults
     /\ UNCHANGED <<fd, kfds>>
  \/ /\ kfds = Fds
     /\ out = "EMFILE"
     /\ UNCHANGED <<fd, kfds>>
  \/ \E f \in Fds \ kfds :
       \/ /\ out \in Faults          \* MC_IO_VERSION ioctl failed; closed
          /\ UNCHANGED <<fd, kfds>>
       \/ /\ VersionMismatch(kversion)
          /\ out = "EHOSTDOWN"       \* closed, errno = EHOSTDOWN
          /\ UNCHANGED <<fd, kfds>>
       \/ /\ ~VersionMismatch(kversion)
          /\ out = "ok"
          /\ fd' = f
          /\ kfds' = kfds \cup {f}

(***************************************************************************)
(* Impl::close: ::close(fd), then fd = -1 whatever close returned; ok is   *)
(* its boolean result (false for close(-1), EBADF).                        *)
(***************************************************************************)
ImplClose(ok) ==
  /\ fd' = NoFd
  /\ IF fd = NoFd
     THEN ok = FALSE /\ UNCHANGED <<kfds, ksess, kshm, kmaps, kwsm, kversion>>
     ELSE ok = TRUE /\ KRelease(fd)

(***************************************************************************)
(* Impl::hasOpenSessions: ioctl(fd, MC_IO_HAS_SESSIONS) != 0. The ioctl    *)
(* is non-zero when sessions are open, and also when it fails (EBADF on    *)
(* fd -1, or a fault).                                                     *)
(***************************************************************************)
\* mutant: the check always reports no open sessions
HasOpenSessionsIgnored(b) == b = FALSE

\* mutant: the ioctl's result is read the wrong way round (ret == 0)
HasOpenSessionsInverted(b) ==
  b = (fd \in kfds /\ \A s \in Sids : ksess[s].fd # fd)

HasOpenSessions(b) ==
  IF fd \in kfds /\ \A s \in Sids : ksess[s].fd # fd
  THEN b \in {FALSE} \cup {TRUE : e \in Faults}
  ELSE b = TRUE

=============================================================================
