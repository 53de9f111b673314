---------------------------- MODULE TeeTransport ----------------------------
(***************************************************************************)
(* The kernel side of the control transport behind /dev/MC_USER_DEVNODE,   *)
(* which driver.cpp talks to with open/close/ioctl/mmap. It is not part of *)
(* this repository: this module states the contract the driver relies on,  *)
(* as the environment of the client modules.                               *)
(*                                                                         *)
(*  - every open of the device yields a file descriptor; closing it        *)
(*    releases every session, shared-memory registration and bulk mapping  *)
(*    made through it;                                                     *)
(*  - a session id is chosen by the secure world among the free ones, so   *)
(*    ids are reused after a close;                                        *)
(*  - an ioctl on a descriptor that is not open fails with EBADF; a        *)
(*    session request for an id not open on that descriptor fails with     *)
(*    ENXIO; any request may fail with one of Faults and change nothing;   *)
(*  - a GP request that reaches the secure world and is refused there      *)
(*    returns -1 with errno ECHILD and the secure world's result in the    *)
(*    payload.                                                             *)
(***************************************************************************)
EXTENDS Integers, FiniteSets

CONSTANTS
  Fds,            \* descriptors the process can hold on the device
  Sids,           \* session ids the secure world hands out (never 0)
  Owners,         \* session structures of the client (ghost owner field)
  Bufs,           \* caller buffers (shared memory, bulk maps, WSM)
  Faults,         \* errnos with which any request may fail, changing nothing
  DriverVersions, \* versions (major << 16 | minor) the kernel may report
  NoFd, NoOwner

ASSUME Sids \subseteq Nat \ {0}
ASSUME NoFd \notin Fds /\ NoOwner \notin Owners
ASSUME "ECHILD" \notin Faults

VARIABLES
  kfds,      \* descriptors open on the device
  ksess,     \* per session id: the descriptor and client structure owning it
  kshm,      \* GP shared-memory registrations: <<descriptor, buffer>>
  kmaps,     \* bulk mappings: <<session id, buffer>>
  kwsm,      \* world-shared memory mapped with mmap
  kversion   \* the version the kernel reports (fixed)

kvars == <<kfds, ksess, kshm, kmaps, kwsm, kversion>>

NoSession == [fd |-> NoFd, owner |-> NoOwner]

KInit ==
  /\ kfds = {}
  /\ ksess = [s \in Sids |-> NoSession]
  /\ kshm = {}
  /\ kmaps = {}
  /\ kwsm = {}
  /\ kversion \in DriverVersions

KTypeOK ==
  /\ kfds \subseteq Fds
  /\ ksess \in [Sids -> [fd: Fds \cup {NoFd}, owner: Owners \cup {NoOwner}]]
  /\ kshm \subseteq Fds \X Bufs
  /\ kmaps \subseteq Sids \X Bufs
  /\ kwsm \subseteq Bufs

FreeSids == {s \in Sids : ksess[s] = NoSession}

SessionOpenOn(s, f) == s \in Sids /\ f \in kfds /\ ksess[s].fd = f

(* Releasing descriptor f (close of its last reference).                   *)
KRelease(f) ==
  LET dead == {s \in Sids : ksess[s].fd = f} IN
  /\ kfds' = kfds \ {f}
  /\ ksess' = [s \in Sids |-> IF s \in dead THEN NoSession ELSE ksess[s]]
  /\ kshm' = {r \in kshm : r[1] # f}
  /\ kmaps' = {r \in kmaps : r[1] \notin dead}
  /\ UNCHANGED <<kwsm, kversion>>

KOpenSession(s, f, o) ==
  /\ ksess' = [ksess EXCEPT ![s] = [fd |-> f, owner |-> o]]
  /\ UNCHANGED <<kfds, kshm, kmaps, kwsm, kversion>>

KCloseSession(s) ==
  /\ ksess' = [ksess EXCEPT ![s] = NoSession]
  /\ kmaps' = {r \in kmaps : r[1] # s}
  /\ UNCHANGED <<kfds, kshm, kwsm, kversion>>

(* The errno of a request on descriptor f that failed before reaching the  *)
(* secure world.                                                           *)
FailureOn(f) == IF f \in kfds THEN Faults ELSE {"EBADF"}

(* Outcomes of a GP request on a descriptor (open tells whether it is      *)
(* open): err is "ok" or the errno, tee the result the secure world put in *)
(* the payload ("none" if the request never reached it).                   *)
GpOutcomes(open, TeeErrors) ==
  IF open
  THEN {[err |-> "ok", tee |-> "TEEC_SUCCESS"]}
         \cup {[err |-> "ECHILD", tee |-> e] : e \in TeeErrors}
         \cup {[err |-> e, tee |-> "none"] : e \in Faults}
  ELSE {[err |-> "EBADF", tee |-> "none"]}

=============================================================================
