-------------------------------- MODULE McApi --------------------------------
(***************************************************************************)
(* The MobiCore half of Driver (driver.cpp): mcOpenDevice, mcCloseDevice,  *)
(* mcOpenSession, mcOpenTrustlet, mcCloseSession, mcNotify,                *)
(* mcWaitNotification, mcMallocWsm, mcFreeWsm, mcMap, mcUnmap,             *)
(* mcGetSessionErrorCode and mcGetMobiCoreVersion, each one atomic step.   *)
(*                                                                         *)
(* The caller opens the device only when it does not hold it, and uses a   *)
(* mcSessionHandle_t for session requests only while its own bookkeeping   *)
(* (live) says the session is open: set by a successful open, cleared by a *)
(* successful close. Caller obligations are the conjuncts marked "caller". *)
(***************************************************************************)
EXTENDS DriverImpl

CONSTANT McHandles   \* mcSessionHandle_t structures of the caller

VARIABLES
  mcSid,   \* per mcSessionHandle_t: sessionId
  devUp,   \* caller: the device is open
  live,    \* caller: per handle, the session is open
  last     \* the last call and the mcResult_t it returned

vars == <<kvars, fd, mcSid, devUp, live, last>>

MC_DRV_OK == "MC_DRV_OK"

(* ret_errno_to_mc_result, for ret = -1: errno to mcResult_t.              *)
ErrnoToMcResult ==
  [ENOMSG |-> "MC_DRV_NO_NOTIFICATION", EBADMSG |-> "MC_DRV_ERR_NOTIFICATION",
   ENOSPC |-> "MC_DRV_ERR_OUT_OF_RESOURCES", EHOSTDOWN |-> "MC_DRV_ERR_INIT",
   ENODEV |-> "MC_DRV_ERR_UNKNOWN_DEVICE", ENXIO |-> "MC_DRV_ERR_UNKNOWN_SESSION",
   EPERM |-> "MC_DRV_ERR_INVALID_OPERATION", EBADE |-> "MC_DRV_ERR_INVALID_RESPONSE",
   ETIME |-> "MC_DRV_ERR_TIMEOUT", ENOMEM |-> "MC_DRV_ERR_NO_FREE_MEMORY",
   EUCLEAN |-> "MC_DRV_ERR_FREE_MEMORY_FAILED",
   ENOTEMPTY |-> "MC_DRV_ERR_SESSION_PENDING",
   EHOSTUNREACH |-> "MC_DRV_ERR_DAEMON_UNREACHABLE",
   ENOENT |-> "MC_DRV_ERR_INVALID_DEVICE_FILE", EINVAL |-> "MC_DRV_ERR_INVALID_PARAMETER",
   EPROTO |-> "MC_DRV_ERR_KERNEL_MODULE", EFAULT |-> "MC_DRV_ERR_BULK_MAPPING",
   EADDRINUSE |-> "MC_DRV_ERR_BULK_MAPPING", EADDRNOTAVAIL |-> "MC_DRV_ERR_BULK_UNMAPPING",
   ECOMM |-> "MC_DRV_INFO_NOTIFICATION", EUNATCH |-> "MC_DRV_ERR_NQ_FAILED",
   EBADF |-> "MC_DRV_ERR_DAEMON_DEVICE_NOT_OPEN",
   EINTR |-> "MC_DRV_ERR_INTERRUPTED_BY_SIGNAL",
   EKEYREJECTED |-> "MC_DRV_ERR_WRONG_PUBLIC_KEY",
   ECONNREFUSED |-> "MC_DRV_ERR_SERVICE_BLOCKED",
   ECONNABORTED |-> "MC_DRV_ERR_SERVICE_LOCKED",
   ECONNRESET |-> "MC_DRV_ERR_SERVICE_KILLED", EBUSY |-> "MC_DRV_ERR_NO_FREE_INSTANCES"]

\* mutant: the errno is handed back unmapped
ret_errno_to_mc_result_raw(err) == IF err = "ok" THEN MC_DRV_OK ELSE err

(* ret_errno_to_mc_result: err is "ok" (ret 0) or the errno of ret -1;     *)
(* an errno outside the table is MC_DRV_ERR_UNKNOWN.                       *)
ret_errno_to_mc_result(err) ==
  CASE err = "ok"                     -> MC_DRV_OK
    [] err \in DOMAIN ErrnoToMcResult -> ErrnoToMcResult[err]
    [] OTHER                          -> "MC_DRV_ERR_UNKNOWN"

McResults == {ErrnoToMcResult[e] : e \in DOMAIN ErrnoToMcResult}
               \cup {MC_DRV_OK, "MC_DRV_ERR_UNKNOWN", "none"}

Record(call, result) == last' = [call |-> call, result |-> result]

Init ==
  /\ KInit
  /\ fd = NoFd
  /\ mcSid = [m \in McHandles |-> 0]
  /\ devUp = FALSE
  /\ live = [m \in McHandles |-> FALSE]
  /\ last = [call |-> "none", result |-> "none"]

(* The answer to a request addressed to session s on the device.           *)
SessionErrs(s) ==
  IF fd \in kfds /\ ~SessionOpenOn(s, fd) THEN {"ENXIO"}
  ELSE {"ok"} \cup FailureOn(fd)

(* mcOpenDevice: Impl::open, errno mapped by its own switch.               *)
mcOpenDevice ==
  /\ ~devUp                                        \* caller
  /\ \E out \in OpenFaults \cup Faults \cup {"EMFILE", "EHOSTDOWN", "ok"} :
       /\ ImplOpen(out)
       /\ Record("mcOpenDevice",
            CASE out = "ok"     -> MC_DRV_OK
              [] out = "EINVAL" -> "MC_DRV_ERR_INVALID_PARAMETER"
              [] out = "ENOENT" -> "MC_DRV_ERR_INVALID_DEVICE_FILE"
              [] out = "EPERM"  -> "MC_DRV_ERR_INVALID_OPERATION"
              [] OTHER          -> "MC_DRV_ERR_UNKNOWN")
  /\ devUp' = (last'.result = MC_DRV_OK)
  /\ UNCHANGED <<ksess, kshm, kmaps, kwsm, kversion, mcSid, live>>

(* mcCloseDevice: refused while hasOpenSessions(), else Impl::close.       *)
mcCloseDevice ==
  /\ devUp                                         \* caller
  /\ \E pending \in BOOLEAN :
       /\ HasOpenSessions(pending)
       /\ IF pending
          THEN /\ Record("mcCloseDevice", "MC_DRV_ERR_SESSION_PENDING")
               /\ UNCHANGED <<kvars, fd>>
          ELSE \E ok \in BOOLEAN :
                 /\ ImplClose(ok)
                 /\ Record("mcCloseDevice", IF ok THEN MC_DRV_OK ELSE "MC_DRV_ERR_UNKNOWN")
  /\ devUp' = (last'.result = "MC_DRV_ERR_SESSION_PENDING")
  /\ UNCHANGED <<mcSid, live>>

(* mcOpenSession / mcOpenTrustlet: MC_IO_OPEN_SESSION / MC_IO_OPEN_TRUSTLET;*)
(* sessionId is written only when the ioctl succeeds. mcOpenSession maps   *)
(* MC_DRV_ERR_BULK_MAPPING (a TCI problem) to MC_DRV_ERR_INVALID_PARAMETER.*)
OpenRequest(m, call, remapBulk) ==
  /\ devUp /\ ~live[m]                             \* caller
  /\ \E err \in IF fd \in kfds /\ FreeSids # {} THEN {"ok"} \cup Faults
                ELSE IF fd \in kfds THEN {"ENOSPC"} \cup Faults ELSE {"EBADF"} :
       LET r == ret_errno_to_mc_result(err) IN
       /\ IF err = "ok"
          THEN \E sid \in FreeSids :
                 /\ KOpenSession(sid, fd, m)
                 /\ mcSid' = [mcSid EXCEPT ![m] = sid]
          ELSE UNCHANGED <<kvars, mcSid>>
       /\ Record(call, IF remapBulk /\ r = "MC_DRV_ERR_BULK_MAPPING"
                       THEN "MC_DRV_ERR_INVALID_PARAMETER" ELSE r)
  /\ live' = [live EXCEPT ![m] = (last'.result = MC_DRV_OK)]
  /\ UNCHANGED <<fd, devUp>>

mcOpenSession(m)  == OpenRequest(m, "mcOpenSession", TRUE)
mcOpenTrustlet(m) == OpenRequest(m, "mcOpenTrustlet", FALSE)

(* mcCloseSession: MC_IO_CLOSE_SESSION; sessionId is left as it was.       *)
mcCloseSession(m) ==
  /\ devUp /\ live[m]                              \* caller
  /\ \E err \in SessionErrs(mcSid[m]) :
       /\ IF err = "ok" THEN KCloseSession(mcSid[m]) ELSE UNCHANGED kvars
       /\ Record("mcCloseSession", ret_errno_to_mc_result(err))
  /\ live' = [live EXCEPT ![m] = last'.result # MC_DRV_OK]
  /\ UNCHANGED <<fd, mcSid, devUp>>

(* mcNotify, mcWaitNotification, mcGetSessionErrorCode: one ioctl naming   *)
(* sessionId, no state of the driver changes. A wait may also time out     *)
(* (ETIME) or find nothing to report when polling (ENOMSG).                *)
SessionQuery(m, call, extra) ==
  /\ devUp /\ live[m]                              \* caller
  /\ \E err \in SessionErrs(mcSid[m])
                 \cup (IF SessionOpenOn(mcSid[m], fd) THEN extra ELSE {}) :
       Record(call, ret_errno_to_mc_result(err))
  /\ UNCHANGED <<kvars, fd, mcSid, devUp, live>>

mcNotify(m)              == SessionQuery(m, "mcNotify", {})
mcWaitNotification(m)    == SessionQuery(m, "mcWaitNotification", {"ETIME", "ENOMSG"})
mcGetSessionErrorCode(m) == SessionQuery(m, "mcGetSessionErrorCode", {})

(* mcMap: MC_IO_MAP of buffer b into session sessionId; the kernel refuses *)
(* a buffer already mapped into that session.                              *)
mcMap(m, b) ==
  /\ devUp /\ live[m]                              \* caller
  /\ \E err \in IF SessionOpenOn(mcSid[m], fd) /\ <<mcSid[m], b>> \in kmaps
                THEN {"EADDRINUSE"} ELSE SessionErrs(mcSid[m]) :
       /\ kmaps' = IF err = "ok" THEN kmaps \cup {<<mcSid[m], b>>} ELSE kmaps
       /\ Record("mcMap", ret_errno_to_mc_result(err))
  /\ UNCHANGED <<kfds, ksess, kshm, kwsm, kversion, fd, mcSid, devUp, live>>

(* mcUnmap: MC_IO_UNMAP; the kernel refuses a pair it has not mapped.      *)
mcUnmap(m, b) ==
  /\ devUp /\ live[m]                              \* caller
  /\ \E err \in IF SessionOpenOn(mcSid[m], fd) /\ <<mcSid[m], b>> \notin kmaps
                THEN {"EADDRNOTAVAIL"} ELSE SessionErrs(mcSid[m]) :
       /\ kmaps' = IF err = "ok" THEN kmaps \ {<<mcSid[m], b>>} ELSE kmaps
       /\ Record("mcUnmap", ret_errno_to_mc_result(err))
  /\ UNCHANGED <<kfds, ksess, kshm, kwsm, kversion, fd, mcSid, devUp, live>>

(* mcMallocWsm: mmap of the device; MAP_FAILED is ret -1.                  *)
mcMallocWsm(b) ==
  /\ devUp /\ b \notin kwsm                        \* caller
  /\ \E err \in {"ok"} \cup FailureOn(fd) :
       /\ kwsm' = IF err = "ok" THEN kwsm \cup {b} ELSE kwsm
       /\ Record("mcMallocWsm", ret_errno_to_mc_result(err))
  /\ UNCHANGED <<kfds, ksess, kshm, kmaps, kversion, fd, mcSid, devUp, live>>

(* mcFreeWsm: munmap, which does not need the descriptor.                  *)
mcFreeWsm(b) ==
  /\ b \in kwsm                                    \* caller
  /\ kwsm' = kwsm \ {b}
  /\ Record("mcFreeWsm", MC_DRV_OK)
  /\ UNCHANGED <<kfds, ksess, kshm, kmaps, kversion, fd, mcSid, devUp, live>>

(* mcGetMobiCoreVersion: MC_IO_VERSION, nothing changes.                   *)
mcGetMobiCoreVersion ==
  /\ devUp                                         \* caller
  /\ \E err \in {"ok"} \cup FailureOn(fd) :
       Record("mcGetMobiCoreVersion", ret_errno_to_mc_result(err))
  /\ UNCHANGED <<kvars, fd, mcSid, devUp, live>>

Next ==
  \/ mcOpenDevice \/ mcCloseDevice \/ mcGetMobiCoreVersion
  \/ \E b \in Bufs : mcMallocWsm(b) \/ mcFreeWsm(b)
  \/ \E m \in McHandles :
       \/ mcOpenSession(m) \/ mcOpenTrustlet(m) \/ mcCloseSession(m)
       \/ mcNotify(m) \/ mcWaitNotification(m) \/ mcGetSessionErrorCode(m)
       \/ \E b \in Bufs : mcMap(m, b) \/ mcUnmap(m, b)

(* A caller that wants the device closed retries mcCloseDevice, and the    *)
(* transport's faults are transient: a close that would succeed is not    *)
(* refused forever. Nothing is assumed of the caller's other calls.        *)
Fairness == WF_vars(mcCloseDevice /\ ~devUp')

Spec == Init /\ [][Next]_vars /\ Fairness

(***************************************************************************)
(* Invariants and properties                                               *)
(***************************************************************************)
TypeOK ==
  /\ KTypeOK
  /\ fd \in Fds \cup {NoFd}
  /\ mcSid \in [McHandles -> Sids \cup {0}]
  /\ devUp \in BOOLEAN
  /\ live \in [McHandles -> BOOLEAN]
  /\ last.result \in McResults

(* Every session the caller holds as open (an open returned MC_DRV_OK and  *)
(* no close did since) is open in the secure world, on the driver's        *)
(* descriptor, under this handle, and its bulk mappings are alive: a       *)
(* device close while sessions are open is refused by mcCloseDevice.       *)
LiveHandleOwnsItsSession ==
  \A m \in McHandles :
    live[m] => ksess[mcSid[m]] = [fd |-> fd, owner |-> m]

(* Once the caller holds no open session, its device is eventually closed *)
(* (unless it opens a session again): mcCloseDevice's hasOpenSessions     *)
(* check must not see a session the caller cannot name and close, such as *)
(* one left open by a failed open or close, nor misread an idle device.    *)
DeviceCloseCompletes ==
  (devUp /\ \A m \in McHandles : ~live[m])
    ~> (~devUp \/ \E m \in McHandles : live[m])

=============================================================================
