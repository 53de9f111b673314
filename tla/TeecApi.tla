------------------------------- MODULE TeecApi -------------------------------
(***************************************************************************)
(* The GlobalPlatform half of Driver (driver.cpp): TEEC_InitializeContext, *)
(* TEEC_FinalizeContext, the shared-memory calls, TEEC_OpenSession,        *)
(* TEEC_CloseSession, TEEC_InvokeCommand and TEEC_RequestCancellation.     *)
(* Each call is one atomic step: the layer makes at most one blocking      *)
(* round trip and returns (spec.md section 5).                             *)
(*                                                                         *)
(* The caller is a GlobalPlatform client: it initializes the context only  *)
(* when it has none (and may retry after a failure), opens a session only  *)
(* in a TEEC_Session it is not using, and closes its sessions and releases *)
(* its shared memory before finalizing. These caller obligations are the   *)
(* conjuncts marked "caller".                                              *)
(***************************************************************************)
EXTENDS DriverImpl

CONSTANTS
  Handles,     \* TEEC_Session structures of the caller
  Ops,         \* operations the caller passes (TEEC_Operation values)
  TeeErrors,   \* results the secure world may refuse a request with
  W, NSlots, Values, WireSizes   \* parameters of the marshaler

Marshal == INSTANCE TeecMarshal

ASSUME Ops \subseteq Marshal!Operation
ASSUME "TEEC_SUCCESS" \notin TeeErrors

VARIABLES
  sessionId,   \* per TEEC_Session: imp.sessionId (0: not open)
  ctxUp,       \* caller: the context is initialized
  shmReg,      \* caller: per buffer, TEEC_RegisterSharedMemory succeeded
  last         \* the last call: name, whether the secure world answered,
               \* its answer and the result returned to the caller

vars == <<kvars, fd, sessionId, ctxUp, shmReg, last>>

TEEC_SUCCESS              == "TEEC_SUCCESS"
TEEC_ERROR_GENERIC        == "TEEC_ERROR_GENERIC"
TEEC_ERROR_ACCESS_DENIED  == "TEEC_ERROR_ACCESS_DENIED"
TEEC_ERROR_OUT_OF_MEMORY  == "TEEC_ERROR_OUT_OF_MEMORY"
TEEC_ERROR_BAD_PARAMETERS == "TEEC_ERROR_BAD_PARAMETERS"
TEEC_ERROR_COMMUNICATION  == "TEEC_ERROR_COMMUNICATION"
TEEC_ERROR_BAD_STATE      == "TEEC_ERROR_BAD_STATE"
TEEC_ERROR_NOT_IMPLEMENTED == "TEEC_ERROR_NOT_IMPLEMENTED"

TeecResults == {TEEC_SUCCESS, TEEC_ERROR_GENERIC, TEEC_ERROR_ACCESS_DENIED,
                TEEC_ERROR_OUT_OF_MEMORY, TEEC_ERROR_BAD_PARAMETERS,
                TEEC_ERROR_COMMUNICATION, TEEC_ERROR_BAD_STATE,
                TEEC_ERROR_NOT_IMPLEMENTED}

ECHILD == 10   \* the errno value the init and register paths compare ret with

\* mutant: the errno is handed back untranslated
TEEC_ConvertErrnoRaw(e) == e

(* TEEC_ConvertErrno: errno to TEEC result.                                *)
TEEC_ConvertErrno(e) ==
  CASE e \in {"EACCES", "EPERM"} -> TEEC_ERROR_ACCESS_DENIED
    [] e = "ENOMEM"              -> TEEC_ERROR_OUT_OF_MEMORY
    [] e = "EINVAL"              -> TEEC_ERROR_BAD_PARAMETERS
    [] e = "ENOENT"              -> TEEC_ERROR_COMMUNICATION
    [] OTHER                     -> TEEC_ERROR_GENERIC

\* the int an ioctl returns: 0, or -1 with errno set
IoctlRet(g) == IF g.err = "ok" THEN 0 ELSE -1

Record(call, g, result) ==
  last' = [call |-> call, sent |-> g.err # "none",
           reached |-> g.err \in {"ok", "ECHILD"},
           tee |-> g.tee, result |-> result]

NotSent == [err |-> "none", tee |-> "none"]

(* The result of the init-context and register paths:                      *)
(* if (ret && (ret != ECHILD)) TEEC_ConvertErrno() else payload ret.value. *)
RetCheckedResult(g) ==
  IF IoctlRet(g) # 0 /\ IoctlRet(g) # ECHILD
  THEN TEEC_ConvertErrno(g.err) ELSE g.tee

\* mutant: any non-zero return is translated from errno, ECHILD included
ErrnoCheckedResultNoEchild(g) ==
  IF IoctlRet(g) # 0 THEN TEEC_ConvertErrno(g.err) ELSE g.tee

\* mutant: the ECHILD continuation is taken as success, the payload unread
ErrnoCheckedResultEchildOk(g) ==
  IF IoctlRet(g) # 0 /\ g.err # "ECHILD"
  THEN TEEC_ConvertErrno(g.err) ELSE TEEC_SUCCESS

(* The result of the open-session and invoke paths:                        *)
(* if (ret && (errno != ECHILD)) TEEC_ConvertErrno() else ret.value.       *)
ErrnoCheckedResult(g) ==
  IF IoctlRet(g) # 0 /\ g.err # "ECHILD"
  THEN TEEC_ConvertErrno(g.err) ELSE g.tee

Init ==
  /\ KInit
  /\ fd = NoFd
  /\ sessionId = [h \in Handles |-> 0]
  /\ ctxUp = FALSE
  /\ shmReg = [b \in Bufs |-> FALSE]
  /\ last = [call |-> "none", sent |-> FALSE, reached |-> FALSE,
              tee |-> "none", result |-> "none"]

(* TEEC_InitializeContext: Impl::open, then MC_IO_GP_INITIALIZE_CONTEXT.   *)
(* A failure of the ioctl leaves the descriptor open.                      *)
TEEC_InitializeContext ==
  /\ ~ctxUp                                        \* caller
  /\ \E out \in OpenFaults \cup Faults \cup {"EMFILE", "EHOSTDOWN", "ok"} :
       /\ ImplOpen(out)
       /\ IF out # "ok"
          THEN Record("InitializeContext", NotSent, TEEC_ConvertErrno(out))
          ELSE \E g \in GpOutcomes(TRUE, TeeErrors) :
                 Record("InitializeContext", g, RetCheckedResult(g))
  /\ ctxUp' = (last'.result = TEEC_SUCCESS)
  /\ UNCHANGED <<ksess, kshm, kmaps, kwsm, kversion, sessionId, shmReg>>

(* TEEC_FinalizeContext: Impl::close.                                      *)
TEEC_FinalizeContext ==
  /\ ctxUp                                         \* caller
  /\ \A h \in Handles : sessionId[h] = 0           \* caller
  /\ \A b \in Bufs : ~shmReg[b]                    \* caller
  /\ \E ok \in BOOLEAN : ImplClose(ok)
  /\ ctxUp' = FALSE
  /\ Record("FinalizeContext", NotSent, "none")
  /\ UNCHANGED <<sessionId, shmReg>>

TEEC_RegisterSharedMemory(b) ==
  /\ ctxUp /\ ~shmReg[b]                           \* caller
  /\ \E g \in GpOutcomes(fd \in kfds, TeeErrors) :
       /\ kshm' = IF g.err = "ok" THEN kshm \cup {<<fd, b>>} ELSE kshm
       /\ Record("RegisterSharedMemory", g, RetCheckedResult(g))
  /\ shmReg' = [shmReg EXCEPT ![b] = (last'.result = TEEC_SUCCESS)]
  /\ UNCHANGED <<kfds, ksess, kmaps, kwsm, kversion, fd, sessionId, ctxUp>>

TEEC_AllocateSharedMemory ==
  /\ ctxUp                                         \* caller
  /\ Record("AllocateSharedMemory", NotSent, TEEC_ERROR_NOT_IMPLEMENTED)
  /\ UNCHANGED <<kvars, fd, sessionId, ctxUp, shmReg>>

(* TEEC_ReleaseSharedMemory: a failed ioctl is only logged.                *)
TEEC_ReleaseSharedMemory(b) ==
  /\ shmReg[b]                                     \* caller
  /\ \E g \in GpOutcomes(fd \in kfds, {}) :
       /\ kshm' = IF g.err = "ok" THEN kshm \ {<<fd, b>>} ELSE kshm
       /\ Record("ReleaseSharedMemory", g, "none")
  /\ shmReg' = [shmReg EXCEPT ![b] = FALSE]
  /\ UNCHANGED <<kfds, ksess, kmaps, kwsm, kversion, fd, sessionId, ctxUp>>

(* The kernel's answer to a GP open-session request: a fresh session id    *)
(* on success, ENOSPC when the secure world has none left.                 *)
OpenOutcomes ==
  IF fd \in kfds /\ FreeSids = {}
  THEN {g \in GpOutcomes(TRUE, TeeErrors) : g.err # "ok"}
         \cup {[err |-> "ENOSPC", tee |-> "none"]}
  ELSE GpOutcomes(fd \in kfds, TeeErrors)

(* The kernel's answer to a request addressed to session s.                *)
SessionOutcomes(s) ==
  IF fd \in kfds /\ ~SessionOpenOn(s, fd)
  THEN {[err |-> "ENXIO", tee |-> "none"]}
  ELSE GpOutcomes(fd \in kfds, TeeErrors)

(* TEEC_OpenSession: imp.sessionId = 0; encode (a rejected operation       *)
(* returns before the ioctl); MC_IO_GP_OPEN_SESSION; the id is stored only *)
(* when the payload's result is TEEC_SUCCESS.                              *)
TEEC_OpenSession(h) ==
  /\ ctxUp /\ sessionId[h] = 0                     \* caller
  /\ \E o \in Ops :
       IF Marshal!OperationToIoctl(o).result # TEEC_SUCCESS
       THEN /\ Record("OpenSession", NotSent, TEEC_ERROR_BAD_PARAMETERS)
            /\ sessionId' = [sessionId EXCEPT ![h] = 0]
            /\ UNCHANGED kvars
       ELSE \E g \in OpenOutcomes :
              /\ Record("OpenSession", g, ErrnoCheckedResult(g))
              /\ IF g.err = "ok"
                 THEN \E sid \in FreeSids :
                        /\ KOpenSession(sid, fd, h)
                        /\ sessionId' = [sessionId EXCEPT ![h] =
                             IF g.tee = TEEC_SUCCESS THEN sid ELSE 0]
                 ELSE /\ sessionId' = [sessionId EXCEPT ![h] = 0]
                      /\ UNCHANGED kvars
  /\ UNCHANGED <<fd, ctxUp, shmReg>>

\* mutant: imp.sessionId is not cleared after the close request
TEEC_CloseSessionNoReset(h) ==
  /\ ctxUp
  /\ IF sessionId[h] = 0
     THEN Record("CloseSession", NotSent, "none") /\ UNCHANGED kvars
     ELSE \E g \in SessionOutcomes(sessionId[h]) :
            /\ Record("CloseSession", g, "none")
            /\ IF g.err = "ok" THEN KCloseSession(sessionId[h]) ELSE UNCHANGED kvars
  /\ UNCHANGED <<fd, sessionId, ctxUp, shmReg>>

(* TEEC_CloseSession: a no-op on an inactive session; otherwise            *)
(* MC_IO_GP_CLOSE_SESSION, whose failure is only logged, and the id is     *)
(* cleared whatever the ioctl returned.                                    *)
TEEC_CloseSession(h) ==
  /\ ctxUp                                         \* caller
  /\ IF sessionId[h] = 0
     THEN /\ Record("CloseSession", NotSent, "none")
          /\ UNCHANGED <<kvars, sessionId>>
     ELSE \E g \in SessionOutcomes(sessionId[h]) :
            /\ Record("CloseSession", g, "none")
            /\ IF g.err = "ok" THEN KCloseSession(sessionId[h]) ELSE UNCHANGED kvars
            /\ sessionId' = [sessionId EXCEPT ![h] = 0]
  /\ UNCHANGED <<fd, ctxUp, shmReg>>

(* TEEC_InvokeCommand: TEEC_ERROR_BAD_STATE on an inactive session without *)
(* an ioctl; encode; MC_IO_GP_INVOKE_COMMAND.                              *)
TEEC_InvokeCommand(h) ==
  /\ ctxUp                                         \* caller
  /\ IF sessionId[h] = 0
     THEN Record("InvokeCommand", NotSent, TEEC_ERROR_BAD_STATE)
     ELSE \E o \in Ops :
            IF Marshal!OperationToIoctl(o).result # TEEC_SUCCESS
            THEN Record("InvokeCommand", NotSent, TEEC_ERROR_BAD_PARAMETERS)
            ELSE \E g \in SessionOutcomes(sessionId[h]) :
                   Record("InvokeCommand", g, ErrnoCheckedResult(g))
  /\ UNCHANGED <<kvars, fd, sessionId, ctxUp, shmReg>>

(* TEEC_RequestCancellation: MC_IO_GP_REQUEST_CANCELLATION, failure logged.*)
TEEC_RequestCancellation ==
  /\ ctxUp                                         \* caller
  /\ \E g \in GpOutcomes(fd \in kfds, {}) : Record("RequestCancellation", g, "none")
  /\ UNCHANGED <<kvars, fd, sessionId, ctxUp, shmReg>>

Next ==
  \/ TEEC_InitializeContext
  \/ TEEC_FinalizeContext
  \/ TEEC_AllocateSharedMemory
  \/ TEEC_RequestCancellation
  \/ \E b \in Bufs : TEEC_RegisterSharedMemory(b) \/ TEEC_ReleaseSharedMemory(b)
  \/ \E h \in Handles :
       TEEC_OpenSession(h) \/ TEEC_CloseSession(h) \/ TEEC_InvokeCommand(h)

Spec == Init /\ [][Next]_vars

(***************************************************************************)
(* Invariants and properties                                               *)
(***************************************************************************)
TypeOK ==
  /\ KTypeOK
  /\ fd \in Fds \cup {NoFd}
  /\ sessionId \in [Handles -> Sids \cup {0}]
  /\ ctxUp \in BOOLEAN
  /\ shmReg \in [Bufs -> BOOLEAN]
  /\ last.sent \in BOOLEAN
  /\ last.reached \in BOOLEAN
  /\ last.result \in TeecResults \cup TeeErrors \cup {"none"}

(* The spec's version policy (spec.md 4.1): same major, minor at least the *)
(* required one; exact match when no minimum is configured.                *)
SpecAcceptsVersion(v) ==
  LET req == IF MinVersion # 0 THEN MinVersion ELSE ApiVersion IN
  /\ v \div 65536 = req \div 65536
  /\ IF MinVersion # 0 THEN v % 65536 >= req % 65536 ELSE v % 65536 = req % 65536

(* The driver never holds the device open, through Impl::fd or through a   *)
(* descriptor Impl::open failed to close, unless the kernel reported a     *)
(* version the policy accepts (spec.md 8: a rejected version leaves the    *)
(* transport closed).                                                      *)
DeviceOpenOnlyWithAcceptedVersion ==
  kfds # {} => SpecAcceptsVersion(kversion)

(* A TEEC_Session whose imp.sessionId is not 0 names a session that is     *)
(* open in the secure world, on the driver's current descriptor, and that  *)
(* this same TEEC_Session opened: across failed opens, failed closes, id   *)
(* reuse by the secure world and context re-initialisation, no request is  *)
(* ever addressed to a dead or foreign session.                            *)
HandleOwnsItsSession ==
  \A h \in Handles :
    sessionId[h] # 0 => ksess[sessionId[h]] = [fd |-> fd, owner |-> h]

(* When an open-session or invoke request reached the secure world, the    *)
(* caller gets exactly the result the secure world produced (spec.md 4.3,  *)
(* 8), including when the kernel signals it with ECHILD.                   *)
SessionCallsReportSecureWorldResult ==
  [][last'.call \in {"OpenSession", "InvokeCommand"} /\ last'.reached
       => last'.result = last'.tee]_vars

(* The same for TEEC_InitializeContext and TEEC_RegisterSharedMemory: a    *)
(* result the secure world produced is not replaced by a transport error.  *)
ContextCallsReportSecureWorldResult ==
  [][last'.call \in {"InitializeContext", "RegisterSharedMemory"} /\ last'.reached
       => last'.result = last'.tee]_vars

(* At most one descriptor on the device is open, and it is Impl::fd        *)
(* (spec.md 3: at most one active transport handle; 4.1: exactly one       *)
(* acquisition per open/close pair).                                       *)
NoLeakedDescriptor ==
  kfds \subseteq {fd}

(***************************************************************************)
(* Refinement: the client library implements the session state machine of *)
(* spec.md 4.3 (module GpSession).  A handle's state is imp.sessionId, the *)
(* context is up between a successful TEEC_InitializeContext and           *)
(* TEEC_FinalizeContext, and a call was sent when it issued an ioctl.      *)
(***************************************************************************)
Session == INSTANCE GpSession WITH
  Ids <- Sids, ctx <- ctxUp, session <- sessionId,
  call <- [name |-> last.call, sent |-> last.sent, result |-> last.result]

(* Every behaviour of TEEC_* over the driver is one the session state      *)
(* machine allows: a handle is open exactly after an open that returned    *)
(* TEEC_SUCCESS, with an id no other handle holds; an invoke on a closed   *)
(* handle returns TEEC_ERROR_BAD_STATE without an ioctl; a close always    *)
(* leaves the handle closed.  Several failure paths (parameter rejection,  *)
(* ECHILD payloads, transport faults, stale descriptors) must all agree.   *)
GpSessionSpec == Session!Spec

=============================================================================
