------------------------------ MODULE GpSession ------------------------------
(***************************************************************************)
(* The session state machine spec.md 4.3 specifies, with the data model of *)
(* spec.md 3: per session handle, 0 (Closed) or the id the transport gave  *)
(* it (Open).  Each step is one client call; call records its name,        *)
(* whether it made a transport round trip, and the result it returned.     *)
(*                                                                         *)
(*  - openSession needs the context; on success the handle holds an id no  *)
(*    other handle holds, and on failure it stays 0;                       *)
(*  - invokeCommand on a closed handle fails fast with Bad State and no    *)
(*    transport call, and never changes a handle;                          *)
(*  - closeSession leaves the handle 0 whatever the transport says, and a  *)
(*    close of a closed handle makes no transport call;                    *)
(*  - the context is finalized only when every handle is closed.           *)
(***************************************************************************)
CONSTANTS
  Handles,     \* the caller's session handles
  Ids          \* the ids the transport may give out (0 is not one)

VARIABLES
  ctx,         \* the context is initialized
  session,     \* per handle: 0 or its session id
  call         \* [name, sent, result] of the last call

vars == <<ctx, session, call>>

Success == "TEEC_SUCCESS"

Init ==
  /\ ctx = FALSE
  /\ session = [h \in Handles |-> 0]
  /\ call = [name |-> "none", sent |-> FALSE, result |-> "none"]

Closed(h) == session[h] = 0

\* The ids no other handle holds.
Unheld(h) == Ids \ {session[k] : k \in Handles \ {h}}

InitializeContext ==
  /\ ~ctx
  /\ call'.name = "InitializeContext"
  /\ ctx' = (call'.result = Success)
  /\ UNCHANGED session

FinalizeContext ==
  /\ ctx
  /\ \A h \in Handles : Closed(h)
  /\ call'.name = "FinalizeContext"
  /\ ctx' = FALSE
  /\ UNCHANGED session

OpenSession(h) ==
  /\ ctx /\ Closed(h)
  /\ call'.name = "OpenSession"
  /\ \/ /\ call'.result # Success
        /\ UNCHANGED session
     \/ /\ call'.result = Success /\ call'.sent
        /\ \E id \in Unheld(h) : session' = [session EXCEPT ![h] = id]
  /\ UNCHANGED ctx

InvokeCommand(h) ==
  /\ ctx
  /\ call'.name = "InvokeCommand"
  /\ Closed(h) => call'.result = "TEEC_ERROR_BAD_STATE" /\ ~call'.sent
  /\ UNCHANGED <<ctx, session>>

CloseSession(h) ==
  /\ ctx
  /\ call'.name = "CloseSession"
  /\ Closed(h) => ~call'.sent
  /\ session' = [session EXCEPT ![h] = 0]
  /\ UNCHANGED ctx

\* Shared memory and cancellation leave every session as it is.
OtherCall ==
  /\ call'.name \in {"RegisterSharedMemory", "ReleaseSharedMemory",
                     "AllocateSharedMemory", "RequestCancellation"}
  /\ UNCHANGED <<ctx, session>>

Next ==
  \/ InitializeContext
  \/ FinalizeContext
  \/ OtherCall
  \/ \E h \in Handles : OpenSession(h) \/ InvokeCommand(h) \/ CloseSession(h)

Spec == Init /\ [][Next]_vars

=============================================================================
