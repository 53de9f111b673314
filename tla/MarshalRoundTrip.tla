-------------------------- MODULE MarshalRoundTrip --------------------------
(***************************************************************************)
(* One marshaling round trip of a GP call (TEEC_OpenSession and            *)
(* TEEC_InvokeCommand in driver.cpp): _TEEC_OperationToIoctl encodes the   *)
(* caller's operation; on TEEC_ERROR_BAD_PARAMETERS the call returns       *)
(* before any ioctl; otherwise the secure side answers by rewriting the    *)
(* wire structure, and _TEEC_IoctlToOperation copies the answer back.      *)
(***************************************************************************)
EXTENDS TeecMarshal

CONSTANTS
  InputOps,  \* the caller operations the check starts from
  Uuids      \* destination UUIDs of TEEC_OpenSession

ASSUME InputOps \subseteq Operation

VARIABLES
  op,       \* the caller's TEEC_Operation
  wire,     \* the gp_operation inside the ioctl structure
  encRes,   \* the result _TEEC_OperationToIoctl returned ("none" before)
  pc,       \* "encode", "secure", "decode" or "done"
  dest,     \* the destination UUID of a TEEC_OpenSession (fixed)
  build,    \* the byte order of the build (fixed)
  ident     \* session_int.uuid.value, the identifier sent to the kernel

vars == <<op, wire, encRes, pc, dest, build, ident>>

ZeroWire == [types |-> [i \in Slots |-> TEEC_NONE], params |-> [i \in Slots |-> ZeroParam]]

Init ==
  /\ op \in InputOps
  /\ wire = ZeroWire
  /\ encRes = "none"
  /\ pc = "encode"
  /\ dest \in Uuids
  /\ build \in Builds
  /\ ident = [i \in 0..15 |-> 0]          \* memset(&session_int, 0, ...)

(* Encoding; a rejected operation ends the call (EXIT(teec_result)).       *)
(* Otherwise TEEC_OpenSession fills in the identifier of the destination.  *)
Encode ==
  LET r == OperationToIoctl(op) IN
  /\ pc = "encode"
  /\ encRes' = r.result
  /\ wire' = r.wire
  /\ pc' = IF r.result = TEEC_SUCCESS THEN "secure" ELSE "done"
  /\ ident' = IF r.result = TEEC_SUCCESS THEN LibUuidToArray(dest, build) ELSE ident
  /\ UNCHANGED <<op, dest, build>>

(* The kernel copies the secure side's answer into the ioctl structure:    *)
(* the value and size fields of every slot may come back rewritten; the    *)
(* types and parent descriptors are echoed.                                *)
SecureReply ==
  /\ pc = "secure"
  /\ \E v \in [Slots -> Values], s \in [Slots -> WireSizes] :
       wire' = [wire EXCEPT !.params = [i \in Slots |->
                  [wire.params[i] EXCEPT !.a = v[i], !.b = v[i],
                                         !.tsize = s[i], !.msize = s[i]]]]
  /\ pc' = "decode"
  /\ UNCHANGED <<op, encRes, dest, build, ident>>

Decode ==
  /\ pc = "decode"
  /\ op' = IoctlToOperation(op, wire)
  /\ pc' = "done"
  /\ UNCHANGED <<wire, encRes, dest, build, ident>>

Next == Encode \/ SecureReply \/ Decode

Spec == Init /\ [][Next]_vars

(***************************************************************************)
(* Reference definitions, from the spec's data model (spec.md section 3    *)
(* and 4.2), in unbounded arithmetic.                                      *)
(***************************************************************************)
\* the input and output bits of the parent's flags, other flags ignored
ParentInputOnly(p)  == p.pflags % 4 = 1
ParentOutputOnly(p) == p.pflags % 4 = 2
ParentWritable(p)   == (p.pflags \div 2) % 2 = 1

DirectionConsistent(t, p) ==
  /\ t = TEEC_MEMREF_PARTIAL_OUTPUT => ~ParentInputOnly(p)
  /\ t = TEEC_MEMREF_PARTIAL_INPUT  => ~ParentOutputOnly(p)

WindowFits(p) == p.offset + p.msize <= p.psize

WellFormedSlot(t, p) ==
  /\ t \in KnownTypes
  /\ t \in PartialTypes => DirectionConsistent(t, p) /\ WindowFits(p)

(* What the caller must see of the wire after decoding an output-bearing   *)
(* slot; old is the caller's parameter before, new after decoding.       *)
OutputDelivered(t, w, old, new) ==
  /\ t \in {TEEC_VALUE_OUTPUT, TEEC_VALUE_INOUT} => new.a = w.a /\ new.b = w.b
  /\ t \in {TEEC_MEMREF_TEMP_OUTPUT, TEEC_MEMREF_TEMP_INOUT} => new.tsize = w.tsize
  /\ t \in {TEEC_MEMREF_PARTIAL_OUTPUT, TEEC_MEMREF_PARTIAL_INOUT} => new.msize = w.msize
  /\ t = TEEC_MEMREF_WHOLE /\ ParentWritable(old) => new.msize = w.msize

(***************************************************************************)
(* Invariants and properties                                               *)
(***************************************************************************)
TypeOK ==
  /\ op \in Operation
  /\ wire \in [types: [Slots -> TypeCodes], params: [Slots -> WireParam]]
  /\ encRes \in {"none", TEEC_SUCCESS, TEEC_ERROR_BAD_PARAMETERS}
  /\ pc \in {"encode", "secure", "decode", "done"}
  /\ ident \in [0..15 -> 0..255]

(* _TEEC_OperationToIoctl accepts every operation the spec calls well      *)
(* formed (a partial window ending exactly at the parent's end included),  *)
(* and rejects, before any ioctl, every operation with an unknown type or  *)
(* a partial reference whose direction conflicts with its parent's flags.  *)
EncodeDecidesAsSpecified ==
  [][pc = "encode" =>
       /\ (\A i \in Slots : WellFormedSlot(op.types[i], op.params[i]))
            => encRes' = TEEC_SUCCESS
       /\ (\E i \in Slots : \/ op.types[i] \notin KnownTypes
                            \/ /\ op.types[i] \in PartialTypes
                               /\ ~DirectionConsistent(op.types[i], op.params[i]))
            => encRes' = TEEC_ERROR_BAD_PARAMETERS]_vars

(* The bounds check of _TEEC_OperationToIoctl only lets a partial memory   *)
(* reference through when its window [offset, offset + size) lies inside   *)
(* the parent shared memory (spec.md section 3 and 8).                     *)
EncodeKeepsWindowsInsideParent ==
  [][pc = "encode" /\ encRes' = TEEC_SUCCESS =>
       \A i \in Slots : op.types[i] \in PartialTypes => WindowFits(op.params[i])]_vars

(* _TEEC_IoctlToOperation hands the caller every output the secure side    *)
(* wrote: both value fields of value-output/inout slots, the size of       *)
(* output memory references, and of whole references to output memory.    *)
DecodeDeliversOutputs ==
  [][pc = "decode" =>
       \A i \in Slots : OutputDelivered(op.types[i], wire.params[i],
                                          op.params[i], op'.params[i])]_vars

(* _TEEC_IoctlToOperation leaves the caller's parameters of input-only     *)
(* slots (value, temporary and partial input) as they were: spec.md 4.2    *)
(* says only output-bearing slots are copied back, so that caller state is *)
(* not overwritten by whatever the reply carries for them.                 *)
InputOnlyTypes == {TEEC_VALUE_INPUT, TEEC_MEMREF_TEMP_INPUT, TEEC_MEMREF_PARTIAL_INPUT}

DecodeLeavesInputsUntouched ==
  [][pc = "decode" =>
       \A i \in Slots : op.types[i] \in InputOnlyTypes => op'.params[i] = op.params[i]]_vars

(* The identifier a TEEC_OpenSession request carries (_libUuidToArray)    *)
(* is the destination UUID in network byte order, on big- and             *)
(* little-endian builds alike: spec.md 2 requires it bit-exact, since the  *)
(* secure world compares it with the identifiers it has registered. The    *)
(* nibble table must move each field's bytes and leave clockSeqAndNode.    *)
UuidSentInNetworkOrder ==
  encRes = TEEC_SUCCESS => ident = [i \in 0..15 |-> NetworkOrder(dest)[i + 1]]

=============================================================================
