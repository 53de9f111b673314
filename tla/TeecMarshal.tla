---------------------------- MODULE TeecMarshal ----------------------------
(***************************************************************************)
(* The Parameter Marshaler of the TEE client driver                        *)
(* (src/trustzone/ClientLib/src/driver.cpp): _TEEC_OperationToIoctl turns  *)
(* a caller's TEEC_Operation into the gp_operation handed to the kernel,   *)
(* and _TEEC_IoctlToOperation copies the kernel's answer back.             *)
(*                                                                         *)
(* One marshaling round trip is a small state machine: the caller's        *)
(* operation is encoded, the secure side rewrites the wire structure, the  *)
(* answer is decoded into the caller's operation.                          *)
(*                                                                         *)
(* Data abstraction: buffer pointers are left out (they are copied through *)
(* unchanged and no property tells them apart); sizes and offsets are      *)
(* size_t values kept at a width of W bits so that wrap-around happens.    *)
(***************************************************************************)
EXTENDS Integers, Sequences, Bitwise

CONSTANTS
  W,          \* width in bits of size_t in the model
  NSlots,     \* number of parameter slots (PARAMS_NUMBER is 4 in the code)
  Values,     \* values a caller or the secure side puts in value.a / value.b
  WireSizes   \* sizes the secure side may write back into the wire structure

ASSUME W \in 1..8 /\ NSlots \in 1..4
ASSUME WireSizes \subseteq 0..(2^W - 1)

Slots == 0..(NSlots - 1)
Sizes == 0..(2^W - 1)

\* size_t addition wraps modulo 2^W
AddSize(x, y) == (x + y) % (2^W)

(* TEEC parameter type codes and memory flags (GlobalPlatform values from  *)
(* tee_client_api.h, included by driver.cpp).                              *)
TEEC_NONE                 == 0
TEEC_VALUE_INPUT          == 1
TEEC_VALUE_OUTPUT         == 2
TEEC_VALUE_INOUT          == 3
TEEC_MEMREF_TEMP_INPUT    == 5
TEEC_MEMREF_TEMP_OUTPUT   == 6
TEEC_MEMREF_TEMP_INOUT    == 7
TEEC_MEMREF_WHOLE         == 12
TEEC_MEMREF_PARTIAL_INPUT == 13
TEEC_MEMREF_PARTIAL_OUTPUT == 14
TEEC_MEMREF_PARTIAL_INOUT == 15
TypeCodes == 0..15      \* GET_PARAM_TYPE yields a nibble

TEEC_MEM_INPUT      == 1
TEEC_MEM_OUTPUT     == 2
TEEC_MEM_INOUT      == 3
TEEC_MEM_FLAGS_MASK == 3
Flags     == 0..7   \* TEEC_SharedMemory.flags; bit 2 stands for any other flag
WireFlags == 0..3   \* flags after masking with TEEC_MEM_FLAGS_MASK

TEEC_SUCCESS              == "TEEC_SUCCESS"
TEEC_ERROR_BAD_PARAMETERS == "TEEC_ERROR_BAD_PARAMETERS"

ValueTypes   == {TEEC_VALUE_INPUT, TEEC_VALUE_OUTPUT, TEEC_VALUE_INOUT}
TempTypes    == {TEEC_MEMREF_TEMP_INPUT, TEEC_MEMREF_TEMP_OUTPUT, TEEC_MEMREF_TEMP_INOUT}
PartialTypes == {TEEC_MEMREF_PARTIAL_INPUT, TEEC_MEMREF_PARTIAL_OUTPUT,
                 TEEC_MEMREF_PARTIAL_INOUT}
KnownTypes   == {TEEC_NONE, TEEC_MEMREF_WHOLE} \cup ValueTypes \cup TempTypes \cup PartialTypes

(* A TEEC_Parameter: the value, tmpref and memref views of the union, with *)
(* the memref's parent TEEC_SharedMemory inlined as psize / pflags.        *)
Param == [a: Values, b: Values, tsize: Sizes,
          psize: Sizes, pflags: Flags, offset: Sizes, msize: Sizes]

(* A gp_param on the wire has the same views (parent flags are masked).    *)
WireParam == [a: Values, b: Values, tsize: Sizes,
              psize: Sizes, pflags: WireFlags, offset: Sizes, msize: Sizes]

ZeroParam == [a |-> 0, b |-> 0, tsize |-> 0, psize |-> 0, pflags |-> 0,
              offset |-> 0, msize |-> 0]

(* A TEEC_Operation: the parameter type of each slot (the nibbles of       *)
(* paramTypes, read with GET_PARAM_TYPE) and the parameters.               *)
Operation == [types: [Slots -> TypeCodes], params: [Slots -> Param]]

(***************************************************************************)
(* _TEEC_OperationToIoctl, one slot: whether the slot is accepted, and the *)
(* gp_param written for it (the case arms of the switch on param_type).    *)
(***************************************************************************)
PartialDirectionConflict(t, p) ==
  \/ (p.pflags & TEEC_MEM_INOUT) = TEEC_MEM_INPUT /\ t = TEEC_MEMREF_PARTIAL_OUTPUT
  \/ (p.pflags & TEEC_MEM_INOUT) = TEEC_MEM_OUTPUT /\ t = TEEC_MEMREF_PARTIAL_INPUT

\* mutant: a window ending exactly at the parent's end is refused
PartialOutOfBoundsOffByOne(p) == AddSize(p.offset, p.msize) >= p.psize

PartialOutOfBounds(p) == AddSize(p.offset, p.msize) > p.psize

SlotAccepted(t, p) ==
  /\ t \in KnownTypes
  /\ t \in PartialTypes => ~PartialDirectionConflict(t, p) /\ ~PartialOutOfBounds(p)

\* mutant: the parent flags are copied to the wire without the mask
MaskFlagsDropped(f) == f

\* param_in->memref.parent->flags & TEEC_MEM_FLAGS_MASK
MaskFlags(f) == f & TEEC_MEM_FLAGS_MASK

EncodeSlot(t, p, w) ==
  CASE t \in {TEEC_VALUE_INPUT, TEEC_VALUE_INOUT} -> [w EXCEPT !.a = p.a, !.b = p.b]
    [] t \in TempTypes -> [w EXCEPT !.tsize = p.tsize]
    [] t = TEEC_MEMREF_WHOLE ->
         [w EXCEPT !.psize = p.psize, !.pflags = MaskFlags(p.pflags)]
    [] t \in PartialTypes /\ SlotAccepted(t, p) ->
         [w EXCEPT !.psize = p.psize, !.pflags = MaskFlags(p.pflags),
                   !.offset = p.offset, !.msize = p.msize]
    [] OTHER -> w

(* _TEEC_OperationToIoctl: the wire operation starts zeroed (the open-     *)
(* session path memsets it); the loop does not stop at a rejected slot,    *)
(* but any rejected slot makes the result TEEC_ERROR_BAD_PARAMETERS.       *)
OperationToIoctl(op) ==
  [result |-> IF \A i \in Slots : SlotAccepted(op.types[i], op.params[i])
              THEN TEEC_SUCCESS ELSE TEEC_ERROR_BAD_PARAMETERS,
   wire   |-> [types |-> op.types,
               params |-> [i \in Slots |->
                             EncodeSlot(op.types[i], op.params[i], ZeroParam)]]]

(***************************************************************************)
(* _TEEC_IoctlToOperation, one slot: only the arms that copy something     *)
(* change the caller's parameter; an unknown type reports                  *)
(* TEEC_ERROR_BAD_PARAMETERS and leaves the slot alone.                    *)
(***************************************************************************)
\* mutant: the size is copied back when the parent is marked input
WholeWritesBackInputFlag(w) == (w.pflags & TEEC_MEM_INPUT) # 0

\* a whole reference's size is copied back if the parent is marked output
WholeWritesBack(w) == (w.pflags & TEEC_MEM_OUTPUT) # 0

DecodeSlot(t, w, p) ==
  CASE t \in {TEEC_VALUE_OUTPUT, TEEC_VALUE_INOUT} -> [p EXCEPT !.a = w.a, !.b = w.b]
    [] t \in TempTypes -> [p EXCEPT !.tsize = w.tsize]
    [] t = TEEC_MEMREF_WHOLE /\ WholeWritesBack(w) -> [p EXCEPT !.msize = w.msize]
    [] t \in PartialTypes -> [p EXCEPT !.msize = w.msize]
    [] OTHER -> p

(* The caller's paramTypes are overwritten by the wire's param_types       *)
(* before the loop, so the slots are decoded by the wire's types.          *)
IoctlToOperation(op, wire) ==
  [types  |-> wire.types,
   params |-> [i \in Slots |-> DecodeSlot(wire.types[i], wire.params[i], op.params[i])]]

(***************************************************************************)
(* _libUuidToArray: TEEC_OpenSession's destination UUID as the 16 bytes   *)
(* the kernel receives. TEEC_UUID is uint32 timeLow, uint16 timeMid,       *)
(* uint16 timeHiAndVersion and uint8 clockSeqAndNode[8], 16 bytes without *)
(* padding; the loop reads them through a cursor displaced by a signed     *)
(* nibble taken from the word offsets at each step.                        *)
(***************************************************************************)
Builds == {"big", "little"}    \* S_BIG_ENDIAN defined or not

\* the n bytes of an unsigned x as a build of byte order b stores them
StoredBytes(x, n, b) ==
  [k \in 1..n |-> (x \div 256^(IF b = "little" THEN k - 1 ELSE n - k)) % 256]

\* the TEEC_UUID structure in memory, byte by byte
UuidMemory(u, b) ==
  StoredBytes(u.timeLow, 4, b) \o StoredBytes(u.timeMid, 2, b)
    \o StoredBytes(u.timeHiAndVersion, 2, b) \o u.clockSeqAndNode

\* mutant: the table reorders only the bytes of timeLow
UuidOffsetsTimeLowOnly(b) == IF b = "big" THEN <<0, 0>> ELSE <<0, 57107>>

(* uint32_t offsets: 0 on a big-endian build, else 0xF1F1DF13, held as its *)
(* halves <<0xF1F1, 0xDF13>> (TLC's integers are signed 32-bit).           *)
UuidOffsets(b) == IF b = "big" THEN <<0, 0>> ELSE <<61937, 57107>>

\* (offsets >> 4i) & 0xF, the nibble step i consumes (offsets >>= 4 each step)
OffsetNibble(offs, i) ==
  IF i < 4 THEN (offs[2] \div 16^i) % 16
  ELSE IF i < 8 THEN (offs[1] \div 16^(i - 4)) % 16 ELSE 0

\* ((int32_t)(nibble << 28)) >> 28: the nibble read as a signed 4-bit number
SignedNibble(n) == IF n >= 8 THEN n - 16 ELSE n

\* uuidArr[i] = pIdentifierCursor[offset], the cursor at byte i of the struct
LibUuidToArray(u, b) ==
  LET mem == UuidMemory(u, b) IN
  [i \in 0..15 |-> mem[i + SignedNibble(OffsetNibble(UuidOffsets(b), i)) + 1]]

(* Reference: a UUID in network byte order (RFC 4122), each field with its *)
(* most significant byte first, independent of the build.                  *)
RECURSIVE NetworkBytes(_, _)
NetworkBytes(x, n) == IF n = 0 THEN <<>> ELSE NetworkBytes(x \div 256, n - 1) \o <<x % 256>>

NetworkOrder(u) ==
  NetworkBytes(u.timeLow, 4) \o NetworkBytes(u.timeMid, 2)
    \o NetworkBytes(u.timeHiAndVersion, 2) \o u.clockSeqAndNode

=============================================================================
