------------------------- MODULE MCMarshalRoundTrip -------------------------
(***************************************************************************)
(* Instantiates MarshalRoundTrip for TLC. Slot 0 ranges over every type    *)
(* nibble with every parameter the type reads; slot 1 over a few           *)
(* representatives (nothing, an in-out value, a well-formed partial output *)
(* reference, an unknown type), so the accumulation of the result across   *)
(* slots is exercised too.                                                 *)
(***************************************************************************)
EXTENDS MarshalRoundTrip

\* every parameter a slot of type t reads; unread fields stay 0
ParamsFor(t) ==
  CASE t \in PartialTypes ->
         [a: {0}, b: {0}, tsize: {0}, psize: Sizes, pflags: Flags,
          offset: Sizes, msize: Sizes]
    [] t = TEEC_MEMREF_WHOLE ->
         [a: {0}, b: {0}, tsize: {0}, psize: Sizes, pflags: Flags,
          offset: {0}, msize: {0}]
    [] t \in TempTypes ->
         [a: {0}, b: {0}, tsize: Sizes, psize: {0}, pflags: {0},
          offset: {0}, msize: {0}]
    [] t \in ValueTypes ->
         [a: Values, b: Values, tsize: {0}, psize: {0}, pflags: {0},
          offset: {0}, msize: {0}]
    [] OTHER -> {ZeroParam}

FullSlot == UNION { {<<t, p>> : p \in ParamsFor(t)} : t \in TypeCodes }

SmallSlot ==
  { <<TEEC_NONE, ZeroParam>>,
    <<TEEC_VALUE_INOUT, [ZeroParam EXCEPT !.a = 1]>>,
    <<TEEC_MEMREF_PARTIAL_OUTPUT,
        [ZeroParam EXCEPT !.psize = 2, !.pflags = TEEC_MEM_OUTPUT, !.msize = 2]>>,
    <<4, ZeroParam>> }

MCInputOps ==
  { [types  |-> [i \in Slots |-> IF i = 0 THEN s0[1] ELSE s1[1]],
     params |-> [i \in Slots |-> IF i = 0 THEN s0[2] ELSE s1[2]]] :
      s0 \in FullSlot, s1 \in SmallSlot }

(* UUIDs whose sixteen bytes all differ, so that any misplaced byte shows: *)
(* 0x01020304-0506-0708-090a0b0c0d0e0f10, and 7edcba98-aabb-ccdd-eeff-    *)
(* 808182838485 whose bytes are mostly 0x80 and above.                  *)
MCUuids ==
  { [timeLow |-> 16909060, timeMid |-> 1286, timeHiAndVersion |-> 1800,
     clockSeqAndNode |-> <<9, 10, 11, 12, 13, 14, 15, 16>>],
    [timeLow |-> 2128394904, timeMid |-> 43707, timeHiAndVersion |-> 52445,
     clockSeqAndNode |-> <<238, 255, 128, 129, 130, 131, 132, 133>>] }

=============================================================================
