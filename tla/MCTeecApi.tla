------------------------------ MODULE MCTeecApi ------------------------------
(***************************************************************************)
(* Instantiates TeecApi for TLC: two TEEC_Session structures and two       *)
(* session ids, so the secure world can hand one session's old id to the   *)
(* other; two descriptor numbers, so a second open can leave the first     *)
(* behind; a minimum accepted version of 2.2 against kernels reporting a   *)
(* lower, an equal and a higher minor, and another major.                  *)
(***************************************************************************)
EXTENDS TeecApi

MCOwners == Handles

\* v2.1, v2.2, v2.3, v3.2 as major << 16 | minor
MCDriverVersions == {2 * 65536 + 1, 2 * 65536 + 2, 2 * 65536 + 3, 3 * 65536 + 2}
MCMinVersion == 2 * 65536 + 2
MCApiVersion == 2 * 65536 + 3

\* an operation with no parameters, and one whose slot has an unknown type
MCOps ==
  { [types |-> [i \in 0..(NSlots - 1) |-> t],
     params |-> [i \in 0..(NSlots - 1) |-> Marshal!ZeroParam]] : t \in {0, 4} }

=============================================================================
