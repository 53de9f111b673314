------------------------------- MODULE MCMcApi -------------------------------
(***************************************************************************)
(* Instantiates McApi for TLC: two session handles and two session ids so  *)
(* ids are reused across handles, one buffer for bulk maps and WSM, and a  *)
(* minimum version of 2.2 against kernels reporting 2.1, 2.2 and 3.2.      *)
(***************************************************************************)
EXTENDS McApi

MCOwners == McHandles
MCDriverVersions == {2 * 65536 + 1, 2 * 65536 + 2, 3 * 65536 + 2}
MCMinVersion == 2 * 65536 + 2
MCApiVersion == 2 * 65536 + 3

=============================================================================
