-------------------------------- MODULE MtkRoi --------------------------------
(***************************************************************************)
(* Region-of-interest setup of a video encoder (src/frameworks/av/AVEnhance/*)
(* libmtkavenhancements/roi/MtkRoi.cpp). MtkRoi::setRoiParameters is       *)
(* called by ACodec with the format message and the encoder's IOMXNode; it *)
(* runs setRoiOn, setRoiLease and setRoiInfo in that order, and its        *)
(* mRoiOnMode (0 disabled, 1 platform, 2..3 application) persists across    *)
(* calls. One call of setRoiParameters is one step.                        *)
(*                                                                         *)
(* The encoder node is the environment: it resolves a fixed set of         *)
(* extension names, and accepts or refuses each setParameter / setConfig.  *)
(* Strings (licence, rectangles) are abstracted to their presence; a       *)
(* request through an index getExtensionIndex never wrote goes to         *)
(* "unresolved" and is not stored.                                         *)
(***************************************************************************)
EXTENDS Integers, Sequences

CONSTANTS
  RoiOnVals,    \* values of "roi-on" in a message (0 when absent)
  ProiOnVals,   \* values of "proi-on" (0 when absent)
  CountVals     \* values of "roi-count" (0 when absent)

\* extension names of the node; the two roi configs use fixed vendor indices
ExtNames == {"switch", "licenseSize", "license"}
Indices  == ExtNames \cup {"roiSize", "roiInfo"}

(* The fields setRoiParameters reads from the AMessage: integers default   *)
(* to 0, strings are present or not.                                       *)
Msgs == [roiOn: RoiOnVals, proiOn: ProiOnVals, lease: BOOLEAN,
         count: CountVals, rect: BOOLEAN]

VARIABLES
  mRoiOnMode,  \* MtkRoi::mRoiOnMode
  resolved,    \* extension names the encoder node resolves (fixed)
  node,        \* per index: the last value the node accepted, if any
  calls        \* requests the last setRoiParameters sent to the node

vars == <<mRoiOnMode, resolved, node, calls>>

Unset == [set |-> FALSE, val |-> 0]

Request(idx, val, ok) == [idx |-> idx, val |-> val, ok |-> ok]

\* the index variable as the code holds it after getExtensionIndex(name)
IndexOf(name) == IF name \in resolved THEN name ELSE "unresolved"

(* Lines 64-65: the mode a message asks for (the platform solution wins). *)
RequestedMode(msg) ==
  IF msg.proiOn = 1 THEN 1 ELSE IF msg.roiOn >= 1 THEN msg.roiOn + 1 ELSE 0

(***************************************************************************)
(* The three helpers, as functions of the message, the mode they read and *)
(* the node's decisions acc (whether it accepts each request).             *)
(***************************************************************************)
\* mutant: the mode is kept when the encoder refuses the switch
setRoiOnNoReset(msg, mode, acc) ==
  IF mode # 0 \/ RequestedMode(msg) = 0 THEN [mode |-> mode, sent |-> <<>>]
  ELSE IF "switch" \notin resolved THEN [mode |-> RequestedMode(msg), sent |-> <<>>]
  ELSE [mode |-> RequestedMode(msg),
        sent |-> <<Request("switch", RequestedMode(msg), acc.switch)>>]

setRoiOn(msg, mode, acc) ==
  IF mode # 0 \/ RequestedMode(msg) = 0 THEN [mode |-> mode, sent |-> <<>>]
  ELSE IF "switch" \notin resolved THEN [mode |-> 0, sent |-> <<>>]
  ELSE [mode |-> IF acc.switch THEN RequestedMode(msg) ELSE 0,
        sent |-> <<Request("switch", RequestedMode(msg), acc.switch)>>]

(* Both extension lookups run, but only the second one's err is checked:   *)
(* the size is then set through whatever indexSize holds.                  *)
setRoiLease(msg, mode, acc) ==
  IF mode # 1 \/ "license" \notin resolved \/ ~msg.lease THEN <<>>
  ELSE <<Request(IndexOf("licenseSize"), 1, acc.licenseSize),
         Request("license", 1, acc.license)>>

\* mutant: a count of 33 regions passes the bound
setRoiInfoOffByOne(msg, mode, acc) ==
  IF mode \notin {2, 3} \/ msg.count < 0 \/ msg.count > 33 \/ ~msg.rect THEN <<>>
  ELSE <<Request("roiSize", msg.count, acc.roiSize), Request("roiInfo", 1, acc.roiInfo)>>

setRoiInfo(msg, mode, acc) ==
  IF mode \notin {2, 3} \/ msg.count < 0 \/ msg.count > 32 \/ ~msg.rect THEN <<>>
  ELSE <<Request("roiSize", msg.count, acc.roiSize), Request("roiInfo", 1, acc.roiInfo)>>

(* The node keeps the value of the last request it accepted per index.     *)
Apply(n, reqs) ==
  [i \in Indices |->
     LET hits == {k \in DOMAIN reqs : reqs[k].idx = i /\ reqs[k].ok} IN
     IF hits = {} THEN n[i]
     ELSE [set |-> TRUE, val |-> reqs[CHOOSE k \in hits : \A j \in hits : j <= k].val]]

Init ==
  /\ mRoiOnMode = 0                 \* MtkRoi::MtkRoi
  /\ resolved \in SUBSET ExtNames
  /\ node = [i \in Indices |-> Unset]
  /\ calls = <<>>

(* MtkRoi::setRoiParameters: the three helpers in order, each reading the  *)
(* mode the previous one left; their errors are dropped and OK returned.  *)
setRoiParameters(msg) ==
  \E acc \in [Indices \cup {"unresolved"} -> BOOLEAN] :
    LET on    == setRoiOn(msg, mRoiOnMode, acc)
        reqs  == on.sent \o setRoiLease(msg, on.mode, acc) \o setRoiInfo(msg, on.mode, acc)
    IN /\ mRoiOnMode' = on.mode
       /\ calls' = reqs
       /\ node' = Apply(node, reqs)
       /\ UNCHANGED resolved

Next == \E msg \in Msgs : setRoiParameters(msg)

Spec == Init /\ [][Next]_vars

(***************************************************************************)
(* Properties                                                              *)
(***************************************************************************)
(* setRoiOn: across any sequence of calls, the mode the codec remembers is *)
(* the mode the encoder accepted: it is 0 exactly when the encoder has no  *)
(* roi switch, and otherwise the switch's value (the reset on a refused    *)
(* switch, line 90, and the early return on a set mode, line 50).          *)
RoiModeMatchesEncoder ==
  IF node["switch"].set THEN mRoiOnMode = node["switch"].val ELSE mRoiOnMode = 0

(* Every licence request goes to an encoder switched to the platform       *)
(* solution, and every roi-rectangle request to an encoder switched to an  *)
(* application solution, with a region count of 0..32 (setRoiLease and     *)
(* setRoiInfo reading the mode setRoiOn left).                             *)
RequestsMatchEncoderMode ==
  [][\A k \in DOMAIN calls' :
       /\ calls'[k].idx \in {"licenseSize", "license"} =>
            node'["switch"] = [set |-> TRUE, val |-> 1]
       /\ calls'[k].idx \in {"roiSize", "roiInfo"} =>
            /\ node'["switch"].set /\ node'["switch"].val \in {2, 3}
            /\ calls'[k].idx = "roiSize" => calls'[k].val \in 0..32]_vars

(* Every request setRoiLease sends names an index the node resolved.       *)
LeaseUsesResolvedIndices ==
  \A k \in DOMAIN calls : calls[k].idx # "unresolved"

=============================================================================
