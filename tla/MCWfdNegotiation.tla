--------------------------- MODULE MCWfdNegotiation ---------------------------
(* A three-entry slice of each resolution table, taken from                *)
(* mResolutionTable: CEA 720x480i60 and 720x576i50 (equal scores, so the   *)
(* tie-break matters) and the 720x1280p30 portrait entry; VESA 800x600p30  *)
(* and 800x600p60; HH 640x360p60. A zero entry ends VESA and HH as in the  *)
(* code.                                                                   *)
EXTENDS WfdNegotiation

Cfg(w, h, r, i) == [width |-> w, height |-> h, fps |-> r, interlaced |-> i]
Zero == Cfg(0, 0, 0, FALSE)

MCNIdx == 3
MCTable ==
  [t \in 0..2 |->
     CASE t = 0 -> <<Cfg(720, 480, 60, TRUE), Cfg(720, 576, 50, TRUE), Cfg(720, 1280, 30, FALSE)>>
       [] t = 1 -> <<Cfg(800, 600, 30, FALSE), Cfg(800, 600, 60, FALSE), Zero>>
       [] t = 2 -> <<Cfg(640, 360, 60, FALSE), Zero, Zero>>]
MCTableFn == [t \in 0..2 |-> [j \in 0..2 |-> MCTable[t][j + 1]]]
\* where each entry lies in mResolutionTable (the zero entries: VESA 30, HH 12 and 13)
MCRealIdx == [t \in 0..2 |-> [j \in 0..2 |-> <<<<2, 4, 17>>, <<0, 1, 30>>, <<7, 12, 13>>>>[t + 1][j + 1]]]

MCSetterCells == {<<0, 2>>}
MCUptoCells   == {<<0, 1>>, <<1, 0>>, <<2, 2>>}
MCProfiles    == {0, 1}      \* PROFILE_CBP, PROFILE_CHP
MCLevels      == {0}         \* LEVEL_31

(* Peer specs: an unreadable header; an illegal native type (3); a native  *)
(* index past the table (VESA 2, unconfigured); and a two-codec spec       *)
(* with masks naming an unconfigured HH entry.                             *)
Codec(p, l, cea, vesa, hh) == [ok |-> TRUE, profile |-> p, level |-> l, res |-> [t \in 0..2 |-> IF t = 0 THEN cea ELSE IF t = 1 THEN vesa ELSE hh]]
MCForeign ==
  {[headerOk |-> FALSE, native |-> 0, codecs |-> <<>>],
   [headerOk |-> TRUE, native |-> 3, codecs |-> <<Codec(1, 1, {0, 1}, {}, {})>>],
   [headerOk |-> TRUE, native |-> 17, codecs |-> <<Codec(2, 16, {2}, {0}, {})>>],
   [headerOk |-> TRUE, native |-> 8,
    codecs |-> <<Codec(1, 1, {1}, {}, {1}), Codec(2, 2, {1, 2}, {}, {})>>]}

=============================================================================
