---------------------------- MODULE MtkVideoFormats ----------------------------
(***************************************************************************)
(* MtkVideoFormats (src/frameworks/av/AVEnhance/libmtkavenhancements/     *)
(* wifi-display/MtkVideoFormats.cpp): the set of H.264 resolutions, and a  *)
(* profile and level per resolution, that a Wi-Fi Display source or sink   *)
(* supports; the parser of a peer's wfd_video_formats; and PickBestFormat, *)
(* which chooses the resolution a session streams.                         *)
(*                                                                         *)
(* An object is a record: enabled[t] is the set of indices whose bit is    *)
(* set in mResolutionEnabled[t]; profile and level map a cell <<t, j>> to  *)
(* the bitmask held in mConfigs[t][j]; nativeType / nativeIndex.  Every    *)
(* method is an operator from an object to the object it leaves.           *)
(***************************************************************************)
EXTENDS Integers, Sequences, SequencesExt, FiniteSets

CONSTANTS
  NIdx,    \* entries per resolution type (32 in the code)
  Table,   \* mResolutionTable: [0..2 -> [0..NIdx-1 -> config]]
  RealIdx  \* the index in mResolutionTable of each modelled entry

Types == 0..2                           \* CEA, VESA, HH (kNumResolutionTypes)
Idx   == 0..(NIdx - 1)
Cells == Types \X Idx

RESOLUTION_CEA == 0
PROFILE_CBP == 0
LEVEL_31    == 0
kNumProfileTypes == 2
kNumLevelTypes   == 5

ASSUME Table \in [Types -> [Idx -> [width: Nat, height: Nat, fps: Nat, interlaced: BOOLEAN]]]
ASSUME \A t \in Types : Table[t][0].width # 0
ASSUME RealIdx \in [Types -> [Idx -> 0..31]]

(* GetConfiguration: index < 32 and a non-zero width in the table.         *)
Configured(t, j) == j \in Idx /\ Table[t][j].width # 0

(* The score of enableResolutionUpto (size_t, line 207).                   *)
UptoScore(c) == c.width * c.height * c.fps * (IF c.interlaced THEN 1 ELSE 2)

Portrait(c) == c.width < c.height

(***************************************************************************)
(* Methods that change an object                                           *)
(***************************************************************************)
setResolutionEnabled(f, t, j, on) ==
  [f EXCEPT !.enabled[t] = IF on THEN @ \cup {j} ELSE @ \ {j},
            !.profile[<<t, j>>] = IF on THEN 2^PROFILE_CBP ELSE 0,
            !.level[<<t, j>>]   = IF on THEN 2^LEVEL_31 ELSE 0]

setNativeResolution(f, t, j) ==
  setResolutionEnabled([f EXCEPT !.nativeType = t, !.nativeIndex = j], t, j, TRUE)

(* The constructor: mConfigs copied from the table (profile and level 0),  *)
(* nothing enabled, then the native resolution CEA 0 (640x480 p60).        *)
NewFormats ==
  setNativeResolution([enabled |-> [t \in Types |-> {}],
                       profile |-> [c \in Cells |-> 0], level |-> [c \in Cells |-> 0],
                       nativeType |-> RESOLUTION_CEA, nativeIndex |-> 0],
                      RESOLUTION_CEA, 0)

disableAll(f) ==
  [f EXCEPT !.enabled = [t \in Types |-> {}],
            !.profile = [c \in Cells |-> 0], !.level = [c \in Cells |-> 0]]

\* every bit of mResolutionEnabled, configured or not
enableAll(f) ==
  [f EXCEPT !.enabled = [t \in Types |-> Idx],
            !.profile = [c \in Cells |-> 2^PROFILE_CBP],
            !.level   = [c \in Cells |-> 2^LEVEL_31]]

setProfileLevel(f, t, j, p, l) ==
  [f EXCEPT !.profile[<<t, j>>] = 2^p, !.level[<<t, j>>] = 2^l]

(* Every landscape resolution scoring at most the given one is enabled    *)
(* with profile p and level l; an unknown maximum changes nothing.        *)
enableResolutionUpto(f, t, j, p, l) ==
  IF ~Configured(t, j) THEN f
  ELSE LET up == {c \in Cells : /\ Configured(c[1], c[2])
                                /\ UptoScore(Table[c[1]][c[2]]) <= UptoScore(Table[t][j])
                                /\ ~Portrait(Table[c[1]][c[2]])}
       IN [f EXCEPT !.enabled = [u \in Types |-> @[u] \cup {k \in Idx : <<u, k>> \in up}],
                    !.profile = [c \in Cells |-> IF c \in up THEN 2^p ELSE @[c]],
                    !.level   = [c \in Cells |-> IF c \in up THEN 2^l ELSE @[c]]]

(* mutant: every codec overwrites the profile and level of its cells     *)
parseH264CodecLastWins(f, codec) ==
  IF ~codec.ok THEN f
  ELSE [f EXCEPT
          !.enabled = [i \in Types |-> @[i] \cup codec.res[i]],
          !.profile = [c \in Cells |-> IF c[2] \in codec.res[c[1]] THEN codec.profile ELSE @[c]],
          !.level   = [c \in Cells |-> IF c[2] \in codec.res[c[1]] THEN codec.level ELSE @[c]]]

(* parseH264Codec, for a codec whose five fields sscanf read (ok): each   *)
(* resolution of its masks is enabled; the higher profile byte wins, and   *)
(* at an equal profile the higher level byte.                              *)
parseH264Codec(f, codec) ==
  LET hit(c) == c[2] \in codec.res[c[1]]
  IN IF ~codec.ok THEN f
     ELSE [f EXCEPT
             !.enabled = [i \in Types |-> @[i] \cup codec.res[i]],
             !.profile = [c \in Cells |->
                            LET p == f.profile[c]
                            IN  IF hit(c) /\ codec.profile > p THEN codec.profile ELSE p],
             !.level   = [c \in Cells |->
                            LET p == f.profile[c]
                                l == f.level[c]
                            IN  IF hit(c) /\ (codec.profile > p \/ (codec.profile = p /\ codec.level > l))
                                THEN codec.level ELSE l]]

(* The while loop of parseFormatSpec: parseH264Codec on each codec in     *)
(* turn.                                                                   *)
RECURSIVE ParseCodecs(_, _)
ParseCodecs(f, codecs) ==
  IF codecs = <<>> THEN f
  ELSE LET g == parseH264Codec(f, Head(codecs)) IN ParseCodecs(g, Tail(codecs))

(* mutant: the object is not cleared before the peer's formats are read   *)
parseFormatSpecNoClear(f, spec) ==
  IF ~spec.headerOk THEN [ok |-> FALSE, fmt |-> f]
  ELSE [ok |-> TRUE,
        fmt |-> [ParseCodecs(f, spec.codecs)
                   EXCEPT !.nativeIndex = spec.native \div 8, !.nativeType = spec.native % 8]]

(* parseFormatSpec: disableAll; a header sscanf cannot read returns false; *)
(* otherwise every codec is parsed and the native byte is stored as it is: *)
(* an illegal native resolution is only logged.                            *)
parseFormatSpec(f, spec) ==
  IF ~spec.headerOk THEN [ok |-> FALSE, fmt |-> disableAll(f)]
  ELSE [ok |-> TRUE,
        fmt |-> [ParseCodecs(disableAll(f), spec.codecs)
                   EXCEPT !.nativeIndex = spec.native \div 8, !.nativeType = spec.native % 8]]

(***************************************************************************)
(* Queries                                                                 *)
(***************************************************************************)
Bit(m, i) == (m \div 2^i) % 2 = 1

(* getProfileLevel: the highest profile and level bit set; if either has   *)
(* none, both fall back to CBP / 3.1.                                      *)
getProfileLevel(f, t, j) ==
  LET ps == {i \in 0..(kNumProfileTypes - 1) : Bit(f.profile[<<t, j>>], i)}
      ls == {i \in 0..(kNumLevelTypes - 1) : Bit(f.level[<<t, j>>], i)}
  IN IF ps = {} \/ ls = {} THEN [profile |-> PROFILE_CBP, level |-> LEVEL_31]
     ELSE [profile |-> Max(ps), level |-> Max(ls)]

(* The printf path of getFormatSpec: the native byte (0 in an M4 message), *)
(* the native resolution's profile and level and the three masks, as one  *)
(* codec.                                                                  *)

PrintfFormatSpec(f, forM4Message) ==
  [headerOk |-> TRUE,
   native   |-> IF forM4Message THEN 0 ELSE f.nativeIndex * 8 + f.nativeType,
   codecs   |-> <<[ok |-> TRUE, res |-> f.enabled,
                   profile |-> f.profile[<<f.nativeType, f.nativeIndex>>],
                   level   |-> f.level[<<f.nativeType, f.nativeIndex>>]]>>]

(* The fixed reply of a sink build: native 00, and ten codecs, CHP (02)   *)
(* then CBP (01), each at levels 10, 08, 04, 02, 01, all with the same     *)
(* masks: CEA 0001FFFF (0007FFFF with the portrait entries when the       *)
(* property media.wfd.portrait is 1), VESA 0F3FFFFF and HH 00000FFF.      *)
SinkMasks(portrait) == <<IF portrait THEN 524287 ELSE 131071, 255852543, 4095>>

\* the modelled entries of type t whose bit is set in mask m
MaskSet(m, t) == {j \in Idx : Bit(m, RealIdx[t][j])}

SinkFormatSpec(portrait) ==
  [headerOk |-> TRUE,
   native   |-> 0,
   codecs   |-> [k \in 1..10 |->
                  [ok |-> TRUE,
                   profile |-> IF k <= 5 THEN 2 ELSE 1,
                   level   |-> 2^(4 - ((k - 1) % 5)),
                   res     |-> [t \in Types |-> MaskSet(SinkMasks(portrait)[t + 1], t)]]]]

\* the two fixed replies, by the value of the portrait property
SinkReply == [portrait \in BOOLEAN |-> SinkFormatSpec(portrait)]

(* getFormatSpec: a build with MTK_WFD_SINK_SUPPORT answers anything but  *)
(* an M4 message with the fixed reply, whatever the object holds.         *)
getFormatSpec(f, forM4Message, sinkBuild, portrait) ==
  IF sinkBuild /\ ~forM4Message THEN SinkReply[portrait]
  ELSE PrintfFormatSpec(f, forM4Message)

(***************************************************************************)
(* PickBestFormat                                                          *)
(***************************************************************************)
(* The uint32_t score of PickBestFormat: progressive doubles it, portrait  *)
(* quadruples it (the table's scores stay far below 2^32, so no wrap).     *)
PickScore(c) ==
  c.width * c.height * c.fps * (IF c.interlaced THEN 1 ELSE 2) * (IF Portrait(c) THEN 4 ELSE 1)

(* The cells the loop visits, in order: per type, the indices before the   *)
(* first unconfigured one (the loop breaks there).                         *)
PrefixLen(t) == CHOOSE n \in 0..NIdx : (\A k \in 0..(n - 1) : Configured(t, k)) /\ ~Configured(t, n)
Visited == [k \in 1..PrefixLen(0) |-> <<0, k - 1>>]
             \o [k \in 1..PrefixLen(1) |-> <<1, k - 1>>]
             \o [k \in 1..PrefixLen(2) |-> <<2, k - 1>>]

\* mutant: only the sink's support is checked
BothEnabledSinkOnly(sink, src, c) == c[2] \in sink.enabled[c[1]]

\* isResolutionEnabled on both sides
BothEnabled(sink, src, c) == c[2] \in sink.enabled[c[1]] /\ c[2] \in src.enabled[c[1]]

(* One iteration: the first supported cell, or a strictly better score,   *)
(* becomes the best.                                                       *)
PickStep(sink, src, best, c) ==
    IF BothEnabled(sink, src, c)
       /\ (best.first \/ PickScore(Table[c[1]][c[2]]) > best.score)
    THEN [first |-> FALSE, score |-> PickScore(Table[c[1]][c[2]]), cell |-> c]
    ELSE best

(* PickBestFormat: the best common cell, and the lower of the two sides'   *)
(* profiles and of their levels there.                                     *)
PickBestFormat(sink, src) ==
  LET best == FoldLeft(LAMBDA b, c : PickStep(sink, src, b, c),
                       [first |-> TRUE, score |-> 0, cell |-> <<0, 0>>],
                       Visited)
      t == best.cell[1]
      j == best.cell[2]
      a == getProfileLevel(src, t, j)
      b == getProfileLevel(sink, t, j)
  IN [ok |-> ~best.first, type |-> t, index |-> j,
      profile |-> IF a.profile < b.profile THEN a.profile ELSE b.profile,
      level   |-> IF a.level < b.level THEN a.level ELSE b.level]

=============================================================================
