---------------------------- MODULE WfdNegotiation ----------------------------
(***************************************************************************)
(* Video format negotiation of a Wi-Fi Display session, composed of three  *)
(* MtkVideoFormats objects: the sink device's own formats, the source's    *)
(* formats, and the source's copy of what the sink advertised. The sink    *)
(* advertises getFormatSpec(false); the source reads it with               *)
(* parseFormatSpec and chooses with PickBestFormat(seen, src). A source    *)
(* may also receive a wfd_video_formats that no MtkVideoFormats wrote      *)
(* (Foreign): a malformed header or an illegal native byte.                *)
(*                                                                         *)
(* Each step is one method call on one object, or one exchange. The sink  *)
(* device is built with or without MTK_WFD_SINK_SUPPORT (sinkBuild), and   *)
(* the property media.wfd.portrait it reads may be 1 or not at each reply. *)
(***************************************************************************)
EXTENDS MtkVideoFormats

CONSTANTS
  SetterCells,  \* cells the setters of single resolutions are called with
  UptoCells,    \* maxima passed to enableResolutionUpto (may be unknown)
  Profiles,     \* ProfileType arguments
  Levels,       \* LevelType arguments
  Foreign       \* wfd_video_formats from other implementations

VARIABLES
  sink,   \* the sink's MtkVideoFormats
  src,    \* the source's MtkVideoFormats
  seen,      \* the source's MtkVideoFormats of the sink (parsed)
  sinkBuild, \* the sink device defines MTK_WFD_SINK_SUPPORT
  heard      \* the last wfd_video_formats the source parsed

vars == <<sink, src, seen, sinkBuild, heard>>

Init ==
  /\ sink = NewFormats
  /\ src = NewFormats
  /\ seen = NewFormats
  /\ sinkBuild \in BOOLEAN
  /\ heard = [headerOk |-> FALSE, native |-> 0, codecs |-> <<>>]

(* One method call that changes an object f into f2.                       *)
Method(f, f2) ==
  \/ f2 = disableAll(f)
  \/ f2 = enableAll(f)
  \/ \E c \in SetterCells : f2 = setNativeResolution(f, c[1], c[2])
  \/ \E c \in SetterCells, on \in BOOLEAN : f2 = setResolutionEnabled(f, c[1], c[2], on)
  \/ \E c \in SetterCells, p \in Profiles, l \in Levels :
       f2 = setProfileLevel(f, c[1], c[2], p, l)
  \/ \E c \in UptoCells, p \in Profiles, l \in Levels :
       f2 = enableResolutionUpto(f, c[1], c[2], p, l)

(* A source configures its formats as a whole: everything, nothing, all   *)
(* up to a maximum, and its native resolution.                             *)
SourceSetup(f, f2) ==
  \/ f2 = disableAll(f)
  \/ f2 = enableAll(f)
  \/ \E c \in SetterCells : f2 = setNativeResolution(f, c[1], c[2])
  \/ \E c \in UptoCells, p \in Profiles, l \in Levels :
       f2 = enableResolutionUpto(f, c[1], c[2], p, l)

SinkCall == Method(sink, sink') /\ UNCHANGED <<src, seen, sinkBuild, heard>>
SrcCall  == SourceSetup(src, src') /\ UNCHANGED <<sink, seen, sinkBuild, heard>>

(* The source parses a wfd_video_formats.                                  *)
Receive(spec) ==
  /\ UNCHANGED <<sink, src, sinkBuild>>
  /\ seen' = parseFormatSpec(seen, spec).fmt
  /\ heard' = spec

\* the replies the sink may give to a request for its formats
SinkReplies == {getFormatSpec(sink, FALSE, sinkBuild, portrait) : portrait \in BOOLEAN}

(* The source parses the sink's advertised formats.                        *)
Exchange == \E spec \in SinkReplies : Receive(spec)

(* The source parses a foreign wfd_video_formats.                          *)
ForeignExchange == \E spec \in Foreign : Receive(spec)

Next == SinkCall \/ SrcCall \/ Exchange \/ ForeignExchange

Spec == Init /\ [][Next]_vars

(***************************************************************************)
(* Properties                                                              *)
(***************************************************************************)
(* Reference for PickBestFormat: the common configured resolutions; the    *)
(* best is the one of highest score, the first in table order on a tie.   *)
Common(a, b) ==
  {c \in Cells : Configured(c[1], c[2]) /\ c[2] \in a.enabled[c[1]] /\ c[2] \in b.enabled[c[1]]}
Order(c) == c[1] * NIdx + c[2]
IsBest(c, S) ==
  \A d \in S : \/ PickScore(Table[d[1]][d[2]]) < PickScore(Table[c[1]][c[2]])
               \/ PickScore(Table[d[1]][d[2]]) = PickScore(Table[c[1]][c[2]]) /\ Order(c) <= Order(d)

(* PickBestFormat on the source's view of the sink and the source's own    *)
(* formats fails exactly when they have no resolution in common, and      *)
(* otherwise returns the common resolution of highest score (portrait      *)
(* first, then progressive), the earliest in the table on a tie.           *)
PickBestFormatChoosesBestCommon ==
  LET r == PickBestFormat(seen, src)
      C == Common(seen, src)
  IN /\ r.ok = (C # {})
     /\ r.ok => <<r.type, r.index>> \in C /\ IsBest(<<r.type, r.index>>, C)

(* An exchange with a sink built without MTK_WFD_SINK_SUPPORT leaves the   *)
(* source's view naming exactly the resolutions                            *)
(* the sink has enabled and the sink's native resolution, whatever the     *)
(* view held before (parseFormatSpec clearing it, and the round trip of    *)
(* the native byte and the masks through getFormatSpec).                   *)
ExchangePreservesSinkFormats ==
  [][~sinkBuild /\ Exchange =>
       /\ seen'.enabled = sink.enabled
       /\ <<seen'.nativeType, seen'.nativeIndex>> = <<sink.nativeType, sink.nativeIndex>>]_vars

(* Reference for parseFormatSpec: the codecs sscanf read that name a     *)
(* cell; the highest profile byte among them, and the highest level byte   *)
(* among those of that profile (0 when none).                              *)
Offers(spec, c) ==
  {k \in DOMAIN spec.codecs : spec.codecs[k].ok /\ c[2] \in spec.codecs[k].res[c[1]]}
BestProfile(spec, c) == Max({spec.codecs[k].profile : k \in Offers(spec, c)} \cup {0})
BestLevel(spec, c) ==
  LET best == BestProfile(spec, c)
  IN  Max({spec.codecs[k].level : k \in {i \in Offers(spec, c) : spec.codecs[i].profile = best}} \cup {0})

ViewIsBestOffer(f, spec) ==
  /\ \A c \in Cells :
       /\ (c[2] \in f.enabled[c[1]]) = (Offers(spec, c) # {})
       /\ f.profile[c] = BestProfile(spec, c)
       /\ f.level[c] = BestLevel(spec, c)
  /\ <<f.nativeIndex, f.nativeType>> = <<spec.native \div 8, spec.native % 8>>

(* Whatever the source held before, parsing a readable wfd_video_formats  *)
(* (a sink's printf reply, a sink build's fixed ten-codec reply, or a     *)
(* peer's) leaves it with exactly the resolutions some codec offers, each  *)
(* with the best profile any codec offers for it and the best level at     *)
(* that profile: parseFormatSpec's disableAll, and parseH264Codec's        *)
(* preference for a higher profile even at a lower level, across codecs   *)
(* in any order.                                                            *)
ParsedViewIsBestOffer ==
  heard.headerOk => ViewIsBestOffer(seen, heard)

=============================================================================
