--------------------------- MODULE MCApeExtractor ---------------------------
(* ApeExtractor instantiated for TLC.  A new-format file of three frames   *)
(* (the second entry 2 bytes off the 4-byte grid) whole, cut inside its    *)
(* second frame and cut exactly at the start of its second frame; an       *)
(* old-format file behind 10 bytes of junk; a header with no channels.     *)
(* 4 kHz and 400 blocks per frame keep us * samplerate inside TLC's        *)
(* integers while the seek times reach frames 0, 1, 2 and 3 (one past the  *)
(* last).  A chunk is 12288 bytes, so a frame takes one or two reads.      *)
EXTENDS ApeExtractor

NewFile(size, channels) ==
    [version |-> 3990, compressiontype |-> 2000, formatflags |-> 0,
     descriptorlength |-> 52, headerlength |-> 24, seektablelength |-> 12,
     wavheaderlength |-> 44, blocksperframe |-> 400, finalframeblocks |-> 200,
     totalframes |-> 3, bps |-> 16, channels |-> channels, samplerate |-> 4000,
     seekaddrs |-> <<132, 15134, 30132>>, head |-> Magic, magic |-> 0, junk |-> 0,
     size |-> size, ioFault |-> FALSE]

OldFile ==
    [version |-> 3950, compressiontype |-> 2000, formatflags |-> MAC_FORMAT_FLAG_HAS_SEEK_ELEMENTS,
     descriptorlength |-> 0, headerlength |-> 0, seektablelength |-> 3,
     wavheaderlength |-> 44, blocksperframe |-> 0, finalframeblocks |-> 100,
     totalframes |-> 3, bps |-> 0, channels |-> 2, samplerate |-> 4000,
     seekaddrs |-> <<92, 10092, 20092>>, head |-> [i \in 1..10 |-> Other] \o Magic,
     magic |-> 10, junk |-> 10, size |-> 25000, ioFault |-> FALSE]

(* Files that only Sniff tells apart: a header with no channels, so the    *)
(* extractor is NO_INIT and has no track, behind different leading bytes.  *)
(* magic is where the real "MAC " lies (-10: nowhere).                     *)
X == Other
M == 77
A == 65
C == 67
SP == 32
\* an ID3 header (version 3) whose tag holds n more bytes
Id3Header(n) == Id3 \o <<3, 0, 0, 0, 0, 0, n>>
SniffFile(head, magic, size) == [NewFile(40000, 0) EXCEPT !.head = head, !.magic = magic,
                                                   !.junk = 0, !.size = size]
MCSniffFiles ==
    { \* partial matches before the magic, each skip of 1, 2 and 3
      SniffFile(<<X, M, A, M, A, C, SP>>, 3, 400),
      SniffFile(<<M, M, A, C, SP>>, 1, 400),
      SniffFile(<<X, X, M, A, X, M, A, C, SP>>, 5, 400),
      SniffFile(<<M, A, C, X, X, M, A, C, SP>>, 5, 400),
      \* the magic exactly at the end of the window, and one byte past it
      SniffFile([i \in 1..12 |-> X] \o Magic, 12, 400),
      SniffFile([i \in 1..13 |-> X] \o Magic, 13, 400),
      \* an ID3 tag of 2 bytes; one whose data holds a "MAC "; an empty one
      SniffFile(Id3Header(2) \o <<X, X>> \o Magic, 12, 400),
      SniffFile(Id3Header(5) \o Magic \o <<X, X>> \o Magic, 16, 400),
      SniffFile(Id3Header(0) \o Id3Header(0) \o [i \in 1..12 |-> X] \o Magic, 32, 400),
      \* an ID3 tag that runs past the end of the file
      SniffFile(Id3Header(20) \o Magic, -10, 20),
      \* files that end inside a would-be magic, so pFile's bytes past the
      \* end decide what the scan sees; and one too short for the version
      SniffFile(<<X, X, M, A>>, -10, 4),
      SniffFile(<<X, X, X, M>>, -10, 4),
      SniffFile(Magic \o <<150>>, 0, 5) }

\* pFile before the first readAt: zeroes, or bytes that complete a "MAC "
MCFills ==
    { [k \in 0..21 |-> 0],
      [k \in 0..21 |-> IF k % 4 = 0 THEN M ELSE IF k % 4 = 1 THEN A
                        ELSE IF k % 4 = 2 THEN C ELSE SP],
      [k \in 0..21 |-> IF k % 4 = 0 THEN C ELSE IF k % 4 = 1 THEN SP
                        ELSE IF k % 4 = 2 THEN M ELSE A] }

\* Files a complete or partly downloaded recording can be.
MCFiles == {NewFile(40000, 2), NewFile(20000, 2), NewFile(15134, 2), OldFile} \cup MCSniffFiles

\* Adds a download cut off inside the wav header, before the first frame.
MCCutFiles == MCFiles \cup {NewFile(100, 2)}

MCSeekTimes == {0, 150000, 250000, 350000}
MCGarbage == {0, 50000}

=============================================================================
