---------------------------- MODULE ApeExtractor ----------------------------
(***************************************************************************)
(* The APE (Monkey's Audio) extractor and its track, APEExtractor.cpp.     *)
(*                                                                         *)
(* Sniff accepts a file by its version; the constructor parses the header  *)
(* (getAPEInfo), cuts the frame count down when the file ends before the   *)
(* last seek-table entry, and keeps a heap copy of the seek table,         *)
(* mTableOfContents.  getTrack hands that pointer to a new APESource.      *)
(* start() positions the source on the first frame and finds mFileoffset,  *)
(* the end of the last complete frame of a cut-off file; read() optionally *)
(* seeks, then hands out the next chunk of at most buf_size bytes; stop()  *)
(* frees the table.                                                        *)
(*                                                                         *)
(* A file is a record of the header fields the parser reads, its seek      *)
(* entries as stored (relative to the "MAC " magic), the offset of that    *)
(* magic (junk: what the sync scan finds) and the file's size.  Audio      *)
(* payload and metadata are not represented; positions are bytes.          *)
(* Every read or free of the table is recorded in acc, with whether the    *)
(* block was still allocated and reachable through the source's pointer.   *)
(***************************************************************************)
EXTENDS Integers, Sequences, FiniteSets, FiniteSetsExt

CONSTANTS
    Files,              \* the files the player may open
    SeekTimes,          \* seek targets (microseconds) the player may ask for
    NoSeek,             \* a read without a seek request
    MaxSeeks,           \* bound on seek requests per behaviour
    ReadFaults,         \* subset of BOOLEAN: FALSE when a readAt may fail
    Garbage,            \* what a read outside the table may return
    Reuse,              \* the player may start again after stop, or take the track again
    APE_MIN_VERSION,    \* from the parser's header (not in the repository)
    APE_MAX_COMPRESS,
    SyncWindow,         \* how far past its start the sync scan looks (20480)
    SyncSlack,          \* what the scan buffer holds beyond the window (1024)
    Fills               \* what new char[] may hold before the first readAt

VARIABLES
    sniff,  \* the sync scan of Sniff: pos, ori_pos, pFile, and its state
    file,   \* the file the extractor was created on
    ext,    \* the extractor's fields after its constructor
    heap,   \* the mTableOfContents block: "live", "freed" or "none"
    src,    \* the APESource: exists, used, started, stopped, toc pointer, mCurrentPos, mFileoffset
    seeks,  \* seek requests so far
    last,   \* the last read's status, and the chunk it handed out
    acc     \* the table reads and frees of the last step

vars == <<sniff, file, ext, heap, src, seeks, last, acc>>

MAC_FORMAT_FLAG_8_BIT == 1
MAC_FORMAT_FLAG_HAS_PEAK_LEVEL == 4
MAC_FORMAT_FLAG_24_BIT == 8
MAC_FORMAT_FLAG_HAS_SEEK_ELEMENTS == 16
MAC_FORMAT_FLAG_CREATE_WAV_HEADER == 32

HasFlag(flags, bit) == (flags \div bit) % 2 = 1

-----------------------------------------------------------------------------
(* The sync scan of getAPEInfo (lines 53-131)                              *)
(*                                                                         *)
(* A file's bytes are head, then the version at magic + 4, then bytes     *)
(* that are none of "MAC " or "ID3" (the rest of the header and the audio *)
(* are not bytes of the model).  pFile holds SyncWindow + SyncSlack bytes; *)
(* a readAt fills it from the file and leaves the bytes past the end of   *)
(* the file as they were: uninitialised on the first read, the previous   *)
(* read's after an ID3 tag.                                                *)

Magic == <<77, 65, 67, 32>>        \* "MAC "
Id3   == <<73, 68, 51>>            \* "ID3"
Other == 120                       \* a byte that starts none of them

BufLen == SyncWindow + SyncSlack

FileByte(f, i) ==
    IF i < Len(f.head) THEN f.head[i + 1]
    ELSE IF i = f.magic + 4 THEN f.version % 256
    ELSE IF i = f.magic + 5 THEN f.version \div 256
    ELSE Other

\* readAt(pos, pFile, 20480 + 1024) into the buffer old
FillAt(f, pos, old) ==
    [k \in 0..(BufLen - 1) |-> IF pos + k < f.size THEN FileByte(f, pos + k) ELSE old[k]]

\* memcmp(sync + k, bytes, Len(bytes)) == 0, sync = pFile + (pos - ori_pos)
SyncMatch(k, bytes) ==
    \A i \in 1..Len(bytes) : sniff.buf[sniff.pos - sniff.ori + k + i - 1] = bytes[i]

\* the ID3 tag length: four 7-bit bytes at sync[6..9], plus its 10-byte header
Id3TagLenNoHeader ==
    LET b(i) == sniff.buf[sniff.pos - sniff.ori + i] % 128
    IN  b(6) * 2097152 + b(7) * 16384 + b(8) * 128 + b(9)

Id3TagLen == Id3TagLenNoHeader + 10

\* Which arm of the loop body runs, tested in the code's order, and by how
\* many bytes a skip moves *inout_pos.
Arm(name, by) == [arm |-> name, by |-> by]

SyncBranchWindowOffByOne ==
    IF sniff.pos - sniff.ori >= SyncWindow THEN Arm("notape", 0)
    ELSE IF SyncMatch(0, Magic) THEN Arm("magic", 0)
    ELSE IF SyncMatch(1, <<77, 65, 67>>) THEN Arm("skip", 1)
    ELSE IF SyncMatch(2, <<77, 65>>) THEN Arm("skip", 2)
    ELSE IF SyncMatch(3, <<77>>) THEN Arm("skip", 3)
    ELSE IF SyncMatch(0, Id3) THEN Arm("id3", 0)
    ELSE Arm("skip", 4)

SyncBranch ==
    IF sniff.pos - sniff.ori > SyncWindow THEN Arm("notape", 0)
    ELSE IF SyncMatch(0, Magic) THEN Arm("magic", 0)
    ELSE IF SyncMatch(1, <<77, 65, 67>>) THEN Arm("skip", 1)
    ELSE IF SyncMatch(2, <<77, 65>>) THEN Arm("skip", 2)
    ELSE IF SyncMatch(3, <<77>>) THEN Arm("skip", 3)
    ELSE IF SyncMatch(0, Id3) THEN Arm("id3", 0)
    ELSE Arm("skip", 4)

\* The two bytes of fileversion, read at the magic + 4 after a memset: a
\* readAt past the end of the file returns 0 and copies nothing.
VersionAt(f, j) ==
    LET byte(i) == IF i < f.size THEN FileByte(f, i) ELSE 0
    IN  byte(j + 4) + 256 * byte(j + 5)

-----------------------------------------------------------------------------
(* getAPEInfo                                                              *)

NewFormat(f) == f.version >= 3980

\* *inout_pos when the seek-table loop starts.  Fields are read at fixed
\* offsets: the new format skips only a descriptor longer than 52 bytes and
\* never uses headerlength; the old one skips the stored wav header.
SeekTablePos(f) ==
    IF NewFormat(f)
    THEN f.junk + 52 + (IF f.descriptorlength > 52 THEN f.descriptorlength - 52 ELSE 0) + 24
    ELSE f.junk + 32
         + (IF HasFlag(f.formatflags, MAC_FORMAT_FLAG_HAS_PEAK_LEVEL) THEN 4 ELSE 0)
         + (IF HasFlag(f.formatflags, MAC_FORMAT_FLAG_HAS_SEEK_ELEMENTS) THEN 4 ELSE 0)
         + (IF HasFlag(f.formatflags, MAC_FORMAT_FLAG_CREATE_WAV_HEADER) THEN 0 ELSE f.wavheaderlength)

HeaderLength(f) ==
    IF NewFormat(f) THEN f.headerlength
    ELSE 32 + (IF HasFlag(f.formatflags, MAC_FORMAT_FLAG_HAS_PEAK_LEVEL) THEN 4 ELSE 0)
            + (IF HasFlag(f.formatflags, MAC_FORMAT_FLAG_HAS_SEEK_ELEMENTS) THEN 4 ELSE 0)

SeekTableLength(f) ==
    IF NewFormat(f) THEN f.seektablelength
    ELSE IF HasFlag(f.formatflags, MAC_FORMAT_FLAG_HAS_SEEK_ELEMENTS) THEN f.seektablelength * 4
    ELSE f.totalframes * 4

Bps(f) ==
    IF NewFormat(f) THEN f.bps
    ELSE IF HasFlag(f.formatflags, MAC_FORMAT_FLAG_8_BIT) THEN 8
    ELSE IF HasFlag(f.formatflags, MAC_FORMAT_FLAG_24_BIT) THEN 24
    ELSE 16

BlocksPerFrame(f) ==
    IF NewFormat(f) THEN f.blocksperframe
    ELSE IF f.version >= APE_MIN_VERSION THEN 73728 * 4
    ELSE IF f.version >= 3900 \/ (f.version >= 3800 /\ f.compressiontype >= APE_MAX_COMPRESS) THEN 73728
    ELSE 9216

FirstFrameNoWav(f) ==
    f.junk + (IF NewFormat(f) THEN f.descriptorlength ELSE 0) + HeaderLength(f) + SeekTableLength(f)

FirstFrame(f) ==
    f.junk + (IF NewFormat(f) THEN f.descriptorlength ELSE 0) + HeaderLength(f) + SeekTableLength(f)
    + f.wavheaderlength

\* Seek entry i as the loop stores it: a readAt past the end of the file
\* returns 0 bytes, not an error, and seekaddr keeps the previous entry.
SeekEntry(f, i) ==
    LET read == {j \in 1..i : SeekTablePos(f) + 4 * j <= f.size}
    IN  (IF read = {} THEN 0 ELSE f.seekaddrs[Max(read)]) + f.junk

\* Every early exit to GetApeInfo_Exit with ret == false.  ioFault stands
\* for a readAt after the version failing; the old format rejects 24-bit.
HeaderAccepted(f) ==
    /\ ~f.ioFault
    /\ f.version \in 3940..4200
    /\ f.compressiontype <= APE_MAX_COMPRESS
    /\ ~NewFormat(f) => HasFlag(f.formatflags, MAC_FORMAT_FLAG_8_BIT)
                        \/ ~HasFlag(f.formatflags, MAC_FORMAT_FLAG_24_BIT)
    /\ BlocksPerFrame(f) > 0 /\ f.totalframes > 0 /\ Bps(f) > 0
    /\ SeekTableLength(f) > 0 /\ f.samplerate > 0 /\ f.samplerate <= 192000

getAPEInfo(f) ==
    [ok               |-> HeaderAccepted(f),
     firstframe       |-> FirstFrame(f),
     blocksperframe   |-> BlocksPerFrame(f),
     totalframes      |-> f.totalframes,
     totalsamples     |-> f.finalframeblocks
                          + (IF f.totalframes > 1 THEN BlocksPerFrame(f) * (f.totalframes - 1) ELSE 0),
     bps              |-> Bps(f),
     channels         |-> f.channels,
     samplerate       |-> f.samplerate,
     seektablelength  |-> SeekTableLength(f),
     seektable        |-> [i \in 1..(SeekTableLength(f) \div 4) |-> SeekEntry(f, i)]]

\* With parseall == false getAPEInfo stops after the version check.
Sniff(f, j) == VersionAt(f, j) \in 3940..4200

-----------------------------------------------------------------------------
(* The seek table and the scan for a cut-off file                          *)

\* table[i] (0-based); outside the table the heap holds whatever g is.
TocAt(t, i, g) == IF i \in 0..(Len(t) - 1) THEN t[i + 1] ELSE g

\* Where the loop of the constructor and of start() stops: the first entry
\* at or above the file size, or stBound when none is.
ScanStop(t, stBound, size) ==
    LET hits == {i \in 0..(stBound - 1) : size <= TocAt(t, i, 0)}
    IN  IF hits = {} THEN stBound ELSE Min(hits)

\* The i the loop leaves: the entry equal to the size, else the one before
\* (i-- then break); stBound when the loop runs out.
TruncationIndex(t, stBound, size) ==
    LET k == ScanStop(t, stBound, size)
    IN  IF k = stBound THEN stBound
        ELSE IF size = TocAt(t, k, 0) THEN k ELSE k - 1

\* The entries the loop reads.
ScanReads(t, stBound, size) == 0..(IF ScanStop(t, stBound, size) = stBound
                                    THEN stBound - 1 ELSE ScanStop(t, stBound, size))

\* buf_size: in_size * 7 capped at 12 KiB, the source's kMaxFrameSize.
BufSize == IF 5184 * 7 > 12288 THEN 12288 ELSE 5184 * 7

\* The constructor; reads are the table entries it looks at.
APEExtractor(f, g) ==
    LET c   == getAPEInfo(f)
        st  == c.seektablelength \div 4
        cut == f.size < TocAt(c.seektable, st - 1, g)
        ok  == c.ok /\ c.samplerate > 0 /\ c.bps > 0 /\ c.channels > 0
    IN  [init        |-> IF ok THEN "OK" ELSE "NO_INIT",
         first       |-> c.firstframe,
         totalsample |-> c.totalsamples,
         spf         |-> c.blocksperframe,
         sr          |-> c.samplerate,
         stBound     |-> st,
         totalFrame  |-> IF cut THEN TruncationIndex(c.seektable, st, f.size) ELSE c.totalframes,
         toc         |-> c.seektable,
         reads       |-> IF ~ok THEN {}
                         ELSE {st - 1} \cup (IF cut THEN ScanReads(c.seektable, st, f.size) ELSE {})]

-----------------------------------------------------------------------------
(* APESource                                                               *)

\* The block is allocated and the source still points at it.
TableLive == heap = "live" /\ src.toc = "toc"

Read(i) == [kind |-> "read", idx |-> i, live |-> TableLive]

Reads(S) == {Read(i) : i \in S}

SeekBeyondEndOffByOne(n, totalframes) == totalframes >= 0 /\ n > totalframes

\* n >= ape_ctx->totalframes, an unsigned compare: a negative frame count
\* is a huge one.
SeekBeyondEnd(n, totalframes) == totalframes >= 0 /\ n >= totalframes

\* filepos is the entry of frame n moved back onto the 4-byte grid that
\* starts at table[0].
ape_calc_seekpos_by_microsecond(us, t, g) ==
    LET n     == ((us * ext.sr) \div 1000000) \div ext.spf
        entry == TocAt(t, n, g)
    IN  [err     |-> SeekBeyondEnd(n, ext.totalFrame),
         n       |-> n,
         filepos |-> entry - ((entry - TocAt(t, 0, g)) % 4)]

PastEnd(p, fo) == fo # 0 /\ p >= fo

\* readAt(p, buf_size) and the chunk read() keeps: up to mFileoffset, the
\* short tail of the file, or end of stream when readAt gives nothing or
\* fails (n <= 0).
ReadChunk(p, ioOk) ==
    LET n  == IF ~ioOk THEN -1
              ELSE IF p >= file.size THEN 0
              ELSE IF file.size - p < BufSize THEN file.size - p ELSE BufSize
        fo == src.fo
    IN  IF fo # 0 /\ p + n >= fo THEN [res |-> "OK", len |-> fo - p, reads |-> {}]
        ELSE IF n < BufSize /\ n > 0
             THEN [res |-> "OK", len |-> n,
                   reads |-> IF p + n >= file.size THEN {ext.stBound - 1} ELSE {}]
        ELSE IF n <= 0 THEN [res |-> "EOS", len |-> 0, reads |-> {}]
        ELSE [res |-> "OK", len |-> BufSize, reads |-> {}]

Init ==
    \E f \in Files, fill \in Fills :
        /\ sniff = [pos |-> 0, ori |-> 0, buf |-> FillAt(f, 0, fill), state |-> "scan"]
        /\ file = f
        /\ ext = [init |-> "none"]
        /\ heap = "none"
        /\ src = [exists |-> FALSE, used |-> FALSE, started |-> FALSE, stopped |-> FALSE,
                  toc |-> "null", pos |-> 0, fo |-> 0]
        /\ seeks = 0
        /\ last = [res |-> "none", from |-> 0, len |-> 0, lost |-> FALSE]
        /\ acc = {}

\* The loop moves on to the next place "MAC " can start.
syncSkip ==
    /\ sniff.state = "scan"
    /\ SyncBranch.arm = "skip"
    /\ sniff' = [sniff EXCEPT !.pos = @ + SyncBranch.by]
    /\ UNCHANGED <<file, ext, heap, src, seeks, last, acc>>

\* An ID3 tag: skip it, restart the window there and read the buffer again;
\* a readAt at or past the end of the file ends the scan.
syncId3 ==
    /\ sniff.state = "scan"
    /\ SyncBranch.arm = "id3"
    /\ LET np == sniff.pos + Id3TagLen
       IN  sniff' = IF np >= file.size THEN [sniff EXCEPT !.pos = np, !.ori = np, !.state = "rejected"]
                    ELSE [pos |-> np, ori |-> np, buf |-> FillAt(file, np, sniff.buf), state |-> "scan"]
    /\ UNCHANGED <<file, ext, heap, src, seeks, last, acc>>

\* No magic within the window: "getAPEInfo not ape".
syncNotApe ==
    /\ sniff.state = "scan"
    /\ SyncBranch.arm = "notape"
    /\ sniff' = [sniff EXCEPT !.state = "rejected"]
    /\ UNCHANGED <<file, ext, heap, src, seeks, last, acc>>

\* The magic: junklength = pos, then the version check that ends Sniff.
SniffVersion ==
    /\ sniff.state = "scan"
    /\ SyncBranch.arm = "magic"
    /\ sniff' = [sniff EXCEPT !.state = IF Sniff(file, sniff.pos) THEN "accepted" ELSE "rejected"]
    /\ UNCHANGED <<file, ext, heap, src, seeks, last, acc>>

\* CreateExtractor: the constructor, whose getAPEInfo scans to the same
\* junk (the magic lies inside the file, so no byte past its end decides).
CreateExtractor ==
    /\ sniff.state = "accepted"
    /\ \E g \in Garbage :
        LET f == [file EXCEPT !.junk = sniff.pos]
            e == APEExtractor(f, g)
        IN  /\ file' = f
            /\ ext' = e
            /\ heap' = IF e.init = "OK" THEN "live" ELSE "none"
            /\ acc' = {[kind |-> "read", idx |-> i, live |-> TRUE] : i \in e.reads}
    /\ sniff' = [sniff EXCEPT !.state = "created"]
    /\ UNCHANGED <<src, seeks, last>>

\* A new APESource sharing mTableOfContents; the player holds one at a time.
getTrack ==
    /\ ext.init = "OK"
    /\ ~src.exists
    /\ Reuse \/ ~src.used                                   \* player
    /\ src' = [exists |-> TRUE, used |-> TRUE, started |-> FALSE, stopped |-> FALSE,
               toc |-> "toc", pos |-> 0, fo |-> 0]
    /\ acc' = {}
    /\ UNCHANGED <<sniff, file, ext, heap, seeks, last>>

start ==
    /\ src.exists
    /\ ~src.started                                         \* CHECK(!mStarted)
    /\ Reuse \/ ~src.stopped                                \* player
    /\ \E g \in Garbage :
        LET t   == ext.toc
            st  == ext.stBound
            cut == file.size < TocAt(t, st - 1, g)
            i   == TruncationIndex(t, st, file.size)
        IN  /\ src' = [src EXCEPT !.started = TRUE, !.pos = ext.first,
                                  !.fo = IF cut THEN TocAt(t, i, g) ELSE @]
            /\ acc' = Reads({st - 1} \cup (IF cut THEN ScanReads(t, st, file.size) \cup {i} ELSE {}))
    /\ UNCHANGED <<sniff, file, ext, heap, seeks, last>>

\* Frees the table the extractor and every other source still point at.
Free == IF src.toc = "toc" THEN {[kind |-> "free", idx |-> 0, live |-> TableLive]} ELSE {}

stop ==
    /\ src.started                                          \* CHECK(mStarted)
    /\ src' = [src EXCEPT !.started = FALSE, !.stopped = TRUE, !.toc = "null"]
    /\ heap' = IF src.toc = "toc" THEN "freed" ELSE heap
    /\ acc' = Free
    /\ UNCHANGED <<sniff, file, ext, seeks, last>>

\* ~APESource: stop() if started.
DestroySource ==
    /\ src.exists
    /\ src' = [src EXCEPT !.exists = FALSE, !.started = FALSE, !.toc = "null"]
    /\ heap' = IF src.started /\ src.toc = "toc" THEN "freed" ELSE heap
    /\ acc' = IF src.started THEN Free ELSE {}
    /\ UNCHANGED <<sniff, file, ext, seeks, last>>

\* read(): an optional seek, the early end of stream, acquire_buffer, and the
\* chunk.  hasBuffer is whether acquire_buffer succeeds.
read(seek, hasBuffer) ==
    /\ src.started                                          \* player
    /\ seek = NoSeek \/ seeks < MaxSeeks
    /\ seeks' = IF seek = NoSeek THEN seeks ELSE seeks + 1
    /\ \E g \in Garbage :
        LET t       == ext.toc
            seeking == seek # NoSeek
            canSeek == ext.totalsample > 0 /\ TocAt(t, 0, g) > 0 /\ ext.spf > 0
            calc    == ape_calc_seekpos_by_microsecond(seek, t, g)
            refused == seeking /\ (~canSeek \/ calc.err)
            sreads  == IF seeking /\ ext.totalsample > 0
                       THEN {0} \cup (IF canSeek /\ ~calc.err THEN {calc.n} ELSE {})
                       ELSE {}
            p       == IF seeking THEN calc.filepos ELSE src.pos
        IN  \/ /\ refused
               /\ last' = [last EXCEPT !.res = "UNSUPPORTED"]
               /\ acc' = Reads(sreads)
               /\ UNCHANGED src
            \/ /\ ~refused /\ PastEnd(p, src.fo)
               /\ src' = [src EXCEPT !.pos = p]
               /\ last' = [res |-> "EOS", from |-> p, len |-> 0, lost |-> FALSE]
               /\ acc' = Reads(sreads)
            \/ /\ ~refused /\ ~PastEnd(p, src.fo) /\ ~hasBuffer
               /\ src' = [src EXCEPT !.pos = p]
               /\ last' = [last EXCEPT !.res = "UNKNOWN"]
               /\ acc' = Reads(sreads)
            \/ /\ ~refused /\ ~PastEnd(p, src.fo) /\ hasBuffer
               /\ \E ioOk \in ReadFaults :
                    LET r == ReadChunk(p, ioOk)
                    IN  /\ src' = [src EXCEPT !.pos = p + r.len]
                        /\ last' = [res |-> r.res, from |-> p, len |-> r.len, lost |-> ~ioOk]
                        /\ acc' = Reads(sreads \cup r.reads)
    /\ UNCHANGED <<sniff, file, ext, heap>>

SyncScan == syncSkip \/ syncId3 \/ syncNotApe \/ SniffVersion

Next ==
    \/ SyncScan
    \/ CreateExtractor
    \/ getTrack
    \/ start
    \/ stop
    \/ DestroySource
    \/ \E seek \in SeekTimes \cup {NoSeek}, b \in BOOLEAN : read(seek, b)

\* The player keeps reading a started track, and acquire_buffer blocks
\* until a buffer is free rather than failing.
\* The sync loop runs to its end within one call of Sniff.
Fairness == WF_vars(read(NoSeek, TRUE)) /\ WF_vars(SyncScan)

Spec == Init /\ [][Next]_vars /\ Fairness

-----------------------------------------------------------------------------
(* Properties                                                              *)

Results == {"none", "OK", "EOS", "UNSUPPORTED", "UNKNOWN"}

TypeOK ==
    /\ sniff.state \in {"scan", "rejected", "accepted", "created"}
    /\ file.junk \in Int
    /\ ext.init \in {"OK", "NO_INIT"}
    /\ heap \in {"live", "freed", "none"}
    /\ src.toc \in {"toc", "null"}
    /\ {src.exists, src.used, src.started, src.stopped} \subseteq BOOLEAN
    /\ src.pos \in Int /\ src.fo \in Int
    /\ seeks \in 0..MaxSeeks
    /\ last.res \in Results /\ last.lost \in BOOLEAN
    /\ \A a \in acc : a.kind \in {"read", "free"} /\ a.live \in BOOLEAN

\* Every read of the seek table, by the constructor's and start()'s scan for
\* a cut-off file, by a seek, or by read()'s short-read check, is an index
\* below mSt_bound of a block that is still allocated, and the table is
\* freed only while it is.
TableAccessValid ==
    \A a \in acc :
        /\ a.live
        /\ a.kind = "read" => a.idx \in 0..(ext.stBound - 1)

ByteIs(f, k, bytes) == \A i \in 1..Len(bytes) : FileByte(f, k + i - 1) = bytes[i]

RECURSIVE AfterId3Tags(_, _)
AfterId3Tags(f, q) ==
    IF q + 10 <= f.size /\ ByteIs(f, q, Id3)
    THEN AfterId3Tags(f, q + 10 + FileByte(f, q + 6) * 2097152 + FileByte(f, q + 7) * 16384
                                + FileByte(f, q + 8) * 128 + FileByte(f, q + 9))
    ELSE q

RefMagic(f) ==
    LET q  == AfterId3Tags(f, 0)
        ks == {k \in q..(q + SyncWindow) : k + 6 <= f.size /\ ByteIs(f, k, Magic)}
    IN  IF ks = {} THEN -1 ELSE Min(ks)

RefSniff(f) ==
    RefMagic(f) >= 0
    /\ FileByte(f, RefMagic(f) + 4) + 256 * FileByte(f, RefMagic(f) + 5) \in 3940..4200

\* Sniff's sync scan accepts a file exactly when the reference does, and
\* then at the reference's magic: the partial-match skips never jump over a
\* "MAC ", ID3 tags are skipped whole, the window ends at SyncWindow bytes,
\* and uninitialised or stale buffer bytes past the end of the file never
\* make a file an APE file.
SniffAsReference ==
    sniff.state \in {"rejected", "accepted", "created"} =>
        /\ (sniff.state # "rejected") = RefSniff(file)
        /\ sniff.state # "rejected" => sniff.pos = RefMagic(file)

\* The sync scan ends: every arm moves the scan on, an ID3 tag by at least
\* its 10-byte header.
SniffTerminates == <>(sniff.state # "scan")

-----------------------------------------------------------------------------
(* The track implements ApeTrack                                           *)

\* What the file's own seek table says, independent of the code's scans.
RefEntries(f) == [k \in 1..Len(f.seekaddrs) |-> f.seekaddrs[k] + f.magic]

RefCut(f) == f.size < RefEntries(f)[Len(f.seekaddrs)]

\* The end of the last frame the file holds completely, or its size; a file
\* that holds no frame at all has an empty track at its first frame.
RefEnd(f) ==
    IF RefCut(f) THEN Max({RefEntries(f)[1]} \cup
                          {RefEntries(f)[k] : k \in {j \in 1..Len(f.seekaddrs) : RefEntries(f)[j] <= f.size}})
    ELSE f.size

\* How many frames the file holds completely.
RefFrames(f) ==
    IF RefCut(f) THEN Cardinality({k \in 1..Len(f.seekaddrs) : RefEntries(f)[k] <= f.size}) - 1
    ELSE f.totalframes

RefStarts(f) ==
    LET E == RefEntries(f) IN {E[k] - ((E[k] - E[1]) % 4) : k \in 1..RefFrames(f)}

Track == INSTANCE ApeTrack
            WITH K <- BufSize,
                 stream <- [first |-> RefEntries(file)[1], end |-> RefEnd(file),
                            starts |-> RefStarts(file)],
                 started <- src.started,
                 pos <- src.pos,
                 result <- last.res,
                 got <- <<last.from, last.len>>,
                 lost <- last.lost

\* The APESource hands out the file from its first frame to the end of its
\* last complete frame in chunks of buf_size, reports end of stream only
\* there or where readAt failed, and seeks only to frames the file holds.
ApeTrackSpec == Track!Spec

=============================================================================
