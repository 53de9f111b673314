------------------------------ MODULE ApeTrack ------------------------------
(***************************************************************************)
(* What an APE audio track promises the player that reads it, independent *)
(* of how APESource computes it.  The track is a byte range of the file,  *)
(* [stream.first, stream.end): the first audio frame up to the end of the *)
(* last frame the file holds completely (or the end of the file when no   *)
(* frame is cut off).  Each read hands out the next chunk of at most K    *)
(* bytes; a read at or past the end reports end of stream.  A read may    *)
(* first seek: it then continues from one of stream.starts, the frames    *)
(* the track advertises, each moved back onto the stream's 4-byte grid.   *)
(* A read may also fail (no buffer, seek refused) without moving.  When   *)
(* the data source fails to read, the track ends the stream where it is:  *)
(* end of stream before stream.end is allowed only then.                  *)
(***************************************************************************)
EXTENDS Integers

CONSTANTS
    K,          \* the largest chunk one read hands out
    NoSeek      \* a read without a seek request

VARIABLES
    stream,     \* [first, end, starts]: fixed for the track's lifetime
    started,    \* between start() and stop()
    pos,        \* the next byte the track hands out
    result,     \* what the last read returned
    got,        \* <<from, length>> of the last read's chunk
    lost        \* the data source failed the last read's request

vars == <<stream, started, pos, result, got, lost>>

Init ==
    /\ started = FALSE
    /\ pos = 0
    /\ result = "none"
    /\ got = <<0, 0>>
    /\ lost = FALSE

Start ==
    /\ ~started
    /\ started' = TRUE
    /\ pos' = stream.first
    /\ UNCHANGED <<stream, result, got, lost>>

Stop ==
    /\ started
    /\ started' = FALSE
    /\ UNCHANGED <<stream, pos, result, got, lost>>

\* The chunk a read at p hands out: as much as K allows, never past the end.
ChunkAt(p) == IF stream.end - p < K THEN stream.end - p ELSE K

Deliver(p) ==
    /\ p < stream.end
    /\ pos' = p + ChunkAt(p)
    /\ result' = "OK"
    /\ got' = <<p, ChunkAt(p)>>
    /\ lost' = FALSE

EndOfStream(p) ==
    /\ p >= stream.end
    /\ pos' = p
    /\ result' = "EOS"
    /\ got' = <<p, 0>>
    /\ lost' = FALSE

\* The data source fails: the track reports end of stream without moving.
SourceLost(p) ==
    /\ pos' = p
    /\ result' = "EOS"
    /\ got' = <<p, 0>>
    /\ lost' = TRUE

\* No buffer to read into: the seek, if any, has already taken effect.
NoBuffer(p) ==
    /\ pos' = p
    /\ result' = "UNKNOWN"
    /\ UNCHANGED <<got, lost>>

Read(seek) ==
    /\ started
    /\ LET p == IF seek = NoSeek THEN pos ELSE seek
       IN  Deliver(p) \/ EndOfStream(p) \/ SourceLost(p) \/ NoBuffer(p)
    /\ UNCHANGED <<stream, started>>

Refused ==
    /\ started
    /\ result' = "UNSUPPORTED"
    /\ UNCHANGED <<stream, started, pos, got, lost>>

Next ==
    \/ Start
    \/ Stop
    \/ \E seek \in stream.starts \cup {NoSeek} : Read(seek)
    \/ Refused

Spec == Init /\ [][Next]_vars

=============================================================================
