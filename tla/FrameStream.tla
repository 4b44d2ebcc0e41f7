------------------------------ MODULE FrameStream ------------------------------
(***************************************************************************)
(* TcpFrameStreamDecoder: the frames of a TCP connection, taken out of a    *)
(* byte stream that arrives in pieces of any size.  A byte is not modelled, *)
(* only how many there are: a frame is its declared length, its payload's   *)
(* actual validity, and Prefix bytes of length before it.                   *)
(***************************************************************************)
EXTENDS Integers, Sequences, SequencesExt

CONSTANTS
    Prefix,        \* LENGTH_PREFIX_SIZE
    TypeSize,      \* TYPE_SIZE
    MaxFrame,      \* m_nMaximumFrameLength
    StreamFrames   \* bound of the model: frames in the stream

ASSUME StreamParameters ==
    /\ Prefix \in Nat \ {0} /\ TypeSize \in Nat \ {0} /\ MaxFrame >= TypeSize
    /\ MaxFrame \in Nat /\ StreamFrames \in Nat

\* "valid" stands for what resDecode finds in a complete frame.
StreamFrame == [length : 0 .. MaxFrame + 1, valid : BOOLEAN]

VARIABLES
    stream,     \* the frames the peer has written
    arrived,    \* bytes recv() has returned
    pending,    \* m_vecPendingBytes, their number
    decoded,    \* frames handed on, in order
    decodeError \* an error was returned, and the connection closed

streamVars == <<stream, arrived, pending, decoded, decodeError>>

StreamInit ==
    /\ stream \in UNION {[1 .. n -> StreamFrame] : n \in 0 .. StreamFrames}
    /\ arrived = 0 /\ pending = 0 /\ decoded = <<>> /\ decodeError = FALSE

BytesOf(frame) == Prefix + frame.length
BytesUpTo(k) == FoldLeft(LAMBDA n, frame : n + BytesOf(frame), 0, SubSeq(stream, 1, k))

\* A declared length out of bounds is refused with the prefix, an invalid frame
\* when it is complete.
Refused(frame, bytes) ==
    \/ bytes >= Prefix /\ (frame.length < TypeSize \/ frame.length > MaxFrame)
    \/ bytes >= BytesOf(frame) /\ ~frame.valid

\* Mutant: one frame is taken from each piece.
TakesOnce(state, frame) ==
    ~state.error /\ ~state.waits /\ state.bytes >= BytesOf(frame) /\ state.out = decoded

Takes(state, frame) == ~state.error /\ ~state.waits /\ state.bytes >= BytesOf(frame)

\* batConsume: frame by frame until bytes are missing or an error resets the buffer.
DecodeStep(state, frame) ==
    IF ~state.error /\ ~state.waits /\ Refused(frame, state.bytes)
    THEN [state EXCEPT !.error = TRUE, !.bytes = 0]
    ELSE IF Takes(state, frame)
    THEN [state EXCEPT !.bytes = @ - BytesOf(frame), !.out = Append(@, frame)]
    ELSE [state EXCEPT !.waits = TRUE]

Consume(bytes) ==
    LET rest == SubSeq(stream, Len(decoded) + 1, Len(stream))
        end  == FoldLeft(DecodeStep, [bytes |-> pending + bytes, out |-> decoded,
                                      error |-> FALSE, waits |-> FALSE], rest)
    IN  /\ ~decodeError /\ arrived + bytes <= BytesUpTo(Len(stream))
        /\ arrived' = arrived + bytes
        /\ pending' = end.bytes /\ decoded' = end.out /\ decodeError' = end.error
        /\ UNCHANGED stream

StreamNext == \E bytes \in 1 .. (Prefix + MaxFrame) * 2 : Consume(bytes)

StreamSpec == StreamInit /\ [][StreamNext]_streamVars

-----------------------------------------------------------------------------
(* Properties.                                                             *)

\* However the stream was cut: what has been handed on are the frames that have
\* arrived completely, up to the first one that is refused, and nothing complete
\* waits for the next recv().
CutsDoNotMatter ==
    LET Whole(k) == BytesUpTo(k) <= arrived
        Good(k)  == stream[k].valid /\ stream[k].length \in TypeSize .. MaxFrame
        Out(k)   == \A m \in 1 .. k : Whole(m) /\ Good(m)
    IN  /\ \A k \in 1 .. Len(decoded) : decoded[k] = stream[k]
        /\ \A k \in 1 .. Len(stream) : Out(k) <=> k <= Len(decoded)

\* The buffer never holds more than one frame within the limit: a peer that
\* declares a huge frame is refused before its bytes are kept.
BufferBounded == pending < Prefix + MaxFrame

\* What arrives is what was sent, and no more of it is kept than needed.
StreamSafe == CutsDoNotMatter /\ BufferBounded
=============================================================================
