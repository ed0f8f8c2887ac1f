------------------------------ MODULE LogStream ------------------------------
(***************************************************************************)
(* The log stream of ws/log_stream.go: Serve copies a container's output,  *)
(* which Docker hands over in chunks cut anywhere, line by line to a       *)
(* WebSocket, while a reader and a pinger watch over the connection.       *)
(***************************************************************************)
EXTENDS Naturals, FiniteSets, Sequences, SequencesExt

CONSTANTS
    Outputs         \* what a container may write: sequences of [stream, char]

Streams == {"stdout", "stderr"}
Newline == "nl"
Return == "cr"

ASSUME OutputsAssumption ==
    \A o \in Outputs : \A i \in DOMAIN o : o[i].stream \in Streams

VARIABLES
    output,         \* what this container writes, in all
    taken,          \* how much of it StdCopy has read
    buffer,         \* the lineWriters' buf
    sent,           \* the lines that reached the client, per stream
    serve,          \* where Serve is
    pinger,         \* where its pinger is
    reader,         \* where its reader is
    writing,        \* who holds writeMu
    peer,           \* the client: "there" or "gone"
    cancelled       \* streamCtx is done

logVars == <<output, taken, buffer, sent, serve, pinger, reader, writing, peer, cancelled>>

Nobody == "nobody"

LogInit ==
    /\ output \in Outputs
    /\ taken = 0
    /\ buffer = [s \in Streams |-> << >>]
    /\ sent = [s \in Streams |-> << >>]
    /\ serve = "opening"
    /\ pinger = "waiting" /\ reader = "reading"
    /\ writing = Nobody
    /\ peer = "there"
    /\ cancelled = FALSE

KeepReturn(line) == line

\* TrimRight: the carriage returns before a newline are not part of the line.
TrimReturn(line) ==
    SubSeq(line, 1, Max({0} \cup {i \in DOMAIN line : line[i] # Return}))

Newlines(bytes) == {i \in DOMAIN bytes : bytes[i] = Newline}
FirstNewline(bytes) == CHOOSE i \in Newlines(bytes) : \A j \in Newlines(bytes) : i <= j

LockIsFree == writing = Nobody

-----------------------------------------------------------------------------
(* Serve and its lineWriters.                                              *)

\* StreamLogs, with streamCtx; an error is written to the client.
OpenLogs ==
    /\ serve = "opening"
    /\ serve' \in IF cancelled THEN {"refused"} ELSE {"copying", "refused"}
    /\ UNCHANGED <<output, taken, buffer, sent, pinger, reader, writing, peer, cancelled>>

ReportRefusal ==
    /\ serve = "refused" /\ LockIsFree
    /\ serve' = "closing"
    /\ UNCHANGED <<output, taken, buffer, sent, pinger, reader, writing, peer, cancelled>>

\* StdCopy passes a chunk of one stream to its lineWriter, which appends it.
TakeChunk ==
    /\ serve = "copying"
    /\ \E to \in taken + 1 .. Len(output), s \in Streams :
         LET chunk == SubSeq(output, taken + 1, to) IN
         /\ \A i \in DOMAIN chunk : chunk[i].stream = s
         /\ buffer' = [buffer EXCEPT ![s] = @ \o [i \in DOMAIN chunk |-> chunk[i].char]]
         /\ taken' = to
         /\ serve' = "lines"
    /\ UNCHANGED <<output, sent, pinger, reader, writing, peer, cancelled>>

WholeLine(s) == Newlines(buffer[s]) # {}

\* sendFrame: the write succeeds, or fails and cancels.
Send(s, line) ==
    \/ /\ peer = "there"
       /\ sent' = [sent EXCEPT ![s] = Append(@, line)]
       /\ UNCHANGED cancelled
    \/ /\ peer = "gone"
       /\ cancelled' = TRUE
       /\ UNCHANGED sent

Lock == LockIsFree /\ writing' = "serve"

BeginLine ==
    /\ serve = "lines" /\ \E s \in Streams : WholeLine(s)
    /\ Lock
    /\ serve' = "sending"
    /\ UNCHANGED <<output, taken, buffer, sent, pinger, reader, peer, cancelled>>

\* The line up to the first newline goes out and is cut off the buffer.
SendLine ==
    /\ serve = "sending"
    /\ \E s \in Streams :
         /\ WholeLine(s)
         /\ LET i == FirstNewline(buffer[s]) IN
            /\ Send(s, TrimReturn(SubSeq(buffer[s], 1, i - 1)))
            /\ buffer' = [buffer EXCEPT ![s] = SubSeq(@, i + 1, Len(@))]
    /\ writing' = Nobody
    /\ serve' = "lines"
    /\ UNCHANGED <<output, taken, pinger, reader, peer>>

LinesDone ==
    /\ serve = "lines" /\ \A s \in Streams : ~WholeLine(s)
    /\ serve' = "copying"
    /\ UNCHANGED <<output, taken, buffer, sent, pinger, reader, writing, peer, cancelled>>

\* StdCopy returns: the context is done, or the output has ended (with
\* follow, when the container exits).
CopyReturns ==
    /\ serve = "copying"
    /\ serve' = "flushing"
    /\ UNCHANGED <<output, taken, buffer, sent, pinger, reader, writing, peer, cancelled>>

CopyInterrupted == cancelled /\ CopyReturns
OutputEnds == taken = Len(output) /\ ~cancelled /\ CopyReturns

\* flush sends what is left, without a newline to end it, stdout first.
Flush(s) ==
    /\ serve = "flushing" /\ LockIsFree
    /\ buffer[s] # << >> /\ (s = "stderr" => buffer["stdout"] = << >>)
    /\ Send(s, buffer[s])
    /\ buffer' = [buffer EXCEPT ![s] = << >>]
    /\ UNCHANGED <<output, taken, serve, pinger, reader, writing, peer>>

Flushed ==
    /\ serve = "flushing" /\ \A s \in Streams : buffer[s] = << >>
    /\ serve' = "closing"
    /\ UNCHANGED <<output, taken, buffer, sent, pinger, reader, writing, peer, cancelled>>

\* The deferred calls: cancel, then the close frame and the connection.
Close ==
    /\ serve = "closing" /\ LockIsFree
    /\ serve' = "returned"
    /\ cancelled' = TRUE
    /\ UNCHANGED <<output, taken, buffer, sent, pinger, reader, writing, peer>>

-----------------------------------------------------------------------------
(* The two goroutines beside it.                                           *)

\* NextReader fails when the client closes, stops answering pings, or when
\* Serve has closed the connection.
ReaderFails ==
    /\ reader = "reading" /\ (peer = "gone" \/ serve = "returned")
    /\ reader' = "over"
    /\ cancelled' = TRUE
    /\ UNCHANGED <<output, taken, buffer, sent, serve, pinger, writing, peer>>

BeginPing ==
    /\ pinger = "waiting" /\ ~cancelled /\ LockIsFree
    /\ pinger' = "pinging"
    /\ writing' = "pinger"
    /\ UNCHANGED <<output, taken, buffer, sent, serve, reader, peer, cancelled>>

EndPing ==
    /\ pinger = "pinging"
    /\ writing' = Nobody
    /\ IF peer = "there" /\ serve # "returned"
       THEN pinger' = "waiting" /\ UNCHANGED cancelled
       ELSE pinger' = "over" /\ cancelled' = TRUE
    /\ UNCHANGED <<output, taken, buffer, sent, serve, reader, peer>>

PingerStops ==
    /\ pinger = "waiting" /\ cancelled
    /\ pinger' = "over"
    /\ UNCHANGED <<output, taken, buffer, sent, serve, reader, writing, peer, cancelled>>

HangsUp ==
    /\ peer = "there"
    /\ peer' = "gone"
    /\ UNCHANGED <<output, taken, buffer, sent, serve, pinger, reader, writing, cancelled>>

-----------------------------------------------------------------------------
Copy ==
    \/ OpenLogs \/ ReportRefusal \/ BeginLine \/ SendLine \/ LinesDone
    \/ CopyInterrupted \/ Flushed \/ Close \/ \E s \in Streams : Flush(s)

Watch == ReaderFails \/ EndPing \/ PingerStops

LogNext == Copy \/ TakeChunk \/ OutputEnds \/ Watch \/ BeginPing \/ HangsUp

-----------------------------------------------------------------------------
\* The reference: a text cut at its newlines, and what follows the last one.
Read(s) ==
    LET mine == SelectSeq(SubSeq(output, 1, taken), LAMBDA b : b.stream = s)
    IN [i \in DOMAIN mine |-> mine[i].char]
Ends(bytes) == SetToSortSeq(Newlines(bytes), <)
Start(ends, k) == IF k = 1 THEN 1 ELSE ends[k - 1] + 1
Lines(bytes) ==
    LET ends == Ends(bytes)
        Line(k) == SubSeq(bytes, Start(ends, k), ends[k] - 1)
        Text(line) == {i \in DOMAIN line : \E j \in i..Len(line) : line[j] # Return}
    IN [k \in DOMAIN ends |-> SubSeq(Line(k), 1, Cardinality(Text(Line(k))))]
Remainder(bytes) ==
    LET ends == Ends(bytes) IN SubSeq(bytes, Start(ends, Len(ends) + 1), Len(bytes))
AllLines(bytes) ==
    Lines(bytes) \o (IF Remainder(bytes) = << >> THEN << >> ELSE <<Remainder(bytes)>>)

\* However Docker cuts and mixes its chunks, the client gets the lines the
\* container wrote, of each stream in order, whole and once: always a part
\* from the beginning, all that was read when the handler returns to a client
\* who is there, and between two chunks nothing but the unfinished line is kept.
LinesIntact ==
    \A s \in Streams :
        /\ IsPrefix(sent[s], AllLines(Read(s)))
        /\ peer = "there" /\ serve = "copying" =>
               sent[s] = Lines(Read(s)) /\ buffer[s] = Remainder(Read(s))
        /\ peer = "there" /\ serve = "returned" => sent[s] = AllLines(Read(s))

\* A client who is gone costs nothing in the end: Serve returns, even from
\* the log of a container that never writes again, and so do its goroutines.
LogSettles ==
    (peer = "gone" \/ serve = "returned")
        ~> (serve = "returned" /\ reader = "over" /\ pinger = "over")
=============================================================================
