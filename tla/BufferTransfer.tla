--------------------------- MODULE BufferTransfer ---------------------------
(***************************************************************************)
(* A program that writes a message to a socket and one that reads a buffer *)
(* of fixed size from the other end, each in one of the three ways of      *)
(* src/002_io/004* and 005*:                                               *)
(*                                                                         *)
(*   "loop"   write_some or read_some in a loop until the offset reaches   *)
(*            the length of the buffer;                                    *)
(*   "chain"  async_write_some or async_read_some, whose callback adds up  *)
(*            what was transferred and starts the next one;                *)
(*   "whole"  write, async_write, read or async_read of the library.       *)
(*                                                                         *)
(* Both connect to port 3333; the connection stands for whatever listens   *)
(* there and passes the bytes on.  It takes and gives any number of bytes  *)
(* at a time, holds Window of them and may break.                          *)
(***************************************************************************)
EXTENDS Naturals, Sequences

CONSTANTS
  MessageLength,  \* buf.length() of the writer
  BufferSize,     \* BUF_SIZE of the reader
  Window          \* bound: bytes the connection holds

ASSUME LengthAssumption ==
  /\ MessageLength \in Nat \ {0}
  /\ BufferSize \in Nat \ {0}
  /\ Window \in Nat \ {0}

VARIABLES
  wprogram,  \* the writer's way; it never changes
  wpc,       \* where the writer is
  written,   \* its offset, or total_bytes_written
  wbytes,    \* bytes_transferred of a callback that is queued, or 0
  sent,      \* all bytes put on the connection, each by its place in the message
  closed,    \* has the writer's process ended
  broken,    \* was the connection reset
  taken,     \* how many of these bytes the reader has taken off
  rprogram, rpc, read, rbytes,  \* the same of the reader
  buf        \* the reader's buffer; 0 is a byte never stored

writer     == <<wprogram, wpc, written, wbytes>>
reader     == <<rprogram, rpc, read, rbytes, buf>>
connection == <<sent, closed, broken, taken>>

vars == <<writer, reader, connection>>
-----------------------------------------------------------------------------
Programs == {"loop", "chain", "whole"}
Ended    == {"complete", "failed"}
Places   == {"test", "call", "queued"} \cup Ended

TypeOK ==
  /\ wprogram \in Programs /\ rprogram \in Programs
  /\ wpc \in Places /\ rpc \in Places
  /\ written \in 0..MessageLength /\ wbytes \in 0..MessageLength
  /\ read \in 0..BufferSize /\ rbytes \in 0..BufferSize
  /\ sent \in Seq(1..MessageLength)
  /\ closed \in BOOLEAN /\ broken \in BOOLEAN
  /\ taken \in 0..MessageLength
  /\ buf \in [1..BufferSize -> 0..MessageLength]

\* A loop begins with its test, the others with their first operation.
Start(program) == IF program = "loop" THEN "test" ELSE "call"

Init ==
  /\ wprogram \in Programs
  /\ rprogram \in Programs
  /\ wpc = Start(wprogram)
  /\ rpc = Start(rprogram)
  /\ written = 0 /\ wbytes = 0
  /\ read = 0 /\ rbytes = 0
  /\ sent = <<>>
  /\ closed = FALSE
  /\ broken = FALSE
  /\ taken = 0
  /\ buf = [i \in 1..BufferSize |-> 0]
-----------------------------------------------------------------------------
(***************************************************************************)
(* The writer.                                                             *)
(***************************************************************************)

\* while(buf_offset != buf.length())
TestWritten ==
  /\ wpc = "test"
  /\ wpc' = IF written = MessageLength THEN "complete" ELSE "call"
  /\ UNCHANGED <<wprogram, written, wbytes, reader, connection>>

\* The connection takes n bytes from buf + written on.
Puts(n) ==
  /\ wpc = "call"
  /\ ~broken
  /\ n <= MessageLength - written
  /\ Len(sent) - taken + n <= Window
  /\ sent' = [k \in 1..(Len(sent) + n) |->
                IF k <= Len(sent) THEN sent[k] ELSE written + (k - Len(sent))]
  /\ UNCHANGED <<wprogram, closed, broken, taken, reader>>

WriteSome(n) ==
  /\ wprogram = "loop"
  /\ Puts(n)
  /\ written' = written + n
  /\ wpc' = "test"
  /\ UNCHANGED wbytes

AsyncWriteSome(n) ==
  /\ wprogram = "chain"
  /\ Puts(n)
  /\ wbytes' = n
  /\ wpc' = "queued"
  /\ UNCHANGED written

Write(n) ==
  /\ wprogram = "whole"
  /\ Puts(n)
  /\ written' = written + n
  /\ wpc' = IF written' = MessageLength THEN "complete" ELSE "call"
  /\ UNCHANGED wbytes

\* Mutant: the count is replaced and not added to.
CountWritten == wbytes

\* total_bytes_written after the callback.
WrittenAfter == written + wbytes

\* The callback of a write: the whole message is out, or the next write starts.
OnWritten ==
  /\ wpc = "queued"
  /\ written' = WrittenAfter
  /\ wbytes' = 0
  /\ wpc' = IF written' = MessageLength THEN "complete" ELSE "call"
  /\ UNCHANGED <<wprogram, reader, connection>>

\* An exception, or a callback with an error.
WriteFails ==
  /\ wpc = "call"
  /\ broken
  /\ wpc' = "failed"
  /\ UNCHANGED <<wprogram, written, wbytes, reader, connection>>

\* The writer's process ends, and its end of the connection with it.
WriterExits ==
  /\ wpc \in Ended
  /\ ~closed
  /\ closed' = TRUE
  /\ UNCHANGED <<writer, reader, sent, broken, taken>>

\* The writer's process is killed: what it has sent is followed by eof.
WriterDies ==
  /\ wpc \notin Ended
  /\ wpc' = "failed"
  /\ closed' = TRUE
  /\ UNCHANGED <<wprogram, written, wbytes, reader, sent, broken, taken>>
-----------------------------------------------------------------------------
(***************************************************************************)
(* The reader.                                                             *)
(***************************************************************************)

\* while(offset != BUF_SIZE)
TestRead ==
  /\ rpc = "test"
  /\ rpc' = IF read = BufferSize THEN "complete" ELSE "call"
  /\ UNCHANGED <<rprogram, read, rbytes, buf, writer, connection>>

\* Mutant: every read goes to the beginning of the buffer.
PlaceInFront == 0

\* Where in buf a read begins to store.
Place == read

\* How many bytes a read may store.
Room == BufferSize - read

\* The connection gives n bytes, which go to buf + read.
Gets(n) ==
  /\ rpc = "call"
  /\ ~broken
  /\ n <= Room
  /\ n <= Len(sent) - taken
  /\ taken' = taken + n
  /\ buf' = [i \in 1..BufferSize |->
               IF Place < i /\ i <= Place + n THEN sent[taken + (i - Place)] ELSE buf[i]]
  /\ UNCHANGED <<rprogram, sent, closed, broken, writer>>

ReadSome(n) ==
  /\ rprogram = "loop"
  /\ Gets(n)
  /\ read' = read + n
  /\ rpc' = "test"
  /\ UNCHANGED rbytes

AsyncReadSome(n) ==
  /\ rprogram = "chain"
  /\ Gets(n)
  /\ rbytes' = n
  /\ rpc' = "queued"
  /\ UNCHANGED read

Read(n) ==
  /\ rprogram = "whole"
  /\ Gets(n)
  /\ read' = read + n
  /\ rpc' = IF read' = BufferSize THEN "complete" ELSE "call"
  /\ UNCHANGED rbytes

\* Mutant: the callback takes any read for the last one.
OnReadOnce ==
  /\ rpc = "queued"
  /\ read' = read + rbytes
  /\ rbytes' = 0
  /\ rpc' = "complete"
  /\ UNCHANGED <<rprogram, buf, writer, connection>>

\* Mutant: the callback looks for one byte more.
OnReadOneMore ==
  /\ rpc = "queued"
  /\ read' = read + rbytes
  /\ rbytes' = 0
  /\ rpc' = IF read' = BufferSize + 1 THEN "complete" ELSE "call"
  /\ UNCHANGED <<rprogram, buf, writer, connection>>

\* The callback of a read: the buffer is full, or the next read starts.
OnRead ==
  /\ rpc = "queued"
  /\ read' = read + rbytes
  /\ rbytes' = 0
  /\ rpc' = IF read' = BufferSize THEN "complete" ELSE "call"
  /\ UNCHANGED <<rprogram, buf, writer, connection>>

\* An error, eof among them: the reader does not keep a shorter message.
ReadFails ==
  /\ rpc = "call"
  /\ broken \/ (closed /\ taken = Len(sent))
  /\ rpc' = "failed"
  /\ UNCHANGED <<rprogram, read, rbytes, buf, writer, connection>>
-----------------------------------------------------------------------------
\* The connection is reset; so it is, in the end, when bytes arrive at a
\* reader that has gone.
Break ==
  /\ ~broken
  /\ broken' = TRUE
  /\ UNCHANGED <<writer, reader, sent, closed, taken>>

WriterStep ==
  \/ TestWritten
  \/ \E n \in 1..MessageLength : WriteSome(n) \/ AsyncWriteSome(n) \/ Write(n)
  \/ OnWritten
  \/ WriteFails
  \/ WriterExits

ReaderStep ==
  \/ TestRead
  \/ \E n \in 1..BufferSize : ReadSome(n) \/ AsyncReadSome(n) \/ Read(n)
  \/ OnRead
  \/ ReadFails

Next == WriterStep \/ WriterDies \/ ReaderStep \/ Break

Spec == Init /\ [][Next]_vars

(***************************************************************************)
(* Both programs run, and the connection moves what it can.                *)
(***************************************************************************)
FairSpec ==
  /\ Spec
  /\ WF_vars(WriterStep)
  /\ WF_vars(ReaderStep)
  /\ WF_vars(rpc \in Ended /\ wpc = "call" /\ Break)
-----------------------------------------------------------------------------
\* However the stream is cut, and whatever pair of programs is at its ends, the
\* reader's buffer holds the message from its first byte on, in order, with no
\* byte lost, doubled or left out.
DeliveredInOrder == \A i \in 1..read : buf[i] = i

\* Both ends transfer their buffer wholly: in each of the three ways.
Writing == INSTANCE WholeTransfer
             WITH Length <- MessageLength, moved <- written,
                  result <- IF wpc \in Ended THEN wpc ELSE "pending"

Reading == INSTANCE WholeTransfer
             WITH Length <- BufferSize, moved <- read,
                  result <- IF rpc \in Ended THEN rpc ELSE "pending"

ImplementsWholeTransfer == Writing!Spec /\ Reading!Spec

\* Neither end waits for ever: a reader that expects more than was written is
\* told so by the end of the stream, and a writer whose reader has gone by the
\* reset.
TransfersEnd == <>(wpc \in Ended) /\ <>(rpc \in Ended)
=============================================================================
