------------------------ MODULE BufferTransferProofs ------------------------
(***************************************************************************)
(* Proofs about BufferTransfer, for every length of the message and of the *)
(* buffer, every capacity of the connection and every pair of programs.    *)
(***************************************************************************)
EXTENDS BufferTransfer, SequenceTheorems, TLAPS

(***************************************************************************)
(* The inductive invariant.                                                *)
(***************************************************************************)

\* The first m bytes of the message, each given as its place.
Message(m) == [k \in 1..m |-> k]

\* The bytes on the connection are the message, up to the byte the writer has
\* reached, the transfer whose callback is still queued included.
WriterInv ==
  /\ wpc \in {"test", "call"} => wbytes = 0
  /\ wpc = "queued" => wbytes > 0
  /\ written + wbytes <= MessageLength
  /\ sent = Message(written + wbytes)

\* The reader has stored what it has taken, each byte in its place.
ReaderInv ==
  /\ rpc \in {"test", "call"} => rbytes = 0
  /\ rpc = "queued" => rbytes > 0
  /\ read + rbytes <= BufferSize
  /\ taken = read + rbytes
  /\ taken <= written + wbytes
  /\ \A i \in 1..(read + rbytes) : buf[i] = i

IInv == TypeOK /\ WriterInv /\ ReaderInv

\* The connection's sequence is as long as the count of its bytes says.
LEMMA SentLength ==
  ASSUME IInv
  PROVE  Len(sent) = written + wbytes /\ Len(sent) \in Nat
<1>1. written + wbytes \in Nat /\ DOMAIN sent = 1..(written + wbytes)
  BY DEF IInv, TypeOK, WriterInv, Message
<1>2. Len(sent) \in Nat /\ DOMAIN sent = 1..Len(sent)
  BY LenProperties DEF IInv, TypeOK
<1> QED BY <1>1, <1>2

-----------------------------------------------------------------------------
\* The invariant holds at the start.
LEMMA InitInv == Init => IInv
<1> SUFFICES ASSUME Init PROVE IInv
  OBVIOUS
<1>1. sent = Message(0)
  BY DEF Init, Message
<1>2. TypeOK
  <2>1. <<>> \in Seq(1..MessageLength)
    BY EmptySeq
  <2>2. [i \in 1..BufferSize |-> 0] \in [1..BufferSize -> 0..MessageLength]
    BY LengthAssumption
  <2>3. wpc \in Places /\ rpc \in Places
    BY DEF Init, Start, Places
  <2>4. 0 \in 0..MessageLength /\ 0 \in 0..BufferSize
    BY LengthAssumption
  <2> QED BY <2>1, <2>2, <2>3, <2>4 DEF Init, TypeOK
<1>3. WriterInv
  <2>1. written = 0 /\ wbytes = 0 /\ wpc # "queued"
    BY DEF Init, Start, Programs
  <2>2. written + wbytes = 0
    BY <2>1
  <2> QED BY <1>1, <2>1, <2>2, LengthAssumption DEF WriterInv
<1>4. ReaderInv
  <2>1. read = 0 /\ rbytes = 0 /\ taken = 0 /\ rpc # "queued" /\ written = 0 /\ wbytes = 0
    BY DEF Init, Start, Programs
  <2> QED BY <2>1, LengthAssumption DEF ReaderInv
<1> QED BY <1>2, <1>3, <1>4 DEF IInv

\* What the connection takes continues the message, and leaves the reader's
\* part of the invariant alone.
LEMMA PutsNext ==
  ASSUME IInv, NEW n \in 1..MessageLength, Puts(n)
  PROVE  /\ wbytes = 0
         /\ written + n <= MessageLength
         /\ sent' = Message(written + n)
         /\ sent' \in Seq(1..MessageLength)
<1>1. wbytes = 0 /\ written + n <= MessageLength
  <2>1. wpc = "call" /\ n <= MessageLength - written
    BY DEF Puts
  <2>2. wbytes = 0
    BY <2>1 DEF IInv, WriterInv
  <2>3. written \in Nat /\ n \in Nat /\ MessageLength \in Nat
    BY LengthAssumption DEF IInv, TypeOK
  <2> QED BY <2>1, <2>2, <2>3
<1>2. Len(sent) = written /\ written \in Nat
  BY <1>1, SentLength DEF IInv, TypeOK
<1>3. \A k \in 1..(written + n) : (IF k <= written THEN sent[k] ELSE written + (k - written)) = k
  BY <1>1, <1>2 DEF IInv, TypeOK, WriterInv, Message
<1>4. sent' = Message(written + n)
  BY <1>2, <1>3 DEF Puts, Message
<1>5. sent' \in Seq(1..MessageLength)
  <2>1. Message(written + n) \in [1..(written + n) -> 1..MessageLength]
    BY <1>1, <1>2, LengthAssumption DEF Message
  <2>2. written + n \in Nat
    BY <1>2
  <2> QED BY <1>4, <2>1, <2>2, SeqDef
<1> QED BY <1>1, <1>4, <1>5

\* What the connection gives goes to its place.
LEMMA GetsNext ==
  ASSUME IInv, NEW n \in 1..BufferSize, Gets(n)
  PROVE  /\ rbytes = 0
         /\ read + n <= BufferSize
         /\ taken' = read + n
         /\ read + n <= written + wbytes
         /\ buf' \in [1..BufferSize -> 0..MessageLength]
         /\ \A i \in 1..(read + n) : buf'[i] = i
<1>0. rpc = "call" /\ n <= BufferSize - read /\ n <= Len(sent) - taken /\ taken' = taken + n
  BY DEF Gets, Room
<1>t. read \in Nat /\ n \in Nat /\ BufferSize \in Nat
  BY LengthAssumption DEF IInv, TypeOK
<1>1. rbytes = 0 /\ taken = read /\ read + n <= BufferSize /\ taken' = read + n
  <2>1. rbytes = 0 /\ taken = read + rbytes
    BY <1>0 DEF IInv, ReaderInv
  <2> QED BY <1>0, <1>t, <2>1
<1>2. read + n <= written + wbytes
  BY <1>0, <1>1, <1>t, SentLength
<1>3. \A i \in 1..BufferSize :
        read < i /\ i <= read + n => sent[taken + (i - Place)] = i /\ i \in 0..MessageLength
  BY <1>1, <1>2, LengthAssumption DEF IInv, TypeOK, WriterInv, Place, Message
<1>4. buf' \in [1..BufferSize -> 0..MessageLength]
  BY <1>3 DEF Gets, Place, IInv, TypeOK
<1>5. \A i \in 1..(read + n) : buf'[i] = i
  BY <1>1, <1>3, LengthAssumption DEF Gets, Place, IInv, TypeOK, ReaderInv
<1> QED BY <1>1, <1>2, <1>4, <1>5

\* Every step of the writer preserves the invariant.
LEMMA WriterPreserves ==
  ASSUME IInv, WriterStep \/ WriterDies
  PROVE  IInv'
<1> USE LengthAssumption DEF Places, Ended, Programs
<1>1. CASE TestWritten
  BY <1>1 DEF TestWritten, IInv, TypeOK, WriterInv, ReaderInv, reader, connection
<1>2. ASSUME NEW n \in 1..MessageLength, WriteSome(n) \/ AsyncWriteSome(n) \/ Write(n)
      PROVE  IInv'
  <2>1. /\ Puts(n)
        /\ \/ written' = written + n /\ UNCHANGED wbytes /\ wpc' \in {"test", "call", "complete"}
           \/ UNCHANGED written /\ wbytes' = n /\ wpc' = "queued"
    BY <1>2 DEF WriteSome, AsyncWriteSome, Write
  <2>2. /\ wbytes = 0 /\ written + n <= MessageLength
        /\ sent' = Message(written + n) /\ sent' \in Seq(1..MessageLength)
    BY <2>1, PutsNext
  <2>3. UNCHANGED <<wprogram, closed, broken, taken, rprogram, rpc, read, rbytes, buf>>
    BY <2>1 DEF Puts, reader
  <2>4. written' + wbytes' = written + n /\ written' \in Nat /\ wbytes' \in Nat
    BY <2>1, <2>2 DEF IInv, TypeOK
  <2>5. TypeOK'
    BY <2>1, <2>2, <2>3, <2>4 DEF IInv, TypeOK
  <2>6. WriterInv'
    <3>1. sent' = Message(written' + wbytes')
      BY <2>2, <2>4
    <3>2. written' + wbytes' <= MessageLength
      BY <2>2, <2>4
    <3>3. (wpc' \in {"test", "call"} => wbytes' = 0) /\ (wpc' = "queued" => wbytes' > 0)
      BY <2>1, <2>2
    <3> QED BY <3>1, <3>2, <3>3 DEF WriterInv
  <2>7. ReaderInv'
    <3>1. taken' <= written' + wbytes'
      <4>1. taken <= written + wbytes /\ taken \in Nat /\ written \in Nat
        BY DEF IInv, TypeOK, ReaderInv
      <4>2. wbytes = 0 /\ n \in Nat /\ taken' = taken /\ written' + wbytes' = written + n
        BY <2>2, <2>3, <2>4
      <4>3. taken <= written + n
        BY <4>1, <4>2
      <4> QED BY <4>2, <4>3
    <3> QED BY <2>3, <3>1 DEF IInv, ReaderInv
  <2> QED BY <2>5, <2>6, <2>7 DEF IInv
<1>3. CASE OnWritten
  BY <1>3 DEF OnWritten, WrittenAfter, IInv, TypeOK, WriterInv, ReaderInv, reader, connection
<1>4. CASE WriteFails \/ WriterExits \/ WriterDies
  <2>1. /\ UNCHANGED <<wprogram, written, wbytes, reader, sent, broken, taken>>
        /\ wpc' \in {wpc, "failed"} /\ closed' \in {closed, TRUE}
    BY <1>4 DEF WriteFails, WriterExits, WriterDies, writer, connection
  <2>2. TypeOK'
    BY <2>1 DEF IInv, TypeOK, reader
  <2>3. WriterInv'
    BY <2>1 DEF IInv, WriterInv
  <2>4. ReaderInv'
    BY <2>1 DEF IInv, ReaderInv, reader
  <2> QED BY <2>2, <2>3, <2>4 DEF IInv
<1> QED BY <1>1, <1>2, <1>3, <1>4 DEF WriterStep

\* Every step of the reader preserves the invariant.
LEMMA ReaderPreserves ==
  ASSUME IInv, ReaderStep
  PROVE  IInv'
<1> USE LengthAssumption DEF Places, Ended, Programs
<1>1. CASE TestRead
  BY <1>1 DEF TestRead, IInv, TypeOK, WriterInv, ReaderInv, writer, connection
<1>2. ASSUME NEW n \in 1..BufferSize, ReadSome(n) \/ AsyncReadSome(n) \/ Read(n)
      PROVE  IInv'
  <2>1. /\ Gets(n)
        /\ \/ read' = read + n /\ UNCHANGED rbytes /\ rpc' \in {"test", "call", "complete"}
           \/ UNCHANGED read /\ rbytes' = n /\ rpc' = "queued"
    BY <1>2 DEF ReadSome, AsyncReadSome, Read
  <2>2. /\ rbytes = 0 /\ read + n <= BufferSize /\ taken' = read + n
        /\ read + n <= written + wbytes /\ buf' \in [1..BufferSize -> 0..MessageLength]
        /\ \A i \in 1..(read + n) : buf'[i] = i
    BY <2>1, GetsNext
  <2>3. UNCHANGED <<rprogram, sent, closed, broken, wprogram, wpc, written, wbytes>>
    BY <2>1 DEF Gets, writer
  <2>4. read' + rbytes' = read + n /\ read' \in Nat /\ rbytes' \in Nat
    BY <2>1, <2>2 DEF IInv, TypeOK
  <2>5. TypeOK'
    BY <2>1, <2>2, <2>3, <2>4 DEF IInv, TypeOK, WriterInv
  <2>6. WriterInv'
    BY <2>3 DEF IInv, WriterInv
  <2>7. ReaderInv'
    <3>1. (rpc' \in {"test", "call"} => rbytes' = 0) /\ (rpc' = "queued" => rbytes' > 0)
      BY <2>1, <2>2
    <3>2. /\ read' + rbytes' <= BufferSize /\ taken' = read' + rbytes'
          /\ taken' <= written' + wbytes'
      BY <2>2, <2>3, <2>4
    <3>3. \A i \in 1..(read' + rbytes') : buf'[i] = i
      BY <2>2, <2>4
    <3> QED BY <3>1, <3>2, <3>3 DEF ReaderInv
  <2> QED BY <2>5, <2>6, <2>7 DEF IInv
<1>3. CASE OnRead
  BY <1>3 DEF OnRead, IInv, TypeOK, WriterInv, ReaderInv, writer, connection
<1>4. CASE ReadFails
  BY <1>4 DEF ReadFails, IInv, TypeOK, WriterInv, ReaderInv, writer, connection
<1> QED BY <1>1, <1>2, <1>3, <1>4 DEF ReaderStep

\* The invariant is one.
THEOREM Invariance == Spec => []IInv
<1>1. IInv /\ [Next]_vars => IInv'
  <2> SUFFICES ASSUME IInv, [Next]_vars PROVE IInv'
    OBVIOUS
  <2>1. CASE Break \/ UNCHANGED vars
    BY <2>1 DEF Break, vars, IInv, TypeOK, WriterInv, ReaderInv, writer, reader, connection
  <2> QED BY <2>1, WriterPreserves, ReaderPreserves DEF Next
<1> QED BY <1>1, InitInv, PTL DEF Spec

-----------------------------------------------------------------------------
\* Type correctness: in particular neither end runs over its buffer.
THEOREM TypeCorrect == Spec => []TypeOK
<1>1. IInv => TypeOK
  BY DEF IInv
<1> QED BY <1>1, Invariance, PTL

\* The reader's buffer holds the message from its first byte on, in order, for
\* every pair of loops, callbacks and library calls of 002_io.
THEOREM InOrder == Spec => []DeliveredInOrder
<1>1. IInv => DeliveredInOrder
  BY DEF IInv, TypeOK, ReaderInv, DeliveredInOrder
<1> QED BY <1>1, Invariance, PTL

\* Both ends implement WholeTransfer: a transfer is complete exactly when the
\* whole buffer was moved.
THEOREM Refinement == Spec => ImplementsWholeTransfer
<1> USE LengthAssumption DEF Ended
<1>1. Init => Writing!Init /\ Reading!Init
  BY DEF Init, Start, Writing!Init, Reading!Init
<1>2. IInv /\ IInv' /\ [Next]_vars => [Writing!Next]_(Writing!vars) /\ [Reading!Next]_(Reading!vars)
  <2> SUFFICES ASSUME IInv, IInv', [Next]_vars
               PROVE  [Writing!Next]_(Writing!vars) /\ [Reading!Next]_(Reading!vars)
    OBVIOUS
  <2> USE DEF Writing!vars, Reading!vars
  <2>w. UNCHANGED <<wpc, written>> => UNCHANGED Writing!vars
    OBVIOUS
  <2>r. UNCHANGED <<rpc, read>> => UNCHANGED Reading!vars
    OBVIOUS
  <2>1. CASE TestWritten
    <3>1. UNCHANGED <<rpc, read>>
      BY <2>1 DEF TestWritten, reader
    <3>2. Writing!Complete \/ UNCHANGED Writing!vars
      BY <2>1 DEF TestWritten, Writing!Complete
    <3> QED BY <2>r, <3>1, <3>2 DEF Writing!Next
  <2>2. ASSUME NEW n \in 1..MessageLength, WriteSome(n) \/ AsyncWriteSome(n) \/ Write(n)
        PROVE  [Writing!Next]_(Writing!vars) /\ [Reading!Next]_(Reading!vars)
    <3>1. UNCHANGED <<rpc, read>>
      BY <2>2 DEF WriteSome, AsyncWriteSome, Write, Puts, reader
    <3>2. CASE AsyncWriteSome(n)
      BY <2>r, <3>1, <3>2 DEF AsyncWriteSome, Puts
    <3>3. CASE WriteSome(n) \/ Write(n)
      <4>1. /\ wpc = "call" /\ written' = written + n
            /\ wpc' \in {"test", "call"} \/ (wpc' = "complete" /\ written' = MessageLength)
        BY <3>3 DEF WriteSome, Write, Puts
      <4>2. written \in Nat /\ written' \in 0..MessageLength
        BY DEF IInv, TypeOK
      <4>3. Writing!Move
        BY <4>1, <4>2 DEF Writing!Move
      <4> QED BY <2>r, <3>1, <4>3 DEF Writing!Next
    <3> QED BY <2>2, <3>2, <3>3
  <2>3. CASE OnWritten
    <3>1. UNCHANGED <<rpc, read>>
      BY <2>3 DEF OnWritten, reader
    <3>2. /\ wpc = "queued" /\ written' = written + wbytes
          /\ wpc' = "call" \/ (wpc' = "complete" /\ written' = MessageLength)
      BY <2>3 DEF OnWritten, WrittenAfter
    <3>3. written \in Nat /\ wbytes \in Nat /\ wbytes > 0 /\ written' \in 0..MessageLength
      BY <3>2 DEF IInv, TypeOK, WriterInv
    <3>4. Writing!Move
      BY <3>2, <3>3 DEF Writing!Move
    <3> QED BY <2>r, <3>1, <3>4 DEF Writing!Next
  <2>4. CASE WriteFails \/ WriterDies
    <3>1. UNCHANGED <<rpc, read>> /\ Writing!Fail
      BY <2>4 DEF WriteFails, WriterDies, reader, Writing!Fail
    <3> QED BY <2>r, <3>1 DEF Writing!Next
  <2>5. CASE WriterExits \/ Break \/ UNCHANGED vars
    <3>1. UNCHANGED <<wpc, written, rpc, read>>
      BY <2>5 DEF WriterExits, Break, vars, writer, reader
    <3> QED BY <2>w, <2>r, <3>1
  <2>6. CASE TestRead
    <3>1. UNCHANGED <<wpc, written>>
      BY <2>6 DEF TestRead, writer
    <3>2. Reading!Complete \/ UNCHANGED Reading!vars
      BY <2>6 DEF TestRead, Reading!Complete
    <3> QED BY <2>w, <3>1, <3>2 DEF Reading!Next
  <2>7. ASSUME NEW n \in 1..BufferSize, ReadSome(n) \/ AsyncReadSome(n) \/ Read(n)
        PROVE  [Writing!Next]_(Writing!vars) /\ [Reading!Next]_(Reading!vars)
    <3>1. UNCHANGED <<wpc, written>>
      BY <2>7 DEF ReadSome, AsyncReadSome, Read, Gets, writer
    <3>2. CASE AsyncReadSome(n)
      BY <2>w, <3>1, <3>2 DEF AsyncReadSome, Gets
    <3>3. CASE ReadSome(n) \/ Read(n)
      <4>1. /\ rpc = "call" /\ read' = read + n
            /\ rpc' \in {"test", "call"} \/ (rpc' = "complete" /\ read' = BufferSize)
        BY <3>3 DEF ReadSome, Read, Gets
      <4>2. read \in Nat /\ read' \in 0..BufferSize
        BY DEF IInv, TypeOK
      <4>3. Reading!Move
        BY <4>1, <4>2 DEF Reading!Move
      <4> QED BY <2>w, <3>1, <4>3 DEF Reading!Next
    <3> QED BY <2>7, <3>2, <3>3
  <2>8. CASE OnRead
    <3>1. UNCHANGED <<wpc, written>>
      BY <2>8 DEF OnRead, writer
    <3>2. /\ rpc = "queued" /\ read' = read + rbytes
          /\ rpc' = "call" \/ (rpc' = "complete" /\ read' = BufferSize)
      BY <2>8 DEF OnRead
    <3>3. read \in Nat /\ rbytes \in Nat /\ rbytes > 0 /\ read' \in 0..BufferSize
      BY <3>2 DEF IInv, TypeOK, ReaderInv
    <3>4. Reading!Move
      BY <3>2, <3>3 DEF Reading!Move
    <3> QED BY <2>w, <3>1, <3>4 DEF Reading!Next
  <2>9. CASE ReadFails
    <3>1. UNCHANGED <<wpc, written>> /\ Reading!Fail
      BY <2>9 DEF ReadFails, writer, Reading!Fail
    <3> QED BY <2>w, <3>1 DEF Reading!Next
  <2> QED BY <2>1, <2>2, <2>3, <2>4, <2>5, <2>6, <2>7, <2>8, <2>9 DEF Next, WriterStep, ReaderStep
<1> QED
  BY <1>1, <1>2, Invariance, PTL
     DEF Spec, ImplementsWholeTransfer, Writing!Spec, Reading!Spec
=============================================================================
