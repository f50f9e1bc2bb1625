----------------------- MODULE BlockingExchangeProofs -----------------------
(***************************************************************************)
(* Proofs about BlockingExchange, for every set of pairs of programs and   *)
(* every number of parts in which a message travels.                       *)
(***************************************************************************)
EXTENDS BlockingExchange, SequenceTheorems, TLAPS

(***************************************************************************)
(* Where the programs write and read.                                      *)
(***************************************************************************)

\* The places of the handshake's calls, which only the TLS programs have.
HelloWrite(p) == IF p = "client" THEN 1 ELSE 2
HelloRead(p)  == IF p = "client" THEN 2 ELSE 1

\* The places of the message's calls.
MessageWrite(p) == (IF p = "client" THEN 1 ELSE 2) + (IF pair = "tls" THEN 2 ELSE 0)
MessageRead(p) ==
  (IF p = "client" THEN 2 ELSE 1) + (IF pair = "tls" THEN 2 ELSE 0)
  + (IF pair = "eof" /\ p = "client" THEN 1 ELSE 0)

Hello == IF pair = "tls" THEN 1 ELSE 0

\* All parts that p puts out, with room for the notification of the TLS client.
Parts(p) ==
  [i \in 1..Hello + MessageLength + 1 |->
     IF i <= Hello THEN "hello"
     ELSE IF i > Hello + MessageLength THEN "notify" ELSE Message(p)[i - Hello]]

\* The parts that p has put out, by the place it has reached.
Out(p) ==
  written[p]
  + (IF step[p] > HelloWrite(p) THEN Hello ELSE 0)
  + (IF step[p] > MessageWrite(p) THEN MessageLength ELSE 0)
  + (IF step[p] > 5 /\ p = "client" THEN 1 ELSE 0)

\* The parts of the calls that are behind p.
Taken(p) ==
  (IF step[p] > HelloRead(p) THEN Hello ELSE 0)
  + (IF step[p] > MessageRead(p) THEN MessageLength ELSE 0)

(***************************************************************************)
(* The inductive invariant.                                                *)
(***************************************************************************)
Texts == {"client", "server", "eol", "hello", "notify"}

TypeInv ==
  /\ pair \in Pairs
  /\ step \in [Sides -> Nat \ {0}]
  /\ written \in [Sides -> Nat]
  /\ received \in [Sides -> Seq(Texts)]
  /\ wire \in [Sides -> Seq(Texts)]
  /\ eof \in [Sides -> BOOLEAN]
  /\ reset \in BOOLEAN
  /\ result \in [Sides -> {"running", "done", "failed", "killed"}]
  /\ disturbed \in BOOLEAN
  /\ \A p \in Sides : step[p] <= Len(Program(p)) + 1

\* Only within a write of a message is a part of a call's data written.
WrittenInv(p) ==
  written[p] < MessageLength /\ (written[p] > 0 => step[p] = MessageWrite(p))

\* What p has received, and behind it what is on its way to p, is what the peer
\* has put out, in order; none of it is missing unless the connection is reset
\* or p gone.
Got(p) == Len(received[p])
All(p) == Got(p) + Len(wire[p])

StreamInv(p) ==
  /\ All(p) <= Out(Peer(p))
  /\ \A i \in 1..Got(p) : received[p][i] = Parts(Peer(p))[i]
  /\ \A i \in 1..Len(wire[p]) : wire[p][i] = Parts(Peer(p))[Got(p) + i]
  /\ result[p] = "running" /\ ~reset => All(p) = Out(Peer(p))

\* Behind a read is all that it waits for, but for a message that ends with the
\* stream and whose writer was killed.
ReceivedInv(p) ==
  /\ step[p] < MessageRead(p) => Got(p) = Taken(p)
  /\ step[p] = MessageRead(p) =>
       Taken(p) <= Got(p) /\ (pair # "eof" => Got(p) < Hello + MessageLength)
  /\ step[p] > MessageRead(p) =>
       \/ Got(p) = Hello + MessageLength
       \/ pair = "eof" /\ result[Peer(p)] = "killed" /\ Got(p) <= MessageLength

\* A side's stream has ended when it has shut its sending down, or is gone.
Ended(p) ==
  \/ result[p] # "running"
  \/ pair = "line" /\ p = "client" /\ step[p] > 3
  \/ pair = "eof" /\ p = "client" /\ step[p] > 2
  \/ pair = "eof" /\ p = "server" /\ step[p] > 3

ClosedInv(p) ==
  /\ eof[Peer(p)] <=> Ended(p)
  /\ result[p] # "running" => wire[p] = <<>>
  /\ result[p] = "done" => step[p] = Len(Program(p)) + 1
  /\ result[p] = "failed" => reset \/ pair # "eof"

SideInv(p) == WrittenInv(p) /\ StreamInv(p) /\ ReceivedInv(p) /\ ClosedInv(p)

\* Undisturbed, nobody fails, and a reset comes only from the notification that
\* finds the TLS server done.
QuietInv ==
  ~disturbed =>
    /\ \A p \in Sides : result[p] \in {"running", "done"}
    /\ reset => pair = "tls" /\ step["client"] > 5 /\ result["server"] = "done"

IInv == TypeInv /\ QuietInv /\ \A p \in Sides : SideInv(p)

-----------------------------------------------------------------------------
(***************************************************************************)
(* The programs, call by call.                                             *)
(***************************************************************************)
LEMMA SidesAre ==
  /\ Sides = {"client", "server"}
  /\ Peer("client") = "server" /\ Peer("server") = "client"
BY DEF Sides, Peer

\* Every call has a name and data of its own.
LEMMA CallFields ==
  /\ \A d : Write(d).name = "write" /\ Write(d).data = d
  /\ \A d : ReadUntil(d).name = "read_until" /\ ReadUntil(d).data = <<d>>
  /\ \A n, d : Call(n, d).name = n
  /\ Read.name = "read"
  /\ Shutdown.name = "shutdown"
BY DEF Write, ReadUntil, Read, Shutdown, Call

\* What each program calls, in turn.
LEMMA LineCalls ==
  /\ Len(SyncTcpClient) = 3
  /\ SyncTcpClient[1] = Write(Message("client"))
  /\ SyncTcpClient[2] = ReadUntil("eol")
  /\ SyncTcpClient[3] = Shutdown
  /\ Len(HandleClient) = 2
  /\ HandleClient[1] = ReadUntil("eol")
  /\ HandleClient[2] = Write(Message("server"))
BY DEF SyncTcpClient, HandleClient

LEMMA TlsCalls ==
  /\ Len(SyncSSLClient) = 6
  /\ SyncSSLClient[1] = Write(<<"hello">>)
  /\ SyncSSLClient[2] = ReadUntil("hello")
  /\ SyncSSLClient[3] = Write(Message("client"))
  /\ SyncSSLClient[4] = ReadUntil("eol")
  /\ SyncSSLClient[5] = Call("close_notify", <<>>)
  /\ SyncSSLClient[6] = Call("await_notify", <<>>)
  /\ Len(SyncSSLService) = 4
  /\ SyncSSLService[1] = ReadUntil("hello")
  /\ SyncSSLService[2] = Write(<<"hello">>)
  /\ SyncSSLService[3] = ReadUntil("eol")
  /\ SyncSSLService[4] = Write(Message("server"))
<1> DEFINE greeting == <<ReadUntil("hello"), Write(<<"hello">>)>>
           Kinds == {ReadUntil("hello"), Write(<<"hello">>), ReadUntil("eol"), Write(Message("server"))}
<1>1. greeting \in Seq(Kinds) /\ Len(greeting) = 2
      /\ greeting[1] = ReadUntil("hello") /\ greeting[2] = Write(<<"hello">>)
  OBVIOUS
<1>2. HandleClient \in Seq(Kinds)
  BY DEF HandleClient
<1>3. SyncSSLService = greeting \o HandleClient
  BY DEF SyncSSLService
<1> HIDE DEF greeting, Kinds
<1>4. /\ Len(SyncSSLService) = 2 + 2
      /\ \A i \in 1..2 + 2 :
           SyncSSLService[i] = IF i <= 2 THEN greeting[i] ELSE HandleClient[i - 2]
  BY <1>1, <1>2, <1>3, LineCalls, ConcatProperties
<1>5. /\ Len(SyncSSLClient) = 6
      /\ SyncSSLClient[1] = Write(<<"hello">>)
      /\ SyncSSLClient[2] = ReadUntil("hello")
      /\ SyncSSLClient[3] = Write(Message("client"))
      /\ SyncSSLClient[4] = ReadUntil("eol")
      /\ SyncSSLClient[5] = Call("close_notify", <<>>)
      /\ SyncSSLClient[6] = Call("await_notify", <<>>)
  BY DEF SyncSSLClient
<1> QED BY <1>1, <1>4, <1>5, LineCalls

LEMMA EofCalls ==
  /\ Len(Communicate) = 3
  /\ Communicate[1] = Write(Message("client"))
  /\ Communicate[2] = Shutdown
  /\ Communicate[3] = Read
  /\ Len(ProcessRequest) = 3
  /\ ProcessRequest[1] = Read
  /\ ProcessRequest[2] = Write(Message("server"))
  /\ ProcessRequest[3] = Shutdown
BY DEF Communicate, ProcessRequest

LEMMA Programs ==
  /\ pair = "line" => Program("client") = SyncTcpClient /\ Program("server") = HandleClient
  /\ pair = "tls" => Program("client") = SyncSSLClient /\ Program("server") = SyncSSLService
  /\ pair = "eof" => Program("client") = Communicate /\ Program("server") = ProcessRequest
<1>1. CASE pair = "line"
  <2>1. pair # "tls" /\ pair # "eof"
    BY <1>1
  <2> QED BY <1>1, <2>1, Zenon DEF Program
<1>2. CASE pair = "tls"
  <2>1. pair # "line" /\ pair # "eof"
    BY <1>2
  <2> QED BY <1>2, <2>1, Zenon DEF Program
<1>3. CASE pair = "eof"
  <2>1. pair # "line" /\ pair # "tls"
    BY <1>3
  <2> QED BY <1>3, <2>1, Zenon DEF Program
<1> QED BY <1>1, <1>2, <1>3

LEMMA Calls ==
  ASSUME NEW p \in Sides, NEW name, At(p, name), pair \in {"line", "tls", "eof"},
         step[p] \in Nat \ {0}
  PROVE  /\ name = "write" =>
              \/ step[p] = MessageWrite(p) /\ Data(p) = Message(p)
              \/ pair = "tls" /\ step[p] = HelloWrite(p) /\ Data(p) = <<"hello">>
         /\ name = "read_until" =>
              \/ pair # "eof" /\ step[p] = MessageRead(p) /\ Data(p) = <<"eol">>
              \/ pair = "tls" /\ step[p] = HelloRead(p) /\ Data(p) = <<"hello">>
         /\ name = "read" => pair = "eof" /\ step[p] = MessageRead(p)
         /\ name = "shutdown" =>
              \/ pair = "line" /\ p = "client" /\ step[p] = 3
              \/ pair = "eof" /\ p = "client" /\ step[p] = 2
              \/ pair = "eof" /\ p = "server" /\ step[p] = 3
         /\ name = "close_notify" => pair = "tls" /\ p = "client" /\ step[p] = 5
         /\ name = "await_notify" => pair = "tls" /\ p = "client" /\ step[p] = 6
<1> USE Programs, SidesAre, CallFields DEF At, Data, MessageWrite, HelloWrite, MessageRead, HelloRead
<1>1. CASE pair = "line"
  <2>1. CASE p = "client"
    BY <1>1, <2>1, LineCalls
  <2>2. CASE p = "server"
    BY <1>1, <2>2, LineCalls
  <2> QED BY <2>1, <2>2
<1>2. CASE pair = "tls"
  <2>1. CASE p = "client"
    BY <1>2, <2>1, TlsCalls
  <2>2. CASE p = "server"
    BY <1>2, <2>2, TlsCalls
  <2> QED BY <2>1, <2>2
<1>3. CASE pair = "eof"
  <2>1. CASE p = "client"
    BY <1>3, <2>1, EofCalls
  <2>2. CASE p = "server"
    BY <1>3, <2>2, EofCalls
  <2> QED BY <2>1, <2>2
<1> QED BY <1>1, <1>2, <1>3

LEMMA Lengths ==
  ASSUME pair \in {"line", "tls", "eof"}
  PROVE  /\ Len(Program("client")) = IF pair = "tls" THEN 6 ELSE 3
         /\ Len(Program("server")) = IF pair = "tls" THEN 4 ELSE IF pair = "line" THEN 2 ELSE 3
BY Programs, LineCalls, TlsCalls, EofCalls

LEMMA MessageIs ==
  /\ MessageLength \in Nat \ {0}
  /\ \A p : Len(Message(p)) = MessageLength
  /\ \A p \in Sides : \A i \in 1..MessageLength :
       /\ Message(p)[i] = IF i < MessageLength THEN p ELSE "eol"
       /\ (Message(p)[i] = "eol") <=> i = MessageLength
<1>1. MessageLength \in Nat \ {0}
  BY BlockingExchangeAssumption
<1>2. \A p : Message(p) \in Seq({p, "eol"}) /\ DOMAIN Message(p) = 1..MessageLength
  BY <1>1 DEF Message
<1>3. \A p : Len(Message(p)) = MessageLength
  BY <1>1, <1>2
<1> QED BY <1>1, <1>3 DEF Message, Sides

\* Behind the handshake comes the message.
LEMMA PartOfMessage ==
  ASSUME NEW p, NEW i \in 1..MessageLength
  PROVE  Parts(p)[Hello + i] = Message(p)[i]
<1> DEFINE n == Hello + i
<1>1. /\ n \in 1..Hello + MessageLength + 1
      /\ ~(n <= Hello) /\ ~(n > Hello + MessageLength) /\ n - Hello = i
  BY MessageIs DEF Hello
<1> HIDE DEF n
<1>2. Parts(p)[n] = Message(p)[n - Hello]
  BY <1>1, Zenon DEF Parts
<1> QED BY <1>1, <1>2 DEF n

\* What Out, MessageWrite and the rest are numbers of.
LEMMA Numbers ==
  ASSUME TypeInv, NEW p \in Sides
  PROVE  /\ pair \in {"line", "tls", "eof"}
         /\ Peer(p) \in Sides /\ Peer(p) # p /\ Peer(Peer(p)) = p
         /\ Sides = {p, Peer(p)}
         /\ Hello \in {0, 1}
         /\ Out(p) \in Nat
         /\ Taken(p) \in Nat
         /\ Got(p) \in Nat /\ Len(wire[p]) \in Nat
<1>1. pair \in {"line", "tls", "eof"}
  BY BlockingExchangeAssumption DEF TypeInv
<1>2. Hello \in {0, 1}
  BY DEF Hello
<1>3. /\ Peer(p) \in Sides /\ Peer(p) # p /\ Peer(Peer(p)) = p
      /\ Sides = {p, Peer(p)}
  BY DEF Sides, Peer
<1>4. Out(p) \in Nat /\ Taken(p) \in Nat
  BY <1>2, MessageIs DEF TypeInv, Out, Taken
<1>5. Got(p) \in Nat /\ Len(wire[p]) \in Nat
  BY LenProperties DEF TypeInv, Got
<1> QED BY <1>1, <1>2, <1>3, <1>4, <1>5

-----------------------------------------------------------------------------
\* The invariant holds at the start.
LEMMA InitInv == Init => IInv
<1> SUFFICES ASSUME Init PROVE IInv
  OBVIOUS
<1>0. pair \in {"line", "tls", "eof"}
  BY BlockingExchangeAssumption DEF Init
<1>1. TypeInv
  <2>1. \A p \in Sides : step[p] <= Len(Program(p)) + 1
    BY <1>0, Lengths, SidesAre DEF Init
  <2>2. <<>> \in Seq(Texts)
    BY EmptySeq
  <2>3. received \in [Sides -> Seq(Texts)] /\ wire \in [Sides -> Seq(Texts)]
    BY <2>2 DEF Init
  <2>4. reset \in BOOLEAN /\ disturbed \in BOOLEAN /\ eof \in [Sides -> BOOLEAN]
    BY DEF Init
  <2>5. step \in [Sides -> Nat \ {0}] /\ written \in [Sides -> Nat]
        /\ result \in [Sides -> {"running", "done", "failed", "killed"}] /\ pair \in Pairs
    BY DEF Init
  <2> QED BY <2>1, <2>3, <2>4, <2>5 DEF TypeInv
<1>2. QuietInv
  BY DEF QuietInv, Init
<1>3. ASSUME NEW p \in Sides PROVE SideInv(p)
  <2>1. step[p] = 1 /\ written[p] = 0 /\ received[p] = <<>> /\ wire[p] = <<>>
    BY DEF Init
  <2>2. result[p] = "running" /\ ~eof[Peer(p)] /\ written[Peer(p)] = 0 /\ step[Peer(p)] = 1
    BY SidesAre DEF Init
  <2>3. Got(p) = 0 /\ Len(wire[p]) = 0 /\ All(p) = 0
    BY <2>1 DEF Got, All
  <2>4. Out(Peer(p)) = 0 /\ Taken(p) = 0 /\ MessageRead(p) \in Nat \ {0}
    BY <1>0, <2>1, <2>2, SidesAre DEF Out, Taken, MessageRead, MessageWrite, HelloRead, HelloWrite, Hello
  <2>5. WrittenInv(p)
    BY <2>1, MessageIs DEF WrittenInv
  <2>6. StreamInv(p)
    BY <2>3, <2>4 DEF StreamInv
  <2>7. ReceivedInv(p)
    BY <2>1, <2>3, <2>4, MessageIs DEF ReceivedInv, Hello
  <2>8. ClosedInv(p)
    BY <2>1, <2>2, SidesAre DEF ClosedInv, Ended
  <2> QED BY <2>5, <2>6, <2>7, <2>8 DEF SideInv
<1> QED BY <1>1, <1>2, <1>3 DEF IInv

-----------------------------------------------------------------------------
(***************************************************************************)
(* What a step does to the streams.                                        *)
(***************************************************************************)

\* A part that goes out in its turn keeps both streams in order.
LEMMA PutKeepsStreams ==
  ASSUME IInv, NEW p \in Sides,
         Out(p) <= Hello + MessageLength,
         Puts(p, Parts(p)[Out(p) + 1]),
         UNCHANGED <<pair, received, result>>,
         Out(p)' = Out(p) + 1,
         Out(Peer(p))' = Out(Peer(p))
  PROVE  /\ StreamInv(p)' /\ StreamInv(Peer(p))'
         /\ wire' \in [Sides -> Seq(Texts)] /\ reset' \in BOOLEAN /\ (reset => reset')
         /\ wire'[p] = wire[p]
         /\ result[Peer(p)] # "running" => wire'[Peer(p)] = wire[Peer(p)]
<1> DEFINE q == Peer(p)
           part == Parts(p)[Out(p) + 1]
<1>1. /\ TypeInv /\ StreamInv(p) /\ StreamInv(q) /\ q \in Sides /\ p # q /\ Peer(q) = p
      /\ Out(p) \in Nat /\ Out(q) \in Nat /\ Got(p) \in Nat /\ Got(q) \in Nat
      /\ Len(wire[p]) \in Nat /\ Len(wire[q]) \in Nat /\ Sides = {p, q}
  BY Numbers DEF IInv, SideInv
<1>2. part \in Texts
  <2>1. Hello \in {0, 1} /\ MessageLength \in Nat
    BY Numbers, MessageIs DEF IInv
  <2>2. CASE Out(p) + 1 <= Hello \/ Out(p) + 1 > Hello + MessageLength
    BY <2>2, <1>1, <2>1 DEF Parts, Texts
  <2>3. CASE Hello < Out(p) + 1 /\ Out(p) + 1 <= Hello + MessageLength
    <3>0. Out(p) + 1 - Hello \in 1..MessageLength /\ Hello + (Out(p) + 1 - Hello) = Out(p) + 1
      BY <1>1, <2>1, <2>3
    <3>1. part = Message(p)[Out(p) + 1 - Hello]
      BY <3>0, PartOfMessage
    <3>2. part \in {p, "eol"}
      BY <3>0, <3>1, MessageIs
    <3> QED BY <3>2, SidesAre DEF Texts
  <2> QED BY <1>1, <2>1, <2>2, <2>3
<1>3. Got(p)' = Got(p) /\ Got(q)' = Got(q)
  BY DEF Got
<1>4. ASSUME NEW s \in Sides PROVE Parts(s)' = Parts(s)
  BY DEF Parts, Hello, Message
<1>5. CASE result[q] = "running" /\ ~reset
  <2>1. wire' = [wire EXCEPT ![q] = Append(@, part)] /\ reset' = reset
    BY <1>5 DEF Puts
  <2> HIDE DEF q, part
  <2>2. wire'[p] = wire[p] /\ wire'[q] = Append(wire[q], part) /\ wire[q] \in Seq(Texts)
    BY <1>1, <2>1 DEF TypeInv
  <2>3. /\ Len(wire'[q]) = Len(wire[q]) + 1 /\ wire'[q] \in Seq(Texts)
        /\ \A i \in 1..Len(wire[q]) : wire'[q][i] = wire[q][i]
        /\ wire'[q][Len(wire[q]) + 1] = part
    BY <1>1, <1>2, <2>2, AppendProperties
  <2>4. wire' \in [Sides -> Seq(Texts)]
    BY <1>1, <2>1, <2>2, <2>3 DEF TypeInv
  <2>5. StreamInv(p)'
    BY <1>1, <1>3, <1>4, <2>1, <2>2 DEF StreamInv, All, q
  <2>6. All(q) = Out(p)
    BY <1>1, <1>5 DEF StreamInv
  <2>7. All(q)' = Out(p)'
    BY <1>1, <1>3, <2>3, <2>6 DEF All, q
  <2>8. \A i \in 1..Len(wire'[q]) : wire'[q][i] = Parts(p)[Got(q) + i]
    <3> TAKE i \in 1..Len(wire'[q])
    <3>1. CASE i <= Len(wire[q])
      BY <3>1, <2>3, <1>1 DEF StreamInv
    <3>2. CASE i = Len(wire[q]) + 1
      BY <3>2, <2>3, <2>6, <1>1 DEF All, part
    <3> QED BY <3>1, <3>2, <2>3, <1>1
  <2>9. StreamInv(q)'
    <3>1. Peer(q) = p /\ Peer(q)' = p /\ Out(Peer(q))' = Out(p)' /\ Out(p)' \in Nat
      BY <1>1
    <3>2. \A i \in 1..Got(q)' : received'[q][i] = Parts(Peer(q))'[i]
      BY <1>1, <1>3, <1>4 DEF StreamInv
    <3>3. \A i \in 1..Len(wire'[q]) : wire'[q][i] = Parts(Peer(q))'[Got(q)' + i]
      BY <1>1, <1>3, <1>4, <2>8
    <3> QED BY <1>3, <2>7, <3>1, <3>2, <3>3 DEF StreamInv
  <2> QED BY <1>1, <1>5, <2>1, <2>2, <2>4, <2>5, <2>9 DEF q, TypeInv
<1>6. CASE ~(result[q] = "running" /\ ~reset)
  <2>1. wire' = wire /\ reset'
    BY <1>6 DEF Puts
  <2>2. StreamInv(p)' /\ StreamInv(q)'
    BY <1>1, <1>3, <1>4, <2>1 DEF StreamInv, All
  <2> QED BY <1>1, <1>6, <2>1, <2>2 DEF TypeInv, Puts
<1> QED BY <1>5, <1>6

\* So does a part that is read.
LEMMA TakeKeepsStreams ==
  ASSUME IInv, NEW p \in Sides, Takes(p),
         Out(p)' = Out(p),
         Out(Peer(p))' = Out(Peer(p))
  PROVE  /\ StreamInv(p)' /\ StreamInv(Peer(p))'
         /\ wire' \in [Sides -> Seq(Texts)] /\ received' \in [Sides -> Seq(Texts)]
         /\ Got(p)' = Got(p) + 1 /\ Got(p) + 1 <= Out(Peer(p))
         /\ Head(wire[p]) = Parts(Peer(p))[Got(p) + 1]
         /\ Got(Peer(p))' = Got(Peer(p))
         /\ \A r \in Sides : wire[r] = <<>> => wire'[r] = <<>>
<1> DEFINE q == Peer(p)
<1>1. /\ TypeInv /\ StreamInv(p) /\ StreamInv(q) /\ q \in Sides /\ p # q /\ Peer(q) = p
      /\ Out(p) \in Nat /\ Out(q) \in Nat /\ Got(p) \in Nat /\ Got(q) \in Nat
      /\ Len(wire[p]) \in Nat /\ Len(wire[q]) \in Nat /\ Sides = {p, q}
      /\ wire[p] \in Seq(Texts) /\ received[p] \in Seq(Texts)
  BY Numbers DEF IInv, SideInv, TypeInv
<1>2. /\ wire[p] # <<>>
      /\ received' = [received EXCEPT ![p] = Append(@, Head(wire[p]))]
      /\ wire' = [wire EXCEPT ![p] = Tail(@)]
      /\ UNCHANGED <<pair, reset, result>>
  BY DEF Takes
<1> HIDE DEF q
<1>3. /\ Head(wire[p]) \in Texts /\ Tail(wire[p]) \in Seq(Texts)
      /\ Len(Tail(wire[p])) = Len(wire[p]) - 1
      /\ \A i \in 1..Len(Tail(wire[p])) : Tail(wire[p])[i] = wire[p][i + 1]
      /\ Len(wire[p]) >= 1 /\ Head(wire[p]) = wire[p][1]
  <2>1. Len(wire[p]) >= 1 /\ Head(wire[p]) = wire[p][1]
    BY <1>1, <1>2, EmptySeq
  <2> QED BY <1>1, <1>2, <2>1, HeadTailProperties
<1>4. /\ received'[p] = Append(received[p], Head(wire[p])) /\ received'[q] = received[q]
      /\ wire'[p] = Tail(wire[p]) /\ wire'[q] = wire[q]
  BY <1>1, <1>2 DEF TypeInv
<1>5. /\ received'[p] \in Seq(Texts)
      /\ Got(p)' = Got(p) + 1
      /\ \A i \in 1..Got(p) : received'[p][i] = received[p][i]
      /\ received'[p][Got(p) + 1] = Head(wire[p])
  BY <1>1, <1>3, <1>4, AppendProperties DEF Got
<1>6. ASSUME NEW s \in Sides PROVE Parts(s)' = Parts(s)
  BY <1>2 DEF Parts, Hello, Message
<1>7. Head(wire[p]) = Parts(q)[Got(p) + 1]
  BY <1>1, <1>3 DEF StreamInv, q
<1>8. wire' \in [Sides -> Seq(Texts)] /\ received' \in [Sides -> Seq(Texts)]
  BY <1>1, <1>2, <1>3, <1>5 DEF TypeInv
<1>9. Got(q)' = Got(q) /\ StreamInv(q)'
  <2>1. Got(q)' = Got(q) /\ All(q)' = All(q) /\ Out(Peer(q))' = Out(Peer(q))
    BY <1>1, <1>4 DEF Got, All
  <2> QED BY <1>1, <1>2, <1>4, <1>6, <2>1 DEF StreamInv
<1>10. StreamInv(p)'
  <2>0. All(p)' = All(p) /\ Got(p) + 1 <= All(p)
    BY <1>1, <1>3, <1>4, <1>5 DEF All
  <2>1. Out(Peer(p))' = Out(Peer(p))
    OBVIOUS
  <2>2. \A i \in 1..Got(p)' : received'[p][i] = Parts(Peer(p))'[i]
    <3> TAKE i \in 1..Got(p)'
    <3>1. CASE i <= Got(p)
      BY <3>1, <1>1, <1>5, <1>6 DEF StreamInv, q
    <3>2. CASE i = Got(p) + 1
      BY <3>2, <1>1, <1>5, <1>6, <1>7 DEF q
    <3> QED BY <3>1, <3>2, <1>1, <1>5
  <2>3. \A i \in 1..Len(wire'[p]) : wire'[p][i] = Parts(Peer(p))'[Got(p)' + i]
    <3> TAKE i \in 1..Len(wire'[p])
    <3>1. wire'[p][i] = wire[p][i + 1] /\ i + 1 \in 1..Len(wire[p])
      BY <1>1, <1>3, <1>4
    <3>2. wire[p][i + 1] = Parts(q)[Got(p) + (i + 1)]
      BY <1>1, <3>1 DEF StreamInv, q
    <3>3. Got(p) + (i + 1) = Got(p)' + i
      BY <1>1, <1>3, <1>4, <1>5
    <3> QED BY <1>1, <1>6, <3>1, <3>2, <3>3 DEF q
  <2> QED BY <1>1, <1>2, <2>0, <2>1, <2>2, <2>3 DEF StreamInv
<1>11. Got(p) + 1 <= Out(q)
  BY <1>1, <1>3 DEF StreamInv, All, q
<1>12. \A r \in Sides : wire[r] = <<>> => wire'[r] = <<>>
  BY <1>1, <1>2, <1>4
<1> QED BY <1>5, <1>7, <1>8, <1>9, <1>10, <1>11, <1>12 DEF q

-----------------------------------------------------------------------------
(***************************************************************************)
(* The steps that write.                                                   *)
(***************************************************************************)

\* Where a program is that writes, and where the write leaves it.
LEMMA WriteIsNext ==
  ASSUME IInv, NEW p \in Sides, WriteSome(p)
  PROVE  /\ Data(p)[written[p] + 1] = Parts(p)[Out(p) + 1]
         /\ Out(p)' = Out(p) + 1
         /\ Out(Peer(p))' = Out(Peer(p))
         /\ Out(p) < Hello + MessageLength
         /\ step' \in [Sides -> Nat \ {0}] /\ written' \in [Sides -> Nat]
         /\ step'[Peer(p)] = step[Peer(p)] /\ written'[Peer(p)] = written[Peer(p)]
         /\ WrittenInv(p)'
         /\ step'[p] = step[p] \/ step'[p] = step[p] + 1
         /\ step[p] \in {HelloWrite(p), MessageWrite(p)}
         /\ step[p] = HelloWrite(p) => pair = "tls" \/ HelloWrite(p) = MessageWrite(p)
         /\ step[p] <= Len(Program(p))
<1> DEFINE q == Peer(p)
<1>1. /\ TypeInv /\ WrittenInv(p) /\ q \in Sides /\ p # q /\ Peer(q) = p /\ Sides = {p, q}
      /\ pair \in {"line", "tls", "eof"} /\ Hello \in {0, 1}
      /\ step[p] \in Nat \ {0} /\ written[p] \in Nat
  BY Numbers DEF IInv, SideInv, TypeInv
<1>2. /\ At(p, "write") /\ UNCHANGED pair
      /\ IF written[p] + 1 = Len(Data(p))
         THEN Advance(p) /\ written' = [written EXCEPT ![p] = 0]
         ELSE written' = [written EXCEPT ![p] = @ + 1] /\ UNCHANGED step
  BY DEF WriteSome
<1>3. \/ step[p] = MessageWrite(p) /\ Data(p) = Message(p)
      \/ pair = "tls" /\ step[p] = HelloWrite(p) /\ Data(p) = <<"hello">>
  BY <1>1, <1>2, Calls
<1>4. /\ HelloWrite(p) \in {1, 2} /\ MessageWrite(p) \in HelloWrite(p)..4
      /\ pair = "tls" <=> HelloWrite(p) < MessageWrite(p)
      /\ pair = "tls" <=> Hello = 1
      /\ ~(step[p] > 5 /\ p = "client")
  BY <1>1, <1>3 DEF HelloWrite, MessageWrite, Hello, Sides
<1>5. /\ step' \in [Sides -> Nat \ {0}] /\ written' \in [Sides -> Nat]
      /\ step'[q] = step[q] /\ written'[q] = written[q]
      /\ step'[p] = step[p] \/ step'[p] = step[p] + 1
  BY <1>1, <1>2 DEF Advance, TypeInv
<1>6. Out(q)' = Out(q)
  BY <1>2, <1>5 DEF Out, Hello, MessageWrite, HelloWrite
<1>7. MessageLength \in Nat \ {0} /\ written[p] < MessageLength /\ written[p] + 1 \in 1..MessageLength
  BY <1>1, MessageIs DEF WrittenInv
<1>8. /\ MessageWrite(p)' = MessageWrite(p) /\ HelloWrite(p)' = HelloWrite(p) /\ Hello' = Hello
  BY <1>2 DEF MessageWrite, HelloWrite, Hello
<1>9. CASE step[p] = MessageWrite(p) /\ Data(p) = Message(p)
  <2>1. Out(p) = written[p] + Hello
    BY <1>1, <1>4, <1>9 DEF Out
  <2>2. Parts(p)[Out(p) + 1] = Message(p)[written[p] + 1]
    <3>1. Out(p) + 1 = Hello + (written[p] + 1)
      BY <1>1, <1>7, <2>1
    <3> QED BY <1>7, <3>1, PartOfMessage
  <2>3. Out(p)' = Out(p) + 1 /\ WrittenInv(p)'
    <3>1. CASE written[p] + 1 = MessageLength
      <4>1. step'[p] = step[p] + 1 /\ written'[p] = 0
        BY <1>1, <1>2, <1>9, <3>1, MessageIs DEF Advance, TypeInv
      <4>2. Out(p)' = Hello + MessageLength
        BY <1>1, <1>4, <1>7, <1>8, <1>9, <4>1 DEF Out, Sides
      <4> QED BY <1>1, <1>7, <2>1, <3>1, <4>1, <4>2 DEF WrittenInv
    <3>2. CASE written[p] + 1 # MessageLength
      <4>1. step'[p] = step[p] /\ written'[p] = written[p] + 1
        BY <1>1, <1>2, <1>9, <3>2, MessageIs DEF Advance, TypeInv
      <4>2. Out(p)' = written[p] + 1 + Hello
        BY <1>1, <1>4, <1>7, <1>8, <1>9, <4>1 DEF Out
      <4> QED BY <1>1, <1>7, <1>8, <1>9, <2>1, <3>2, <4>1, <4>2 DEF WrittenInv
    <3> QED BY <3>1, <3>2
  <2> QED BY <1>1, <1>2, <1>4, <1>5, <1>6, <1>7, <1>9, <2>1, <2>2, <2>3 DEF At
<1>10. CASE pair = "tls" /\ step[p] = HelloWrite(p) /\ Data(p) = <<"hello">>
  <2>1. written[p] = 0 /\ Hello = 1 /\ step[p] # MessageWrite(p) /\ Len(<<"hello">>) = 1
    BY <1>1, <1>4, <1>10 DEF WrittenInv
  <2>2. Out(p) = 0
    BY <1>1, <1>4, <1>10, <2>1 DEF Out
  <2>3. Parts(p)[1] = "hello"
    BY <2>1, <1>7 DEF Parts
  <2>4. step'[p] = step[p] + 1 /\ written'[p] = 0
    BY <1>1, <1>2, <1>10, <2>1 DEF Advance, TypeInv
  <2>5. Out(p)' = 1
    BY <1>1, <1>4, <1>8, <1>10, <2>1, <2>4 DEF Out
  <2>6. WrittenInv(p)'
    BY <1>7, <2>4 DEF WrittenInv
  <2> QED BY <1>1, <1>2, <1>4, <1>5, <1>6, <1>7, <1>10, <2>1, <2>2, <2>3, <2>4, <2>5, <2>6 DEF At
<1> QED BY <1>3, <1>9, <1>10

\* The places of each program, from its first call to behind its last.
LEMMA Places ==
  ASSUME pair \in {"line", "tls", "eof"}, NEW p \in Sides
  PROVE  /\ HelloRead(p) \in 1..2 /\ HelloWrite(p) \in 1..2
         /\ MessageRead(p) \in 1..4 /\ MessageWrite(p) \in 1..4
         /\ HelloRead(p) # HelloWrite(p) /\ MessageRead(p) # MessageWrite(p)
         /\ Len(Program(p)) \in 2..6
         /\ MessageRead(p) < Len(Program(p)) + 1 /\ MessageWrite(p) < Len(Program(p)) + 1
         /\ pair = "tls" => HelloRead(p) < MessageRead(p) /\ HelloWrite(p) < MessageWrite(p)
                            /\ HelloRead(p) < MessageWrite(p) /\ HelloWrite(p) < MessageRead(p)
                            /\ HelloRead(p) + HelloWrite(p) = 3
                            /\ MessageRead(p) + MessageWrite(p) = 7
         /\ pair # "tls" => Hello = 0 /\ HelloWrite(p) = MessageWrite(p)
         /\ pair = "tls" => Hello = 1
<1>1. CASE p = "client"
  <2>1. CASE pair = "line"
    <3>1. HelloRead(p) = 2 /\ HelloWrite(p) = 1 /\ MessageRead(p) = 2 /\ MessageWrite(p) = 1
          /\ Hello = 0 /\ Len(Program(p)) = 3
      BY <1>1, <2>1, Lengths DEF HelloRead, HelloWrite, MessageRead, MessageWrite, Hello
    <3> QED BY <2>1, <3>1
  <2>2. CASE pair = "tls"
    <3>1. HelloRead(p) = 2 /\ HelloWrite(p) = 1 /\ MessageRead(p) = 4 /\ MessageWrite(p) = 3
          /\ Hello = 1 /\ Len(Program(p)) = 6
      BY <1>1, <2>2, Lengths DEF HelloRead, HelloWrite, MessageRead, MessageWrite, Hello
    <3> QED BY <2>2, <3>1
  <2>3. CASE pair = "eof"
    <3>1. HelloRead(p) = 2 /\ HelloWrite(p) = 1 /\ MessageRead(p) = 3 /\ MessageWrite(p) = 1
          /\ Hello = 0 /\ Len(Program(p)) = 3
      BY <1>1, <2>3, Lengths DEF HelloRead, HelloWrite, MessageRead, MessageWrite, Hello
    <3> QED BY <2>3, <3>1
  <2> QED BY <2>1, <2>2, <2>3
<1>2. CASE p = "server"
  <2>1. CASE pair = "line"
    <3>1. HelloRead(p) = 1 /\ HelloWrite(p) = 2 /\ MessageRead(p) = 1 /\ MessageWrite(p) = 2
          /\ Hello = 0 /\ Len(Program(p)) = 2
      BY <1>2, <2>1, Lengths DEF HelloRead, HelloWrite, MessageRead, MessageWrite, Hello
    <3> QED BY <2>1, <3>1
  <2>2. CASE pair = "tls"
    <3>1. HelloRead(p) = 1 /\ HelloWrite(p) = 2 /\ MessageRead(p) = 3 /\ MessageWrite(p) = 4
          /\ Hello = 1 /\ Len(Program(p)) = 4
      BY <1>2, <2>2, Lengths DEF HelloRead, HelloWrite, MessageRead, MessageWrite, Hello
    <3> QED BY <2>2, <3>1
  <2>3. CASE pair = "eof"
    <3>1. HelloRead(p) = 1 /\ HelloWrite(p) = 2 /\ MessageRead(p) = 1 /\ MessageWrite(p) = 2
          /\ Hello = 0 /\ Len(Program(p)) = 3
      BY <1>2, <2>3, Lengths DEF HelloRead, HelloWrite, MessageRead, MessageWrite, Hello
    <3> QED BY <2>3, <3>1
  <2> QED BY <2>1, <2>2, <2>3
<1> QED BY <1>1, <1>2 DEF Sides

\* Who is done has read.
LEMMA DoneHasRead ==
  ASSUME IInv, NEW p \in Sides, result[p] = "done", result[Peer(p)] # "killed"
  PROVE  Got(p) = Hello + MessageLength
<1>1. step[p] > MessageRead(p)
  BY Numbers, Places DEF IInv, SideInv, ClosedInv
<1> QED BY <1>1 DEF IInv, SideInv, ReceivedInv

\* The programs do not change.
LEMMA SamePrograms ==
  ASSUME pair' = pair, NEW p
  PROVE  /\ Program(p)' = Program(p) /\ Hello' = Hello
         /\ HelloRead(p)' = HelloRead(p) /\ MessageRead(p)' = MessageRead(p)
         /\ HelloWrite(p)' = HelloWrite(p) /\ MessageWrite(p)' = MessageWrite(p)
<1>1. Program(p)' = Program(p)
  BY Zenon DEF Program
<1> QED BY <1>1 DEF Hello, HelloRead, MessageRead, HelloWrite, MessageWrite

\* A step that reads nothing, and is not the end of a read, leaves what has been
\* received in its relation to the place that was reached.
LEMMA KeepsReceived ==
  ASSUME IInv, NEW p \in Sides, pair' = pair, Got(p)' = Got(p),
         result[Peer(p)] = "killed" => result'[Peer(p)] = "killed",
         \/ step'[p] = step[p]
         \/ /\ step'[p] = step[p] + 1
            /\ step[p] # MessageRead(p)
            /\ pair = "tls" => step[p] # HelloRead(p)
  PROVE  ReceivedInv(p)'
<1>0. TypeInv /\ ReceivedInv(p)
  BY DEF IInv, SideInv
<1>1. /\ step[p] \in Nat /\ Got(p) \in Nat /\ ReceivedInv(p) /\ Hello \in Nat
      /\ pair \in {"line", "tls", "eof"} /\ MessageLength \in Nat \ {0}
  <2>1. step[p] \in Nat
    BY <1>0 DEF TypeInv
  <2> QED BY <1>0, <2>1, Numbers, MessageIs
<1>2. /\ HelloRead(p) \in Nat /\ MessageRead(p) \in Nat
      /\ pair = "tls" => HelloRead(p) < MessageRead(p)
      /\ pair # "tls" => Hello = 0
  BY <1>1, Places
<1>3. /\ MessageRead(p)' = MessageRead(p) /\ HelloRead(p)' = HelloRead(p) /\ Hello' = Hello
  BY SamePrograms
<1>4. CASE step'[p] = step[p]
  <2>1. Taken(p)' = Taken(p)
    BY <1>3, <1>4 DEF Taken
  <2> QED BY <1>1, <1>3, <1>4, <2>1 DEF ReceivedInv
<1>5. CASE /\ step'[p] = step[p] + 1
           /\ step[p] # MessageRead(p)
           /\ pair = "tls" => step[p] # HelloRead(p)
  <2>1. CASE step[p] < MessageRead(p)
    <3>1. step'[p] <= MessageRead(p)
      BY <1>1, <1>2, <1>5, <2>1
    <3>2. CASE pair = "tls"
      <4>1. step'[p] > HelloRead(p) <=> step[p] > HelloRead(p)
        BY <1>1, <1>2, <1>5, <3>2
      <4>2. Taken(p)' = Taken(p) /\ Taken(p) \in {0, Hello}
        BY <1>1, <1>2, <1>3, <2>1, <3>1, <4>1 DEF Taken
      <4> QED BY <1>1, <1>2, <1>3, <2>1, <3>1, <4>2, <1>5 DEF ReceivedInv
    <3>3. CASE pair # "tls"
      <4>1. Taken(p)' = 0 /\ Taken(p) = 0
        BY <1>1, <1>2, <1>3, <1>5, <2>1, <3>1, <3>3 DEF Taken
      <4> QED BY <1>1, <1>2, <1>3, <2>1, <3>1, <4>1, <1>5 DEF ReceivedInv
    <3> QED BY <3>2, <3>3
  <2>2. CASE step[p] > MessageRead(p)
    <3>1. step'[p] > MessageRead(p)
      BY <1>1, <1>2, <1>5, <2>2
    <3> QED BY <1>1, <1>2, <1>3, <2>2, <3>1 DEF ReceivedInv
  <2> QED BY <1>1, <1>2, <1>5, <2>1, <2>2
<1> QED BY <1>4, <1>5

LEMMA WritePreserves ==
  ASSUME IInv, NEW p \in Sides, WriteSome(p)
  PROVE  IInv'
<1> DEFINE q == Peer(p)
<1>1. /\ TypeInv /\ SideInv(p) /\ SideInv(q) /\ QuietInv
      /\ q \in Sides /\ p # q /\ Peer(q) = p /\ Sides = {p, q}
      /\ pair \in {"line", "tls", "eof"}
      /\ Got(p) \in Nat /\ Got(q) \in Nat /\ Len(wire[q]) \in Nat
      /\ MessageLength \in Nat \ {0}
  BY Numbers, MessageIs DEF IInv
<1>2. /\ result[p] = "running"
      /\ Puts(p, Data(p)[written[p] + 1])
      /\ UNCHANGED <<pair, received, result, disturbed, eof>>
  BY DEF WriteSome, At, Puts
<1>3. /\ Out(p)' = Out(p) + 1
      /\ Out(q)' = Out(q)
      /\ Out(p) < Hello + MessageLength
      /\ step' \in [Sides -> Nat \ {0}] /\ written' \in [Sides -> Nat]
      /\ step'[q] = step[q] /\ written'[q] = written[q]
      /\ WrittenInv(p)'
      /\ step'[p] = step[p] \/ step'[p] = step[p] + 1
      /\ step[p] \in {HelloWrite(p), MessageWrite(p)}
      /\ step[p] <= Len(Program(p))
      /\ Puts(p, Parts(p)[Out(p) + 1])
  BY <1>2, WriteIsNext
<1>n. /\ step[p] \in Nat \ {0} /\ step[q] \in Nat \ {0}
      /\ step[p] <= Len(Program(p)) + 1 /\ step[q] <= Len(Program(q)) + 1
  BY <1>1 DEF TypeInv
<1>m. /\ HelloRead(p) # HelloWrite(p) /\ MessageRead(p) # MessageWrite(p)
      /\ Len(Program(p)) \in 2..6 /\ Len(Program(q)) \in 2..6
      /\ pair = "tls" => HelloWrite(p) # MessageRead(p) /\ HelloRead(p) # MessageWrite(p)
      /\ pair # "tls" => HelloWrite(p) = MessageWrite(p)
  BY <1>1, Places
<1>4. /\ StreamInv(p)' /\ StreamInv(q)'
      /\ wire' \in [Sides -> Seq(Texts)] /\ reset' \in BOOLEAN /\ (reset => reset')
      /\ wire'[p] = wire[p]
      /\ result[q] # "running" => wire'[q] = wire[q]
  <2>1. Out(p) \in Nat /\ Hello \in Nat
    BY Numbers DEF IInv
  <2> QED BY <1>1, <1>2, <1>3, <2>1, PutKeepsStreams
<1>5. TypeInv'
  <2>1. \A r \in Sides : step'[r] <= Len(Program(r)') + 1
    <3>1. Program(p)' = Program(p) /\ Program(q)' = Program(q)
      BY <1>2, SamePrograms
    <3>2. step'[p] <= Len(Program(p)) + 1 /\ step'[q] <= Len(Program(q)) + 1
      BY <1>3, <1>n, <1>m
    <3> QED BY <1>1, <3>1, <3>2
  <2> QED BY <1>1, <1>2, <1>3, <1>4, <2>1 DEF TypeInv
<1>6. ReceivedInv(p)' /\ ReceivedInv(q)'
  <2>1. Got(p)' = Got(p) /\ Got(q)' = Got(q)
    BY <1>2 DEF Got
  <2>2. step[p] # MessageRead(p) /\ (pair = "tls" => step[p] # HelloRead(p))
    BY <1>3, <1>m
  <2> QED BY <1>1, <1>2, <1>3, <2>1, <2>2, KeepsReceived
<1>7. ClosedInv(p)' /\ ClosedInv(q)'
  <2>1. Ended(p)' <=> Ended(p)
    BY <1>1, <1>2, <1>3 DEF Ended, HelloWrite, MessageWrite, Sides
  <2>2. Ended(q)' <=> Ended(q)
    BY <1>1, <1>2, <1>3 DEF Ended
  <2>3. Program(q)' = Program(q)
    BY <1>2, SamePrograms
  <2> QED BY <1>1, <1>2, <1>3, <1>4, <2>1, <2>2, <2>3 DEF ClosedInv, SideInv
<1>8. WrittenInv(q)'
  BY <1>1, <1>2, <1>3, SamePrograms DEF WrittenInv, SideInv
<1>9. QuietInv'
  <2> SUFFICES ASSUME ~disturbed PROVE QuietInv'
    BY <1>2 DEF QuietInv
  <2>1. ~reset
    <3> SUFFICES ASSUME reset PROVE FALSE
      OBVIOUS
    <3>1. step["client"] > 5 /\ result["server"] = "done"
      BY <1>1 DEF QuietInv
    <3>2. p = "client"
      BY <1>2, <3>1 DEF Sides
    <3>3. step[p] \in 1..4
      BY <1>1, <1>3, Places
    <3> QED BY <3>1, <3>2, <3>3
  <2>2. result[q] = "running"
    <3>1. result[q] # "done"
      <4> SUFFICES ASSUME result[q] = "done" PROVE FALSE
        OBVIOUS
      <4>1. Got(q) = Hello + MessageLength
        BY <1>1, <1>2, DoneHasRead
      <4>2. Got(q) <= Out(p) /\ Out(p) \in Nat /\ Hello \in Nat
        BY <1>1, Numbers DEF SideInv, StreamInv, All
      <4> QED BY <1>1, <1>3, <4>1, <4>2
    <3> QED BY <1>1, <3>1 DEF QuietInv
  <2>3. ~reset'
    BY <1>2, <2>1, <2>2 DEF Puts
  <2> QED BY <1>1, <1>2, <2>3 DEF QuietInv
<1> QED BY <1>1, <1>3, <1>4, <1>5, <1>6, <1>7, <1>8, <1>9 DEF IInv, SideInv

-----------------------------------------------------------------------------
(***************************************************************************)
(* The other steps.                                                        *)
(***************************************************************************)

\* Behind its last write, and before it, a program puts nothing out.
LEMMA KeepsOut ==
  ASSUME IInv, NEW p \in Sides, pair' = pair, written'[p] = written[p],
         \/ step'[p] = step[p]
         \/ /\ step'[p] = step[p] + 1
            /\ step[p] # MessageWrite(p)
            /\ pair = "tls" => step[p] # HelloWrite(p)
            /\ ~(p = "client" /\ step[p] = 5)
  PROVE  Out(p)' = Out(p)
<1>0. TypeInv
  BY DEF IInv
<1>1. step[p] \in Nat /\ pair \in {"line", "tls", "eof"}
  <2>1. step[p] \in Nat
    BY <1>0 DEF TypeInv
  <2> QED BY <1>0, <2>1, Numbers
<1>2. /\ HelloWrite(p) \in Nat /\ MessageWrite(p) \in Nat
      /\ pair # "tls" => Hello = 0
  BY <1>1, Places
<1>3. /\ MessageWrite(p)' = MessageWrite(p) /\ HelloWrite(p)' = HelloWrite(p) /\ Hello' = Hello
  BY SamePrograms
<1>4. CASE step'[p] = step[p]
  BY <1>3, <1>4 DEF Out
<1>5. CASE /\ step'[p] = step[p] + 1
           /\ step[p] # MessageWrite(p)
           /\ pair = "tls" => step[p] # HelloWrite(p)
           /\ ~(p = "client" /\ step[p] = 5)
  <2>1. /\ step'[p] > MessageWrite(p) <=> step[p] > MessageWrite(p)
        /\ step'[p] > 5 /\ p = "client" <=> step[p] > 5 /\ p = "client"
    BY <1>1, <1>2, <1>5
  <2>2. CASE pair = "tls"
    <3>1. step'[p] > HelloWrite(p) <=> step[p] > HelloWrite(p)
      BY <1>1, <1>2, <1>5, <2>2
    <3> QED BY <1>3, <2>1, <3>1 DEF Out
  <2>3. CASE pair # "tls"
    BY <1>2, <1>3, <2>1, <2>3 DEF Out
  <2> QED BY <2>2, <2>3
<1> QED BY <1>4, <1>5

\* A step that moves no part keeps the stream in order, and so does the end of
\* its reader.
LEMMA KeepsStream ==
  ASSUME IInv, NEW p \in Sides, pair' = pair, received'[p] = received[p],
         Out(Peer(p))' = Out(Peer(p)),
         reset => reset',
         result'[p] = "running" => result[p] = "running" /\ wire'[p] = wire[p],
         wire'[p] = wire[p] \/ wire'[p] = <<>>
  PROVE  StreamInv(p)'
<1>1. StreamInv(p) /\ TypeInv
  BY DEF IInv, SideInv
<1>2. Got(p)' = Got(p) /\ Got(p) \in Nat /\ Len(wire[p]) \in Nat /\ Out(Peer(p)) \in Nat
      /\ Peer(p) \in Sides
  <2>1. Got(p)' = Got(p)
    BY DEF Got
  <2> QED BY <1>1, <2>1, Numbers
<1>3. Parts(Peer(p))' = Parts(Peer(p))
  BY DEF Parts, Hello, Message
<1>4. CASE wire'[p] = wire[p]
  <2>1. All(p)' = All(p)
    BY <1>2, <1>4 DEF All
  <2> QED BY <1>1, <1>2, <1>3, <1>4, <2>1 DEF StreamInv
<1>5. CASE wire'[p] = <<>>
  <2>1. Len(wire'[p]) = 0 /\ All(p)' = Got(p) /\ Got(p) <= All(p) /\ All(p) \in Nat
    BY <1>2, <1>5 DEF All
  <2>2. result'[p] = "running" /\ ~reset' => All(p)' = Out(Peer(p))'
    <3>1. SUFFICES ASSUME result'[p] = "running", ~reset' PROVE All(p)' = Out(Peer(p))'
      OBVIOUS
    <3>2. wire'[p] = wire[p] /\ All(p) = Out(Peer(p))
      BY <1>1, <3>1 DEF StreamInv
    <3>3. All(p)' = All(p)
      BY <1>2, <3>2 DEF All
    <3> QED BY <3>2, <3>3
  <2> QED BY <1>1, <1>2, <1>3, <2>1, <2>2 DEF StreamInv
<1> QED BY <1>4, <1>5

\* What is known wherever a step of p starts.
LEMMA Known ==
  ASSUME IInv, NEW p \in Sides
  PROVE  /\ TypeInv /\ QuietInv /\ SideInv(p) /\ SideInv(Peer(p))
         /\ Peer(p) \in Sides /\ p # Peer(p) /\ Peer(Peer(p)) = p /\ Sides = {p, Peer(p)}
         /\ pair \in {"line", "tls", "eof"} /\ Hello \in {0, 1} /\ MessageLength \in Nat \ {0}
         /\ Got(p) \in Nat /\ Got(Peer(p)) \in Nat /\ Out(p) \in Nat /\ Out(Peer(p)) \in Nat
         /\ Len(wire[p]) \in Nat /\ Len(wire[Peer(p)]) \in Nat
         /\ step[p] \in Nat \ {0} /\ step[Peer(p)] \in Nat \ {0}
         /\ step[p] <= Len(Program(p)) + 1
<1>1. TypeInv /\ QuietInv /\ SideInv(p) /\ Peer(p) \in Sides /\ SideInv(Peer(p))
  BY SidesAre DEF IInv, Sides
<1>2. step[p] \in Nat \ {0} /\ step[Peer(p)] \in Nat \ {0} /\ step[p] <= Len(Program(p)) + 1
  BY <1>1 DEF TypeInv
<1> QED BY <1>1, <1>2, Numbers, MessageIs

\* The message is out when the stream of a writer that was not killed has ended.
LEMMA EndedIsWhole ==
  ASSUME IInv, NEW p \in Sides, Ended(p), ~reset, pair # "tls" \/ result[p] = "done",
         result[p] \in {"running", "done"} \/ pair = "eof"
  PROVE  \/ Out(p) >= Hello + MessageLength
         \/ pair = "eof" /\ result[p] = "killed" /\ Out(p) <= MessageLength
<1>1. /\ TypeInv /\ pair \in {"line", "tls", "eof"} /\ Hello \in {0, 1}
      /\ MessageLength \in Nat \ {0} /\ step[p] \in Nat \ {0}
      /\ ClosedInv(p) /\ WrittenInv(p)
  BY Known DEF SideInv
<1>2. written[p] \in Nat /\ result[p] \in {"running", "done", "failed", "killed"}
  BY <1>1 DEF TypeInv
<1>3. CASE step[p] > MessageWrite(p)
  <2>1. pair = "tls" => step[p] > HelloWrite(p)
    BY <1>1, <1>3, Places
  <2>2. pair # "tls" => Hello = 0
    BY <1>1, Places
  <2> QED BY <1>1, <1>2, <1>3, <2>1, <2>2 DEF Out
<1>4. CASE ~(step[p] > MessageWrite(p))
  <2>1. result[p] # "done"
    BY <1>1, <1>4, Places DEF ClosedInv
  <2>2. result[p] # "running"
    <3>1. pair # "tls"
      BY <2>1
    <3>2. MessageWrite(p) = IF p = "client" THEN 1 ELSE 2
      BY <3>1 DEF MessageWrite
    <3> QED BY <1>1, <1>4, <3>1, <3>2 DEF Ended
  <2>3. pair = "eof" /\ result[p] = "killed"
    BY <1>1, <1>2, <2>1, <2>2 DEF ClosedInv
  <2>4. Hello = 0 /\ MessageWrite(p) \in 1..2
    BY <1>1, <2>3, Places DEF MessageWrite
  <2>5. Out(p) <= MessageLength
    BY <1>1, <1>2, <1>4, <2>4 DEF Out, WrittenInv
  <2> QED BY <2>3, <2>5
<1> QED BY <1>3, <1>4

\* Without a handshake the message is all that is put out.
LEMMA MessageIsAll ==
  ASSUME IInv, NEW p \in Sides, pair # "tls"
  PROVE  Out(p) <= MessageLength
<1>1. /\ TypeInv /\ WrittenInv(p) /\ pair \in {"line", "tls", "eof"}
      /\ MessageLength \in Nat \ {0} /\ step[p] \in Nat \ {0} /\ step[p] <= Len(Program(p)) + 1
  BY Known DEF SideInv
<1>2. written[p] \in Nat /\ Hello = 0
  BY <1>1 DEF TypeInv, Hello
<1>3. ~(step[p] > 5 /\ p = "client")
  <2> SUFFICES ASSUME p = "client" PROVE ~(step[p] > 5)
    OBVIOUS
  <2>1. Len(Program(p)) = 3
    BY <1>1, Lengths
  <2>2. step[p] \in Nat /\ step[p] <= Len(Program(p)) + 1
    BY <1>1
  <2>3. \A n : n = Len(Program(p)) => step[p] <= n + 1
    BY <2>2, Zenon
  <2>4. step[p] <= 3 + 1
    BY <2>1, <2>3, Zenon
  <2> QED BY <2>2, <2>4
<1>4. MessageWrite(p) \in Nat
  BY <1>1, Places
<1>5. Out(p) = written[p] + (IF step[p] > MessageWrite(p) THEN MessageLength ELSE 0)
  BY <1>1, <1>2, <1>3 DEF Out
<1>6. CASE step[p] > MessageWrite(p)
  BY <1>1, <1>2, <1>4, <1>5, <1>6 DEF WrittenInv
<1>7. CASE ~(step[p] > MessageWrite(p))
  BY <1>1, <1>2, <1>5, <1>7 DEF WrittenInv
<1> QED BY <1>6, <1>7

\* Going on to the next call.
LEMMA AdvancePreserves ==
  ASSUME IInv, NEW p \in Sides, ReadToEnd(p) \/ ShutdownSend(p) \/ AwaitNotify(p)
  PROVE  IInv'
<1> DEFINE q == Peer(p)
<1>1. /\ TypeInv /\ QuietInv /\ SideInv(p) /\ SideInv(q)
      /\ q \in Sides /\ p # q /\ Peer(q) = p /\ Sides = {p, q}
      /\ pair \in {"line", "tls", "eof"} /\ Hello \in {0, 1} /\ MessageLength \in Nat \ {0}
      /\ Got(p) \in Nat /\ Out(p) \in Nat /\ Out(q) \in Nat
      /\ step[p] \in Nat \ {0}
  BY Known
<1>2. /\ step' = [step EXCEPT ![p] = @ + 1]
      /\ UNCHANGED <<pair, written, received, wire, reset, result, disturbed>>
      /\ result[p] = "running" /\ step[p] <= Len(Program(p))
  BY DEF ReadToEnd, ShutdownSend, AwaitNotify, Advance, connection, At
<1>3. /\ step'[p] = step[p] + 1 /\ step'[q] = step[q] /\ step' \in [Sides -> Nat \ {0}]
      /\ Got(p)' = Got(p) /\ Got(q)' = Got(q)
  BY <1>1, <1>2 DEF TypeInv, Got
<1>4. /\ ReadToEnd(p) => pair = "eof" /\ step[p] = MessageRead(p)
      /\ ShutdownSend(p) => \/ pair = "line" /\ p = "client" /\ step[p] = 3
                            \/ pair = "eof" /\ p = "client" /\ step[p] = 2
                            \/ pair = "eof" /\ p = "server" /\ step[p] = 3
      /\ AwaitNotify(p) => pair = "tls" /\ p = "client" /\ step[p] = 6
  BY <1>1, Calls DEF ReadToEnd, ShutdownSend, AwaitNotify
<1>5. /\ step[p] # MessageWrite(p)
      /\ pair = "tls" => step[p] # HelloWrite(p)
      /\ ~(p = "client" /\ step[p] = 5)
      /\ pair = "tls" => step[p] # HelloRead(p)
      /\ ~ReadToEnd(p) => step[p] # MessageRead(p)
  BY <1>1, <1>4 DEF MessageWrite, HelloWrite, MessageRead, HelloRead, Sides
<1>6. Out(p)' = Out(p) /\ Out(q)' = Out(q)
  BY <1>1, <1>2, <1>3, <1>5, KeepsOut
<1>7. StreamInv(p)' /\ StreamInv(q)'
  BY <1>1, <1>2, <1>6, KeepsStream
<1>8. TypeInv'
  <2>1. Program(p)' = Program(p) /\ Program(q)' = Program(q) /\ Len(Program(p)) \in Nat
    BY <1>1, <1>2, SamePrograms, Places
  <2>2. \A r \in Sides : step'[r] <= Len(Program(r)') + 1
    BY <1>1, <1>2, <1>3, <2>1 DEF TypeInv
  <2>3. eof' \in [Sides -> BOOLEAN]
    BY <1>1 DEF TypeInv, ReadToEnd, ShutdownSend, AwaitNotify, connection
  <2> QED BY <1>1, <1>2, <1>3, <2>2, <2>3 DEF TypeInv
<1>9. ReceivedInv(p)' /\ ReceivedInv(q)'
  <2>1. ReceivedInv(q)'
    BY <1>1, <1>2, <1>3, KeepsReceived
  <2>2. CASE ~ReadToEnd(p)
    BY <1>1, <1>2, <1>3, <1>5, <2>1, <2>2, KeepsReceived
  <2>3. CASE ReadToEnd(p)
    <3>1. wire[p] = <<>> /\ eof[p] /\ ~reset
      BY <2>3 DEF ReadToEnd
    <3>2. Ended(q) /\ Got(p) = Out(q) /\ Hello = 0
      <4>1. All(p) = Got(p)
        BY <1>1, <3>1 DEF All
      <4> QED BY <1>1, <1>2, <1>4, <2>3, <3>1, <4>1 DEF SideInv, ClosedInv, StreamInv, Hello
    <3>3. \/ Out(q) >= Hello + MessageLength
          \/ pair = "eof" /\ result[q] = "killed" /\ Out(q) <= MessageLength
      BY <1>1, <1>4, <2>3, <3>1, <3>2, EndedIsWhole
    <3>4. Out(q) <= MessageLength
      BY <1>1, <1>4, <2>3, MessageIsAll
    <3>5. step'[p] > MessageRead(p)' /\ Hello' = Hello /\ MessageRead(p) \in Nat
      BY <1>1, <1>2, <1>3, <1>4, <2>3, SamePrograms, Places
    <3>6. ReceivedInv(p)'
      <4>1. Got(p)' = Got(p) /\ pair' = pair /\ result' = result /\ step'[p] \in Nat
        BY <1>1, <1>2, <1>3
      <4>2. /\ ~(step'[p] < MessageRead(p)') /\ ~(step'[p] = MessageRead(p)')
        BY <1>1, <1>3, <1>4, <2>3, <3>5, SamePrograms, <1>2
      <4>3. \/ Got(p)' = Hello' + MessageLength
            \/ pair' = "eof" /\ result'[q] = "killed" /\ Got(p)' <= MessageLength
        BY <1>1, <3>2, <3>3, <3>4, <3>5, <4>1
      <4> QED BY <4>2, <4>3 DEF ReceivedInv
    <3> QED BY <2>1, <3>6
  <2> QED BY <2>2, <2>3
<1>10. ClosedInv(p)' /\ ClosedInv(q)'
  <2>1. Ended(q)' <=> Ended(q)
    BY <1>1, <1>2, <1>3 DEF Ended
  <2>2. Program(p)' = Program(p) /\ Program(q)' = Program(q)
    BY <1>2, SamePrograms
  <2>3. CASE ShutdownSend(p)
    <3>1. eof' = [eof EXCEPT ![q] = TRUE]
      BY <2>3 DEF ShutdownSend
    <3>2. eof'[q] /\ (eof'[p] <=> eof[p])
      BY <1>1, <3>1 DEF TypeInv
    <3>3. Ended(p)'
      BY <1>2, <1>3, <1>4, <2>3 DEF Ended
    <3> QED BY <1>1, <1>2, <1>3, <2>1, <2>2, <3>2, <3>3 DEF ClosedInv, SideInv
  <2>4. CASE ~ShutdownSend(p)
    <3>1. eof' = eof
      BY <2>4 DEF ReadToEnd, AwaitNotify, connection
    <3>2. Ended(p)' <=> Ended(p)
      BY <1>1, <1>2, <1>3, <1>4, <2>4 DEF Ended, MessageRead, Sides
    <3> QED BY <1>1, <1>2, <1>3, <2>1, <2>2, <3>1, <3>2 DEF ClosedInv, SideInv
  <2> QED BY <2>3, <2>4
<1>11. WrittenInv(p)' /\ WrittenInv(q)'
  <2>1. MessageWrite(p)' = MessageWrite(p) /\ MessageWrite(q)' = MessageWrite(q)
    BY <1>2, SamePrograms
  <2>2. written[p] \in Nat /\ ~(written[p] > 0)
    BY <1>1, <1>5 DEF SideInv, WrittenInv, TypeInv
  <2> QED BY <1>1, <1>2, <1>3, <2>1, <2>2 DEF SideInv, WrittenInv
<1>12. QuietInv'
  <2>1. step["client"] \in Nat /\ step'["client"] >= step["client"]
    BY <1>1, <1>3, SidesAre DEF Sides
  <2> QED BY <1>1, <1>2, <2>1 DEF QuietInv
<1> QED BY <1>1, <1>7, <1>8, <1>9, <1>10, <1>11, <1>12 DEF IInv, SideInv

\* Only the notification comes behind the message.
LEMMA BehindTheMessage ==
  ASSUME IInv, NEW p \in Sides, Out(p) > Hello + MessageLength
  PROVE  pair = "tls" /\ p = "client" /\ step[p] > 5
<1>1. /\ TypeInv /\ WrittenInv(p) /\ pair \in {"line", "tls", "eof"} /\ Hello \in {0, 1}
      /\ MessageLength \in Nat \ {0} /\ step[p] \in Nat \ {0}
      /\ Out(p) \in Nat
  BY Known DEF SideInv
<1>2. written[p] \in Nat
  BY <1>1 DEF TypeInv
<1>3. pair = "tls"
  <2> SUFFICES ASSUME pair # "tls" PROVE FALSE
    OBVIOUS
  <2>1. Out(p) <= MessageLength
    BY MessageIsAll
  <2> QED BY <1>1, <2>1
<1>4. CASE ~(step[p] > 5 /\ p = "client")
  <2>1. Out(p) <= written[p] + Hello + (IF step[p] > MessageWrite(p) THEN MessageLength ELSE 0)
    BY <1>1, <1>2, <1>4 DEF Out
  <2>2. CASE step[p] > MessageWrite(p)
    <3>1. written[p] = 0
      BY <1>1, <1>2, <1>3, <2>2, Places DEF WrittenInv
    <3> QED BY <1>1, <2>1, <2>2, <3>1
  <2>3. CASE ~(step[p] > MessageWrite(p))
    BY <1>1, <1>2, <2>1, <2>3 DEF WrittenInv
  <2> QED BY <2>2, <2>3
<1> QED BY <1>3, <1>4

\* The TLS client's close_notify.
LEMMA NotifyPreserves ==
  ASSUME IInv, NEW p \in Sides, SendNotify(p)
  PROVE  IInv'
<1> DEFINE q == Peer(p)
<1>1. /\ TypeInv /\ QuietInv /\ SideInv(p) /\ SideInv(q)
      /\ q \in Sides /\ p # q /\ Peer(q) = p /\ Sides = {p, q}
      /\ pair \in {"line", "tls", "eof"} /\ Hello \in {0, 1} /\ MessageLength \in Nat \ {0}
      /\ Got(p) \in Nat /\ Out(p) \in Nat /\ Out(q) \in Nat
      /\ step[p] \in Nat \ {0}
  BY Known
<1>2. /\ step' = [step EXCEPT ![p] = @ + 1]
      /\ UNCHANGED <<pair, written, received, eof, result, disturbed>>
      /\ Puts(p, "notify")
      /\ result[p] = "running" /\ step[p] <= Len(Program(p))
  BY DEF SendNotify, Advance, At, Puts
<1>3. /\ step'[p] = step[p] + 1 /\ step'[q] = step[q] /\ step' \in [Sides -> Nat \ {0}]
      /\ Got(p)' = Got(p) /\ Got(q)' = Got(q)
  BY <1>1, <1>2 DEF TypeInv, Got
<1>4. pair = "tls" /\ p = "client" /\ q = "server" /\ step[p] = 5 /\ Hello = 1
  BY <1>1, Calls DEF SendNotify, Peer, Hello
<1>5. /\ HelloWrite(p) = 1 /\ HelloRead(p) = 2 /\ MessageWrite(p) = 3 /\ MessageRead(p) = 4
  BY <1>4 DEF MessageWrite, HelloWrite, MessageRead, HelloRead
<1>6. written[p] = 0
  <2>1. written[p] \in Nat /\ WrittenInv(p)
    BY <1>1 DEF SideInv, TypeInv
  <2> QED BY <1>4, <1>5, <2>1 DEF WrittenInv
<1>7. Out(p) = Hello + MessageLength /\ Out(p)' = Out(p) + 1
  <2>1. Out(p) = Hello + MessageLength
    BY <1>1, <1>4, <1>5, <1>6 DEF Out
  <2>2. /\ HelloWrite(p)' = HelloWrite(p) /\ MessageWrite(p)' = MessageWrite(p) /\ Hello' = Hello
        /\ written'[p] = 0 /\ step'[p] = 6
    BY <1>2, <1>3, <1>4, <1>6, SamePrograms
  <2>3. Out(p)' = Hello + MessageLength + 1
    BY <1>1, <1>4, <1>5, <2>2 DEF Out
  <2> QED BY <2>1, <2>3
<1>8. Out(q)' = Out(q)
  BY <1>1, <1>2, <1>3, KeepsOut
<1>9. Parts(p)[Out(p) + 1] = "notify"
  BY <1>1, <1>4, <1>7 DEF Parts
<1>10. /\ StreamInv(p)' /\ StreamInv(q)'
       /\ wire' \in [Sides -> Seq(Texts)] /\ reset' \in BOOLEAN /\ (reset => reset')
       /\ wire'[p] = wire[p]
       /\ result[q] # "running" => wire'[q] = wire[q]
  <2>1. Puts(p, Parts(p)[Out(p) + 1]) /\ Out(p) <= Hello + MessageLength
    BY <1>1, <1>2, <1>7, <1>9
  <2> QED BY <1>1, <1>2, <1>7, <1>8, <2>1, PutKeepsStreams
<1>11. TypeInv'
  <2>1. Program(p)' = Program(p) /\ Program(q)' = Program(q) /\ Len(Program(p)) \in Nat
    BY <1>1, <1>2, SamePrograms, Places
  <2>2. \A r \in Sides : step'[r] <= Len(Program(r)') + 1
    BY <1>1, <1>2, <1>3, <2>1 DEF TypeInv
  <2> QED BY <1>1, <1>2, <1>3, <1>10, <2>2 DEF TypeInv
<1>12. ReceivedInv(p)' /\ ReceivedInv(q)'
  BY <1>1, <1>2, <1>3, <1>4, <1>5, KeepsReceived
<1>13. ClosedInv(p)' /\ ClosedInv(q)'
  <2>1. Ended(p)' <=> Ended(p)
    BY <1>1, <1>2, <1>3, <1>4 DEF Ended
  <2>2. Ended(q)' <=> Ended(q)
    BY <1>1, <1>2, <1>3 DEF Ended
  <2>3. Program(q)' = Program(q)
    BY <1>2, SamePrograms
  <2> QED BY <1>1, <1>2, <1>3, <1>10, <2>1, <2>2, <2>3 DEF ClosedInv, SideInv
<1>14. WrittenInv(p)' /\ WrittenInv(q)'
  <2>1. MessageWrite(p)' = MessageWrite(p) /\ MessageWrite(q)' = MessageWrite(q)
    BY <1>2, SamePrograms
  <2> QED BY <1>1, <1>2, <1>3, <1>6, <2>1 DEF SideInv, WrittenInv
<1>15. QuietInv'
  <2> SUFFICES ASSUME ~disturbed PROVE QuietInv'
    BY <1>2 DEF QuietInv
  <2>1. ~reset
    BY <1>1, <1>4 DEF QuietInv
  <2>2. reset' => result[q] = "done"
    BY <1>1, <1>2, <2>1 DEF QuietInv, Puts
  <2> QED BY <1>1, <1>2, <1>3, <1>4, <2>2 DEF QuietInv
<1> QED BY <1>1, <1>10, <1>11, <1>12, <1>13, <1>14, <1>15 DEF IInv, SideInv

\* A part that is read: the read goes on until it has what it waits for.
LEMMA ReadReceives ==
  ASSUME IInv, NEW p \in Sides, ReadUntilDelimiter(p) \/ ReadMore(p),
         Got(p)' = Got(p) + 1,
         Head(wire[p]) = Parts(Peer(p))[Got(p) + 1]
  PROVE  ReceivedInv(p)'
<1> DEFINE q == Peer(p)
           head == Head(wire[p])
<1>1. /\ TypeInv /\ ReceivedInv(p) /\ q \in Sides
      /\ pair \in {"line", "tls", "eof"} /\ Hello \in {0, 1} /\ MessageLength \in Nat \ {0}
      /\ Got(p) \in Nat /\ step[p] \in Nat \ {0} /\ Taken(p) \in Nat
  BY Known, Numbers DEF SideInv
<1>2. /\ Hello' = Hello /\ MessageRead(p)' = MessageRead(p) /\ HelloRead(p)' = HelloRead(p)
      /\ pair' = pair
  <2>1. pair' = pair
    BY DEF ReadUntilDelimiter, ReadMore, Takes
  <2> QED BY <2>1, SamePrograms
<1>3. /\ HelloRead(p) \in 1..2 /\ MessageRead(p) \in 1..4
      /\ pair = "tls" => HelloRead(p) < MessageRead(p) /\ Hello = 1
      /\ pair # "tls" => Hello = 0
  BY <1>1, Places
<1>4. CASE pair = "eof"
  <2>1. step[p] = MessageRead(p) /\ step'[p] = step[p]
    <3>1. ~At(p, "read_until")
      <4> SUFFICES ASSUME At(p, "read_until") PROVE FALSE
        OBVIOUS
      <4> QED BY <1>1, <1>4, Calls
    <3>2. ReadMore(p)
      BY <3>1 DEF ReadUntilDelimiter
    <3> QED BY <1>1, <3>2, Calls DEF ReadMore
  <2>2. Taken(p)' = Taken(p)
    BY <1>2, <2>1 DEF Taken
  <2>3. Taken(p) <= Got(p)
    BY <1>1, <2>1 DEF ReceivedInv
  <2> QED BY <1>1, <1>2, <1>3, <1>4, <2>1, <2>2, <2>3 DEF ReceivedInv
<1>5. CASE pair # "eof"
  <2>1. ReadUntilDelimiter(p) /\ At(p, "read_until")
    <3>1. ~At(p, "read")
      <4> SUFFICES ASSUME At(p, "read") PROVE FALSE
        OBVIOUS
      <4> QED BY <1>1, <1>5, Calls
    <3> QED BY <3>1 DEF ReadUntilDelimiter, ReadMore
  <2>2. \/ step[p] = MessageRead(p) /\ Data(p) = <<"eol">>
        \/ pair = "tls" /\ step[p] = HelloRead(p) /\ Data(p) = <<"hello">>
    BY <1>1, <2>1, Calls
  <2>3. IF head = Data(p)[1] THEN step'[p] = step[p] + 1 ELSE step'[p] = step[p]
    <3>1. step \in [Sides -> Nat \ {0}]
      BY <1>1 DEF TypeInv
    <3> QED BY <2>1, <3>1 DEF ReadUntilDelimiter, Advance
  <2> HIDE DEF head
  <2>4. CASE step[p] = MessageRead(p) /\ Data(p) = <<"eol">>
    <3>1. Taken(p) = Hello /\ Taken(p) <= Got(p) /\ Got(p) < Hello + MessageLength
      BY <1>1, <1>3, <1>5, <2>4 DEF Taken, ReceivedInv
    <3> DEFINE i == Got(p) + 1 - Hello
    <3>2. i \in 1..MessageLength /\ Hello + i = Got(p) + 1
      BY <1>1, <3>1
    <3>3. head = Message(q)[i]
      BY <3>2, PartOfMessage DEF head
    <3>4. head = "eol" <=> i = MessageLength
      BY <1>1, <3>2, <3>3, MessageIs
    <3>5. CASE i = MessageLength
      <4>1. step'[p] = step[p] + 1
        BY <2>3, <2>4, <3>4, <3>5
      <4>2. step'[p] > MessageRead(p) /\ Got(p)' = Hello + MessageLength
        BY <1>1, <2>4, <3>1, <3>5, <4>1
      <4> QED BY <1>1, <1>2, <1>3, <4>1, <4>2, <2>4 DEF ReceivedInv
    <3>6. CASE i # MessageLength
      <4>1. step'[p] = step[p]
        BY <2>3, <2>4, <3>4, <3>6
      <4>2. Taken(p)' = Taken(p)
        BY <1>2, <4>1 DEF Taken
      <4>3. Got(p)' < Hello + MessageLength /\ Taken(p)' <= Got(p)'
        BY <1>1, <3>1, <3>2, <3>6, <4>2
      <4> QED BY <1>1, <1>2, <1>3, <2>4, <4>1, <4>3 DEF ReceivedInv
    <3> QED BY <3>5, <3>6
  <2>5. CASE pair = "tls" /\ step[p] = HelloRead(p) /\ Data(p) = <<"hello">>
    <3>1. Hello = 1 /\ Taken(p) = 0 /\ Got(p) = 0
      BY <1>1, <1>3, <2>5 DEF Taken, ReceivedInv
    <3>2. head = "hello"
      <4>1. Parts(q)[1] = "hello"
        BY <1>1, <3>1 DEF Parts
      <4> QED BY <3>1, <4>1 DEF head
    <3>3. step'[p] = step[p] + 1
      BY <2>3, <2>5, <3>2
    <3>4. step'[p] > HelloRead(p) /\ step'[p] <= MessageRead(p)
      BY <1>1, <1>3, <2>5, <3>3
    <3>5. Taken(p)' = 1 /\ Got(p)' = 1
      BY <1>1, <1>2, <1>3, <3>1, <3>3, <3>4, <2>5 DEF Taken
    <3> QED BY <1>1, <1>2, <1>3, <2>5, <3>1, <3>3, <3>4, <3>5 DEF ReceivedInv
  <2> QED BY <2>2, <2>4, <2>5
<1> QED BY <1>4, <1>5

LEMMA ReadPreserves ==
  ASSUME IInv, NEW p \in Sides, ReadUntilDelimiter(p) \/ ReadMore(p)
  PROVE  IInv'
<1> DEFINE q == Peer(p)
<1>1. /\ TypeInv /\ QuietInv /\ SideInv(p) /\ SideInv(q)
      /\ q \in Sides /\ p # q /\ Peer(q) = p /\ Sides = {p, q}
      /\ pair \in {"line", "tls", "eof"} /\ Hello \in {0, 1} /\ MessageLength \in Nat \ {0}
      /\ Got(p) \in Nat /\ Out(p) \in Nat /\ Out(q) \in Nat
      /\ step[p] \in Nat \ {0}
  BY Known
<1>2. /\ Takes(p)
      /\ UNCHANGED <<pair, written, eof, reset, result, disturbed>>
      /\ result[p] = "running" /\ step[p] <= Len(Program(p))
      /\ At(p, "read") \/ At(p, "read_until")
      /\ step' = step \/ step' = [step EXCEPT ![p] = @ + 1]
      /\ At(p, "read_until") \/ step' = step
  BY DEF ReadUntilDelimiter, ReadMore, Takes, Advance, At
<1>3. /\ step'[p] = step[p] \/ step'[p] = step[p] + 1
      /\ step'[q] = step[q] /\ step' \in [Sides -> Nat \ {0}]
  BY <1>1, <1>2 DEF TypeInv
<1>4. /\ step[p] = MessageRead(p) \/ (pair = "tls" /\ step[p] = HelloRead(p))
      /\ pair = "eof" => step' = step
  <2>1. CASE At(p, "read")
    <3>1. step[p] = MessageRead(p) /\ pair = "eof"
      BY <1>1, <2>1, Calls
    <3>2. ~At(p, "read_until")
      BY <1>1, <3>1, Calls
    <3> QED BY <1>2, <3>1, <3>2
  <2>2. CASE At(p, "read_until")
    BY <1>1, <2>2, Calls
  <2> QED BY <1>2, <2>1, <2>2
<1>5. /\ step[p] # MessageWrite(p)
      /\ pair = "tls" => step[p] # HelloWrite(p)
      /\ ~(p = "client" /\ step[p] = 5)
  BY <1>1, <1>4 DEF MessageWrite, HelloWrite, MessageRead, HelloRead, Sides
<1>6. Out(p)' = Out(p) /\ Out(q)' = Out(q)
  BY <1>1, <1>2, <1>3, <1>5, KeepsOut
<1>7. /\ StreamInv(p)' /\ StreamInv(q)'
      /\ wire' \in [Sides -> Seq(Texts)] /\ received' \in [Sides -> Seq(Texts)]
      /\ Got(p)' = Got(p) + 1
      /\ Head(wire[p]) = Parts(q)[Got(p) + 1]
      /\ Got(q)' = Got(q)
      /\ \A r \in Sides : wire[r] = <<>> => wire'[r] = <<>>
  BY <1>1, <1>2, <1>6, TakeKeepsStreams
<1>8. TypeInv'
  <2>1. Program(p)' = Program(p) /\ Program(q)' = Program(q) /\ Len(Program(p)) \in Nat
    BY <1>1, <1>2, SamePrograms, Places
  <2>2. \A r \in Sides : step'[r] <= Len(Program(r)') + 1
    BY <1>1, <1>2, <1>3, <2>1 DEF TypeInv
  <2> QED BY <1>1, <1>2, <1>3, <1>7, <2>2 DEF TypeInv
<1>9. ReceivedInv(p)' /\ ReceivedInv(q)'
  BY <1>1, <1>2, <1>3, <1>7, ReadReceives, KeepsReceived
<1>10. ClosedInv(p)' /\ ClosedInv(q)'
  <2>1. Ended(p)' <=> Ended(p)
    BY <1>1, <1>2, <1>3, <1>4 DEF Ended, MessageRead, Sides
  <2>2. Ended(q)' <=> Ended(q)
    BY <1>1, <1>2, <1>3 DEF Ended
  <2>3. Program(q)' = Program(q)
    BY <1>2, SamePrograms
  <2> QED BY <1>1, <1>2, <1>3, <1>7, <2>1, <2>2, <2>3 DEF ClosedInv, SideInv
<1>11. WrittenInv(p)' /\ WrittenInv(q)'
  <2>1. MessageWrite(p)' = MessageWrite(p) /\ MessageWrite(q)' = MessageWrite(q)
    BY <1>2, SamePrograms
  <2>2. written[p] \in Nat /\ ~(written[p] > 0)
    BY <1>1, <1>5 DEF SideInv, WrittenInv, TypeInv
  <2> QED BY <1>1, <1>2, <1>3, <2>1, <2>2 DEF SideInv, WrittenInv
<1>12. QuietInv'
  <2>1. step["client"] \in Nat /\ step'["client"] \in {step["client"], step["client"] + 1}
    BY <1>1, <1>3, SidesAre DEF Sides
  <2>2. step["client"] > 5 => step'["client"] > 5
    BY <2>1
  <2>3. result' = result /\ reset' = reset /\ pair' = pair /\ disturbed' = disturbed
    BY <1>2
  <2> QED BY <1>1, <2>2, <2>3 DEF QuietInv
<1> QED BY <1>1, <1>7, <1>8, <1>9, <1>10, <1>11, <1>12 DEF IInv, SideInv

\* The end of a program, whichever it is: it must leave the history and the
\* quiet of the exchange in their relation to the reset it causes.
LEMMA ClosePreserves ==
  ASSUME IInv, NEW p \in Sides, NEW how \in {"done", "failed", "killed"}, Closes(p, how),
         how = "done" => step[p] = Len(Program(p)) + 1,
         how = "failed" => reset \/ pair # "eof",
         disturbed' \in BOOLEAN,
         ~disturbed' =>
           /\ ~disturbed
           /\ how = "done"
           /\ wire[p] # <<>> => pair = "tls" /\ p = "server" /\ step["client"] > 5
  PROVE  IInv'
<1> DEFINE q == Peer(p)
<1>1. /\ TypeInv /\ QuietInv /\ SideInv(p) /\ SideInv(q)
      /\ q \in Sides /\ p # q /\ Peer(q) = p /\ Sides = {p, q}
      /\ pair \in {"line", "tls", "eof"}
  BY Known
<1>2. /\ result[p] = "running"
      /\ result' = [result EXCEPT ![p] = how]
      /\ eof' = [eof EXCEPT ![q] = TRUE]
      /\ reset' = (reset \/ wire[p] # <<>>)
      /\ wire' = [wire EXCEPT ![p] = <<>>]
      /\ UNCHANGED <<pair, step, written, received>>
  BY DEF Closes
<1>3. /\ result'[p] = how /\ result'[q] = result[q] /\ how # "running"
      /\ wire'[p] = <<>> /\ wire'[q] = wire[q]
      /\ eof'[q] /\ (eof'[p] <=> eof[p])
      /\ reset => reset'
  BY <1>1, <1>2 DEF TypeInv
<1>4. Out(p)' = Out(p) /\ Out(q)' = Out(q)
  BY <1>1, <1>2, KeepsOut
<1>5. StreamInv(p)' /\ StreamInv(q)'
  BY <1>1, <1>2, <1>3, <1>4, KeepsStream
<1>6. TypeInv'
  <2>1. Program(p)' = Program(p) /\ Program(q)' = Program(q)
    BY <1>2, SamePrograms
  <2>2. \A r \in Sides : step'[r] <= Len(Program(r)') + 1
    BY <1>1, <1>2, <2>1 DEF TypeInv
  <2>3. <<>> \in Seq(Texts)
    BY EmptySeq
  <2>4. wire' \in [Sides -> Seq(Texts)]
    BY <1>1, <1>2, <2>3 DEF TypeInv
  <2>5. reset' \in BOOLEAN /\ eof' \in [Sides -> BOOLEAN]
    BY <1>1, <1>2 DEF TypeInv
  <2>6. result' \in [Sides -> {"running", "done", "failed", "killed"}]
    BY <1>1, <1>2 DEF TypeInv
  <2> QED BY <1>1, <1>2, <2>2, <2>4, <2>5, <2>6 DEF TypeInv
<1>7. ReceivedInv(p)' /\ ReceivedInv(q)'
  <2>1. Got(p)' = Got(p) /\ Got(q)' = Got(q)
    BY <1>2 DEF Got
  <2> QED BY <1>1, <1>2, <1>3, <2>1, KeepsReceived
<1>8. ClosedInv(p)'
  <2>1. Ended(p)'
    BY <1>3 DEF Ended
  <2>2. Program(p)' = Program(p)
    BY <1>2, SamePrograms
  <2> QED BY <1>1, <1>2, <1>3, <2>1, <2>2 DEF ClosedInv
<1>9. ClosedInv(q)'
  <2>1. Ended(q)' <=> Ended(q)
    BY <1>1, <1>2, <1>3 DEF Ended
  <2>2. Program(q)' = Program(q)
    BY <1>2, SamePrograms
  <2> QED BY <1>1, <1>2, <1>3, <2>1, <2>2 DEF ClosedInv, SideInv
<1>10. WrittenInv(p)' /\ WrittenInv(q)'
  <2>1. MessageWrite(p)' = MessageWrite(p) /\ MessageWrite(q)' = MessageWrite(q)
    BY <1>2, SamePrograms
  <2> QED BY <1>1, <1>2, <2>1 DEF SideInv, WrittenInv
<1>11. QuietInv'
  <2> SUFFICES ASSUME ~disturbed' PROVE QuietInv'
    BY DEF QuietInv
  <2>1. /\ ~disturbed /\ how = "done"
        /\ wire[p] # <<>> => pair = "tls" /\ p = "server" /\ step["client"] > 5
    OBVIOUS
  <2>2. \A r \in Sides : result'[r] \in {"running", "done"}
    BY <1>1, <1>3, <2>1 DEF QuietInv
  <2>3. reset' => pair = "tls" /\ step["client"] > 5 /\ result'["server"] = "done"
    <3>1. CASE reset
      <4>1. pair = "tls" /\ step["client"] > 5 /\ result["server"] = "done"
        BY <1>1, <2>1, <3>1 DEF QuietInv
      <4> QED BY <1>1, <1>2, <1>3, <4>1 DEF Sides
    <3>2. CASE wire[p] # <<>>
      BY <1>3, <2>1, <3>2
    <3> QED BY <1>2, <3>1, <3>2
  <2> QED BY <1>2, <2>2, <2>3 DEF QuietInv
<1> QED BY <1>1, <1>5, <1>6, <1>7, <1>8, <1>9, <1>10, <1>11 DEF IInv, SideInv

\* A program that ends leaves nothing unread, but for the TLS server: the
\* client's notification finds it done.
LEMMA FinishPreserves ==
  ASSUME IInv, NEW p \in Sides, Finish(p)
  PROVE  IInv'
<1> DEFINE q == Peer(p)
<1>1. /\ TypeInv /\ QuietInv /\ SideInv(p) /\ SideInv(q)
      /\ q \in Sides /\ p # q /\ Peer(q) = p /\ Sides = {p, q}
      /\ pair \in {"line", "tls", "eof"} /\ Hello \in {0, 1} /\ MessageLength \in Nat \ {0}
      /\ Got(p) \in Nat /\ Out(q) \in Nat /\ Len(wire[p]) \in Nat
      /\ step[p] \in Nat \ {0} /\ step[p] <= Len(Program(p)) + 1
  BY Known
<1>2. /\ step[p] > Len(Program(p)) /\ Closes(p, "done") /\ disturbed' = disturbed
  BY DEF Finish
<1>3. /\ Len(Program(p)) \in Nat /\ MessageRead(p) \in Nat /\ MessageRead(p) < Len(Program(p)) + 1
  BY <1>1, Places
<1>4. step[p] = Len(Program(p)) + 1
  BY <1>1, <1>2, <1>3
<1>5. ASSUME ~disturbed, wire[p] # <<>>
      PROVE  pair = "tls" /\ p = "server" /\ step["client"] > 5
  <2>1. result[q] # "killed"
    BY <1>1, <1>5 DEF QuietInv
  <2>2. Got(p) = Hello + MessageLength
    <3>1. step[p] > MessageRead(p)
      BY <1>1, <1>3, <1>4
    <3> QED BY <1>1, <2>1, <3>1 DEF SideInv, ReceivedInv
  <2>3. Len(wire[p]) > 0
    <3>1. wire[p] \in Seq(Texts)
      BY <1>1 DEF TypeInv
    <3> QED BY <1>1, <1>5, <3>1, EmptySeq
  <2>4. Out(q) > Hello + MessageLength
    BY <1>1, <2>2, <2>3 DEF SideInv, StreamInv, All
  <2>5. pair = "tls" /\ q = "client" /\ step[q] > 5
    BY <1>1, <2>4, BehindTheMessage
  <2> QED BY <1>1, <2>5 DEF Sides
<1>6. disturbed' \in BOOLEAN
  BY <1>1, <1>2 DEF TypeInv
<1> QED BY <1>2, <1>4, <1>5, <1>6, ClosePreserves

\* Nothing throws while nothing disturbs the exchange.
LEMMA ThrowPreserves ==
  ASSUME IInv, NEW p \in Sides, Throw(p)
  PROVE  IInv'
<1> DEFINE q == Peer(p)
<1>1. /\ TypeInv /\ QuietInv /\ SideInv(p) /\ SideInv(q)
      /\ q \in Sides /\ p # q /\ Peer(q) = p /\ Sides = {p, q}
      /\ pair \in {"line", "tls", "eof"} /\ Hello \in {0, 1} /\ MessageLength \in Nat \ {0}
      /\ Got(p) \in Nat /\ Out(q) \in Nat /\ Len(wire[p]) \in Nat
      /\ step[p] \in Nat \ {0}
  BY Known
<1>2. /\ Closes(p, "failed") /\ disturbed' = disturbed
      /\ result[p] = "running"
      /\ At(p, "write") \/ At(p, "read_until") \/ At(p, "read") \/ At(p, "shutdown")
      /\ reset \/ (At(p, "read_until") /\ wire[p] = <<>> /\ eof[p])
  BY DEF Throw, Closes
<1>3. At(p, "read_until") => pair # "eof"
  BY <1>1, Calls
<1>4. disturbed
  <2> SUFFICES ASSUME ~disturbed PROVE FALSE
    OBVIOUS
  <2>1. CASE reset
    <3>1. pair = "tls" /\ step["client"] > 5 /\ result["server"] = "done"
      BY <1>1, <2>1 DEF QuietInv
    <3>2. p = "client"
      BY <1>2, <3>1 DEF Sides
    <3>3. /\ At(p, "write") => step[p] \in 1..4
          /\ At(p, "read_until") => step[p] \in 1..4
          /\ At(p, "read") => pair = "eof"
          /\ At(p, "shutdown") => pair # "tls"
      <4>1. HelloRead(p) \in 1..2 /\ HelloWrite(p) \in 1..2
            /\ MessageRead(p) \in 1..4 /\ MessageWrite(p) \in 1..4
        BY <1>1, Places
      <4>2. At(p, "write") => step[p] \in 1..4
        BY <1>1, <4>1, Calls
      <4>3. At(p, "read_until") => step[p] \in 1..4
        BY <1>1, <4>1, Calls
      <4>4. At(p, "read") => pair = "eof"
        BY <1>1, Calls
      <4>5. At(p, "shutdown") => pair # "tls"
        BY <1>1, Calls
      <4> QED BY <4>2, <4>3, <4>4, <4>5
    <3>4. step[p] > 5
      BY <3>1, <3>2
    <3> QED BY <1>2, <3>1, <3>3, <3>4
  <2>2. CASE ~reset /\ At(p, "read_until") /\ wire[p] = <<>> /\ eof[p]
    <3>1. Ended(q) /\ result[q] \in {"running", "done"} /\ pair # "eof"
      BY <1>1, <1>3, <2>2 DEF SideInv, ClosedInv, QuietInv
    <3>2. pair = "tls" => result[q] = "done"
      BY <3>1 DEF Ended
    <3>3. Out(q) >= Hello + MessageLength
      BY <1>1, <2>2, <3>1, <3>2, EndedIsWhole
    <3>4. Got(p) = Out(q)
      <4>1. Len(wire[p]) = 0
        BY <2>2, EmptySeq
      <4>2. All(p) = Got(p)
        BY <1>1, <4>1 DEF All
      <4> QED BY <1>1, <1>2, <2>2, <4>2 DEF SideInv, StreamInv
    <3>5. step[p] = MessageRead(p) \/ (pair = "tls" /\ step[p] = HelloRead(p))
      BY <1>1, <2>2, Calls
    <3>6. Got(p) < Hello + MessageLength
      <4>1. CASE step[p] = MessageRead(p)
        BY <1>1, <3>1, <4>1 DEF SideInv, ReceivedInv
      <4>2. CASE pair = "tls" /\ step[p] = HelloRead(p)
        <5>1. /\ step[p] < MessageRead(p) /\ ~(step[p] > HelloRead(p)) /\ ~(step[p] > MessageRead(p))
          BY <1>1, <4>2, Places
        <5>2. Taken(p) = 0
          BY <5>1 DEF Taken
        <5>3. Got(p) = 0
          BY <1>1, <5>1, <5>2 DEF SideInv, ReceivedInv
        <5> QED BY <1>1, <5>3
      <4> QED BY <3>5, <4>1, <4>2
    <3> QED BY <1>1, <3>3, <3>4, <3>6
  <2> QED BY <1>2, <2>1, <2>2
<1>5. disturbed' \in BOOLEAN /\ disturbed'
  BY <1>1, <1>2, <1>4 DEF TypeInv
<1> QED BY <1>2, <1>3, <1>5, ClosePreserves

LEMMA KillPreserves ==
  ASSUME IInv, NEW p \in Sides, Kill(p)
  PROVE  IInv'
<1>1. Closes(p, "killed") /\ disturbed' = TRUE
  BY DEF Kill
<1> QED BY <1>1, ClosePreserves

\* The network resets the connection.
LEMMA BreakPreserves ==
  ASSUME IInv, Break
  PROVE  IInv'
<1>1. /\ TypeInv /\ reset' = TRUE /\ disturbed' = TRUE
      /\ UNCHANGED <<pair, step, written, received, wire, eof, result>>
  BY DEF IInv, Break
<1>2. TypeInv'
  <2>1. \A p \in Sides : step'[p] <= Len(Program(p)') + 1
    <3> TAKE p \in Sides
    <3>1. Program(p)' = Program(p)
      BY <1>1, SamePrograms
    <3> QED BY <1>1, <3>1 DEF TypeInv
  <2> QED BY <1>1, <2>1 DEF TypeInv
<1>3. ASSUME NEW p \in Sides PROVE SideInv(p)'
  <2>1. SideInv(p) /\ SideInv(Peer(p)) /\ Peer(p) \in Sides
    BY Known
  <2>2. /\ MessageWrite(p)' = MessageWrite(p) /\ Program(p)' = Program(p)
    BY <1>1, SamePrograms
  <2>3. WrittenInv(p)'
    BY <1>1, <2>1, <2>2 DEF WrittenInv, SideInv
  <2>4. Out(Peer(p))' = Out(Peer(p))
    BY <1>1, <2>1, KeepsOut
  <2>5. StreamInv(p)'
    BY <1>1, <2>4, KeepsStream
  <2>6. ReceivedInv(p)'
    <3>1. Got(p)' = Got(p)
      BY <1>1 DEF Got
    <3> QED BY <1>1, <3>1, KeepsReceived
  <2>7. ClosedInv(p)'
    <3>1. Ended(p)' <=> Ended(p)
      BY <1>1 DEF Ended
    <3> QED BY <1>1, <2>1, <2>2, <3>1 DEF ClosedInv, SideInv
  <2> QED BY <2>3, <2>5, <2>6, <2>7 DEF SideInv
<1>4. QuietInv'
  BY <1>1 DEF QuietInv
<1> QED BY <1>2, <1>3, <1>4 DEF IInv

LEMMA Inductive == IInv /\ [Next]_vars => IInv'
<1> SUFFICES ASSUME IInv, [Next]_vars PROVE IInv'
  OBVIOUS
<1>1. ASSUME NEW p \in Sides, ProgramStep(p) PROVE IInv'
  <2>1. CASE WriteSome(p)
    BY <2>1, WritePreserves
  <2>2. CASE ReadUntilDelimiter(p) \/ ReadMore(p)
    BY <2>2, ReadPreserves
  <2>3. CASE ReadToEnd(p) \/ ShutdownSend(p) \/ AwaitNotify(p)
    BY <2>3, AdvancePreserves
  <2>4. CASE SendNotify(p)
    BY <2>4, NotifyPreserves
  <2>5. CASE Finish(p)
    BY <2>5, FinishPreserves
  <2>6. CASE Throw(p)
    BY <2>6, ThrowPreserves
  <2> QED BY <1>1, <2>1, <2>2, <2>3, <2>4, <2>5, <2>6 DEF ProgramStep
<1>2. ASSUME NEW p \in Sides, Kill(p) PROVE IInv'
  BY <1>2, KillPreserves
<1>3. CASE Break
  BY <1>3, BreakPreserves
<1>4. CASE UNCHANGED vars
  <2>1. UNCHANGED <<pair, step, written, received, wire, eof, reset, result, disturbed>>
    BY <1>4 DEF vars, connection
  <2>2. \A p : Program(p)' = Program(p)
    BY <2>1, SamePrograms
  <2>3. TypeInv'
    BY <2>1, <2>2 DEF TypeInv, IInv
  <2>4. QuietInv'
    BY <2>1 DEF QuietInv, IInv
  <2>5. ASSUME NEW p \in Sides PROVE SideInv(p)'
    <3>1. SideInv(p) /\ Peer(p) \in Sides
      BY Known
    <3>2. MessageWrite(p)' = MessageWrite(p)
      BY <2>1, SamePrograms
    <3>3. WrittenInv(p)'
      BY <2>1, <3>1, <3>2 DEF WrittenInv, SideInv
    <3>4. Out(Peer(p))' = Out(Peer(p))
      BY <2>1, <3>1, KeepsOut
    <3>5. StreamInv(p)'
      BY <2>1, <3>4, KeepsStream
    <3>6. Got(p)' = Got(p)
      BY <2>1 DEF Got
    <3>7. ReceivedInv(p)'
      BY <2>1, <3>6, KeepsReceived
    <3>8. Ended(p)' <=> Ended(p)
      BY <2>1 DEF Ended
    <3>9. ClosedInv(p)'
      BY <2>1, <2>2, <3>1, <3>8 DEF ClosedInv, SideInv
    <3> QED BY <3>3, <3>5, <3>7, <3>9 DEF SideInv
  <2> QED BY <2>3, <2>4, <2>5 DEF IInv
<1> QED BY <1>1, <1>2, <1>3, <1>4 DEF Next

\* The invariant holds throughout.
THEOREM Invariance == Spec => []IInv
<1>1. Init => IInv
  BY InitInv
<1>2. IInv /\ [Next]_vars => IInv'
  BY Inductive
<1> QED BY <1>1, <1>2, PTL DEF Spec

-----------------------------------------------------------------------------
(***************************************************************************)
(* What follows.                                                           *)
(***************************************************************************)

\* The stream is the parts without the notification.
LEMMA StreamIs ==
  ASSUME IInv, NEW p \in Sides
  PROVE  /\ Stream(p) \in Seq(Texts)
         /\ Len(Stream(p)) = Hello + MessageLength
         /\ \A i \in 1..Hello + MessageLength : Stream(p)[i] = Parts(p)[i]
<1> DEFINE front == IF pair = "tls" THEN <<"hello">> ELSE <<>>
<1>1. Hello \in {0, 1} /\ MessageLength \in Nat \ {0}
  BY Known
<1>2. front \in Seq(Texts) /\ Len(front) = Hello /\ (Hello = 1 => front[1] = "hello")
  <2>1. <<"hello">> \in Seq(Texts) /\ Len(<<"hello">>) = 1 /\ <<"hello">>[1] = "hello"
    BY DEF Texts
  <2>2. <<>> \in Seq(Texts) /\ Len(<<>>) = 0
    BY EmptySeq
  <2> QED BY <2>1, <2>2 DEF Hello
<1>3. Message(p) \in Seq(Texts) /\ Len(Message(p)) = MessageLength
  BY <1>1, MessageIs, SidesAre DEF Message, Texts
<1>4. Stream(p) = front \o Message(p)
  BY DEF Stream
<1> HIDE DEF front
<1>5. /\ Stream(p) \in Seq(Texts) /\ Len(Stream(p)) = Hello + MessageLength
      /\ \A i \in 1..Hello + MessageLength :
           Stream(p)[i] = IF i <= Hello THEN front[i] ELSE Message(p)[i - Hello]
  <2>1. /\ Stream(p) \in Seq(Texts) /\ Len(Stream(p)) = Len(front) + Len(Message(p))
        /\ \A i \in 1..Len(front) + Len(Message(p)) :
             Stream(p)[i] = IF i <= Len(front) THEN front[i] ELSE Message(p)[i - Len(front)]
    <3>1. \A f, m \in Seq(Texts) :
            /\ f \o m \in Seq(Texts) /\ Len(f \o m) = Len(f) + Len(m)
            /\ \A i \in 1..Len(f) + Len(m) :
                 (f \o m)[i] = IF i <= Len(f) THEN f[i] ELSE m[i - Len(f)]
      BY ConcatProperties
    <3>2. front \in Seq(Texts) /\ Message(p) \in Seq(Texts)
      BY <1>2, <1>3
    <3> QED BY <1>4, <3>1, <3>2
  <2>2. Len(front) = Hello /\ Len(Message(p)) = MessageLength
    BY <1>2, <1>3
  <2> QED BY <2>1, <2>2, Zenon
<1>6. \A i \in 1..Hello + MessageLength : Stream(p)[i] = Parts(p)[i]
  <2> TAKE i \in 1..Hello + MessageLength
  <2>1. i \in 1..Hello + MessageLength + 1 /\ ~(i > Hello + MessageLength)
    BY <1>1
  <2>2. Parts(p)[i] = IF i <= Hello THEN "hello" ELSE Message(p)[i - Hello]
    BY <2>1, Zenon DEF Parts
  <2>3. i <= Hello => Hello = 1 /\ i = 1
    BY <1>1
  <2>4. i <= Hello => front[i] = "hello"
    BY <1>2, <2>3
  <2> QED BY <1>5, <2>2, <2>4
<1> QED BY <1>5, <1>6

\* Nobody receives more than the peer's stream.
LEMMA ReceivedBound ==
  ASSUME IInv, NEW p \in Sides
  PROVE  Got(p) <= Hello + MessageLength
<1> DEFINE q == Peer(p)
<1>1. /\ TypeInv /\ SideInv(p) /\ q \in Sides
      /\ pair \in {"line", "tls", "eof"} /\ Hello \in {0, 1} /\ MessageLength \in Nat \ {0}
      /\ Got(p) \in Nat /\ Out(q) \in Nat /\ Len(wire[p]) \in Nat
      /\ step[p] \in Nat \ {0}
  BY Known
<1>2. MessageRead(p) \in Nat
  BY <1>1, Places
<1>3. CASE step[p] < MessageRead(p)
  <2>1. Got(p) = Taken(p)
    BY <1>1, <1>3 DEF SideInv, ReceivedInv
  <2> QED BY <1>1, <1>2, <1>3, <2>1 DEF Taken
<1>4. CASE step[p] = MessageRead(p)
  <2>1. CASE pair # "eof"
    BY <1>1, <1>4, <2>1 DEF SideInv, ReceivedInv
  <2>2. CASE pair = "eof"
    <3>1. Out(q) <= MessageLength
      BY <1>1, <2>2, MessageIsAll
    <3>2. Got(p) <= Out(q)
      BY <1>1 DEF SideInv, StreamInv, All
    <3> QED BY <1>1, <3>1, <3>2
  <2> QED BY <2>1, <2>2
<1>5. CASE step[p] > MessageRead(p)
  <2>1. Got(p) = Hello + MessageLength \/ Got(p) <= MessageLength
    BY <1>1, <1>5 DEF SideInv, ReceivedInv
  <2> QED BY <1>1, <2>1
<1> QED BY <1>1, <1>2, <1>3, <1>4, <1>5

\* All of it is the stream.
LEMMA WholeStream ==
  ASSUME IInv, NEW p \in Sides, Got(p) = Hello + MessageLength
  PROVE  received[p] = Stream(Peer(p))
<1> DEFINE q == Peer(p)
<1>1. /\ TypeInv /\ SideInv(p) /\ q \in Sides
      /\ Hello \in {0, 1} /\ MessageLength \in Nat \ {0}
  BY Known
<1>2. received[p] \in Seq(Texts) /\ Len(received[p]) = Hello + MessageLength
  BY <1>1 DEF TypeInv, Got
<1>3. \A i \in 1..Len(received[p]) : received[p][i] = Stream(q)[i]
  BY <1>1, <1>2, StreamIs DEF SideInv, StreamInv
<1> QED BY <1>1, <1>2, <1>3, StreamIs, SeqEqual

LEMMA TypeOKFollows == IInv => TypeOK
<1> SUFFICES ASSUME IInv PROVE TypeOK
  OBVIOUS
<1>0. TypeInv
  BY DEF IInv
<1>1. ASSUME NEW p \in Sides PROVE IsPrefix(received[p], Stream(Peer(p)))
  <2> DEFINE t == Stream(Peer(p))
             n == Len(received[p])
  <2>1. /\ received[p] \in Seq(Texts) /\ t \in Seq(Texts) /\ n \in Nat
        /\ Len(t) = Hello + MessageLength /\ n <= Len(t)
        /\ \A i \in 1..n : received[p][i] = t[i]
    <3>1. /\ SideInv(p) /\ Peer(p) \in Sides /\ Hello \in Nat /\ MessageLength \in Nat
          /\ Got(p) \in Nat
      BY Known
    <3>2. Got(p) <= Hello + MessageLength
      BY ReceivedBound
    <3> QED BY <1>0, <3>1, <3>2, StreamIs DEF SideInv, StreamInv, Got, TypeInv
  <2> HIDE DEF t
  <2>2. SubSeq(received[p], 1, n) = SubSeq(t, 1, n)
    <3>1. 1 \in 1..(n + 1) /\ 1 \in 1..(Len(t) + 1) /\ n \in 0..n /\ n \in 0..Len(t)
      BY <2>1, LenProperties
    <3>2. /\ SubSeq(received[p], 1, n) = [i \in 1..n |-> received[p][i]]
          /\ SubSeq(t, 1, n) = [i \in 1..n |-> t[i]]
      BY <2>1
    <3> QED BY <2>1, <3>2
  <2> QED BY <2>1, <2>2 DEF IsPrefix, t
<1>2. ASSUME NEW p \in Sides
      PROVE  step[p] \in 1..Len(Program(p)) + 1 /\ written[p] \in 0..MessageLength
  <2>1. /\ step[p] \in Nat \ {0} /\ step[p] <= Len(Program(p)) + 1 /\ written[p] \in Nat
        /\ WrittenInv(p) /\ MessageLength \in Nat /\ pair \in {"line", "tls", "eof"}
    BY <1>0, Known DEF SideInv, TypeInv
  <2>2. Len(Program(p)) \in Nat
    BY <2>1, Places
  <2> QED BY <2>1, <2>2 DEF WrittenInv
<1>3. \A p \in Sides : wire[p] \in Seq({"client", "server", "eol", "hello", "notify"})
  BY <1>0 DEF TypeInv, Texts
<1> QED BY <1>0, <1>1, <1>2, <1>3 DEF TypeOK, TypeInv

LEMMA MessageIsWholeFollows == IInv => MessageIsWhole
<1> SUFFICES ASSUME IInv, NEW p \in Sides, result[p] = "done"
             PROVE  \/ received[p] = Stream(Peer(p))
                    \/ pair = "eof" /\ result[Peer(p)] = "killed"
  BY DEF MessageIsWhole
<1>1. /\ SideInv(p) /\ pair \in {"line", "tls", "eof"} /\ step[p] \in Nat \ {0}
  BY Known
<1>2. step[p] > MessageRead(p)
  BY <1>1, Places DEF SideInv, ClosedInv
<1>3. Got(p) = Hello + MessageLength \/ (pair = "eof" /\ result[Peer(p)] = "killed")
  BY <1>1, <1>2 DEF SideInv, ReceivedInv
<1> QED BY <1>3, WholeStream

LEMMA ResponseFollowsRequestFollows == IInv => ResponseFollowsRequest
<1> SUFFICES ASSUME IInv, At("server", "write"), Data("server") = Message("server")
             PROVE  \/ received["server"] = Stream("client")
                    \/ pair = "eof" /\ result["client"] = "killed"
  BY DEF ResponseFollowsRequest
<1>1. /\ SideInv("server") /\ "server" \in Sides
      /\ pair \in {"line", "tls", "eof"} /\ step["server"] \in Nat \ {0}
  BY Known, SidesAre
<1>2. step["server"] = MessageWrite("server")
  <2>1. Message("server") # <<"hello">>
    <3>1. Message("server")[1] \in {"server", "eol"}
      BY MessageIs, <1>1
    <3> QED BY <3>1
  <2> QED BY <1>1, <2>1, Calls
<1>3. step["server"] > MessageRead("server")
  BY <1>1, <1>2 DEF MessageRead, MessageWrite
<1>4. Got("server") = Hello + MessageLength \/ (pair = "eof" /\ result["client"] = "killed")
  BY <1>1, <1>3, SidesAre DEF SideInv, ReceivedInv
<1> QED BY <1>1, <1>4, WholeStream, SidesAre

\* The type invariant: positions stay within the programs, and nothing is ever
\* received that the peer's program does not write, in its order (BlockingExchange!TypeOK).
THEOREM TypeCorrect == Spec => []TypeOK
BY Invariance, TypeOKFollows, PTL

\* Who ends well has all that the other one meant to send, but where the end of
\* the stream ends the message and the writer was killed.
THEOREM WholeMessages == Spec => []MessageIsWhole
BY Invariance, MessageIsWholeFollows, PTL

\* The server answers when it has the whole request, and not before.
THEOREM ResponsesFollow == Spec => []ResponseFollowsRequest
BY Invariance, ResponseFollowsRequestFollows, PTL

\* By their own doing, the two programs of a pair never fail.
THEOREM Undisturbed == Spec => []UndisturbedSucceeds
<1>1. IInv => UndisturbedSucceeds
  BY DEF IInv, QuietInv, UndisturbedSucceeds
<1> QED BY <1>1, Invariance, PTL

-----------------------------------------------------------------------------
(***************************************************************************)
(* Why every exchange ends: somebody can always go on, and not for ever.   *)
(***************************************************************************)

\* A program is blocked in a call that reads when nothing is on its way to it,
\* and neither an end nor a reset of the connection lets the call return; in the
\* one that waits for the end, until that comes.
Blocked(p) ==
  /\ \/ (At(p, "read_until") \/ At(p, "read")) /\ wire[p] = <<>>
     \/ At(p, "await_notify")
  /\ ~eof[p]
  /\ ~reset

\* A program whose peer is not there any more is not blocked.
LEMMA BlockedHasPeer ==
  ASSUME IInv, NEW p \in Sides, Blocked(p)
  PROVE  result[Peer(p)] = "running" /\ Got(p) = Out(Peer(p)) /\ ~Ended(Peer(p))
<1>1. /\ SideInv(p) /\ SideInv(Peer(p)) /\ Peer(Peer(p)) = p /\ Got(p) \in Nat
  BY Known
<1>2. result[p] = "running" /\ ~eof[p] /\ ~reset
  BY DEF Blocked, At
<1>3. ~Ended(Peer(p))
  BY <1>1, <1>2 DEF SideInv, ClosedInv
<1>4. All(p) = Got(p)
  <2>1. CASE wire[p] = <<>>
    <3>1. Len(wire[p]) = 0
      BY <2>1
    <3> QED BY <1>1, <3>1 DEF All
  <2>2. CASE At(p, "await_notify")
    <3>1. /\ Peer(p) \in Sides /\ pair \in {"line", "tls", "eof"} /\ step[p] \in Nat \ {0}
          /\ Out(Peer(p)) \in Nat /\ Len(wire[p]) \in Nat /\ Hello \in Nat /\ MessageLength \in Nat
      BY Known
    <3>2. pair = "tls" /\ p = "client" /\ step[p] = 6 /\ Peer(p) = "server"
      BY <2>2, <3>1, Calls, SidesAre
    <3>3. Got(p) = Hello + MessageLength
      <4>1. step[p] > MessageRead(p)
        BY <3>2 DEF MessageRead
      <4> QED BY <1>1, <3>2, <4>1 DEF SideInv, ReceivedInv
    <3>4. Out(Peer(p)) <= Hello + MessageLength
      <4>1. ~(Out(Peer(p)) > Hello + MessageLength)
        BY <3>1, <3>2, BehindTheMessage
      <4> QED BY <3>1, <4>1
    <3>5. All(p) <= Out(Peer(p))
      BY <1>1 DEF SideInv, StreamInv
    <3>6. All(p) = Got(p) + Len(wire[p])
      BY DEF All
    <3> DEFINE o == Out(Peer(p))
               w == Len(wire[p])
               g == Got(p)
    <3>7. o \in Nat /\ w \in Nat /\ g \in Nat /\ o <= g /\ g + w <= o
      BY <1>1, <3>1, <3>3, <3>4, <3>5, <3>6
    <3> HIDE DEF o, w, g
    <3>8. g + w = g
      BY <3>7
    <3> QED BY <3>6, <3>8 DEF w, g
  <2> QED BY <2>1, <2>2 DEF Blocked
<1> QED BY <1>1, <1>2, <1>3, <1>4 DEF SideInv, StreamInv, Ended

\* Where a program is that is blocked.
LEMMA BlockedPlace ==
  ASSUME IInv, NEW p \in Sides, Blocked(p)
  PROVE  \/ pair # "eof" /\ step[p] = MessageRead(p)
         \/ pair = "tls" /\ step[p] = HelloRead(p)
         \/ pair = "eof" /\ step[p] = MessageRead(p)
         \/ pair = "tls" /\ p = "client" /\ step[p] = 6
<1>1. /\ pair \in {"line", "tls", "eof"} /\ step[p] \in Nat \ {0}
      /\ At(p, "read_until") \/ At(p, "read") \/ At(p, "await_notify")
  BY Known DEF Blocked
<1>2. CASE At(p, "read_until")
  BY <1>1, <1>2, Calls
<1>3. CASE At(p, "read")
  BY <1>1, <1>3, Calls
<1>4. CASE At(p, "await_notify")
  BY <1>1, <1>4, Calls
<1> QED BY <1>1, <1>2, <1>3, <1>4

\* The two never wait for one another.
LEMMA NotBothBlocked ==
  IInv => ~(Blocked("client") /\ Blocked("server"))
<1> SUFFICES ASSUME IInv, Blocked("client"), Blocked("server") PROVE FALSE
  OBVIOUS
<1> DEFINE c == "client"
           s == "server"
<1>1. /\ c \in Sides /\ s \in Sides /\ Peer(c) = s /\ Peer(s) = c
  BY SidesAre
<1>2. /\ SideInv(c) /\ SideInv(s)
      /\ pair \in {"line", "tls", "eof"} /\ MessageLength \in Nat \ {0}
      /\ step[c] \in Nat \ {0} /\ step[s] \in Nat \ {0}
  BY <1>1, Known
<1>3. written[c] \in Nat /\ written[s] \in Nat
  BY <1>1, Known DEF TypeInv
<1>4. Got(c) = Out(s) /\ Got(s) = Out(c) /\ ~Ended(c)
  BY <1>1, BlockedHasPeer
<1>5. Got(s) <= Hello + MessageLength
  BY <1>1, ReceivedBound
<1>9. /\ Out(c) \in Nat /\ Out(s) \in Nat /\ Got(c) \in Nat /\ Got(s) \in Nat
      /\ MessageLength \in Nat /\ MessageLength > 0
  BY <1>1, <1>2, Known
<1> HIDE DEF c, s
<1>6. CASE pair = "eof"
  <2>1. step[c] = MessageRead(c)
    BY <1>1, <1>6, BlockedPlace DEF c, s
  <2>2. step[c] > 2
    BY <1>6, <2>1 DEF MessageRead, c
  <2> QED BY <1>4, <1>6, <2>2 DEF Ended, c
<1>7. CASE pair = "line"
  <2>1. step[c] = 2 /\ step[s] = 1 /\ MessageRead(s) = 1 /\ Hello = 0 /\ MessageWrite(c) = 1
        /\ HelloWrite(c) = 1
    <3>1. step[c] = MessageRead(c) /\ step[s] = MessageRead(s)
      BY <1>1, <1>7, BlockedPlace DEF c, s
    <3> QED BY <1>7, <3>1 DEF MessageRead, MessageWrite, HelloWrite, Hello, c, s
  <2>2. Out(c) >= MessageLength
    BY <1>2, <1>3, <2>1 DEF Out, c, s
  <2>3. Got(s) < MessageLength
    BY <1>2, <1>7, <2>1 DEF SideInv, ReceivedInv
  <2> QED BY <1>4, <1>9, <2>2, <2>3
<1>8. CASE pair = "tls"
  <2>1. /\ HelloRead(c) = 2 /\ HelloWrite(c) = 1 /\ MessageRead(c) = 4 /\ MessageWrite(c) = 3
        /\ HelloRead(s) = 1 /\ HelloWrite(s) = 2 /\ MessageRead(s) = 3 /\ MessageWrite(s) = 4
        /\ Hello = 1
    BY <1>8 DEF HelloRead, HelloWrite, MessageRead, MessageWrite, Hello, c, s
  <2>2. step[c] \in {2, 4, 6} /\ step[s] \in {1, 3}
    <3>1. step[c] = MessageRead(c) \/ step[c] = HelloRead(c) \/ step[c] = 6
      BY <1>1, <1>8, BlockedPlace DEF c, s
    <3>2. step[s] = MessageRead(s) \/ step[s] = HelloRead(s)
      BY <1>1, <1>8, BlockedPlace DEF c, s
    <3> QED BY <2>1, <3>1, <3>2
  <2>3. /\ step[s] = 1 => Got(s) = 0
        /\ step[s] = 3 => Got(s) < 1 + MessageLength
    <3>1. ReceivedInv(s)
      BY <1>2 DEF SideInv
    <3>2. CASE step[s] = 1
      <4>1. Taken(s) = 0
        BY <2>1, <3>2 DEF Taken
      <4> QED BY <2>1, <3>1, <3>2, <4>1 DEF ReceivedInv
    <3>3. CASE step[s] = 3
      BY <1>8, <2>1, <3>1, <3>3 DEF ReceivedInv
    <3> QED BY <2>2, <3>2, <3>3
  <2>4. CASE step[c] = 2
    <3>1. Out(c) >= 1 /\ Out(s) = Got(c) /\ Got(c) = 0
      <4>1. Out(c) >= 1
        BY <1>3, <2>1, <2>4 DEF Out, c, s
      <4>2. Taken(c) = 0
        BY <2>1, <2>4 DEF Taken
      <4>3. Got(c) = 0
        BY <1>2, <2>1, <2>4, <4>2 DEF SideInv, ReceivedInv
      <4> QED BY <1>4, <4>1, <4>3
    <3>2. step[s] = 3 => Out(s) >= 1
      BY <1>3, <2>1 DEF Out, c, s
    <3> QED BY <1>4, <1>9, <2>2, <2>3, <3>1, <3>2
  <2>5. CASE step[c] = 4
    <3>1. Out(c) >= 1 + MessageLength
      BY <1>2, <1>3, <2>1, <2>5 DEF Out, c, s
    <3> QED BY <1>4, <1>9, <2>2, <2>3, <3>1
  <2>6. CASE step[c] = 6
    <3>1. Out(c) >= 1 + MessageLength + 1
      BY <1>2, <1>3, <2>1, <2>6 DEF Out, c, s
    <3> QED BY <1>4, <1>5, <1>9, <2>1, <3>1
  <2> QED BY <2>2, <2>4, <2>5, <2>6
<1> QED BY <1>2, <1>6, <1>7, <1>8

\* Somebody can go on as long as somebody runs.
SomebodyGoesOn ==
  (\E p \in Sides : result[p] = "running") =>
    \E p \in Sides : result[p] = "running" /\ ~Blocked(p)

LEMMA GoesOnFollows == IInv => SomebodyGoesOn
<1> SUFFICES ASSUME IInv, NEW p \in Sides, result[p] = "running"
             PROVE  \E r \in Sides : result[r] = "running" /\ ~Blocked(r)
  BY DEF SomebodyGoesOn
<1>1. CASE ~Blocked(p)
  BY <1>1
<1>2. CASE Blocked(p)
  <2>1. result[Peer(p)] = "running" /\ Peer(p) \in Sides
    BY <1>2, BlockedHasPeer, Known
  <2>2. ~Blocked(Peer(p))
    BY <1>2, NotBothBlocked DEF Sides, Peer
  <2> QED BY <2>1, <2>2
<1> QED BY <1>1, <1>2

\* The two programs of a pair never wait for one another, and neither for one
\* that is gone (BlockingExchange!ExchangeEnds needs this).
THEOREM NeverStuck == Spec => []SomebodyGoesOn
BY Invariance, GoesOnFollows, PTL

\* What is left for p to do: calls, parts to put out and parts to receive, and
\* to end.
Rest(p) ==
  (7 - step[p]) + (Hello + MessageLength + 1 - Out(p)) + (Hello + MessageLength - Got(p))
  + (IF result[p] = "running" THEN 1 ELSE 0)

Left == Rest("client") + Rest("server") + (IF reset THEN 0 ELSE 1)

\* The numbers that these are made of.
LEMMA Terms ==
  ASSUME IInv, NEW p \in Sides
  PROVE  /\ step[p] \in Nat /\ written[p] \in Nat /\ Out(p) \in Nat /\ Got(p) \in Nat
         /\ Hello \in Nat /\ MessageLength \in Nat
         /\ HelloWrite(p) \in Nat /\ MessageWrite(p) \in Nat
         /\ step[p] <= 7
<1>1. /\ TypeInv /\ pair \in {"line", "tls", "eof"} /\ Hello \in {0, 1}
      /\ MessageLength \in Nat \ {0} /\ Out(p) \in Nat /\ Got(p) \in Nat
      /\ step[p] \in Nat \ {0} /\ step[p] <= Len(Program(p)) + 1
  BY Known
<1>2. /\ HelloWrite(p) \in 1..2 /\ MessageWrite(p) \in 1..4 /\ Len(Program(p)) \in 2..6
  BY <1>1, Places
<1>3. written[p] \in Nat
  BY <1>1 DEF TypeInv
<1>4. step[p] <= 7
  <2> DEFINE n == Len(Program(p))
  <2>1. n \in 2..6 /\ step[p] \in Nat /\ step[p] <= n + 1
    BY <1>1, <1>2
  <2> HIDE DEF n
  <2> QED BY <2>1
<1> QED BY <1>1, <1>2, <1>3, <1>4

LEMMA RestIs ==
  ASSUME IInv, NEW p \in Sides
  PROVE  Rest(p) \in Nat
<1>1. /\ WrittenInv(p) /\ step[p] \in Nat /\ written[p] \in Nat /\ step[p] <= 7
      /\ Hello \in Nat /\ MessageLength \in Nat /\ Out(p) \in Nat /\ Got(p) \in Nat
      /\ HelloWrite(p) \in Nat /\ MessageWrite(p) \in Nat
  BY Terms DEF IInv, SideInv
<1>2. Out(p) <= Hello + MessageLength + 1
  <2>1. written[p] < MessageLength /\ (written[p] > 0 => ~(step[p] > MessageWrite(p)))
    BY <1>1 DEF WrittenInv
  <2> QED BY <1>1, <2>1 DEF Out
<1>3. Got(p) <= Hello + MessageLength
  BY ReceivedBound
<1> QED BY <1>1, <1>2, <1>3 DEF Rest

\* A step of p that undoes nothing, and does something, leaves less.
LEMMA LeavesLess ==
  ASSUME IInv, IInv', NEW p \in Sides, pair' = pair, reset => reset',
         step'[Peer(p)] = step[Peer(p)], Out(Peer(p))' = Out(Peer(p)),
         Got(Peer(p))' = Got(Peer(p)), result'[Peer(p)] = result[Peer(p)],
         step'[p] >= step[p], Out(p)' >= Out(p), Got(p)' >= Got(p),
         result[p] # "running" => result'[p] # "running",
         \/ step'[p] > step[p]
         \/ Out(p)' > Out(p)
         \/ Got(p)' > Got(p)
         \/ result[p] = "running" /\ result'[p] # "running"
  PROVE  Left' < Left
<1> DEFINE q == Peer(p)
           r == Rest(p)
           t == Rest(q)
<1>1. /\ step[p] \in Nat /\ Out(p) \in Nat /\ Got(p) \in Nat /\ q \in Sides
      /\ Hello \in Nat /\ MessageLength \in Nat /\ {p, q} = {"client", "server"}
      /\ r \in Nat /\ t \in Nat
  BY Known, RestIs, SidesAre DEF Sides, Peer
<1>2. step'[p] \in Nat /\ Out(p)' \in Nat /\ Got(p)' \in Nat
  <2>1. TypeInv'
    BY DEF IInv
  <2>2. Out(p)' \in Nat
    <3>1. written'[p] \in Nat /\ step'[p] \in Nat /\ (Hello \in Nat)' /\ MessageLength \in Nat
      BY <1>1, <2>1 DEF TypeInv, Hello
    <3> QED BY <3>1 DEF Out
  <2>3. Got(p)' \in Nat
    BY <2>1, LenProperties DEF TypeInv, Got
  <2> QED BY <2>1, <2>2, <2>3 DEF TypeInv
<1>3. Hello' = Hello
  BY SamePrograms
<1>4. t' = t
  BY <1>3 DEF Rest
<1>5. r' < r /\ r' \in Int
  <2> HIDE DEF q, t
  <2> QED BY <1>1, <1>2, <1>3 DEF Rest
<1> DEFINE unbroken == IF reset THEN 0 ELSE 1
<1>6. unbroken \in Nat /\ unbroken' \in Nat /\ unbroken' <= unbroken
  OBVIOUS
<1>7. Left = r + t + unbroken /\ Left' = r' + t' + unbroken'
  <2>1. r' \in Int /\ t' \in Int
    BY <1>1, <1>4, <1>5
  <2>2. CASE p = "client"
    <3>1. q = "server"
      BY <2>2 DEF Peer
    <3>2. r = Rest("client") /\ t = Rest("server")
      BY <2>2, <3>1
    <3>3. r' = Rest("client")' /\ t' = Rest("server")'
      BY <2>2, <3>1 DEF Rest, Out, Got, HelloWrite, MessageWrite
    <3> HIDE DEF r, t
    <3> QED BY <3>2, <3>3 DEF Left
  <2>3. CASE p = "server"
    <3>1. q = "client"
      BY <2>3 DEF Peer
    <3>2. r = Rest("server") /\ t = Rest("client")
      BY <2>3, <3>1
    <3>3. r' = Rest("server")' /\ t' = Rest("client")'
      BY <2>3, <3>1 DEF Rest, Out, Got, HelloWrite, MessageWrite
    <3> HIDE DEF r, t, unbroken
    <3>4. /\ Left = t + r + unbroken
          /\ Left' = t' + r' + unbroken'
      BY <3>2, <3>3 DEF Left, unbroken
    <3> QED BY <1>1, <1>6, <2>1, <3>4
  <2> QED BY <2>2, <2>3 DEF Sides
<1> HIDE DEF r, t, unbroken
<1>8. r' + t + unbroken' < r + t + unbroken
  <2>1. \A i \in Int, j \in Int, k \in Int, m \in Int, n \in Int :
          i < j /\ m <= n => i + k + m < j + k + n
    OBVIOUS
  <2>2. r' \in Int /\ r \in Int /\ t \in Int /\ unbroken' \in Int /\ unbroken \in Int
    BY <1>1, <1>5, <1>6
  <2> QED BY <1>5, <1>6, <2>1, <2>2, Zenon
<1>9. Left = r + t + unbroken /\ Left' = r' + t + unbroken'
  BY <1>4, <1>7, Zenon
<1> QED BY <1>8, <1>9, Zenon

\* The other side's part of a step that leaves its place alone.
LEMMA OtherSide ==
  ASSUME IInv, NEW p \in Sides, pair' = pair,
         step'[p] = step[p], written'[p] = written[p], received'[p] = received[p]
  PROVE  Out(p)' = Out(p) /\ Got(p)' = Got(p)
BY KeepsOut DEF Got

\* A step to the next call puts nothing back.
LEMMA AdvanceLeavesLess ==
  ASSUME IInv, IInv', NEW p \in Sides, pair' = pair, reset => reset',
         step' = [step EXCEPT ![p] = @ + 1],
         UNCHANGED <<written, received, result>>
  PROVE  Left' < Left
<1> DEFINE q == Peer(p)
<1>1. /\ TypeInv /\ q \in Sides /\ q # p /\ step[p] \in Nat /\ Out(p) \in Nat /\ Got(p) \in Nat
      /\ written[p] \in Nat /\ Hello \in Nat /\ MessageLength \in Nat
      /\ HelloWrite(p) \in Nat /\ MessageWrite(p) \in Nat
  BY Known, Terms
<1>2. step'[p] = step[p] + 1 /\ step'[q] = step[q]
  BY <1>1 DEF TypeInv
<1>3. Out(q)' = Out(q) /\ Got(q)' = Got(q) /\ Got(p)' = Got(p)
  BY <1>1, <1>2, OtherSide DEF Got
<1>4. Out(p)' >= Out(p)
  <2>1. /\ Hello' = Hello /\ MessageWrite(p)' = MessageWrite(p) /\ HelloWrite(p)' = HelloWrite(p)
        /\ written'[p] = written[p]
    BY SamePrograms
  <2>2. /\ step[p] > HelloWrite(p) => step'[p] > HelloWrite(p)
        /\ step[p] > MessageWrite(p) => step'[p] > MessageWrite(p)
        /\ step[p] > 5 => step'[p] > 5
    BY <1>1, <1>2
  <2> QED BY <1>1, <2>1, <2>2 DEF Out
<1>5. step'[p] > step[p] /\ step'[p] >= step[p] /\ Got(p)' >= Got(p)
  BY <1>1, <1>2, <1>3
<1> QED BY <1>1, <1>2, <1>3, <1>4, <1>5, LeavesLess

LEMMA WriteLeavesLess ==
  ASSUME IInv, IInv', NEW p \in Sides, WriteSome(p)
  PROVE  Left' < Left
<1> DEFINE q == Peer(p)
<1>1. /\ q \in Sides /\ step[p] \in Nat /\ Out(p) \in Nat /\ Got(p) \in Nat
  BY Known
<1>2. UNCHANGED <<pair, received, result>> /\ (reset => reset')
  BY DEF WriteSome, Puts
<1>3. /\ Out(p)' = Out(p) + 1 /\ Out(q)' = Out(q)
      /\ step'[q] = step[q]
      /\ step'[p] = step[p] \/ step'[p] = step[p] + 1
  BY WriteIsNext
<1>4. Got(p)' = Got(p) /\ Got(q)' = Got(q)
  BY <1>2 DEF Got
<1>5. Out(p)' > Out(p) /\ Out(p)' >= Out(p) /\ step'[p] >= step[p] /\ Got(p)' >= Got(p)
  BY <1>1, <1>3, <1>4
<1> QED BY <1>1, <1>2, <1>3, <1>4, <1>5, LeavesLess

LEMMA ReadLeavesLess ==
  ASSUME IInv, IInv', NEW p \in Sides, ReadUntilDelimiter(p) \/ ReadMore(p)
  PROVE  Left' < Left
<1> DEFINE q == Peer(p)
<1>1. /\ TypeInv /\ q \in Sides /\ q # p /\ step[p] \in Nat /\ Out(p) \in Nat /\ Got(p) \in Nat
      /\ received[p] \in Seq(Texts) /\ wire[p] \in Seq(Texts)
  BY Known DEF TypeInv
<1>2. /\ UNCHANGED <<pair, written, reset, result>>
      /\ wire[p] # <<>>
      /\ received' = [received EXCEPT ![p] = Append(@, Head(wire[p]))]
      /\ step' = [step EXCEPT ![p] = @ + 1] \/ step' = step
  BY DEF ReadUntilDelimiter, ReadMore, Takes, Advance
<1>3. received'[q] = received[q] /\ received'[p] = Append(received[p], Head(wire[p]))
  BY <1>1, <1>2 DEF TypeInv
<1>4. Got(p)' = Got(p) + 1 /\ Got(q)' = Got(q)
  <2>1. Head(wire[p]) \in Texts
    BY <1>1, <1>2, HeadTailProperties
  <2> QED BY <1>1, <1>3, <2>1, AppendProperties DEF Got
<1>5. step'[q] = step[q] /\ step'[p] >= step[p] /\ step'[p] \in {step[p], step[p] + 1}
  BY <1>1, <1>2 DEF TypeInv
<1>6. Out(q)' = Out(q)
  BY <1>1, <1>2, <1>5, KeepsOut
<1>7. Out(p)' >= Out(p)
  <2>1. CASE step'[p] = step[p]
    <3>1. Out(p)' = Out(p)
      BY <1>2, <2>1, KeepsOut
    <3> QED BY <1>1, <3>1
  <2>2. CASE step'[p] = step[p] + 1
    <3>1. /\ Hello' = Hello /\ MessageWrite(p)' = MessageWrite(p) /\ HelloWrite(p)' = HelloWrite(p)
          /\ written'[p] = written[p]
      BY <1>2, SamePrograms
    <3>2. /\ written[p] \in Nat /\ Hello \in Nat /\ MessageLength \in Nat
          /\ HelloWrite(p) \in Nat /\ MessageWrite(p) \in Nat
      BY Terms
    <3>3. /\ step[p] > HelloWrite(p) => step'[p] > HelloWrite(p)
          /\ step[p] > MessageWrite(p) => step'[p] > MessageWrite(p)
          /\ step[p] > 5 => step'[p] > 5
      BY <1>1, <2>2, <3>2
    <3> QED BY <1>1, <3>1, <3>2, <3>3 DEF Out
  <2> QED BY <1>5, <2>1, <2>2
<1>8. Got(p)' > Got(p) /\ Got(p)' >= Got(p)
  BY <1>1, <1>4
<1> QED BY <1>1, <1>2, <1>4, <1>5, <1>6, <1>7, <1>8, LeavesLess

LEMMA CloseLeavesLess ==
  ASSUME IInv, IInv', NEW p \in Sides, NEW how \in {"done", "failed", "killed"}, Closes(p, how)
  PROVE  Left' < Left
<1> DEFINE q == Peer(p)
<1>1. /\ TypeInv /\ q \in Sides /\ q # p /\ step[p] \in Nat /\ Out(p) \in Nat /\ Got(p) \in Nat
  BY Known
<1>2. /\ UNCHANGED <<pair, step, written, received>> /\ (reset => reset')
      /\ result[p] = "running" /\ result' = [result EXCEPT ![p] = how]
  BY DEF Closes
<1>3. result'[p] # "running" /\ result'[q] = result[q]
  BY <1>1, <1>2 DEF TypeInv
<1>4. /\ Out(p)' = Out(p) /\ Got(p)' = Got(p) /\ Out(q)' = Out(q) /\ Got(q)' = Got(q)
  BY <1>1, <1>2, OtherSide
<1>5. Out(p)' >= Out(p) /\ Got(p)' >= Got(p) /\ step'[p] >= step[p]
  BY <1>1, <1>2, <1>4
<1> QED BY <1>1, <1>2, <1>3, <1>4, <1>5, LeavesLess

LEMMA BreakLeavesLess ==
  ASSUME IInv, Break
  PROVE  Left' < Left
<1> DEFINE r(p) == Rest(p)
<1>1. UNCHANGED <<pair, step, written, received, result>> /\ ~reset /\ reset' = TRUE
  BY DEF Break
<1>2. ASSUME NEW p \in Sides PROVE Rest(p)' = Rest(p)
  <2>1. Out(p)' = Out(p) /\ Got(p)' = Got(p) /\ Hello' = Hello
    BY <1>1, OtherSide, SamePrograms
  <2> QED BY <1>1, <2>1 DEF Rest
<1>3. /\ Rest("client")' = Rest("client") /\ Rest("server")' = Rest("server")
      /\ Rest("client") \in Nat /\ Rest("server") \in Nat
  BY <1>2, RestIs, SidesAre
<1> QED BY <1>1, <1>3 DEF Left

LEMMA StepLeavesLess ==
  ASSUME IInv, IInv', Next
  PROVE  Left' < Left
<1>1. ASSUME NEW p \in Sides, ProgramStep(p) PROVE Left' < Left
  <2>1. CASE WriteSome(p)
    BY <2>1, WriteLeavesLess
  <2>2. CASE ReadUntilDelimiter(p) \/ ReadMore(p)
    BY <2>2, ReadLeavesLess
  <2>3. CASE ReadToEnd(p) \/ ShutdownSend(p) \/ AwaitNotify(p) \/ SendNotify(p)
    <3>1. /\ pair' = pair /\ (reset => reset') /\ UNCHANGED <<written, received, result>>
          /\ step' = [step EXCEPT ![p] = @ + 1]
      BY <2>3 DEF ReadToEnd, ShutdownSend, AwaitNotify, SendNotify, Puts, Advance, connection
    <3> QED BY <3>1, AdvanceLeavesLess
  <2>4. CASE Finish(p) \/ Throw(p)
    <3>1. PICK how \in {"done", "failed", "killed"} : Closes(p, how)
      BY <2>4 DEF Finish, Throw
    <3> QED BY <3>1, CloseLeavesLess
  <2> QED BY <1>1, <2>1, <2>2, <2>3, <2>4 DEF ProgramStep
<1>2. ASSUME NEW p \in Sides, Kill(p) PROVE Left' < Left
  BY <1>2, CloseLeavesLess DEF Kill
<1>3. CASE Break
  BY <1>3, BreakLeavesLess
<1> QED BY <1>1, <1>2, <1>3 DEF Next

LEMMA LeftIs == IInv => Left \in Nat
<1> SUFFICES ASSUME IInv PROVE Left \in Nat
  OBVIOUS
<1>1. Rest("client") \in Nat /\ Rest("server") \in Nat
  BY RestIs, SidesAre
<1> QED BY <1>1 DEF Left

\* Every step, of a program or of the network, uses up something of which there
\* is only so much: no behaviour goes on for ever, and with NeverStuck it stops
\* only when both programs have ended (what BlockingExchange!ExchangeEnds says
\* of the programs as they are scheduled).
THEOREM Progress == Spec => [](Left \in Nat) /\ [][Left' < Left]_vars
<1>1. IInv /\ IInv' /\ [Next]_vars => [Left' < Left]_vars
  BY StepLeavesLess
<1> QED BY <1>1, Invariance, LeftIs, PTL DEF Spec
=============================================================================
