--------------------------- MODULE ProtocolProofs ---------------------------
(* Proofs about Protocol: the conversation goes as both sides expect, for  *)
(* every pipe capacity, page size and set of object sizes, and the         *)
(* detailed protocol makes only the steps TranslateService allows.         *)
EXTENDS Protocol, SequenceTheorems, TLAPS

(* Leaves go to Zenon, with time for a slow machine; those that need       *)
(* arithmetic or sequences name the SMT solver.                            *)
USE ZenonT(60)

(* What a body unit may carry, and the units.                              *)
Payloads == {"tsc", "tc", "zero", "failed", "ok"} \cup Addrs \cup Pages \cup Contents \cup Objects
Ids == {"C_INIT", "C_TRANSLATE", "C_MEMBUF", "S_INIT", "S_OBJECT", "S_MEMREQ"}
Wire == {Hdr(id, n) : id \in Ids, n \in Nat} \cup {Dat(x) : x \in Payloads}

Wired == /\ c2s \in Seq(Wire) /\ s2c \in Seq(Wire)
         /\ c.in \in Seq(Wire) /\ c.out \in Seq(Wire)
         /\ s.in \in Seq(Wire) /\ s.out \in Seq(Wire)

Shape ==
  /\ DOMAIN c = {"pc", "err", "out", "in", "want", "last_hdr", "recvbuf_sz", "asked", "got"}
  /\ DOMAIN s = {"pc", "in", "want", "recv_sz", "out", "file_wr", "need_iwcc", "page_cache",
                 "addr", "pre_addr", "isKernel", "page", "data", "seen", "reads"}

Inv == Shape /\ IInv /\ (ClientAlive => Wired)
-----------------------------------------------------------------------------
(* Streams of units.                                                       *)

(* The first unit of b goes to the end of a; d follows.                    *)
Moved(S, a, b, d) ==
  /\ Append(a, Head(b)) \in Seq(S) /\ Tail(b) \in Seq(S)
  /\ Append(a, Head(b)) \o Tail(b) = a \o b
  /\ Append(a, Head(b)) \o (Tail(b) \o d) = a \o (b \o d)

(* Handing a unit on leaves the stream of which both ends are parts as it  *)
(* was.                                                                    *)
LEMMA StreamMoves ==
  ASSUME NEW S, NEW a \in Seq(S), NEW b \in Seq(S), NEW d \in Seq(S), b # << >>
  PROVE  Moved(S, a, b, d)
<1>1. Head(b) \in S /\ Tail(b) \in Seq(S)
  BY HeadTailProperties
<1>2. Append(a, Head(b)) \in Seq(S) /\ Append(a, Head(b)) = a \o <<Head(b)>>
  BY <1>1, AppendProperties, AppendIsConcat
<1>3. <<Head(b)>> \in Seq(S) /\ <<Head(b)>> \o Tail(b) \in Seq(S)
  BY SMTT(60), <1>1, ConcatProperties
<1>4. <<Head(b)>> \o Tail(b) = b
  <2>1. Len(<<Head(b)>> \o Tail(b)) = Len(b)
    BY SMTT(60), <1>1, <1>3, ConcatProperties, HeadTailProperties, LenProperties, EmptySeq
  <2>2. \A i \in 1 .. Len(b) : (<<Head(b)>> \o Tail(b))[i] = b[i]
    <3> TAKE i \in 1 .. Len(b)
    <3>1. /\ Len(b) \in Nat \ {0} /\ Len(Tail(b)) = Len(b) - 1
          /\ \A j \in 1 .. Len(Tail(b)) : Tail(b)[j] = b[j + 1]
      BY HeadTailProperties, EmptySeq
    <3>2. (<<Head(b)>> \o Tail(b))[i] = IF i <= 1 THEN Head(b) ELSE Tail(b)[i - 1]
      BY SMTT(60), <1>1, <1>3, <3>1, ConcatProperties
    <3>3. Head(b) = b[1]
      BY SMTT(60), EmptySeq
    <3>4. CASE i = 1
      BY SMTT(60), <3>2, <3>3, <3>4
    <3>5. CASE i > 1
      <4>1. i - 1 \in 1 .. Len(Tail(b)) /\ (i - 1) + 1 = i /\ ~(i <= 1)
        BY SMTT(60), <3>1, <3>5
      <4> QED BY <3>1, <3>2, <4>1
    <3> QED BY SMTT(60), <3>4, <3>5, <3>1
  <2> QED BY <1>3, <2>1, <2>2, SeqEqual
<1>5. Append(a, Head(b)) \o Tail(b) = a \o b
  <2>1. (a \o <<Head(b)>>) \o Tail(b) = a \o (<<Head(b)>> \o Tail(b))
    BY SMTT(60), <1>1, <1>3, ConcatAssociative
  <2> QED BY <1>2, <1>4, <2>1
<1>6. Append(a, Head(b)) \o (Tail(b) \o d) = (Append(a, Head(b)) \o Tail(b)) \o d
  <2>1. \A u, v, w \in Seq(S) : (u \o v) \o w = u \o (v \o w)
    BY SMTT(60), ConcatAssociative
  <2> QED BY <1>1, <1>2, <2>1
<1>7. (a \o b) \o d = a \o (b \o d)
  BY SMTT(60), ConcatAssociative
<1> QED BY <1>1, <1>2, <1>5, <1>6, <1>7 DEF Moved

(* A stream is split in one way by the length of its first part.           *)
LEMMA StreamSplits ==
  ASSUME NEW S, NEW a \in Seq(S), NEW b \in Seq(S), NEW x \in Seq(S), NEW y \in Seq(S),
         a \o b = x \o y, Len(a) = Len(x)
  PROVE  a = x /\ b = y
<1>1. /\ Len(a \o b) = Len(a) + Len(b) /\ Len(x \o y) = Len(x) + Len(y)
      /\ Len(a) \in Nat /\ Len(b) \in Nat /\ Len(y) \in Nat
  BY ConcatProperties, LenProperties
<1>2. Len(b) = Len(y)
  BY SMTT(60), <1>1
<1>3. \A i \in 1 .. Len(a) : a[i] = x[i]
  <2> TAKE i \in 1 .. Len(a)
  <2>1. i \in 1 .. Len(a) + Len(b) /\ i <= Len(a)
    BY SMTT(60), <1>1
  <2>2. (a \o b)[i] = a[i]
    BY <2>1, ConcatProperties
  <2>3. (x \o y)[i] = x[i]
    BY SMTT(60), <2>1, <1>1, ConcatProperties
  <2> QED BY <2>2, <2>3
<1>4. \A i \in 1 .. Len(b) : b[i] = y[i]
  <2> TAKE i \in 1 .. Len(b)
  <2> DEFINE j == i + Len(a)
  <2>1. j \in 1 .. Len(a) + Len(b) /\ ~(j <= Len(a)) /\ j - Len(a) = i
    BY SMTT(60), <1>1
  <2> HIDE DEF j
  <2>2. (a \o b)[j] = b[j - Len(a)]
    BY <2>1, ConcatProperties
  <2>3. (x \o y)[j] = y[j - Len(x)]
    <3>1. j \in 1 .. Len(x) + Len(y) /\ ~(j <= Len(x))
      BY <2>1, <1>2
    <3> QED BY <3>1, ConcatProperties
  <2> QED BY <2>1, <2>2, <2>3
<1>5. a = x
  BY <1>3, SeqEqual
<1> QED BY <1>2, <1>4, <1>5, SeqEqual

(* A stream is empty when all its parts are.                               *)
LEMMA StreamEmpty ==
  ASSUME NEW S, NEW a \in Seq(S), NEW b \in Seq(S), NEW d \in Seq(S)
  PROVE  a \o (b \o d) = << >> <=> a = << >> /\ b = << >> /\ d = << >>
<1>1. b \o d \in Seq(S)
  BY ConcatProperties
<1> QED BY SMTT(60), <1>1, ConcatEqualIffEmpty

(* The writer puts d into an empty stream.                                 *)
LEMMA StreamWritten ==
  ASSUME NEW S, NEW d \in Seq(S)
  PROVE  << >> \o (<< >> \o d) = d
BY ConcatEmptySeq

(* Units(n, x) is n body units that carry x.                               *)
LEMMA UnitsRight ==
  ASSUME NEW n \in Nat, NEW x
  PROVE  /\ Len(Units(n, x)) = n
         /\ n = 0 => Units(n, x) = << >>
         /\ n > 0 => Units(n, x)[1] = Dat(x)
         /\ x \in Payloads => Units(n, x) \in Seq(Wire)
<1>1. \A i \in 1 .. n : Dat(x) \in {Dat(x)}
  OBVIOUS
<1>2. Units(n, x) \in Seq({Dat(x)}) /\ Len(Units(n, x)) = n
  BY SMTT(60) DEF Units
<1>3. n = 0 => Units(n, x) = << >>
  BY <1>2, EmptySeq
<1>4. n > 0 => Units(n, x)[1] = Dat(x)
  BY SMTT(60) DEF Units
<1>5. x \in Payloads => Units(n, x) \in Seq(Wire)
  BY SMTT(60), <1>2, SeqMonotonic DEF Wire
<1> QED BY <1>2, <1>3, <1>4, <1>5

(* A header is a unit of the wire.                                         *)
LEMMA HeaderUnit ==
  ASSUME NEW id \in Ids, NEW n \in Nat
  PROVE  <<Hdr(id, n)>> \in Seq(Wire) /\ Len(<<Hdr(id, n)>>) = 1
BY SMTT(60) DEF Wire

(* A body part is a unit of the wire.                                      *)
LEMMA BodyUnit ==
  ASSUME NEW x \in Payloads
  PROVE  <<Dat(x)>> \in Seq(Wire) /\ Len(<<Dat(x)>>) = 1
BY SMTT(60) DEF Wire

(* A message is a sequence of units, and never empty.                      *)
LEMMA MessageWire ==
  ASSUME NEW id \in Ids, NEW data \in Seq(Wire)
  PROVE  Message(id, data) \in Seq(Wire) /\ Message(id, data) # << >>
<1>1. Len(data) \in Nat
  BY LenProperties
<1>2. <<Hdr(id, Len(data))>> \in Seq(Wire) /\ Len(<<Hdr(id, Len(data))>>) = 1
  BY <1>1, HeaderUnit
<1> HIDE DEF Wire
<1>3. /\ Message(id, data) \in Seq(Wire)
      /\ Len(Message(id, data)) = 1 + Len(data)
  BY <1>2, ConcatProperties DEF Message
<1> QED BY SMTT(60), <1>1, <1>3, EmptySeq
-----------------------------------------------------------------------------
(* Steps that leave one side, or both, where they are.                     *)

SameClient == /\ c'.pc = c.pc /\ c'.want = c.want /\ c'.last_hdr = c.last_hdr
              /\ c'.asked = c.asked /\ c'.got = c.got
SameServer == /\ s'.pc = s.pc /\ s'.want = s.want /\ s'.recv_sz = s.recv_sz
              /\ s'.addr = s.addr /\ s'.seen = s.seen /\ s'.page = s.page
              /\ s'.data = s.data
SameMemory == mem' = mem /\ changed' = changed

(* What the client expects stays right when nothing it speaks of changes.  *)
LEMMA ClientExpectsKept ==
  ASSUME ClientExpects, SameClient, SameMemory, ToClient' = ToClient
  PROVE  ClientExpects'
<1>1. \A o : Asked(o)' <=> Asked(o)
  BY DEF Asked, FreshPage, SameClient, SameMemory
<1>2. \A x, n : Body(x, n)' <=> Body(x, n)
  BY <1>1 DEF Body, SameMemory
<1>3. \A x : ObjectMsg(x)' <=> ObjectMsg(x)
  BY <1>1 DEF ObjectMsg
<1>4. \A x, y : ConfigMsg(x, y)' <=> ConfigMsg(x, y)
  BY <1>1 DEF ConfigMsg
<1> QED BY <1>2, <1>3, <1>4 DEF ClientExpects, SameClient, OnInit, OnCfgHdr, OnCfgBody,
           OnObjHdr, OnObjBody, OnRun, OnGetHdr, OnMemBody, ClientPcs

(* What the server expects stays right when nothing it speaks of changes.  *)
LEMMA ServerExpectsKept ==
  ASSUME ServerExpects, SameClient, SameServer, SameMemory,
         ToClient' = ToClient, ToServer' = ToServer
  PROVE  ServerExpects'
<1>1. \A o : Asked(o)' <=> Asked(o)
  BY DEF Asked, FreshPage, SameClient, SameMemory
<1>2. ObjectMsg(ToClient)' <=> ObjectMsg(ToClient)
  BY <1>1 DEF ObjectMsg
<1>3. \A x : Serving(x)' <=> Serving(x)
  BY DEF Serving, SameClient
<1>4. Translating' <=> Translating
  BY DEF Translating, FreshPage, SameClient, SameServer, SameMemory
<1>5. Reply(s.page)' = Reply(s.page)
  BY DEF Reply, SameServer, SameMemory
<1> QED BY <1>2, <1>3, <1>4, <1>5 DEF ServerExpects, SameClient, SameServer, SameMemory,
           OnInitHdr, OnInitBody, OnMainHdr, OnAddrBody, OnDecode, OnPageHdr, OnPageBody,
           OnFailedBody, HdrPcs, BodyPcs

(* A step of the client alone, after which both sides still expect what    *)
(* comes, keeps the invariant.                                             *)
LEMMA ClientMoves ==
  ASSUME Inv, ClientAlive, UNCHANGED <<c2s, s2c, mem, changed, s>>,
         Shape', NoProtocolError', ClientAlive', c'.asked \in Addrs \cup {NoAddr},
         c'.in \in Seq(Wire), c'.out \in Seq(Wire),
         ClientExpects', ServerAlive => ServerExpects'
  PROVE  Inv'
<1>1. CacheRight'
  BY DEF Inv, IInv, CacheRight
<1>2. Wired'
  BY DEF Inv, Wired
<1>3. ServerAlive' <=> ServerAlive
  BY DEF ServerAlive
<1> QED BY <1>1, <1>2, <1>3 DEF Inv, IInv

(* The same for a step of the server alone.                                *)
LEMMA ServerMoves ==
  ASSUME Inv, ClientAlive, UNCHANGED <<c2s, s2c, mem, changed, c>>,
         Shape', s'.file_wr = << >>, s'.pc # "aborted", s'.need_iwcc = FALSE,
         s'.in \in Seq(Wire), s'.out \in Seq(Wire),
         CacheRight', ClientExpects', ServerAlive' => ServerExpects'
  PROVE  Inv'
<1>1. Wired'
  BY DEF Inv, Wired
<1>2. ClientAlive' /\ NoProtocolError'
  BY DEF Inv, IInv, ClientAlive, NoProtocolError
<1> QED BY <1>1, <1>2 DEF Inv, IInv

(* A client that dies of anything but a protocol error keeps the invariant *)
(* (write_full, read_full).                                                *)
LEMMA ClientDead ==
  ASSUME Inv, NEW why, why # "eproto", Die(why), UNCHANGED <<c2s, s2c, mem, changed, s>>
  PROVE  Inv'
<1>1. Shape' /\ c'.pc = "dead" /\ c'.err = why
  BY DEF Inv, Shape, Die
<1> QED BY <1>1 DEF Inv, IInv, NoProtocolError, ClientAlive

(* A server that exits or is killed keeps the invariant.                   *)
LEMMA ServerStops ==
  ASSUME Inv, NEW how \in {"exited", "killed"}, Stop(how),
         UNCHANGED <<c2s, s2c, c, mem, changed>>
  PROVE  Inv'
<1>1. /\ Shape' /\ s'.pc = how /\ s'.file_wr = s.file_wr /\ s'.need_iwcc = s.need_iwcc
      /\ s'.in = s.in /\ s'.out = s.out /\ s'.page_cache = s.page_cache /\ s'.seen = s.seen
  BY DEF Inv, Shape, Stop
<1>2. ~ServerAlive'
  BY <1>1 DEF ServerAlive
<1>3. CASE ClientAlive
  <2>1. ClientExpects'
    BY <1>1, <1>3, ClientExpectsKept DEF Inv, IInv, SameClient, SameMemory, ToClient
  <2>2. CacheRight'
    BY <1>1, <1>3 DEF Inv, IInv, CacheRight
  <2> QED BY <1>1, <1>2, <1>3, <2>1, <2>2, ServerMoves DEF Inv, IInv, Wired
<1>4. CASE ~ClientAlive
  BY <1>1, <1>4 DEF Inv, IInv, ClientAlive, NoProtocolError
<1> QED BY <1>3, <1>4

(* While the client lives no read of the server fails.                     *)
LEMMA ReadsAgree ==
  ASSUME Inv, ClientAlive, ServerAlive
  PROVE  ReadOK /\ ~Eof
<1>1. ~Eof
  BY DEF Eof, Open, ClientEnds
<1>2. ServerExpects
  BY DEF Inv, IInv
<1>3. ReadOK
  BY SMTT(60), <1>2, ProtocolAssumption DEF ServerExpects, ReadOK, HdrPcs, BodyPcs, OnInitHdr,
     OnInitBody, OnMainHdr, OnAddrBody, OnDecode, OnPageHdr, OnPageBody, OnFailedBody
<1> QED BY <1>1, <1>3
-----------------------------------------------------------------------------
(* Units move along the pipes: both streams stay as they are.              *)

(* A step that only moves a unit keeps the invariant.                      *)
LEMMA UnitMoves ==
  ASSUME Inv, ClientAlive, Shape', Wired', SameClient, SameServer, SameMemory,
         ToClient' = ToClient, ToServer' = ToServer, c'.err = c.err, s'.file_wr = s.file_wr,
         s'.need_iwcc = s.need_iwcc, s'.page_cache = s.page_cache
  PROVE  Inv'
<1>1. ClientExpects' /\ (ServerAlive' => ServerExpects')
  BY ClientExpectsKept, ServerExpectsKept DEF Inv, IInv, ServerAlive, SameServer
<1>2. CacheRight'
  BY DEF Inv, IInv, CacheRight, SameServer, SameMemory
<1> QED BY <1>1, <1>2 DEF Inv, IInv, NoProtocolError, SameClient, SameServer

(* write_full of the client.                                               *)
LEMMA ClientWrites ==
  ASSUME Inv, CWrite
  PROVE  Inv'
<1>1. ClientAlive /\ c.out # << >> /\ Wired
  BY DEF CWrite, Inv
<1>2. CASE ~Open("c2s_rd") /\ Die("sigpipe") /\ UNCHANGED c2s
  BY <1>2, ClientDead DEF CWrite
<1>3. CASE /\ Len(c2s) < PipeCap /\ c2s' = Append(c2s, Head(c.out))
           /\ c' = [c EXCEPT !.out = Tail(@)]
  <2>1. /\ Shape' /\ SameClient /\ c'.out = Tail(c.out) /\ c'.in = c.in /\ c'.err = c.err
        /\ UNCHANGED <<s2c, mem, changed, s>>
    BY <1>3 DEF Inv, Shape, SameClient, CWrite
  <2>2. c2s' \in Seq(Wire) /\ c'.out \in Seq(Wire) /\ c2s' \o c'.out = c2s \o c.out
    <3>1. Moved(Wire, c2s, c.out, c.out)
      BY <1>1, <1>3, StreamMoves DEF Wired
    <3> QED BY <1>3, <2>1, <3>1 DEF Moved
  <2>3. ToServer' = ToServer /\ ToClient' = ToClient
    BY <2>1, <2>2 DEF ToServer, ToClient
  <2>4. Wired'
    BY <1>1, <2>1, <2>2 DEF Wired
  <2>5. SameServer /\ SameMemory
    BY <2>1 DEF SameServer, SameMemory
  <2> QED BY <1>1, <2>1, <2>3, <2>4, <2>5, UnitMoves
<1> QED BY <1>2, <1>3 DEF CWrite

(* read_full of the client.                                                *)
LEMMA ClientReads ==
  ASSUME Inv, CRead
  PROVE  Inv'
<1>1. ClientAlive /\ Wired
  BY DEF CRead, Inv
<1>2. CASE s2c = << >> /\ ~Open("s2c_wr") /\ Die("eio") /\ UNCHANGED s2c
  BY <1>2, ClientDead DEF CRead
<1>3. CASE s2c # << >> /\ c' = [c EXCEPT !.in = Append(@, Head(s2c))] /\ s2c' = Tail(s2c)
  <2>1. /\ Shape' /\ SameClient /\ c'.out = c.out /\ c'.in = Append(c.in, Head(s2c))
        /\ c'.err = c.err /\ UNCHANGED <<c2s, mem, changed, s>>
    BY <1>3 DEF Inv, Shape, SameClient, CRead
  <2>2. /\ s2c' \in Seq(Wire) /\ c'.in \in Seq(Wire)
        /\ c'.in \o (s2c' \o s.out) = c.in \o (s2c \o s.out)
    <3>1. Moved(Wire, c.in, s2c, s.out)
      BY <1>1, <1>3, StreamMoves DEF Wired
    <3> QED BY <1>3, <2>1, <3>1 DEF Moved
  <2>3. ToServer' = ToServer /\ ToClient' = ToClient
    BY <2>1, <2>2 DEF ToServer, ToClient
  <2>4. Wired'
    BY <1>1, <2>1, <2>2 DEF Wired
  <2>5. SameServer /\ SameMemory
    BY <2>1 DEF SameServer, SameMemory
  <2> QED BY <1>1, <2>1, <2>3, <2>4, <2>5, UnitMoves
<1> QED BY <1>2, <1>3 DEF CRead

(* fflush and sendfile of the server.                                      *)
LEMMA ServerWrites ==
  ASSUME Inv, SWrite
  PROVE  Inv'
<1>1. CASE ~Open("s2c_rd") /\ Stop("killed") /\ UNCHANGED s2c
  BY <1>1, ServerStops DEF SWrite
<1>2. CASE /\ Open("s2c_rd") /\ s2c' = Append(s2c, Head(s.out))
           /\ s' = [s EXCEPT !.out = Tail(@)]
  <2>1. /\ Shape' /\ SameServer /\ s'.out = Tail(s.out) /\ s'.in = s.in
        /\ s'.file_wr = s.file_wr /\ s'.need_iwcc = s.need_iwcc /\ s'.page_cache = s.page_cache
        /\ UNCHANGED <<c2s, c, mem, changed>> /\ s.out # << >>
    BY <1>2 DEF Inv, Shape, SameServer, SWrite
  <2>2. ClientAlive /\ Wired
    BY <1>2 DEF Open, ServerEnds, Inv
  <2>3. s2c' \in Seq(Wire) /\ s'.out \in Seq(Wire) /\ s2c' \o s'.out = s2c \o s.out
    <3>1. Moved(Wire, s2c, s.out, s.out)
      BY <2>1, <2>2, StreamMoves DEF Wired
    <3> QED BY <1>2, <2>1, <3>1 DEF Moved
  <2>4. ToServer' = ToServer /\ ToClient' = ToClient
    BY <2>1, <2>3 DEF ToServer, ToClient
  <2>5. Wired'
    BY <2>1, <2>2, <2>3 DEF Wired
  <2>6. SameClient /\ SameMemory
    BY <2>1 DEF SameClient, SameMemory
  <2> QED BY <2>1, <2>2, <2>4, <2>5, <2>6, UnitMoves
<1> QED BY <1>1, <1>2 DEF SWrite

(* fread of the server.                                                    *)
LEMMA ServerReads ==
  ASSUME Inv, SRead
  PROVE  Inv'
<1>1. /\ Shape' /\ SameServer /\ s'.in = Append(s.in, Head(c2s)) /\ s'.out = s.out
      /\ s'.file_wr = s.file_wr /\ s'.need_iwcc = s.need_iwcc /\ s'.page_cache = s.page_cache
      /\ UNCHANGED <<s2c, c, mem, changed>> /\ c2s # << >> /\ c2s' = Tail(c2s)
  BY DEF Inv, Shape, SameServer, SRead
<1>2. CASE ~ClientAlive
  BY <1>1, <1>2 DEF Inv, IInv, ClientAlive, NoProtocolError
<1>3. CASE ClientAlive
  <2>1. /\ c2s' \in Seq(Wire) /\ s'.in \in Seq(Wire)
        /\ s'.in \o (c2s' \o c.out) = s.in \o (c2s \o c.out)
    <3>1. Moved(Wire, s.in, c2s, c.out)
      BY <1>1, <1>3, StreamMoves DEF Inv, Wired
    <3> QED BY <1>1, <3>1 DEF Moved
  <2>2. ToServer' = ToServer /\ ToClient' = ToClient
    BY <1>1, <2>1 DEF ToServer, ToClient
  <2>3. Wired'
    BY <1>1, <1>3, <2>1 DEF Inv, Wired
  <2>4. SameClient /\ SameMemory
    BY <1>1 DEF SameClient, SameMemory
  <2> QED BY <1>1, <1>3, <2>2, <2>3, <2>4, UnitMoves
<1> QED BY <1>2, <1>3
-----------------------------------------------------------------------------
(* The client takes what it waited for and goes on.                        *)

(* The client's record after Wait, with what the caller adds to it.        *)
ClientAt(pc, n, out, hdr) ==
  /\ Shape' /\ c'.pc = pc /\ c'.in = << >> /\ c'.want = n /\ c'.out = out
  /\ c'.last_hdr = hdr /\ c'.asked = c.asked /\ c'.got = c.got /\ c'.err = c.err

(* The record of the client in each form its steps give it.                *)
LEMMA ClientWaits ==
  ASSUME Shape, s' = s, NEW pc, NEW n, NEW out, NEW hdr, NEW sz
  PROVE  /\ c' = Wait(pc, n) => ClientAt(pc, n, c.out, c.last_hdr)
         /\ c' = [Wait(pc, n) EXCEPT !.out = out] => ClientAt(pc, n, out, c.last_hdr)
         /\ c' = [Wait(pc, n) EXCEPT !.last_hdr = hdr] => ClientAt(pc, n, c.out, hdr)
         /\ c' = [Wait(pc, n) EXCEPT !.last_hdr = hdr, !.recvbuf_sz = sz]
              => ClientAt(pc, n, c.out, hdr)
<1>1. c' = Wait(pc, n) => ClientAt(pc, n, c.out, c.last_hdr)
  BY DEF Shape, Wait, ClientAt
<1>2. c' = [Wait(pc, n) EXCEPT !.out = out] => ClientAt(pc, n, out, c.last_hdr)
  BY DEF Shape, Wait, ClientAt
<1>3. c' = [Wait(pc, n) EXCEPT !.last_hdr = hdr] => ClientAt(pc, n, c.out, hdr)
  BY DEF Shape, Wait, ClientAt
<1>4. c' = [Wait(pc, n) EXCEPT !.last_hdr = hdr, !.recvbuf_sz = sz]
        => ClientAt(pc, n, c.out, hdr)
  BY DEF Shape, Wait, ClientAt
<1> QED BY <1>1, <1>2, <1>3, <1>4

(* translator_init, which sends the server configuration.                  *)
LEMMA ClientInit ==
  ASSUME Inv, translator_init, UNCHANGED <<c2s, s2c, mem, changed, s>>
  PROVE  Inv'
<1> DEFINE M == Message("C_INIT", <<Dat("tsc")>>)
<1>1. c.pc = "init" /\ ClientAlive /\ Wired /\ ClientExpects /\ (ServerAlive => ServerExpects)
  BY DEF translator_init, At, ClientAlive, Inv, IInv
<1>2. /\ c.last_hdr = UNKNOWN /\ c.asked = NoAddr /\ ToClient = << >> /\ c.got = NoObj
      /\ ServerAlive => s.pc = "init_hdr" /\ s.want = 1 /\ s.recv_sz = 0 /\ ToServer = << >>
  BY <1>1 DEF ClientExpects, ServerExpects, Serving, OnInit, OnInitHdr, OnInitBody, OnMainHdr,
     OnAddrBody, OnDecode, OnPageHdr, OnPageBody, OnFailedBody, ClientPcs, HdrPcs, BodyPcs
<1> HIDE DEF M
<1>3. ClientAt("cfg_hdr", 1, M, c.last_hdr)
  BY <1>2, ClientWaits DEF M, translator_init, Send, Inv
<1>4. M \in Seq(Wire)
  BY BodyUnit, MessageWire DEF M, Payloads, Ids
<1>5. ToClient' = << >>
  BY SMTT(60), <1>1, <1>2, <1>3, StreamEmpty DEF ToClient, Wired, ClientAt
<1>6. ServerAlive => ToServer' = M
  BY SMTT(60), <1>1, <1>2, <1>3, <1>4, StreamEmpty, StreamWritten DEF ToServer, Wired, ClientAt
<1>7. ClientExpects'
  BY <1>2, <1>3, <1>5 DEF ClientExpects, ClientAt, OnCfgHdr, ClientPcs
<1>8. ServerAlive => ServerExpects'
  BY <1>2, <1>3, <1>5, <1>6 DEF ServerExpects, M, ClientAt, OnInitHdr, HdrPcs, BodyPcs
<1> QED BY <1>1, <1>2, <1>3, <1>4, <1>7, <1>8, ClientMoves, EmptySeq
        DEF Inv, IInv, NoProtocolError, ClientAlive, ClientAt

(* What is left of the streams after the units the readers have.           *)
ClientRest == s2c \o s.out
ServerRest == c2s \o c.out

(* A client that has as many units as the expected part is long has that   *)
(* part.                                                                   *)
LEMMA ClientTakes ==
  ASSUME Wired, NEW x \in Seq(Wire), NEW y \in Seq(Wire),
         ToClient = x \o y, Len(c.in) = Len(x)
  PROVE  c.in = x /\ ClientRest = y
<1>1. ClientRest \in Seq(Wire) /\ c.in \in Seq(Wire)
  BY ConcatProperties DEF ClientRest, Wired
<1>2. c.in \o ClientRest = x \o y
  BY DEF ToClient, ClientRest
<1> QED BY <1>1, <1>2, StreamSplits

(* Once it has taken them, the rest is its stream.                         *)
LEMMA ClientTook ==
  ASSUME Wired, c'.in = << >>, s2c' = s2c, s' = s
  PROVE  ToClient' = ClientRest
<1>1. ClientRest \in Seq(Wire)
  BY ConcatProperties DEF ClientRest, Wired
<1>2. ToClient' = << >> \o ClientRest
  BY DEF ToClient, ClientRest
<1> QED BY <1>1, <1>2, ConcatEmptySeq

(* A client that waited for a unit and got it has a stream that is not     *)
(* empty.                                                                  *)
LEMMA ClientHasSome ==
  ASSUME Wired, Len(c.in) = 1
  PROVE  ToClient # << >>
<1>1. c.in # << >>
  <2>1. Len(<< >>) = 0
    OBVIOUS
  <2> QED BY SMTT(60), <2>1
<1> QED BY SMTT(60), <1>1, StreamEmpty DEF ToClient, Wired

(* A server that has as many units as the expected part is long has that   *)
(* part.                                                                   *)
LEMMA ServerTakes ==
  ASSUME Wired, NEW x \in Seq(Wire), NEW y \in Seq(Wire),
         ToServer = x \o y, Len(s.in) = Len(x)
  PROVE  s.in = x /\ ServerRest = y
<1>1. ServerRest \in Seq(Wire) /\ s.in \in Seq(Wire)
  BY ConcatProperties DEF ServerRest, Wired
<1>2. s.in \o ServerRest = x \o y
  BY DEF ToServer, ServerRest
<1> QED BY <1>1, <1>2, StreamSplits

(* Once it has taken them, the rest is its stream.                         *)
LEMMA ServerTook ==
  ASSUME Wired, s'.in = << >>, c2s' = c2s, c' = c
  PROVE  ToServer' = ServerRest
<1>1. ServerRest \in Seq(Wire)
  BY ConcatProperties DEF ServerRest, Wired
<1>2. ToServer' = << >> \o ServerRest
  BY DEF ToServer, ServerRest
<1> QED BY <1>1, <1>2, ConcatEmptySeq

(* The server waits for the next request.                                  *)
Waiting == s.pc = "main_hdr" /\ s.want = 1 /\ s.recv_sz = 0 /\ ToServer = << >>

(* While the client has the word the server waits for its next message.    *)
LEMMA ServerWaits ==
  ASSUME ServerExpects, c.pc \in {"cfg_hdr", "cfg_body", "obj_hdr", "obj_body", "run"},
         c.pc = "cfg_hdr" => ToClient # << >>
  PROVE  Waiting
BY DEF ServerExpects, Serving, Waiting, OnInitHdr, OnInitBody, OnMainHdr, OnAddrBody, OnDecode,
   OnPageHdr, OnPageBody, OnFailedBody, HdrPcs, BodyPcs

(* A step of the client that sends nothing while the server waits.         *)
LEMMA ClientGoesOn ==
  ASSUME Inv, ClientAlive, UNCHANGED <<c2s, s2c, mem, changed, s>>,
         Shape', NoProtocolError', c'.pc \in {"cfg_body", "obj_hdr", "obj_body", "run"},
         c'.asked = c.asked, c'.in = << >>, c'.out = c.out,
         ClientExpects', ServerAlive => Waiting
  PROVE  Inv'
<1>1. ToServer' = ToServer
  BY DEF ToServer
<1>2. ServerAlive => ServerExpects'
  BY <1>1 DEF ServerExpects, Waiting, OnMainHdr, HdrPcs, BodyPcs
<1>3. /\ c'.in \in Seq(Wire) /\ c'.out \in Seq(Wire) /\ ClientAlive'
      /\ c'.asked \in Addrs \cup {NoAddr}
  BY EmptySeq DEF Inv, IInv, Wired, ClientAlive
<1> QED BY <1>2, <1>3, ClientMoves

(* Objects can be sent.                                                    *)
LEMMA ObjectWire ==
  ASSUME NEW n \in Sizes, NEW o \in Objects
  PROVE  /\ n \in Nat /\ Units(n, o) \in Seq(Wire) /\ Len(Units(n, o)) = n
         /\ n > 0 => Units(n, o)[1] = Dat(o)
         /\ n = 0 => Units(n, o) = << >>
         /\ Message("S_OBJECT", Units(n, o)) = <<Hdr("S_OBJECT", n)>> \o Units(n, o)
         /\ Message("S_OBJECT", Units(n, o)) \in Seq(Wire)
         /\ Message("S_OBJECT", Units(n, o)) # << >>
<1>1. n \in Nat /\ o \in Payloads
  BY SMTT(60), ProtocolAssumption DEF Sizes, Payloads
<1>2. /\ Units(n, o) \in Seq(Wire) /\ Len(Units(n, o)) = n
      /\ n > 0 => Units(n, o)[1] = Dat(o)
      /\ n = 0 => Units(n, o) = << >>
  BY <1>1, UnitsRight
<1>3. Message("S_OBJECT", Units(n, o)) = <<Hdr("S_OBJECT", n)>> \o Units(n, o)
  BY <1>2 DEF Message
<1>4. /\ Message("S_OBJECT", Units(n, o)) \in Seq(Wire)
      /\ Message("S_OBJECT", Units(n, o)) # << >>
  BY <1>2, MessageWire DEF Ids
<1> QED BY <1>1, <1>2, <1>3, <1>4

(* translator_config_fetch: the header and the body of S_INIT.             *)
LEMMA ClientConfig ==
  ASSUME Inv, translator_config_fetch, UNCHANGED <<c2s, s2c, mem, changed, s>>
  PROVE  Inv'
<1>1. /\ c.pc \in {"cfg_hdr", "cfg_body"} /\ ClientAlive /\ Wired /\ ClientExpects
      /\ ServerAlive => ServerExpects
      /\ Len(c.in) = c.want /\ c.want = 1 /\ c.asked = NoAddr /\ c.got = NoObj
      /\ c.last_hdr = UNKNOWN
  BY DEF translator_config_fetch, At, ClientAlive, Inv, IInv, ClientExpects, OnCfgHdr,
     OnCfgBody
<1>2. ToClient # << >> /\ (ServerAlive => Waiting)
  <2>1. ToClient # << >>
    BY <1>1, ClientHasSome
  <2> QED BY <1>1, <2>1, ServerWaits
<1> DEFINE b == <<Dat("tc")>>
           h == <<Hdr("S_INIT", 1)>>
<1>3. b \in Seq(Wire) /\ Len(b) = 1 /\ h \in Seq(Wire) /\ Len(h) = 1
  BY BodyUnit, HeaderUnit DEF Payloads, Ids
<1>4. Message("S_INIT", b) = h \o b
  BY DEF Message
<1>5. h[1] = Hdr("S_INIT", 1)
  OBVIOUS
<1> HIDE DEF b, h
<1>6. CASE At("cfg_hdr")
  <2>1. c.pc = "cfg_hdr" /\ ConfigMsg(h \o b, ToClient)
    BY <1>1, <1>2, <1>4, <1>6 DEF At, ClientExpects, b, OnCfgHdr
  <2>2. PICK n \in Sizes, o \in Objects :
          Asked(o) /\ ToClient = (h \o b) \o Message("S_OBJECT", Units(n, o))
    BY <2>1 DEF ConfigMsg
  <2> DEFINE m == Message("S_OBJECT", Units(n, o))
  <2>3. m \in Seq(Wire)
    BY ObjectWire
  <2> HIDE DEF m
  <2>4. (h \o b) \o m = h \o (b \o m) /\ b \o m \in Seq(Wire)
    BY SMTT(60), <1>3, <2>3, ConcatAssociative, ConcatProperties
  <2>5. ToClient = h \o (b \o m)
    BY <2>2, <2>4 DEF m
  <2>6. c.in = h /\ ClientRest = b \o m
    BY <1>1, <1>3, <2>4, <2>5, ClientTakes
  <2>7. TheHdr.id = "S_INIT" /\ TheHdr.sz = 1
    BY SMTT(60), <1>1, <1>5, <2>6 DEF TheHdr, Hdr
  <2>8. ClientAt("cfg_body", 1, c.out, UNKNOWN)
    BY <2>1, <2>7, ClientWaits DEF translator_config_fetch, At, Inv
  <2>9. ToClient' = b \o m
    BY <1>1, <2>6, <2>8, ClientTook DEF ClientAt
  <2>10. Asked(o)'
    BY <2>2, <2>8 DEF Asked, FreshPage, ClientAt
  <2>11. ClientExpects'
    BY <1>1, <2>8, <2>9, <2>10 DEF ClientExpects, ConfigMsg, b, m, ClientAt, OnCfgBody, ClientPcs
  <2> QED BY <1>1, <1>2, <2>8, <2>11, ClientGoesOn
             DEF NoProtocolError, Inv, IInv, ClientAt
<1>7. CASE At("cfg_body")
  <2>1. c.pc = "cfg_body" /\ ConfigMsg(b, ToClient)
    BY <1>1, <1>7 DEF At, ClientExpects, b, OnCfgBody
  <2>2. PICK n \in Sizes, o \in Objects :
          Asked(o) /\ ToClient = b \o Message("S_OBJECT", Units(n, o))
    BY <2>1 DEF ConfigMsg
  <2> DEFINE m == Message("S_OBJECT", Units(n, o))
  <2>3. m \in Seq(Wire)
    BY ObjectWire
  <2> HIDE DEF m
  <2>4. ClientRest = m
    BY <1>1, <1>3, <2>2, <2>3, ClientTakes DEF m
  <2>5. ClientAt("obj_hdr", 1, c.out, c.last_hdr)
    BY <2>1, ClientWaits DEF translator_config_fetch, At, AfterConfig, Inv
  <2>6. ToClient' = m
    BY <1>1, <2>4, <2>5, ClientTook DEF ClientAt
  <2>7. Asked(o)'
    BY <2>2, <2>5 DEF Asked, FreshPage, ClientAt
  <2>8. ClientExpects'
    BY <1>1, <2>5, <2>6, <2>7 DEF ClientExpects, ObjectMsg, m, ClientAt, OnObjHdr, ClientPcs
  <2> QED BY <1>1, <1>2, <2>5, <2>8, ClientGoesOn
             DEF NoProtocolError, Inv, IInv, ClientAt
<1> QED BY <1>6, <1>7 DEF translator_config_fetch

(* translator_get_object: the header, kept or read, and the body of        *)
(* S_OBJECT.                                                               *)
LEMMA ClientObject ==
  ASSUME Inv, translator_get_object, UNCHANGED <<c2s, s2c, mem, changed, s>>
  PROVE  Inv'
<1>1. /\ c.pc \in {"obj_hdr", "obj_body"} /\ ClientAlive /\ Wired /\ ClientExpects
      /\ Len(c.in) = c.want /\ c.got = NoObj
  BY DEF translator_get_object, At, ClientAlive, Inv, IInv, ClientExpects
<1>2. ServerAlive => Waiting
  BY <1>1, ServerWaits DEF Inv, IInv
<1>3. CASE At("obj_hdr")
  <2>1. PICK n \in Sizes, o \in Objects :
          Asked(o) /\ TheHdr = Hdr("S_OBJECT", n) /\ ClientRest = Units(n, o)
    <3>1. c.pc = "obj_hdr"
      BY <1>3 DEF At
    <3>2. CASE c.last_hdr = UNKNOWN /\ c.want = 1 /\ ObjectMsg(ToClient)
      <4>1. PICK n \in Sizes, o \in Objects :
              Asked(o) /\ ToClient = Message("S_OBJECT", Units(n, o))
        BY <3>2 DEF ObjectMsg
      <4> DEFINE h == <<Hdr("S_OBJECT", n)>>
                 u == Units(n, o)
      <4>2. h \in Seq(Wire) /\ Len(h) = 1 /\ u \in Seq(Wire) /\ h[1] = Hdr("S_OBJECT", n)
        BY ObjectWire, HeaderUnit DEF Ids
      <4>3. ToClient = h \o u
        BY <4>1, ObjectWire
      <4> HIDE DEF h, u
      <4>4. c.in = h /\ ClientRest = u
        BY <1>1, <3>2, <4>2, <4>3, ClientTakes
      <4> QED BY <3>2, <4>1, <4>2, <4>4 DEF TheHdr, u
    <3>3. CASE /\ c.want = 0
               /\ \E n \in Sizes : c.last_hdr = Hdr("S_OBJECT", n) /\ Body(ToClient, n)
      <4>1. PICK n \in Sizes, o \in Objects :
              c.last_hdr = Hdr("S_OBJECT", n) /\ Asked(o) /\ ToClient = Units(n, o)
        BY <3>3 DEF Body
      <4> DEFINE u == Units(n, o)
      <4>2. u \in Seq(Wire)
        BY ObjectWire
      <4> HIDE DEF u
      <4>3. ToClient = << >> \o u /\ << >> \in Seq(Wire) /\ Len(<< >>) = 0
        BY <4>1, <4>2, ConcatEmptySeq, EmptySeq DEF u
      <4>4. ClientRest = u
        BY <1>1, <3>3, <4>2, <4>3, ClientTakes
      <4>5. c.last_hdr # UNKNOWN
        BY SMTT(60), <4>1 DEF UNKNOWN, Hdr
      <4> QED BY <4>1, <4>4, <4>5 DEF TheHdr, u
    <3> QED BY <1>1, <3>1, <3>2, <3>3 DEF ClientExpects, OnObjHdr, ClientPcs
  <2>2. TheHdr.id = "S_OBJECT" /\ TheHdr.sz = n
    BY <2>1 DEF Hdr
  <2>3. CASE Die("enomem")
    BY <2>3, ClientDead
  <2>4. CASE c' = [Wait("obj_body", TheHdr.sz) EXCEPT
                     !.last_hdr = UNKNOWN, !.recvbuf_sz = RecvBuf(TheHdr.sz)]
    <3>1. ClientAt("obj_body", n, c.out, UNKNOWN)
      BY <2>2, <2>4, ClientWaits DEF Inv
    <3>2. ToClient' = Units(n, o)
      BY <1>1, <2>1, <3>1, ClientTook DEF ClientAt
    <3>3. Asked(o)'
      BY <2>1, <3>1 DEF Asked, FreshPage, ClientAt
    <3>4. ClientExpects'
      BY <1>1, <3>1, <3>2, <3>3 DEF ClientExpects, Body, ClientAt, OnObjBody, ClientPcs
    <3> QED BY <1>1, <1>2, <3>1, <3>4, ClientGoesOn
               DEF NoProtocolError, Inv, IInv, ClientAt
  <2> QED BY <1>3, <2>2, <2>3, <2>4 DEF translator_get_object, At
<1>4. CASE At("obj_body")
  <2>1. PICK o \in Objects : Asked(o) /\ ToClient = Units(c.want, o) /\ c.want \in Sizes
    BY <1>1, <1>4 DEF At, ClientExpects, Body, OnObjBody
  <2> DEFINE u == Units(c.want, o)
  <2>2. u \in Seq(Wire) /\ Len(u) = c.want
    BY <2>1, ObjectWire
  <2> HIDE DEF u
  <2>3. ToClient = u \o << >> /\ << >> \in Seq(Wire)
    BY <2>1, <2>2, ConcatEmptySeq, EmptySeq DEF u
  <2>4. ClientRest = << >>
    BY <1>1, <2>2, <2>3, ClientTakes
  <2>5. CASE Die("badobj")
    BY <2>5, ClientDead
  <2>6. CASE \/ c' = [Wait("run", 0) EXCEPT !.got = c.in[1].dat[1]]
             \/ c' = Wait("run", 0)
    <3>1. /\ Shape' /\ c'.pc = "run" /\ c'.in = << >> /\ c'.want = 0 /\ c'.out = c.out
          /\ c'.last_hdr = c.last_hdr /\ c'.asked = c.asked /\ c'.err = c.err
      BY <2>6 DEF Wait, Inv, Shape
    <3>2. ToClient' = << >>
      BY <1>1, <2>4, <3>1, ClientTook
    <3>3. c.last_hdr = UNKNOWN
      BY <1>1, <1>4 DEF At, ClientExpects
    <3>4. ClientExpects'
      BY <3>1, <3>2, <3>3 DEF ClientExpects, OnRun, ClientPcs
    <3> QED BY <1>1, <1>2, <3>1, <3>4, ClientGoesOn DEF NoProtocolError, Inv, IInv
  <2> QED BY <1>4, <2>5, <2>6 DEF translator_get_object, At
<1> QED BY <1>3, <1>4 DEF translator_get_object

(* The client writes m when everything it wrote before has been read.      *)
LEMMA ClientSends ==
  ASSUME Wired, ToServer = << >>, UNCHANGED <<c2s, s>>, NEW m \in Seq(Wire), c'.out = m
  PROVE  ToServer' = m
<1>1. s.in = << >> /\ c2s = << >>
  BY SMTT(60), StreamEmpty DEF ToServer, Wired
<1>2. ToServer' = << >> \o (<< >> \o m)
  BY <1>1 DEF ToServer
<1> QED BY <1>2, StreamWritten

(* translator_get sends C_TRANSLATE.                                       *)
LEMMA ClientAsks ==
  ASSUME Inv, NEW a \in Addrs, GuestCalls(a)
  PROVE  Inv'
<1> DEFINE m == Message("C_TRANSLATE", <<Dat(a)>>)
<1>1. /\ c.pc = "run" /\ ClientAlive /\ Wired /\ c.last_hdr = UNKNOWN /\ ToClient = << >>
      /\ UNCHANGED <<c2s, s2c, mem, changed, s>>
  BY DEF GuestCalls, translator_get, At, ClientAlive, Inv, IInv, ClientExpects, OnRun
<1>2. ServerAlive => Waiting
  BY <1>1, ServerWaits DEF Inv, IInv
<1>3. m \in Seq(Wire)
  BY BodyUnit, MessageWire DEF Payloads, Ids
<1> HIDE DEF m
<1>4. /\ Shape' /\ c'.pc = "get_hdr" /\ c'.in = << >> /\ c'.want = 1 /\ c'.out = m
      /\ c'.last_hdr = UNKNOWN /\ c'.asked = a /\ c'.got = NoObj /\ c'.err = c.err
  BY <1>1 DEF GuestCalls, translator_get, Wait, Inv, Shape, m
<1>5. a # NoAddr
  BY ProtocolAssumption DEF NoAddr
<1>6. ToClient' = << >>
  BY SMTT(60), <1>1, <1>4, StreamEmpty DEF ToClient, Wired
<1>7. ServerAlive => ToServer' = m
  BY <1>1, <1>2, <1>3, <1>4, ClientSends DEF Waiting
<1>8. ClientExpects'
  BY <1>4, <1>5, <1>6 DEF ClientExpects, OnGetHdr, ClientPcs
<1>9. ServerAlive => ServerExpects'
  BY <1>1, <1>2, <1>4, <1>6, <1>7 DEF ServerExpects, Waiting, Serving, m, OnMainHdr, HdrPcs,
     BodyPcs
<1> QED BY <1>1, <1>3, <1>4, <1>8, <1>9, ClientMoves, EmptySeq
        DEF Inv, IInv, NoProtocolError, ClientAlive

(* The guest changes its memory while nothing is on its way.               *)
LEMMA GuestWrites ==
  ASSUME Inv, NEW p \in Pages, NEW x \in Contents \cup {Unmapped}, GuestChanges(p, x)
  PROVE  Inv'
<1>1. /\ c.pc = "run" /\ ClientAlive /\ Wired /\ UNCHANGED <<c2s, s2c, c, s>>
      /\ c.last_hdr = UNKNOWN /\ c.want = 0 /\ ToClient = << >>
  BY DEF GuestChanges, At, ClientAlive, Inv, IInv, ClientExpects, OnRun
<1>2. ServerAlive => Waiting
  BY <1>1, ServerWaits DEF Inv, IInv
<1>3. ToClient' = ToClient /\ ToServer' = ToServer /\ Wired' /\ Shape'
  BY <1>1 DEF ToClient, ToServer, Wired, Inv, Shape
<1>4. ClientExpects'
  BY <1>1, <1>3 DEF ClientExpects, OnRun, ClientPcs
<1>5. ServerAlive' => ServerExpects'
  BY <1>1, <1>2, <1>3 DEF ServerExpects, ServerAlive, Waiting, OnMainHdr, HdrPcs, BodyPcs
<1>6. CacheRight'
  <2>1. CacheRight
    BY <1>1 DEF Inv, IInv
  <2>2. mem' \in [Pages -> Contents \cup {Unmapped}]
    BY <2>1 DEF GuestChanges, CacheRight
  <2>3. \A q \in Pages : s.page_cache[q] \in {Unread, mem'[q]} \/ q \in changed'
    <3> TAKE q \in Pages
    <3>1. CASE q = p
      BY <2>1, <3>1 DEF GuestChanges, CacheRight
    <3>2. CASE q # p
      BY <2>1, <3>2 DEF GuestChanges, CacheRight
    <3> QED BY <3>1, <3>2
  <2> QED BY <1>1, <2>1, <2>2, <2>3 DEF CacheRight
<1> QED BY <1>1, <1>3, <1>4, <1>5, <1>6 DEF Inv, IInv, ClientAlive, NoProtocolError

(* A page request can be sent.                                             *)
LEMMA RequestWire ==
  ASSUME NEW p \in Pages
  PROVE  /\ <<Dat(p)>> \in Seq(Wire) /\ Len(<<Dat(p)>>) = 1
         /\ Message("S_MEMREQ", <<Dat(p)>>) = <<Hdr("S_MEMREQ", 1)>> \o <<Dat(p)>>
         /\ Message("S_MEMREQ", <<Dat(p)>>) \in Seq(Wire)
<1>1. <<Dat(p)>> \in Seq(Wire) /\ Len(<<Dat(p)>>) = 1
  BY BodyUnit DEF Payloads
<1>2. Message("S_MEMREQ", <<Dat(p)>>) = <<Hdr("S_MEMREQ", 1)>> \o <<Dat(p)>>
  BY <1>1 DEF Message
<1> QED BY <1>1, <1>2, MessageWire DEF Ids

(* The answer to a page request is a page and its failed byte.             *)
LEMMA ReplyWire ==
  ASSUME NEW p \in Pages, mem \in [Pages -> Contents \cup {Unmapped}]
  PROVE  \E x \in Payloads, y \in {"failed", "ok"} :
           /\ Reply(p) = Units(PageUnits, x) \o <<Dat(y)>>
           /\ Reply(p) \in Seq(Wire) /\ Len(Reply(p)) = PageUnits + 1
           /\ mem[p] = Unmapped => y = "failed"
           /\ mem[p] # Unmapped => y = "ok" /\ x = mem[p]
<1>1. PICK x \in Payloads, y \in {"failed", "ok"} :
        /\ Reply(p) = Units(PageUnits, x) \o <<Dat(y)>>
        /\ mem[p] = Unmapped => y = "failed"
        /\ mem[p] # Unmapped => y = "ok" /\ x = mem[p]
  <2>1. CASE mem[p] = Unmapped
    <3>1. "zero" \in Payloads
      BY DEF Payloads
    <3> QED BY <2>1, <3>1 DEF Reply
  <2>2. CASE mem[p] # Unmapped
    <3>1. mem[p] \in Payloads
      BY <2>2 DEF Payloads
    <3> QED BY <2>2, <3>1 DEF Reply
  <2> QED BY <2>1, <2>2
<1>2. <<Dat(y)>> \in Seq(Wire) /\ Len(<<Dat(y)>>) = 1
  BY BodyUnit DEF Payloads
<1>3. Units(PageUnits, x) \in Seq(Wire) /\ Len(Units(PageUnits, x)) = PageUnits
  BY UnitsRight, ProtocolAssumption
<1>4. Reply(p) \in Seq(Wire) /\ Len(Reply(p)) = PageUnits + 1
  BY SMTT(60), <1>1, <1>2, <1>3, ConcatProperties
<1> QED BY <1>1, <1>4

(* The header the client finds is that of what the server sent.            *)
LEMMA HeaderFound ==
  ASSUME Wired, Len(c.in) = 1
  PROVE  /\ \A n \in Sizes, o \in Objects : ToClient = Message("S_OBJECT", Units(n, o)) =>
              c.in = <<Hdr("S_OBJECT", n)>> /\ ClientRest = Units(n, o)
         /\ \A p \in Pages : ToClient = Message("S_MEMREQ", <<Dat(p)>>) =>
              c.in = <<Hdr("S_MEMREQ", 1)>> /\ ClientRest = <<Dat(p)>>
<1>1. ASSUME NEW n \in Sizes, NEW o \in Objects, ToClient = Message("S_OBJECT", Units(n, o))
      PROVE  c.in = <<Hdr("S_OBJECT", n)>> /\ ClientRest = Units(n, o)
  <2>1. /\ <<Hdr("S_OBJECT", n)>> \in Seq(Wire) /\ Len(<<Hdr("S_OBJECT", n)>>) = 1
        /\ Units(n, o) \in Seq(Wire) /\ ToClient = <<Hdr("S_OBJECT", n)>> \o Units(n, o)
    BY <1>1, ObjectWire, HeaderUnit DEF Ids
  <2> QED BY <2>1, ClientTakes
<1>2. ASSUME NEW p \in Pages, ToClient = Message("S_MEMREQ", <<Dat(p)>>)
      PROVE  c.in = <<Hdr("S_MEMREQ", 1)>> /\ ClientRest = <<Dat(p)>>
  <2>1. /\ <<Hdr("S_MEMREQ", 1)>> \in Seq(Wire) /\ Len(<<Hdr("S_MEMREQ", 1)>>) = 1
        /\ <<Dat(p)>> \in Seq(Wire) /\ ToClient = <<Hdr("S_MEMREQ", 1)>> \o <<Dat(p)>>
    BY <1>2, RequestWire, HeaderUnit DEF Ids
  <2> QED BY <2>1, ClientTakes
<1> QED BY <1>1, <1>2

(* The loop of translator_get: an object header is kept, a page request    *)
(* answered.                                                               *)
LEMMA ClientLoops ==
  ASSUME Inv, translator_get_loop, UNCHANGED <<c2s, s2c, mem, changed, s>>
  PROVE  Inv'
<1>1. /\ c.pc \in {"get_hdr", "mem_body"} /\ ClientAlive /\ Wired /\ ClientExpects
      /\ Len(c.in) = 1 /\ c.want = 1 /\ c.got = NoObj /\ c.last_hdr = UNKNOWN
      /\ c.asked # NoAddr /\ (ServerAlive => ServerExpects) /\ c.asked \in Addrs \cup {NoAddr}
      /\ mem \in [Pages -> Contents \cup {Unmapped}]
  BY DEF translator_get_loop, At, ClientAlive, Inv, IInv, ClientExpects, CacheRight,
     OnGetHdr,
     OnMemBody
<1>2. ToClient # << >> /\ TheHdr = c.in[1]
  BY <1>1, ClientHasSome DEF TheHdr
<1>3. CASE At("get_hdr") /\ ObjectMsg(ToClient)
  <2>1. PICK n \in Sizes, o \in Objects :
          Asked(o) /\ ToClient = Message("S_OBJECT", Units(n, o))
    BY <1>3 DEF ObjectMsg
  <2>2. c.in = <<Hdr("S_OBJECT", n)>> /\ ClientRest = Units(n, o)
    BY <1>1, <2>1, HeaderFound
  <2>3. TheHdr = Hdr("S_OBJECT", n) /\ TheHdr.id # "S_MEMREQ" /\ KeepHdr # UNKNOWN
    BY SMTT(60), <1>2, <2>2 DEF Hdr, KeepHdr, UNKNOWN
  <2>4. ClientAt("obj_hdr", 0, c.out, Hdr("S_OBJECT", n))
    BY <1>3, <2>3, ClientWaits DEF translator_get_loop, At, KeepHdr, Inv
  <2>5. ToClient' = Units(n, o)
    BY <1>1, <2>2, <2>4, ClientTook DEF ClientAt
  <2>6. Asked(o)'
    BY <2>1, <2>4 DEF Asked, FreshPage, ClientAt
  <2>7. ClientExpects'
    BY <1>1, <2>4, <2>5, <2>6 DEF ClientExpects, Body, ClientAt, OnObjHdr, ClientPcs
  <2>8. ServerAlive => Waiting
    <3> SUFFICES ASSUME ServerAlive PROVE Waiting
      OBVIOUS
    <3>1. s.page \in Pages => ToClient # Message("S_MEMREQ", <<Dat(s.page)>>)
      <4>1. <<Hdr("S_OBJECT", n)>> # <<Hdr("S_MEMREQ", 1)>>
        BY DEF Hdr
      <4> QED BY <1>1, <2>2, <4>1, HeaderFound
    <3> QED BY <1>1, <1>2, <1>3, <3>1 DEF ServerExpects, Serving, Waiting, At, OnInitHdr,
               OnInitBody, OnMainHdr, OnAddrBody, OnDecode, OnPageHdr, OnPageBody, OnFailedBody,
               HdrPcs, BodyPcs
  <2> QED BY <1>1, <2>4, <2>7, <2>8, ClientGoesOn
             DEF NoProtocolError, Inv, IInv, ClientAt
<1>4. CASE At("get_hdr") /\ \E p \in Pages : ToClient = Message("S_MEMREQ", <<Dat(p)>>)
  <2>1. PICK p \in Pages : ToClient = Message("S_MEMREQ", <<Dat(p)>>)
    BY <1>4
  <2>2. c.in = <<Hdr("S_MEMREQ", 1)>> /\ ClientRest = <<Dat(p)>>
    BY <1>1, <2>1, HeaderFound
  <2>3. TheHdr.id = "S_MEMREQ" /\ TheHdr.sz = 1
    BY SMTT(60), <1>2, <2>2 DEF Hdr
  <2>4. ClientAt("mem_body", 1, c.out, UNKNOWN)
    BY <1>4, <2>3, ClientWaits DEF translator_get_loop, At, Inv
  <2>5. ToClient' = <<Dat(p)>> /\ ToServer' = ToServer
    BY <1>1, <2>2, <2>4, ClientTook DEF ToServer, ClientAt
  <2>6. ClientExpects'
    BY <1>1, <2>4, <2>5 DEF ClientExpects, ClientAt, OnMemBody, ClientPcs
  <2>7. ServerAlive => ServerExpects'
    <3> SUFFICES ASSUME ServerAlive PROVE ServerExpects'
      OBVIOUS
    <3>1. ~ObjectMsg(ToClient)
      <4>1. \A n : <<Hdr("S_OBJECT", n)>> # <<Hdr("S_MEMREQ", 1)>>
        BY DEF Hdr
      <4> QED BY <1>1, <2>2, <4>1, HeaderFound DEF ObjectMsg
    <3>2. /\ s.pc = "page_hdr" /\ s.want = 1 /\ s.recv_sz = 0 /\ s.page \in Pages /\ Translating
          /\ ToClient = Message("S_MEMREQ", <<Dat(s.page)>>) /\ ToServer = << >>
      BY <1>1, <1>2, <1>4, <3>1 DEF ServerExpects, Serving, At, OnInitHdr, OnInitBody,
         OnMainHdr, OnAddrBody, OnDecode, OnPageHdr, OnPageBody, OnFailedBody, HdrPcs, BodyPcs
    <3>3. ToClient' = <<Dat(s.page)>>
      BY <1>1, <2>2, <2>5, <3>2, HeaderFound
    <3>4. Translating'
      BY <2>4, <3>2 DEF Translating, FreshPage, ClientAt
    <3> QED BY <2>4, <2>5, <3>2, <3>3, <3>4 DEF ServerExpects, ClientAt, OnPageHdr, HdrPcs, BodyPcs
  <2> QED BY <1>1, <2>4, <2>6, <2>7, ClientMoves, EmptySeq
          DEF NoProtocolError, Inv, IInv, ClientAlive, Wired, ClientAt
<1>5. CASE At("mem_body")
  <2>1. PICK p \in Pages : ToClient = <<Dat(p)>>
    BY <1>1, <1>5 DEF ClientExpects, At, OnMemBody
  <2>2. c.in = <<Dat(p)>> /\ ClientRest = << >>
    <3>1. <<Dat(p)>> \in Seq(Wire) /\ Len(<<Dat(p)>>) = 1
      BY RequestWire
    <3> DEFINE u == <<Dat(p)>>
    <3> HIDE DEF u
    <3>2. u \in Seq(Wire) /\ Len(u) = 1 /\ ToClient = u
      BY <2>1, <3>1 DEF u
    <3>3. ToClient = u \o << >> /\ << >> \in Seq(Wire)
      BY <3>2, ConcatEmptySeq, EmptySeq
    <3>4. c.in = u /\ ClientRest = << >>
      BY <1>1, <3>2, <3>3, ClientTakes
    <3> QED BY <3>4 DEF u
  <2>3. c.in[1].dat[1] = p
    BY SMTT(60), <2>2 DEF Dat
  <2> DEFINE m == Message("C_MEMBUF", Reply(p))
  <2>4. m \in Seq(Wire)
    BY <1>1, ReplyWire, MessageWire DEF Ids
  <2> HIDE DEF m
  <2>5. c' = [Wait("get_hdr", 1) EXCEPT !.out = m]
    BY <1>1, <1>5, <2>3 DEF translator_get_loop, At, Send, Reply, m
  <2>6. ClientAt("get_hdr", 1, m, c.last_hdr)
    BY <2>5, ClientWaits DEF Inv
  <2>7. ToClient' = << >>
    BY <1>1, <2>2, <2>6, ClientTook DEF ClientAt
  <2>8. ClientExpects'
    BY <1>1, <2>6, <2>7 DEF ClientExpects, ClientAt, OnGetHdr, ClientPcs
  <2>9. ServerAlive => ServerExpects'
    <3> SUFFICES ASSUME ServerAlive PROVE ServerExpects'
      OBVIOUS
    <3>1. /\ s.pc = "page_hdr" /\ s.want = 1 /\ s.recv_sz = 0 /\ s.page \in Pages /\ Translating
          /\ ToClient = <<Dat(s.page)>> /\ ToServer = << >>
      BY <1>1, <1>5 DEF ServerExpects, Serving, At, OnInitHdr, OnInitBody, OnMainHdr,
         OnAddrBody, OnDecode, OnPageHdr, OnPageBody, OnFailedBody, HdrPcs, BodyPcs
    <3>2. s.page = p
      BY SMTT(60), <2>1, <3>1 DEF Dat
    <3>3. ToServer' = m
      BY <1>1, <2>4, <2>6, <3>1, ClientSends DEF ClientAt
    <3>4. Translating' /\ Reply(s.page)' = Reply(s.page)
      BY <2>6, <3>1 DEF Translating, FreshPage, Reply, ClientAt
    <3> QED BY <2>6, <2>7, <3>1, <3>2, <3>3, <3>4 DEF ServerExpects, Serving, m, ClientAt,
               OnPageHdr, HdrPcs, BodyPcs
  <2> QED BY <1>1, <2>4, <2>6, <2>8, <2>9, ClientMoves, EmptySeq
          DEF NoProtocolError, Inv, IInv, ClientAlive, ClientAt
<1> QED BY <1>1, <1>2, <1>3, <1>4, <1>5 DEF translator_get_loop, At, ClientExpects, OnGetHdr,
           OnMemBody, ClientPcs
-----------------------------------------------------------------------------
(* The server takes what it waited for and goes on, while the client lives. *)

(* The server that waits for a header and has it has the one sent, and the *)
(* body remains.                                                           *)
LEMMA ServerHeader ==
  ASSUME Wired, Len(s.in) = 1, NEW id \in Ids, NEW data \in Seq(Wire),
         ToServer = Message(id, data)
  PROVE  s.in = <<Hdr(id, Len(data))>> /\ ServerRest = data
<1>1. Len(data) \in Nat
  BY LenProperties
<1>2. <<Hdr(id, Len(data))>> \in Seq(Wire) /\ Len(<<Hdr(id, Len(data))>>) = 1
  BY <1>1, HeaderUnit
<1> QED BY <1>2, ServerTakes DEF Message

(* The server that has as many units as its whole stream is long has it    *)
(* all.                                                                    *)
LEMMA ServerBody ==
  ASSUME Wired, NEW x \in Seq(Wire), ToServer = x, Len(s.in) = Len(x)
  PROVE  s.in = x /\ ServerRest = << >>
<1>1. ToServer = x \o << >> /\ << >> \in Seq(Wire)
  BY ConcatEmptySeq, EmptySeq
<1> QED BY <1>1, ServerTakes

(* A server that waited for a unit and got it has a stream that is not     *)
(* empty.                                                                  *)
LEMMA ServerHasSome ==
  ASSUME Wired, Len(s.in) = 1
  PROVE  ToServer # << >>
<1>1. s.in # << >>
  <2>1. Len(<< >>) = 0
    OBVIOUS
  <2> QED BY SMTT(60), <2>1
<1> QED BY SMTT(60), <1>1, StreamEmpty DEF ToServer, Wired

(* The server writes m when everything it wrote before has been read.      *)
LEMMA ServerSends ==
  ASSUME Wired, ToClient = << >>, UNCHANGED <<s2c, c>>, NEW m \in Seq(Wire), s'.out = m
  PROVE  ToClient' = m
<1>1. c.in = << >> /\ s2c = << >>
  BY SMTT(60), StreamEmpty DEF ToClient, Wired
<1>2. ToClient' = << >> \o (<< >> \o m)
  BY <1>1 DEF ToClient
<1> QED BY <1>2, StreamWritten

(* A step of the server that sends nothing.                                *)
LEMMA ServerGoesOn ==
  ASSUME Inv, ClientAlive, UNCHANGED <<c2s, s2c, c, mem, changed>>, Shape',
         s'.file_wr = s.file_wr, s'.need_iwcc = s.need_iwcc, s'.pc # "aborted",
         s'.in = << >>, s'.out = s.out, CacheRight', ServerExpects'
  PROVE  Inv'
<1>1. ToClient' = ToClient
  BY DEF ToClient
<1>2. ClientExpects'
  BY <1>1, ClientExpectsKept DEF Inv, IInv, SameClient, SameMemory
<1> QED BY <1>2, ServerMoves, EmptySeq DEF Inv, IInv, Wired

(* SendMsg always flushes.                                                 *)
Sent(t, m) == [t EXCEPT !.out = @ \o (t.file_wr \o m), !.file_wr = << >>]

(* SendMsgHdr and Write put a message out at once and leave nothing in the *)
(* buffer.                                                                 *)
LEMMA SendMsgRight ==
  ASSUME NEW t, NEW id, NEW data, Len(data) \in Int
  PROVE  SendMsg(t, id, data) = Sent(t, Message(id, data))
BY SMTT(60) DEF SendMsg, Flushes, Sent

(* What a living client and server know of each other.                     *)
Talking == Wired /\ ClientAlive /\ ClientExpects /\ ServerExpects /\ CacheRight /\ ~Eof

(* A server that takes a step while the client lives talks with it.        *)
LEMMA TalkingFacts ==
  ASSUME Inv, ClientAlive, ServerAlive
  PROVE  Talking /\ Shape /\ s.file_wr = << >> /\ s.need_iwcc = FALSE
BY ReadsAgree DEF Inv, IInv, Talking

(* The constructor of IWState: C_INIT is read, S_INIT and the first object *)
(* are sent.                                                               *)
LEMMA ServerInit ==
  ASSUME Inv, ClientAlive, ServerAlive, InitServer, UNCHANGED <<c2s, s2c, c, mem, changed>>
  PROVE  Inv'
<1>1. Talking /\ Shape /\ s.file_wr = << >> /\ s.need_iwcc = FALSE
  BY TalkingFacts
<1> DEFINE b == <<Dat("tsc")>>
<1>2. b \in Seq(Wire) /\ Len(b) = 1
  BY BodyUnit DEF Payloads
<1> HIDE DEF b
<1>3. CASE SAt("init_hdr")
  <2>1. s.pc = "init_hdr" /\ Len(s.in) = 1 /\ ToServer # << >>
    BY <1>1, <1>3, ServerHasSome DEF SAt, Talking, ServerExpects, OnInitHdr
  <2>2. c.pc = "cfg_hdr" /\ ToClient = << >> /\ ToServer = Message("C_INIT", b)
    BY <1>1, <2>1 DEF Talking, ServerExpects, b, OnInitHdr
  <2>3. s.in = <<Hdr("C_INIT", 1)>> /\ ServerRest = b
    <3>1. s.in = <<Hdr("C_INIT", Len(b))>> /\ ServerRest = b
      BY <1>1, <1>2, <2>1, <2>2, ServerHeader DEF Talking, Ids
    <3> QED BY <1>2, <3>1
  <2>4. RecvMsg = "C_INIT" /\ RecvSz = 1
    BY SMTT(60), <1>1, <2>3 DEF RecvMsg, RecvSz, Talking, Hdr
  <2>5. s' = [SWait("init_body", 1) EXCEPT !.recv_sz = 1]
    BY <2>1, <2>4 DEF InitServer, SAt
  <2>6. /\ Shape' /\ s'.pc = "init_body" /\ s'.in = << >> /\ s'.want = 1 /\ s'.recv_sz = 1
        /\ s'.out = s.out /\ s'.file_wr = s.file_wr /\ s'.need_iwcc = s.need_iwcc
        /\ s'.page_cache = s.page_cache /\ s'.seen = s.seen
    BY <1>1, <2>5 DEF SWait, Shape
  <2>7. ToServer' = b /\ ToClient' = ToClient
    BY <1>1, <2>3, <2>6, ServerTook DEF Talking, ToClient
  <2>8. CacheRight'
    BY <1>1, <2>6 DEF Talking, CacheRight
  <2>9. ServerExpects'
    BY <2>2, <2>6, <2>7 DEF ServerExpects, b, OnInitBody, HdrPcs, BodyPcs
  <2> QED BY <2>6, <2>8, <2>9, ServerGoesOn
<1>4. CASE SAt("init_body")
  <2>1. /\ s.pc = "init_body" /\ s.want = 1 /\ Len(s.in) = 1 /\ s.recv_sz = 1 /\ s.out = << >>
        /\ c.pc = "cfg_hdr" /\ ToClient = << >> /\ ToServer = b
    BY <1>1, <1>4 DEF SAt, Talking, ServerExpects, b, OnInitBody
  <2>2. ServerRest = << >>
    BY <1>1, <1>2, <2>1, ServerBody DEF Talking
  <2>3. PICK n \in ObjSizes :
          s' = SendObject([Read("main_hdr", 1) EXCEPT !.need_iwcc = TRUE], Units(n, NoObj))
    BY <2>1 DEF InitServer, SAt
  <2> DEFINE b1 == <<Dat("tc")>>
             b2 == Units(n, NoObj)
             m1 == Message("S_INIT", b1)
             m2 == Message("S_OBJECT", b2)
             t == [Read("main_hdr", 1) EXCEPT !.need_iwcc = TRUE]
             t1 == [SendMsg(t, "S_INIT", b1) EXCEPT !.need_iwcc = FALSE]
  <2>4. n \in Sizes /\ NoObj \in Objects
    BY DEF Sizes, NoObj, Objects
  <2>5. b1 \in Seq(Wire) /\ Len(b1) = 1
    BY BodyUnit DEF Payloads
  <2>6. m2 \in Seq(Wire) /\ m2 # << >> /\ n \in Nat /\ Len(b2) = n
    BY <2>4, ObjectWire
  <2>7. /\ DOMAIN t = DOMAIN s /\ t.pc = "main_hdr" /\ t.in = << >> /\ t.want = 1
        /\ t.recv_sz = 0 /\ t.out = << >> /\ t.file_wr = << >> /\ t.need_iwcc = TRUE
        /\ t.page_cache = s.page_cache /\ t.seen = s.seen
    BY SMTT(60), <1>1, <2>1 DEF Read, SWait, Shape
  <2>8. s' = SendMsg(t1, "S_OBJECT", b2)
    BY <2>3, <2>7 DEF SendObject
  <2> HIDE DEF b1, b2, t
  <2>9. m1 \in Seq(Wire) /\ SendMsg(t, "S_INIT", b1) = Sent(t, m1)
    BY SMTT(60), <2>5, MessageWire, SendMsgRight DEF Ids
  <2> HIDE DEF m1, m2
  <2>9a. t1 = [Sent(t, m1) EXCEPT !.need_iwcc = FALSE]
    BY <2>9
  <2> HIDE DEF t1
  <2>10. s' = Sent(t1, m2)
    BY SMTT(60), <2>6, <2>8, SendMsgRight DEF m2
  <2>11. /\ DOMAIN t1 = DOMAIN s /\ t1.pc = "main_hdr" /\ t1.in = << >> /\ t1.want = 1
         /\ t1.recv_sz = 0 /\ t1.out = << >> \o (<< >> \o m1) /\ t1.file_wr = << >>
         /\ t1.need_iwcc = FALSE /\ t1.page_cache = s.page_cache /\ t1.seen = s.seen
    BY <1>1, <2>7, <2>9a DEF Shape, Sent
  <2>12. t1.out = m1 /\ << >> \o m2 = m2
    BY <2>6, <2>9, <2>11, StreamWritten, ConcatEmptySeq
  <2>13. /\ Shape' /\ s'.pc = "main_hdr" /\ s'.in = << >> /\ s'.want = 1 /\ s'.recv_sz = 0
         /\ s'.out = m1 \o m2 /\ s'.file_wr = << >> /\ s'.need_iwcc = FALSE
         /\ s'.page_cache = s.page_cache /\ s'.seen = s.seen
    BY <1>1, <2>10, <2>11, <2>12 DEF Shape, Sent
  <2>14. m1 \o m2 \in Seq(Wire) /\ m1 \o m2 # << >>
    BY SMTT(60), <2>6, <2>9, ConcatProperties, ConcatEqualIffEmpty
  <2>15. ToClient' = m1 \o m2
    BY <1>1, <2>1, <2>13, <2>14, ServerSends DEF Talking
  <2>16. ToServer' = << >>
    BY <1>1, <2>2, <2>13, ServerTook DEF Talking
  <2>17. c.asked = NoAddr
    BY <1>1, <2>1 DEF Talking, ClientExpects, OnCfgHdr
  <2>18. ConfigMsg(m1, m1 \o m2)'
    BY <2>4, <2>17 DEF ConfigMsg, Asked, m2, b2
  <2>19. ClientExpects'
    BY <1>1, <2>1, <2>15, <2>18 DEF Talking, ClientExpects, m1, b1, OnCfgHdr, ClientPcs
  <2>20. ServerExpects'
    BY <2>1, <2>13, <2>14, <2>15, <2>16 DEF ServerExpects, OnMainHdr, HdrPcs, BodyPcs
  <2>21. CacheRight'
    BY <1>1, <2>13 DEF Talking, CacheRight
  <2> QED BY <2>13, <2>14, <2>19, <2>20, <2>21, ServerMoves, EmptySeq
<1> QED BY <1>3, <1>4 DEF InitServer

(* The record of the server after it has read the address of a request.    *)
LEMMA AddressRead ==
  ASSUME Shape, c' = c, s.want = 1, s.recv_sz = 1, NEW a, NEW k, NEW z,
         s' = [Read("decode", 0) EXCEPT !.addr = a, !.pre_addr = a, !.isKernel = k,
                                        !.seen = z, !.reads = 0]
  PROVE  /\ Shape' /\ s'.pc = "decode" /\ s'.in = << >> /\ s'.want = 0 /\ s'.recv_sz = 0
         /\ s'.out = s.out /\ s'.file_wr = s.file_wr /\ s'.need_iwcc = s.need_iwcc
         /\ s'.page_cache = s.page_cache /\ s'.seen = z /\ s'.addr = a
<1> DEFINE t == Read("decode", 0)
<1>1. /\ DOMAIN t = DOMAIN s /\ t.pc = "decode" /\ t.in = << >> /\ t.want = 0 /\ t.recv_sz = 0
      /\ t.out = s.out /\ t.file_wr = s.file_wr /\ t.need_iwcc = s.need_iwcc
      /\ t.page_cache = s.page_cache
  BY SMTT(60) DEF Read, SWait, Shape
<1> HIDE DEF t
<1>2. s' = [t EXCEPT !.addr = a, !.pre_addr = a, !.isKernel = k, !.seen = z, !.reads = 0]
  BY DEF t
<1> QED BY <1>1, <1>2 DEF Shape

(* The message loop of Run: C_TRANSLATE and its address are read.          *)
LEMMA ServerRuns ==
  ASSUME Inv, ClientAlive, ServerAlive, Run, UNCHANGED <<c2s, s2c, c, mem, changed>>
  PROVE  Inv'
<1>1. Talking /\ Shape /\ s.file_wr = << >> /\ s.need_iwcc = FALSE
  BY TalkingFacts
<1> DEFINE b == <<Dat(c.asked)>>
<1>2. c.pc = "get_hdr" => c.asked \in Addrs /\ b \in Seq(Wire) /\ Len(b) = 1
  <2>1. c.pc = "get_hdr" => c.asked \in Addrs
    BY <1>1 DEF Inv, IInv, Talking, ClientExpects, OnInit, OnCfgHdr, OnCfgBody, OnObjHdr,
       OnObjBody, OnRun, OnGetHdr, OnMemBody, ClientPcs
  <2> QED BY <2>1, BodyUnit DEF Payloads
<1> HIDE DEF b
<1>3. CASE SAt("main_hdr")
  <2>1. s.pc = "main_hdr" /\ Len(s.in) = 1 /\ ToServer # << >>
    BY <1>1, <1>3, ServerHasSome DEF SAt, Talking, ServerExpects, OnMainHdr
  <2>2. c.pc = "get_hdr" /\ ToClient = << >> /\ ToServer = Message("C_TRANSLATE", b)
    BY <1>1, <2>1 DEF Talking, ServerExpects, Serving, b, OnMainHdr
  <2>3. s.in = <<Hdr("C_TRANSLATE", 1)>> /\ ServerRest = b
    <3>1. s.in = <<Hdr("C_TRANSLATE", Len(b))>> /\ ServerRest = b
      BY <1>1, <1>2, <2>1, <2>2, ServerHeader DEF Talking, Ids
    <3> QED BY <1>2, <2>2, <3>1
  <2>4. RecvMsg = "C_TRANSLATE" /\ RecvSz = 1
    BY SMTT(60), <1>1, <2>3 DEF RecvMsg, RecvSz, Talking, Hdr
  <2>5. s' = [SWait("addr_body", 1) EXCEPT !.recv_sz = 1]
    BY <2>1, <2>4 DEF Run, SAt
  <2>6. /\ Shape' /\ s'.pc = "addr_body" /\ s'.in = << >> /\ s'.want = 1 /\ s'.recv_sz = 1
        /\ s'.out = s.out /\ s'.file_wr = s.file_wr /\ s'.need_iwcc = s.need_iwcc
        /\ s'.page_cache = s.page_cache /\ s'.seen = s.seen
    BY <1>1, <2>5 DEF SWait, Shape
  <2>7. ToServer' = b /\ ToClient' = ToClient
    BY <1>1, <2>3, <2>6, ServerTook DEF Talking, ToClient
  <2>8. CacheRight'
    BY <1>1, <2>6 DEF Talking, CacheRight
  <2>9. c.asked # NoAddr
    BY <1>2, <2>2, ProtocolAssumption DEF NoAddr
  <2>10. ServerExpects'
    BY <2>2, <2>6, <2>7, <2>9 DEF ServerExpects, Serving, b, OnAddrBody, HdrPcs, BodyPcs
  <2> QED BY <2>6, <2>8, <2>10, ServerGoesOn
<1>4. CASE SAt("addr_body")
  <2>1. /\ s.pc = "addr_body" /\ s.want = 1 /\ Len(s.in) = 1 /\ s.recv_sz = 1
        /\ c.pc = "get_hdr" /\ ToClient = << >> /\ ToServer = b /\ c.asked # NoAddr
    BY <1>1, <1>4 DEF SAt, Talking, ServerExpects, Serving, b, OnAddrBody
  <2>2. s.in = b /\ ServerRest = << >>
    BY <1>1, <1>2, <2>1, ServerBody DEF Talking
  <2>3. s.in[1].dat[1] = c.asked
    BY SMTT(60), <2>2 DEF b, Dat
  <2> DEFINE k == (c.asked - s.pre_addr = KernelDelta)
             z == [p \in Pages |-> Unread]
  <2>4. s' = [Read("decode", 0) EXCEPT
                !.addr = c.asked, !.pre_addr = c.asked, !.isKernel = k, !.seen = z, !.reads = 0]
    BY <2>1, <2>3 DEF Run, SAt
  <2> HIDE DEF k, z
  <2>5. /\ Shape' /\ s'.pc = "decode" /\ s'.in = << >> /\ s'.want = 0 /\ s'.recv_sz = 0
        /\ s'.out = s.out /\ s'.file_wr = s.file_wr /\ s'.need_iwcc = s.need_iwcc
        /\ s'.page_cache = s.page_cache /\ s'.seen = z
        /\ s'.addr = c.asked
    BY <1>1, <2>1, <2>4, AddressRead
  <2>6. ToServer' = << >> /\ ToClient' = ToClient
    BY <1>1, <2>2, <2>5, ServerTook DEF Talking, ToClient
  <2>7. CacheRight'
    BY <1>1, <2>5 DEF Talking, CacheRight, z
  <2>8. Translating'
    BY <2>1, <2>5 DEF Translating, FreshPage, z
  <2>9. ServerExpects'
    BY <2>1, <2>5, <2>6, <2>8 DEF ServerExpects, Serving, OnDecode, HdrPcs, BodyPcs
  <2> QED BY <2>5, <2>7, <2>9, ServerGoesOn
<1> QED BY <1>3, <1>4 DEF Run

(* The server sends data to the waiting client after it decoded.           *)
LEMMA ObjectSent ==
  ASSUME Inv, ClientAlive, ServerAlive, s.pc = "decode", s.out = << >>,
         UNCHANGED <<c2s, s2c, c, mem, changed>>, NEW n \in Sizes,
         s' = Sent(SWait("main_hdr", 1), Message("S_OBJECT", Units(n, Object)))
  PROVE  Inv'
<1> DEFINE m == Message("S_OBJECT", Units(n, Object))
<1>1. Talking /\ Shape /\ s.file_wr = << >> /\ s.need_iwcc = FALSE
  BY TalkingFacts
<1>2. /\ s.recv_sz = 0 /\ Translating /\ c.pc = "get_hdr" /\ ToClient = << >>
      /\ ToServer = << >>
  BY <1>1 DEF Talking, ServerExpects, Serving, OnDecode
<1>3. Object \in Objects /\ Asked(Object)
  BY <1>1, <1>2 DEF Object, Objects, Asked, Translating, FreshPage, Talking,
     CacheRight, Inv, IInv
<1>4. m \in Seq(Wire)
  BY <1>3, ObjectWire
<1> HIDE DEF m
<1>5. /\ Shape' /\ s'.pc = "main_hdr" /\ s'.in = << >> /\ s'.want = 1 /\ s'.recv_sz = 0
      /\ s'.out = << >> \o (<< >> \o m) /\ s'.file_wr = << >> /\ s'.need_iwcc = FALSE
      /\ s'.page_cache = s.page_cache /\ s'.seen = s.seen /\ s'.addr = s.addr
  BY <1>1, <1>2 DEF Sent, SWait, Shape, m
<1>6. s'.out = m
  BY <1>4, <1>5, StreamWritten
<1>7. ToClient' = m
  BY <1>1, <1>2, <1>4, <1>6, ServerSends DEF Talking
<1>8. ToServer' = << >>
  BY SMTT(60), <1>1, <1>2, <1>5, StreamEmpty DEF ToServer, Talking, Wired
<1>9. ObjectMsg(ToClient)'
  <2>1. Asked(Object)' <=> Asked(Object)
    BY <1>5 DEF Asked, FreshPage, Object
  <2>2. Object' = Object
    BY <1>5 DEF Object
  <2> QED BY <1>3, <1>7, <2>1, <2>2 DEF ObjectMsg, m
<1>10. ClientExpects'
  BY <1>1, <1>2, <1>9 DEF Talking, ClientExpects, OnGetHdr, ClientPcs
<1>11. ServerExpects'
  BY <1>2, <1>5, <1>8, <1>9 DEF ServerExpects, OnMainHdr, HdrPcs, BodyPcs
<1>12. CacheRight'
  BY <1>1, <1>5 DEF Talking, CacheRight
<1> QED BY <1>4, <1>5, <1>6, <1>10, <1>11, <1>12, ServerMoves, EmptySeq

(* CacheProbe and the end of Translate send an object for the request.     *)
LEMMA ServerTranslates ==
  ASSUME Inv, ClientAlive, ServerAlive, CacheProbe \/ Translate,
         UNCHANGED <<c2s, s2c, c, mem, changed>>
  PROVE  Inv'
<1>1. Talking /\ Shape /\ s.file_wr = << >> /\ s.need_iwcc = FALSE
  BY TalkingFacts
<1>2. s.pc = "decode" /\ s.out = << >>
  BY DEF CacheProbe, Translate, SAt
<1> DEFINE t == SWait("main_hdr", 1)
<1>3. t.need_iwcc = FALSE /\ t.file_wr = << >> /\ t.out = << >> /\ DOMAIN t = DOMAIN s
  BY <1>1, <1>2 DEF SWait, Shape
<1> HIDE DEF t
<1>4. \A n \in Sizes : Len(Units(n, Object)) = n /\ n \in Nat /\ (n = 0 => Units(n, Object) = << >>)
  BY SMTT(60), UnitsRight, ProtocolAssumption DEF Sizes
<1>5. ASSUME NEW n \in Sizes, s' = SendObject(t, Units(n, Object))
      PROVE  Inv'
  <2>1. s' = Sent(t, Message("S_OBJECT", Units(n, Object)))
    BY SMTT(60), <1>3, <1>4, <1>5, SendMsgRight DEF SendObject
  <2> QED BY <1>2, <2>1, ObjectSent DEF t
<1>6. ASSUME NEW n \in ObjSizes,
             s' = Sendfile([t EXCEPT !.file_wr = @ \o <<Hdr("S_OBJECT", n)>>], Units(n, Object))
      PROVE  Inv'
  <2> DEFINE h == <<Hdr("S_OBJECT", n)>>
             u == Units(n, Object)
  <2>1. n \in Sizes /\ h \in Seq({Hdr("S_OBJECT", n)})
    BY SMTT(60) DEF Sizes
  <2>2. Message("S_OBJECT", u) = h \o u
    BY <1>4, <2>1 DEF Message
  <2>3. << >> \o h = h
    BY <2>1, ConcatEmptySeq
  <2>4. << >> \o (<< >> \o Message("S_OBJECT", u)) = h \o u
    <3>1. u \in Seq({Dat(Object)})
      BY SMTT(60), <1>4, <2>1 DEF Units
    <3>2. h \in Seq({Hdr("S_OBJECT", n), Dat(Object)}) /\ u \in Seq({Hdr("S_OBJECT", n), Dat(Object)})
      BY <2>1, <3>1, SeqMonotonic
    <3>3. h \o u \in Seq({Hdr("S_OBJECT", n), Dat(Object)})
      BY <3>2, ConcatProperties
    <3> QED BY <2>2, <3>3, StreamWritten
  <2>5. s' = Sendfile([t EXCEPT !.file_wr = @ \o h], u)
    BY <1>6
  <2> HIDE DEF h, u
  <2>6. s' = Sent(t, Message("S_OBJECT", u))
    BY <1>1, <1>3, <2>3, <2>4, <2>5 DEF Sendfile, Sent, Shape
  <2> QED BY <1>2, <2>1, <2>6, ObjectSent DEF t, u
<1>7. CASE Stop("exited")
  BY <1>7, ServerStops
<1>8. ObjSizes \subseteq Sizes /\ 0 \in Sizes
  BY DEF Sizes
<1> QED BY <1>4, <1>5, <1>6, <1>7, <1>8 DEF CacheProbe, Translate, t

(* RemoteMemory::GetPage: from the cache, or asked for, read and           *)
(* remembered.                                                             *)
LEMMA ServerGetsPage ==
  ASSUME Inv, ClientAlive, ServerAlive, GetPage, UNCHANGED <<c2s, s2c, c, mem, changed>>
  PROVE  Inv'
<1>1. Talking /\ Shape /\ s.file_wr = << >> /\ s.need_iwcc = FALSE
  BY TalkingFacts
<1>2. /\ mem \in [Pages -> Contents \cup {Unmapped}]
      /\ s.page_cache \in [Pages -> Contents \cup {Unread}]
      /\ s.seen \in [Pages -> Contents \cup {Unread, Unmapped}]
      /\ \A p \in Pages : s.page_cache[p] \in {Unread, mem[p]} \/ p \in changed
  BY <1>1 DEF Talking, CacheRight
<1>3. SAt("decode") =>
        /\ s.pc = "decode" /\ s.want = 0 /\ s.recv_sz = 0 /\ s.out = << >> /\ Translating
        /\ c.pc = "get_hdr" /\ ToClient = << >> /\ ToServer = << >>
        /\ s.in = << >>
  <2>1. SAt("decode") =>
        /\ s.pc = "decode" /\ s.want = 0 /\ s.recv_sz = 0 /\ s.out = << >> /\ Translating
        /\ c.pc = "get_hdr" /\ ToClient = << >> /\ ToServer = << >>
    BY <1>1 DEF SAt, Talking, ServerExpects, Serving, OnDecode
  <2> QED BY SMTT(60), <1>1, <2>1, StreamEmpty DEF Talking, Wired, ToServer
<1>4. ASSUME NEW p \in Pages, SAt("decode"), s' = [s EXCEPT !.seen[p] = s.page_cache[p]]
      PROVE  Inv'
  <2>1. /\ Shape' /\ s'.pc = s.pc /\ s'.in = s.in /\ s'.want = s.want /\ s'.recv_sz = s.recv_sz
        /\ s'.out = s.out /\ s'.file_wr = s.file_wr /\ s'.need_iwcc = s.need_iwcc
        /\ s'.page_cache = s.page_cache /\ s'.seen = [s.seen EXCEPT ![p] = s.page_cache[p]]
        /\ s'.addr = s.addr
    BY <1>1, <1>4 DEF Shape
  <2>2. ToServer' = ToServer /\ ToClient' = ToClient
    BY <2>1 DEF ToClient, ToServer
  <2>3. CacheRight'
    BY <1>2, <2>1 DEF CacheRight
  <2>4. Translating'
    BY SMTT(60), <1>2, <1>3, <1>4, <2>1 DEF Translating, FreshPage
  <2>5. ServerExpects'
    BY <1>3, <1>4, <2>1, <2>2, <2>4 DEF ServerExpects, Serving, OnDecode, HdrPcs, BodyPcs
  <2> QED BY <1>3, <1>4, <2>1, <2>3, <2>5, ServerGoesOn
<1>5. ASSUME NEW p \in Pages, SAt("decode"),
             s' = SendMsg([SWait("page_hdr", 1) EXCEPT !.page = p, !.reads = @ + 1],
                          "S_MEMREQ", <<Dat(p)>>)
      PROVE  Inv'
  <2> DEFINE t == [SWait("page_hdr", 1) EXCEPT !.page = p, !.reads = @ + 1]
             b == <<Dat(p)>>
             m == Message("S_MEMREQ", b)
  <2>1. m \in Seq(Wire) /\ Len(b) = 1
    BY RequestWire
  <2>2. /\ DOMAIN t = DOMAIN s /\ t.pc = "page_hdr" /\ t.in = << >> /\ t.want = 1
        /\ t.recv_sz = 0 /\ t.out = << >> /\ t.file_wr = << >> /\ t.need_iwcc = FALSE
        /\ t.page_cache = s.page_cache /\ t.seen = s.seen /\ t.addr = s.addr /\ t.page = p
    BY <1>1, <1>3, <1>5 DEF SWait, Shape
  <2> HIDE DEF t, b
  <2>3. s' = Sent(t, m)
    <3>1. s' = SendMsg(t, "S_MEMREQ", b)
      BY <1>5 DEF t, b
    <3> QED BY SMTT(60), <2>1, <3>1, SendMsgRight
  <2> HIDE DEF m
  <2>4. /\ Shape' /\ s'.pc = "page_hdr" /\ s'.in = << >> /\ s'.want = 1 /\ s'.recv_sz = 0
        /\ s'.out = << >> \o (<< >> \o m) /\ s'.file_wr = << >> /\ s'.need_iwcc = FALSE
        /\ s'.page_cache = s.page_cache /\ s'.seen = s.seen /\ s'.addr = s.addr
        /\ s'.page = p
    BY <1>1, <2>2, <2>3 DEF Sent, Shape
  <2>5. s'.out = m
    BY <2>1, <2>4, StreamWritten
  <2>6. ToClient' = m
    BY <1>1, <1>3, <1>5, <2>1, <2>5, ServerSends DEF Talking
  <2>7. ToServer' = ToServer
    BY <1>3, <1>5, <2>4 DEF ToServer
  <2>8. CacheRight' /\ Translating'
    BY <1>2, <1>3, <1>5, <2>4 DEF CacheRight, Translating, FreshPage
  <2>9. ClientExpects'
    BY <1>1, <1>3, <1>5, <2>6 DEF Talking, ClientExpects, m, b, OnGetHdr, ClientPcs
  <2>10. ServerExpects'
    BY <1>3, <1>5, <2>4, <2>6, <2>7, <2>8 DEF ServerExpects, m, b, OnPageHdr, HdrPcs, BodyPcs
  <2> QED BY <2>1, <2>4, <2>5, <2>8, <2>9, <2>10, ServerMoves, EmptySeq
<1>6. s.page \in Pages =>
        \E x \in Payloads, y \in {"failed", "ok"} :
          /\ Reply(s.page) = Units(PageUnits, x) \o <<Dat(y)>>
          /\ Reply(s.page) \in Seq(Wire) /\ Len(Reply(s.page)) = PageUnits + 1
          /\ mem[s.page] = Unmapped => y = "failed"
          /\ mem[s.page] # Unmapped => y = "ok" /\ x = mem[s.page]
  BY <1>2, ReplyWire
<1>7. CASE SAt("page_hdr")
  <2>1. s.pc = "page_hdr" /\ Len(s.in) = 1 /\ ToServer # << >>
    BY <1>1, <1>7, ServerHasSome DEF SAt, Talking, ServerExpects, OnPageHdr
  <2>2. /\ c.pc = "get_hdr" /\ ToClient = << >> /\ ToServer = Message("C_MEMBUF", Reply(s.page))
        /\ s.page \in Pages /\ Translating
    BY <1>1, <2>1 DEF Talking, ServerExpects, Serving, OnPageHdr
  <2>3. s.in = <<Hdr("C_MEMBUF", PageUnits + 1)>> /\ ServerRest = Reply(s.page)
    <3>1. Reply(s.page) \in Seq(Wire) /\ Len(Reply(s.page)) = PageUnits + 1
      BY <1>6, <2>2
    <3>2. s.in = <<Hdr("C_MEMBUF", Len(Reply(s.page)))>> /\ ServerRest = Reply(s.page)
      BY <1>1, <2>1, <2>2, <3>1, ServerHeader DEF Talking, Ids
    <3> QED BY <3>1, <3>2
  <2>4. RecvMsg = "C_MEMBUF" /\ RecvSz = PageUnits + 1
    BY SMTT(60), <1>1, <2>3 DEF RecvMsg, RecvSz, Talking, Hdr
  <2>5. s' = [SWait("page_body", PageUnits) EXCEPT !.recv_sz = PageUnits + 1]
    BY <2>1, <2>4 DEF GetPage, SAt
  <2>6. /\ Shape' /\ s'.pc = "page_body" /\ s'.in = << >> /\ s'.want = PageUnits
        /\ s'.recv_sz = PageUnits + 1
        /\ s'.out = s.out /\ s'.file_wr = s.file_wr /\ s'.need_iwcc = s.need_iwcc
        /\ s'.page_cache = s.page_cache /\ s'.seen = s.seen /\ s'.addr = s.addr
        /\ s'.page = s.page
    BY <1>1, <2>5 DEF SWait, Shape
  <2>7. ToServer' = Reply(s.page) /\ ToClient' = ToClient
    BY <1>1, <2>3, <2>6, ServerTook DEF Talking, ToClient
  <2>8. CacheRight' /\ Translating' /\ Reply(s.page)' = Reply(s.page)
    BY <1>2, <2>2, <2>6 DEF CacheRight, Translating, FreshPage, Reply
  <2>9. ServerExpects'
    BY <2>2, <2>6, <2>7, <2>8 DEF ServerExpects, Serving, OnPageBody, HdrPcs, BodyPcs
  <2> QED BY <2>6, <2>8, <2>9, ServerGoesOn
<1>8. CASE SAt("page_body")
  <2>1. /\ s.pc = "page_body" /\ s.want = PageUnits /\ Len(s.in) = PageUnits
        /\ s.recv_sz = PageUnits + 1 /\ s.page \in Pages /\ Translating
        /\ c.pc = "get_hdr" /\ ToClient = << >> /\ ToServer = Reply(s.page)
    BY <1>1, <1>8 DEF SAt, Talking, ServerExpects, Serving, OnPageBody
  <2>2. PICK x \in Payloads, y \in {"failed", "ok"} :
          /\ Reply(s.page) = Units(PageUnits, x) \o <<Dat(y)>>
          /\ mem[s.page] = Unmapped => y = "failed"
          /\ mem[s.page] # Unmapped => y = "ok" /\ x = mem[s.page]
    BY <1>6, <2>1
  <2> DEFINE u == Units(PageUnits, x)
             b == <<Dat(y)>>
  <2>3. u \in Seq(Wire) /\ Len(u) = PageUnits /\ u[1] = Dat(x)
    BY SMTT(60), UnitsRight, ProtocolAssumption
  <2>4. b \in Seq(Wire)
    BY BodyUnit DEF Payloads
  <2>5. ToServer = u \o b
    BY <2>1, <2>2
  <2> HIDE DEF u, b
  <2>6. s.in = u /\ ServerRest = b
    BY <1>1, <2>1, <2>3, <2>4, <2>5, ServerTakes DEF Talking
  <2>7. s.in[1].dat = <<x>>
    BY SMTT(60), <2>3, <2>6 DEF Dat
  <2>8. s' = [Read("failed_body", 1) EXCEPT !.data = <<x>>]
    BY <2>1, <2>7 DEF GetPage, SAt
  <2>9. /\ Shape' /\ s'.pc = "failed_body" /\ s'.in = << >> /\ s'.want = 1 /\ s'.recv_sz = 1
        /\ s'.out = s.out /\ s'.file_wr = s.file_wr /\ s'.need_iwcc = s.need_iwcc
        /\ s'.page_cache = s.page_cache /\ s'.seen = s.seen /\ s'.addr = s.addr
        /\ s'.page = s.page /\ s'.data = <<x>>
    BY SMTT(60), <1>1, <2>1, <2>8, ProtocolAssumption DEF Read, SWait, Shape
  <2>10. ToServer' = b /\ ToClient' = ToClient
    BY <1>1, <2>6, <2>9, ServerTook DEF Talking, ToClient
  <2>11. CacheRight' /\ Translating'
    BY <1>2, <2>1, <2>9 DEF CacheRight, Translating, FreshPage
  <2>12. ServerExpects'
    BY <2>1, <2>2, <2>9, <2>10, <2>11 DEF ServerExpects, Serving, b, OnFailedBody, HdrPcs, BodyPcs
  <2> QED BY <2>9, <2>11, <2>12, ServerGoesOn
<1>9. CASE SAt("failed_body")
  <2>1. /\ s.pc = "failed_body" /\ s.want = 1 /\ Len(s.in) = 1 /\ s.recv_sz = 1
        /\ s.page \in Pages /\ Translating /\ c.pc = "get_hdr" /\ ToClient = << >>
    BY <1>1, <1>9 DEF SAt, Talking, ServerExpects, Serving, OnFailedBody
  <2>2. PICK y \in {"failed", "ok"} :
          /\ ToServer = <<Dat(y)>>
          /\ mem[s.page] = Unmapped => y = "failed"
          /\ mem[s.page] # Unmapped => y = "ok" /\ s.data = <<mem[s.page]>>
    BY <1>1, <2>1 DEF Talking, ServerExpects, Serving, OnFailedBody
  <2> DEFINE b == <<Dat(y)>>
             x == mem[s.page]
  <2>3. b \in Seq(Wire) /\ Len(b) = 1
    BY BodyUnit DEF Payloads
  <2> HIDE DEF b
  <2>4. s.in = b /\ ServerRest = << >>
    BY <1>1, <2>1, <2>2, <2>3, ServerBody DEF Talking, b
  <2>5. (IF s.in[1].dat[1] = "failed" THEN Unmapped ELSE s.data[1]) = x
    <3>1. s.in[1].dat[1] = y
      BY SMTT(60), <2>4 DEF b, Dat
    <3> QED BY SMTT(60), <2>2, <3>1
  <2>6. s' = [Read("decode", 0) EXCEPT !.seen[s.page] = x, !.page_cache[s.page] = Cached(x)]
    BY <2>1, <2>5 DEF GetPage, SAt
  <2> HIDE DEF x
  <2>7. /\ Shape' /\ s'.pc = "decode" /\ s'.in = << >> /\ s'.want = 0 /\ s'.recv_sz = 0
        /\ s'.out = s.out /\ s'.file_wr = s.file_wr /\ s'.need_iwcc = s.need_iwcc
        /\ s'.page_cache = [s.page_cache EXCEPT ![s.page] = Cached(x)]
        /\ s'.seen = [s.seen EXCEPT ![s.page] = x] /\ s'.addr = s.addr
    BY SMTT(60), <1>1, <2>1, <2>6 DEF Read, SWait, Shape
  <2>8. ToServer' = << >> /\ ToClient' = ToClient
    BY <1>1, <2>4, <2>7, ServerTook DEF Talking, ToClient
  <2>9. Cached(x) \in (Contents \cup {Unread}) \cap {Unread, mem[s.page]}
    BY <1>2, <2>1 DEF Cached, x
  <2>10. CacheRight'
    BY SMTT(60), <1>2, <2>1, <2>7, <2>9 DEF CacheRight, x
  <2>11. Translating'
    BY SMTT(60), <1>2, <2>1, <2>7 DEF Translating, FreshPage, x
  <2>12. ServerExpects'
    BY <2>1, <2>7, <2>8, <2>11 DEF ServerExpects, Serving, OnDecode, HdrPcs, BodyPcs
  <2> QED BY <2>7, <2>10, <2>12, ServerGoesOn
<1> QED BY <1>4, <1>5, <1>7, <1>8, <1>9 DEF GetPage
-----------------------------------------------------------------------------
(* A server whose client is gone only has to keep its buffer empty.        *)

(* SendObject leaves nothing in the buffer, whatever it sends.             *)
LEMMA SendObjectKeeps ==
  ASSUME Shape, NEW t, DOMAIN t = DOMAIN s, NEW data, Len(data) \in Int
  PROVE  DOMAIN SendObject(t, data) = DOMAIN s /\ SendObject(t, data).file_wr = << >>
<1>1. \A u, m : DOMAIN u = DOMAIN s => DOMAIN Sent(u, m) = DOMAIN s /\ Sent(u, m).file_wr = << >>
  BY DEF Sent, Shape
<1> DEFINE i == SendMsg(t, "S_INIT", <<Dat("tc")>>)
           j == [i EXCEPT !.need_iwcc = FALSE]
<1>2. i = Sent(t, Message("S_INIT", <<Dat("tc")>>))
  BY SMTT(60), SendMsgRight
<1> HIDE DEF i
<1>3. DOMAIN j = DOMAIN s
  BY <1>1, <1>2
<1>4. SendObject(t, data) = SendMsg(IF t.need_iwcc THEN j ELSE t, "S_OBJECT", data)
  BY DEF SendObject, i
<1> HIDE DEF j
<1>5. SendObject(t, data) = Sent(IF t.need_iwcc THEN j ELSE t, Message("S_OBJECT", data))
  BY <1>4, SendMsgRight
<1> QED BY <1>1, <1>3, <1>5

(* A server whose client is gone keeps its buffer empty.                   *)
LEMMA ServerUnheard ==
  ASSUME Inv, ~ClientAlive, SStep
  PROVE  Inv'
<1>1. Shape /\ s.file_wr = << >> /\ c.err # "eproto" /\ c' = c
  BY DEF Inv, IInv, SStep, NoProtocolError
<1>2. \A n \in ObjSizes : \A x : Len(Units(n, x)) \in Int
  BY SMTT(60), UnitsRight, ProtocolAssumption
<1>3. \A pc, n : DOMAIN SWait(pc, n) = DOMAIN s /\ SWait(pc, n).file_wr = << >>
  BY <1>1 DEF SWait, Shape
<1>4. \A pc, n : DOMAIN Read(pc, n) = DOMAIN s /\ Read(pc, n).file_wr = << >>
  BY <1>1, <1>3 DEF Read, Shape
<1>5. \A how : Stop(how) => DOMAIN s' = DOMAIN s /\ s'.file_wr = << >>
  BY <1>1 DEF Stop, Shape
<1>6. DOMAIN s' = DOMAIN s /\ s'.file_wr = << >>
  <2>1. CASE InitServer
    <3>1. CASE s' = [SWait("init_body", 1) EXCEPT !.recv_sz = RecvSz]
      BY <1>1, <1>3, <3>1 DEF Shape
    <3>2. ASSUME NEW n \in ObjSizes,
                 s' = SendObject([Read("main_hdr", 1) EXCEPT !.need_iwcc = TRUE], Units(n, NoObj))
          PROVE  DOMAIN s' = DOMAIN s /\ s'.file_wr = << >>
      <4> DEFINE t == [Read("main_hdr", 1) EXCEPT !.need_iwcc = TRUE]
      <4>1. DOMAIN t = DOMAIN s
        BY <1>4
      <4> HIDE DEF t
      <4> QED BY <1>1, <1>2, <3>2, <4>1, SendObjectKeeps DEF t
    <3> QED BY <1>5, <2>1, <3>1, <3>2 DEF InitServer
  <2>2. CASE Run
    <3>1. CASE s' = [SWait("addr_body", 1) EXCEPT !.recv_sz = RecvSz]
      BY <1>1, <1>3, <3>1 DEF Shape
    <3>2. CASE SAt("addr_body")
      <4> DEFINE a == s.in[1].dat[1]
                 k == (a - s.pre_addr = KernelDelta)
                 t == Read("decode", 0)
      <4>1. s' = [t EXCEPT !.addr = a, !.pre_addr = a, !.isKernel = k,
                           !.seen = [p \in Pages |-> Unread], !.reads = 0]
        BY <2>2, <3>2 DEF Run, SAt
      <4>2. DOMAIN t = DOMAIN s /\ t.file_wr = << >>
        BY <1>4
      <4> HIDE DEF a, k, t
      <4> QED BY <1>1, <4>1, <4>2 DEF Shape
    <3> QED BY <1>5, <2>2, <3>1, <3>2 DEF Run
  <2>3. CASE GetPage
    <3>1. ASSUME NEW p \in Pages,
                 s' = SendMsg([SWait("page_hdr", 1) EXCEPT !.page = p, !.reads = @ + 1],
                              "S_MEMREQ", <<Dat(p)>>)
          PROVE  DOMAIN s' = DOMAIN s /\ s'.file_wr = << >>
      <4> DEFINE t == [SWait("page_hdr", 1) EXCEPT !.page = p, !.reads = @ + 1]
      <4>1. DOMAIN t = DOMAIN s
        BY <1>3
      <4> HIDE DEF t
      <4>2. s' = Sent(t, Message("S_MEMREQ", <<Dat(p)>>))
        BY SMTT(60), <3>1, SendMsgRight DEF t
      <4> QED BY <1>1, <4>1, <4>2 DEF Sent, Shape
    <3>2. ASSUME NEW p \in Pages, s' = [s EXCEPT !.seen[p] = s.page_cache[p]]
          PROVE  DOMAIN s' = DOMAIN s /\ s'.file_wr = << >>
      BY <1>1, <3>2 DEF Shape
    <3>3. CASE s' = [SWait("page_body", PageUnits) EXCEPT !.recv_sz = RecvSz]
      BY <1>1, <1>3, <3>3 DEF Shape
    <3>6. CASE s' = [SWait("decode", 0) EXCEPT !.recv_sz = RecvSz, !.seen[s.page] = Unmapped]
      BY <1>1, <1>3, <3>6 DEF Shape
    <3>4. CASE s' = [Read("failed_body", 1) EXCEPT !.data = s.in[1].dat]
      BY <1>1, <1>4, <3>4 DEF Shape
    <3>5. ASSUME NEW x, s' = [Read("decode", 0) EXCEPT !.seen[s.page] = x,
                                                       !.page_cache[s.page] = Cached(x)]
          PROVE  DOMAIN s' = DOMAIN s /\ s'.file_wr = << >>
      BY <1>1, <1>4, <3>5 DEF Shape
    <3> QED BY <2>3, <3>1, <3>2, <3>3, <3>4, <3>5, <3>6 DEF GetPage
  <2>4. CASE CacheProbe
    BY <1>1, <1>3, <2>4 DEF CacheProbe, Sendfile, Shape
  <2>5. CASE Translate
    <3>1. Len(<< >>) \in Int
      BY SMTT(60)
    <3> QED BY SMTT(60), <1>1, <1>2, <1>3, <1>5, <2>5, <3>1, SendObjectKeeps DEF Translate
  <2>6. CASE AssertFails
    BY <1>5, <2>6 DEF AssertFails
  <2> QED BY <2>1, <2>2, <2>3, <2>4, <2>5, <2>6 DEF SStep
<1> QED BY <1>1, <1>6 DEF Inv, IInv, Shape, ClientAlive, NoProtocolError
-----------------------------------------------------------------------------
(* The client has all of the object it asked for.                          *)
LEMMA ObjectHeld ==
  ASSUME Wired, ClientExpects, c.pc = "obj_body", Len(c.in) = c.want, c.want > 0
  PROVE  \E o \in Objects : Asked(o) /\ c.in[1].dat[1] = o
<1>1. PICK o \in Objects : Asked(o) /\ ToClient = Units(c.want, o) /\ c.want \in Sizes
  BY DEF ClientExpects, Body, OnObjBody
<1> DEFINE u == Units(c.want, o)
<1>2. u \in Seq(Wire) /\ Len(u) = c.want /\ u[1] = Dat(o)
  BY <1>1, ObjectWire
<1> HIDE DEF u
<1>3. ToClient = u \o << >> /\ << >> \in Seq(Wire)
  BY <1>1, <1>2, ConcatEmptySeq, EmptySeq DEF u
<1>4. c.in = u
  BY <1>2, <1>3, ClientTakes
<1> QED BY SMTT(60), <1>1, <1>2, <1>4 DEF Dat

(* Both sides start in agreement.                                          *)
LEMMA InitInv ==
  Init => Inv
<1> SUFFICES ASSUME Init PROVE Inv
  OBVIOUS
<1>1. Shape
  BY DEF Init, Shape
<1>2. Wired
  BY EmptySeq DEF Init, Wired
<1>3. ToClient = << >> /\ ToServer = << >>
  BY <1>2, StreamEmpty DEF Init, ToClient, ToServer, Wired
<1>4. ClientExpects
  BY <1>3 DEF Init, ClientExpects, OnInit, ClientPcs
<1>5. ServerExpects
  BY <1>3 DEF Init, ServerExpects, OnInitHdr, HdrPcs, BodyPcs
<1>6. CacheRight
  BY DEF Init, CacheRight
<1> QED BY <1>1, <1>2, <1>4, <1>5, <1>6 DEF Init, Inv, IInv, NoProtocolError

(* Every step of the server keeps the invariant.                           *)
LEMMA ServerSteps ==
  ASSUME Inv, SStep
  PROVE  Inv'
<1>1. CASE ~ClientAlive
  BY <1>1, ServerUnheard
<1>2. CASE ClientAlive
  <2>1. ServerAlive
    BY DEF SStep, InitServer, Run, GetPage, CacheProbe, Translate, AssertFails, SAt,
       ServerAlive
  <2>2. ~AssertFails
    BY <1>2, <2>1, ReadsAgree DEF AssertFails
  <2> QED BY <1>2, <2>1, <2>2, ServerInit, ServerRuns, ServerGetsPage, ServerTranslates DEF SStep
<1> QED BY <1>1, <1>2

(* Every step keeps the invariant.                                         *)
LEMMA NextInv ==
  Inv /\ [Next]_vars => Inv'
<1> SUFFICES ASSUME Inv, [Next]_vars PROVE Inv'
  OBVIOUS
<1>1. CASE CWrite
  BY <1>1, ClientWrites
<1>2. CASE CRead
  BY <1>2, ClientReads
<1>3. CASE CStep
  BY <1>3, ClientInit, ClientConfig, ClientObject, ClientLoops DEF CStep
<1>4. CASE Guest
  BY <1>4, ClientAsks, GuestWrites DEF Guest
<1>5. CASE ClientDies
  BY <1>5, ClientDead DEF ClientDies
<1>6. CASE SWrite
  BY <1>6, ServerWrites
<1>7. CASE SRead
  BY <1>7, ServerReads
<1>8. CASE SStep
  BY <1>8, ServerSteps
<1>9. CASE ServerDies
  BY <1>9, ServerStops DEF ServerDies
<1>10. CASE UNCHANGED vars
  <2>1. /\ Shape' /\ (Wired' <=> Wired) /\ ToClient' = ToClient /\ ToServer' = ToServer
        /\ SameClient /\ SameServer /\ SameMemory
        /\ (ClientAlive' <=> ClientAlive) /\ (ServerAlive' <=> ServerAlive)
        /\ (CacheRight' <=> CacheRight) /\ s' = s /\ c' = c
    BY <1>10 DEF vars, Inv, Shape, Wired, ToClient, ToServer, SameClient, SameServer, SameMemory,
                 ClientAlive, ServerAlive, CacheRight
  <2> QED BY <2>1, ClientExpectsKept, ServerExpectsKept DEF Inv, IInv, NoProtocolError
<1> QED BY <1>1, <1>2, <1>3, <1>4, <1>5, <1>6, <1>7, <1>8, <1>9, <1>10 DEF Next, Gone

(* The invariant of the conversation: in both directions what is on its    *)
(* way is what the reader expects where it is, and only one side has the   *)
(* word (translator.c, connection.cc, rewriteserver.cc).                   *)
THEOREM ConversationInvariant == Spec => []Inv
<1>1. Init => Inv
  BY InitInv
<1>2. Inv /\ [Next]_vars => Inv'
  BY NextInv
<1> QED BY <1>1, <1>2, PTL DEF Spec

(* For every pipe capacity, page size and set of object sizes no assertion *)
(* of Conn fails while the client lives, translator.c meets no unexpected  *)
(* header, nothing stays in the stdio buffer while the server waits, and   *)
(* every object answers for the memory as it is.                           *)
THEOREM ConversationHolds == Spec => []ConversationRight
<1>1. Inv => ConversationRight
  <2> SUFFICES ASSUME Inv PROVE ConversationRight
    OBVIOUS
  <2>1. AssertionsHold /\ NoProtocolError /\ NothingBuffered
    BY DEF Inv, IInv, AssertionsHold, NothingBuffered
  <2>2. AnswerFresh
    <3> SUFFICES ASSUME c.pc = "obj_body", Len(c.in) = c.want, c.want > 0, c.asked # NoAddr,
                        NEW p \in Pages
                 PROVE  FreshPage(c.in[1].dat[1], p)
      BY DEF AnswerFresh
    <3>1. Wired /\ ClientExpects
      BY DEF Inv, IInv, ClientAlive
    <3>2. PICK o \in Objects : Asked(o) /\ c.in[1].dat[1] = o
      BY <3>1, ObjectHeld
    <3> QED BY <3>2 DEF Asked
  <2> QED BY <2>1, <2>2 DEF ConversationRight
<1> QED BY <1>1, ConversationInvariant, PTL
-----------------------------------------------------------------------------
(* The detailed protocol and TranslateService.                             *)

(* The service starts where the protocol does.                             *)
LEMMA InitService ==
  Init => Translator!ServiceInit
BY SMTT(60) DEF Init, Translator!ServiceInit, NoObj

(* Steps that the dispatcher does not notice.                              *)
LEMMA ServiceStutters ==
  ASSUME \/ c'.pc = c.pc
         \/ c.pc \notin {"run", "dead"} /\ c'.pc \notin {"run", "dead"},
         c'.asked = c.asked, c'.got = c.got
  PROVE  UNCHANGED Translator!svars
BY DEF Translator!svars

(* A client that dies ends the service.                                    *)
LEMMA ServiceEnds ==
  ASSUME ClientAlive, Shape, NEW why, Die(why)
  PROVE  Translator!ServiceNext
BY DEF ClientAlive, Shape, Die, Translator!ServiceNext, Translator!Ended

(* Every step is one of the service, or none it can see.                   *)
LEMMA NextService ==
  Inv /\ [Next]_vars => [Translator!ServiceNext]_(Translator!svars)
<1> SUFFICES ASSUME Inv, [Next]_vars
             PROVE  Translator!ServiceNext \/ UNCHANGED Translator!svars
  OBVIOUS
<1>1. Shape
  BY DEF Inv
<1>2. ASSUME NEW pc \in {"cfg_hdr", "cfg_body", "obj_hdr", "obj_body", "get_hdr", "mem_body"},
             ClientAlive, c.pc # "run", c'.pc = pc, c'.asked = c.asked, c'.got = c.got
      PROVE  UNCHANGED Translator!svars
  BY <1>2, ServiceStutters DEF ClientAlive
<1>3. CASE CWrite \/ CRead
  <2>1. ClientAlive
    BY <1>3 DEF CWrite, CRead
  <2>2. \/ \E why : Die(why)
        \/ c'.pc = c.pc /\ c'.asked = c.asked /\ c'.got = c.got
    BY <1>1, <1>3 DEF CWrite, CRead, Shape
  <2> QED BY <1>1, <2>1, <2>2, ServiceEnds, ServiceStutters
<1>4. CASE CStep
  <2>1. ClientAlive /\ c.pc # "run"
    BY <1>4 DEF CStep, translator_init, translator_config_fetch, translator_get_object,
                translator_get_loop, At, ClientAlive
  <2>2. CASE translator_init \/ translator_config_fetch \/ translator_get_loop
    <3>1. \/ \E why : Die(why)
          \/ /\ c'.pc \in {"cfg_hdr", "cfg_body", "obj_hdr", "get_hdr", "mem_body"}
             /\ c'.asked = c.asked /\ c'.got = c.got
      BY <1>1, <2>2 DEF translator_init, translator_config_fetch,
         translator_get_loop, Send, Wait,
                        AfterConfig, Shape
    <3> QED BY <1>1, <1>2, <2>1, <3>1, ServiceEnds
  <2>3. CASE translator_get_object /\ At("obj_hdr")
    <3>1. \/ \E why : Die(why)
          \/ c'.pc = "obj_body" /\ c'.asked = c.asked /\ c'.got = c.got
      BY <1>1, <2>3 DEF translator_get_object, At, Wait, Shape
    <3> QED BY <1>1, <1>2, <2>1, <3>1, ServiceEnds
  <2>4. CASE translator_get_object /\ At("obj_body")
    <3>1. CASE Die("badobj")
      BY <1>1, <2>1, <3>1, ServiceEnds
    <3>2. CASE c.want = 0 /\ c.asked = NoAddr /\ c' = Wait("run", 0)
      <4>1. c'.pc = "run" /\ c'.asked = c.asked /\ c'.got = c.got
        BY <1>1, <3>2 DEF Wait, Shape
      <4> QED BY <2>4, <3>2, <4>1 DEF At, Translator!ServiceNext, Translator!Started
    <3>3. CASE c.want > 0 /\ c' = [Wait("run", 0) EXCEPT !.got = c.in[1].dat[1]]
      <4>1. c'.pc = "run" /\ c'.asked = c.asked /\ c'.got = c.in[1].dat[1]
        BY <1>1, <3>3 DEF Wait, Shape
      <4>2. c.pc = "obj_body" /\ Wired /\ ClientExpects /\ Len(c.in) = c.want /\ c.got = NoObj
        BY <2>1, <2>4 DEF At, Inv, IInv, ClientExpects, OnInit, OnCfgHdr, OnCfgBody,
           OnObjHdr,
           OnObjBody, OnRun, OnGetHdr, OnMemBody, ClientPcs
      <4>3. PICK o \in Objects : Asked(o) /\ c.in[1].dat[1] = o
        BY <3>3, <4>2, ObjectHeld
      <4>4. CASE c.asked = NoAddr
        <5>1. o = NoObj
          BY <4>3, <4>4 DEF Asked
        <5> QED BY <4>1, <4>2, <4>3, <4>4, <5>1 DEF Translator!ServiceNext,
                   Translator!Started
      <4>5. CASE c.asked # NoAddr
        <5>1. o.addr = c.asked
          BY <4>3, <4>5 DEF Asked
        <5> QED BY <4>1, <4>2, <4>3, <4>5, <5>1 DEF Translator!ServiceNext, Translator!Answer
      <4> QED BY <4>4, <4>5
    <3>4. c.want \in Nat
      BY <2>1, <2>4, ObjectWire DEF Inv, IInv, ClientExpects, At, Body, OnObjBody
    <3> QED BY SMTT(60), <2>4, <3>1, <3>2, <3>3, <3>4 DEF translator_get_object, At
  <2> QED BY <1>4, <2>2, <2>3, <2>4 DEF CStep, translator_get_object
<1>5. CASE \E a \in Addrs : GuestCalls(a)
  <2>1. PICK a \in Addrs : translator_get(a)
    BY <1>5 DEF GuestCalls
  <2>2. c.pc = "run" /\ ClientAlive
    BY <2>1 DEF translator_get, At, ClientAlive
  <2>3. CASE Die("eproto")
    BY <1>1, <2>2, <2>3, ServiceEnds
  <2>4. CASE c' = [Wait("get_hdr", 1) EXCEPT !.asked = a, !.got = NoObj,
                     !.out = Message("C_TRANSLATE", <<Dat(a)>>)]
    <3>1. c'.pc = "get_hdr" /\ c'.asked = a /\ c'.got = NoObj /\ a # NoAddr
      BY <1>1, <2>4, ProtocolAssumption DEF Wait, Shape, NoAddr
    <3>2. Translator!Ask(a)
      BY SMTT(60), <2>2, <3>1 DEF Translator!Ask, NoObj
    <3> QED BY <3>2 DEF Translator!ServiceNext
  <2> QED BY <2>1, <2>3, <2>4 DEF translator_get
<1>6. CASE ClientDies
  BY <1>1, <1>6, ServiceEnds DEF ClientDies
<1>7. CASE c' = c
  BY <1>7, ServiceStutters
<1>8. \/ CWrite \/ CRead \/ CStep \/ (\E a \in Addrs : GuestCalls(a)) \/ ClientDies \/ c' = c
  BY DEF Next, Guest, GuestChanges, SWrite, SRead, SStep, ServerDies, Gone, vars
<1> QED BY <1>3, <1>4, <1>5, <1>6, <1>7, <1>8

(* The protocol makes only the steps the dispatcher may expect of it: one  *)
(* request at a time, answered by an object made for exactly that address, *)
(* or the conversation ends (translator_get, IWState::Translate).          *)
THEOREM ServiceImplemented == Spec => ServiceSafe
<1>1. Init => Translator!ServiceInit
  BY InitService
<1>2. Inv /\ [Next]_vars => [Translator!ServiceNext]_(Translator!svars)
  BY NextService
<1> QED BY <1>1, <1>2, ConversationInvariant, PTL DEF Spec, ServiceSafe
=============================================================================
