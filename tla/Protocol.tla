------------------------------ MODULE Protocol ------------------------------
(***************************************************************************)
(* Client and server of Instrew talk over two pipes.  The client           *)
(* (client/translator.c, called from main and resolve_func) sends a        *)
(* request and then serves page requests of the server until an object     *)
(* arrives.  The server (server/connection.cc, driven by IWState in        *)
(* server/rewriteserver.cc) reads messages with RecvMsg and Read and       *)
(* writes through a stdio buffer that fflush empties.                      *)
(*                                                                         *)
(* A unit is a message header or a piece of a message body; a pipe holds   *)
(* at most PipeCap of them.  Blocking reads and writes move one unit per   *)
(* step, so a side that waits while its own output is stuck deadlocks.     *)
(***************************************************************************)
EXTENDS Integers, Sequences

\* Definitions named X_<word> are faulty variants of X: the properties that
\* must notice them are listed with the runs.

CONSTANTS
  Addrs,        \* guest addresses that get translated (numbers)
  KernelDelta,  \* 0x4018a0-0x401a7a of IWState::Translate
  Pages,        \* guest pages the decoder may want to read
  Contents,     \* what a mapped page may hold
  PageUnits,    \* units of a page on the wire (PG_SIZE)
  ObjSizes,     \* sizes in units of generated objects
  PipeCap,      \* capacity of a pipe in units
  MaxReads      \* bound on the page requests of one translation

Unmapped == "unmapped"   \* a page that the client cannot read
Unread == "unread"       \* a page the server has not got yet

ASSUME ProtocolAssumption ==
  /\ Addrs \subseteq Nat \ {0}
  /\ KernelDelta \in Int
  /\ Contents \cap {Unmapped, Unread} = {}
  /\ Pages # {}
  /\ PageUnits \in Nat \ {0}
  /\ ObjSizes \subseteq Nat \ {0} /\ ObjSizes # {}
  /\ PipeCap \in Nat \ {0}
  /\ MaxReads \in Nat

VARIABLES
  c2s, s2c,  \* the pipes
  c,         \* the client: struct Translator and the call in progress
  mem,       \* [Pages -> Contents \cup {Unmapped}]: the guest's memory
  changed,   \* pages the guest changed after the server had cached them
  s          \* the server: Conn, RemoteMemory and the translation in progress

vars == <<c2s, s2c, c, mem, changed, s>>

NoAddr == 0
NoObj == [addr |-> NoAddr, seen |-> [p \in Pages |-> Unread]]
-----------------------------------------------------------------------------
(* Units on the wire.  Reading a body unit as a header yields garbage.     *)

Hdr(id, sz) == [id |-> id, sz |-> sz, dat |-> << >>]
Dat(x) == [id |-> "GARBAGE", sz |-> 0, dat |-> <<x>>]
Units(n, x) == [i \in 1 .. n |-> Dat(x)]
Message(id, data) == <<Hdr(id, Len(data))>> \o data
UNKNOWN == Hdr("UNKNOWN", 0)

ClientAlive == c.pc # "dead"
ServerAlive == s.pc \notin {"exited", "aborted", "killed"}

(* CreateFork: the ends each process still has open after the fork.  The   *)
(* parent becomes the client, the child the server.                        *)
ClientEnds_leaked == {"s2c_rd", "c2s_wr", "s2c_wr"}
ClientEnds == {"s2c_rd", "c2s_wr"}
ServerEnds_leaked == {"c2s_rd", "s2c_wr", "c2s_wr"}
ServerEnds == {"c2s_rd", "s2c_wr"}

Open(end) == \/ ClientAlive /\ end \in ClientEnds
             \/ ServerAlive /\ end \in ServerEnds
-----------------------------------------------------------------------------
(* The client.  c.out is what write_full still has to write, c.in what     *)
(* read_full got of the c.want units it waits for.                         *)

Die(why) == c' = [c EXCEPT !.pc = "dead", !.err = why]


(* write_full; writing to a pipe nobody reads raises SIGPIPE.              *)
CWrite ==
  /\ ClientAlive /\ c.out # << >>
  /\ \/ /\ Open("c2s_rd") /\ Len(c2s) < PipeCap
        /\ c2s' = Append(c2s, Head(c.out))
        /\ c' = [c EXCEPT !.out = Tail(@)]
     \/ ~Open("c2s_rd") /\ Die("sigpipe") /\ UNCHANGED c2s
  /\ UNCHANGED <<s2c, mem, changed, s>>

(* read_full; end of file yields -EIO, which every caller passes up until  *)
(* main returns or resolve_func exits.                                     *)
CRead ==
  /\ ClientAlive /\ c.out = << >> /\ Len(c.in) < c.want
  /\ \/ /\ s2c # << >>
        /\ c' = [c EXCEPT !.in = Append(@, Head(s2c))]
        /\ s2c' = Tail(s2c)
     \/ s2c = << >> /\ ~Open("s2c_wr") /\ Die("eio") /\ UNCHANGED s2c
  /\ UNCHANGED <<c2s, mem, changed, s>>

At(pc) == c.pc = pc /\ c.out = << >> /\ Len(c.in) = c.want

(* The call returns and the client goes on to wait for n units at pc.      *)
Wait(pc, n) == [c EXCEPT !.pc = pc, !.in = << >>, !.want = n]

(* translator_hdr_send followed by the body.                               *)
Send(id, data, pc) ==
  IF c.last_hdr # UNKNOWN
  THEN Die("eproto")
  ELSE c' = [Wait(pc, 1) EXCEPT !.out = Message(id, data)]

(* translator_hdr_recv: the look-ahead header, or the one just read.       *)
TheHdr == IF c.last_hdr = UNKNOWN THEN c.in[1] ELSE c.last_hdr

translator_init ==
  /\ At("init")
  /\ Send("C_INIT", <<Dat("tsc")>>, "cfg_hdr")

(* main asks for the configuration and then for the first object.          *)
AfterConfig_skipped == Wait("run", 0)
AfterConfig == Wait("obj_hdr", 1)

translator_config_fetch ==
  \/ /\ At("cfg_hdr")
     /\ IF TheHdr.id = "S_INIT" /\ TheHdr.sz = 1
        THEN c' = [Wait("cfg_body", TheHdr.sz) EXCEPT !.last_hdr = UNKNOWN]
        ELSE Die("eproto")
  \/ /\ At("cfg_body")
     /\ c' = AfterConfig

Rounded(sz) == ((sz + PageUnits - 1) \div PageUnits) * PageUnits

(* Grow the receive buffer if the object may not fit.                      *)
RecvBuf(sz) == IF sz >= c.recvbuf_sz THEN Rounded(sz) ELSE c.recvbuf_sz

translator_get_object ==
  \/ /\ At("obj_hdr")
     /\ \/ TheHdr.id # "S_OBJECT" /\ Die("eproto")
        \/ /\ TheHdr.id = "S_OBJECT"
           /\ c' = [Wait("obj_body", TheHdr.sz) EXCEPT
                      !.last_hdr = UNKNOWN, !.recvbuf_sz = RecvBuf(TheHdr.sz)]
        \/ /\ TheHdr.id = "S_OBJECT" /\ TheHdr.sz >= c.recvbuf_sz
           /\ Die("enomem")
  \/ /\ At("obj_body")
     /\ IF c.want > 0
        THEN c' = [Wait("run", 0) EXCEPT !.got = c.in[1].dat[1]]
        ELSE \* main ignores an empty first object, rtld_add_object rejects
             \* any other empty object
             IF c.asked = NoAddr THEN c' = Wait("run", 0) ELSE Die("badobj")

(* The guest reaches an address without translation.                       *)
translator_get(a) ==
  /\ At("run")
  /\ IF c.last_hdr # UNKNOWN
     THEN Die("eproto")
     ELSE c' = [Wait("get_hdr", 1) EXCEPT !.asked = a, !.got = NoObj,
                  !.out = Message("C_TRANSLATE", <<Dat(a)>>)]

KeepHdr == TheHdr

(* The loop of translator_get: a page request, or else an object, whose    *)
(* header stays in last_hdr.                                               *)
translator_get_loop ==
  \/ /\ At("get_hdr")
     /\ IF TheHdr.id = "S_MEMREQ"
        THEN IF TheHdr.sz # 1 THEN Die("eproto")
             ELSE c' = [Wait("mem_body", 1) EXCEPT !.last_hdr = UNKNOWN]
        ELSE c' = [Wait("obj_hdr", IF KeepHdr = UNKNOWN THEN 1 ELSE 0)
                     EXCEPT !.last_hdr = KeepHdr]
  \/ /\ At("mem_body")
     /\ LET p == c.in[1].dat[1]
        IN  Send("C_MEMBUF",
                 IF mem[p] = Unmapped
                 THEN Units(PageUnits, "zero") \o <<Dat("failed")>>
                 ELSE Units(PageUnits, mem[p]) \o <<Dat("ok")>>,
                 "get_hdr")

CStep ==
  /\ \/ translator_init \/ translator_config_fetch
     \/ translator_get_object \/ translator_get_loop
  /\ UNCHANGED <<c2s, s2c, mem, changed, s>>

GuestCalls(a) == translator_get(a) /\ UNCHANGED <<c2s, s2c, mem, changed, s>>

(* While it runs, the guest maps, unmaps and overwrites pages.             *)
GuestChanges(p, x) ==
  /\ At("run") /\ mem[p] # x
  /\ mem' = [mem EXCEPT ![p] = x]
  /\ changed' = IF s.page_cache[p] \in Contents THEN changed \cup {p} ELSE changed
  /\ UNCHANGED <<c2s, s2c, c, s>>

(* The guest exits, or the client is killed, at any point.                 *)
ClientDies ==
  /\ ClientAlive /\ Die("kill")
  /\ UNCHANGED <<c2s, s2c, mem, changed, s>>
-----------------------------------------------------------------------------
(* The server.  s.file_wr is the stdio buffer, s.out what fflush or        *)
(* sendfile still has to write, s.in what fread got of s.want units.       *)

Stop(how) == s' = [s EXCEPT !.pc = how]

(* fflush and sendfile.                                                    *)
SWrite ==
  /\ ServerAlive /\ s.out # << >>
  /\ \/ /\ Open("s2c_rd") /\ Len(s2c) < PipeCap
        /\ s2c' = Append(s2c, Head(s.out))
        /\ s' = [s EXCEPT !.out = Tail(@)]
     \/ ~Open("s2c_rd") /\ Stop("killed") /\ UNCHANGED s2c
  /\ UNCHANGED <<c2s, c, mem, changed>>

HdrPcs == {"init_hdr", "main_hdr", "page_hdr"}
BodyPcs == {"init_body", "addr_body", "page_body", "failed_body"}

(* The assertions RecvMsg and Read make before they read.                  *)
ReadOK == /\ s.pc \in HdrPcs => s.recv_sz = 0
          /\ s.pc \in BodyPcs => s.recv_sz >= s.want

SRead ==
  /\ ServerAlive /\ s.out = << >> /\ ReadOK /\ Len(s.in) < s.want
  /\ c2s # << >>
  /\ s' = [s EXCEPT !.in = Append(@, Head(c2s))]
  /\ c2s' = Tail(c2s)
  /\ UNCHANGED <<s2c, c, mem, changed>>

Eof == c2s = << >> /\ ~Open("c2s_wr") /\ Len(s.in) < s.want
SAt(pc) == /\ s.pc = pc /\ s.out = << >> /\ ReadOK
           /\ Len(s.in) = s.want \/ Eof

SWait(pc, n) == [s EXCEPT !.pc = pc, !.in = << >>, !.want = n]

(* RecvMsg: end of file counts as C_EXIT.                                  *)
RecvMsg == IF Eof THEN "C_EXIT" ELSE s.in[1].id
RecvSz == IF Eof THEN s.recv_sz ELSE s.in[1].sz

(* Read: the state after reading the body part, if it could be read.       *)
Read(pc, n) == [SWait(pc, n) EXCEPT !.recv_sz = @ - s.want]

(* A failing assertion: unread message parts, a message that is too small, *)
(* or end of file within a message.                                        *)
AssertFails ==
  /\ ServerAlive /\ s.out = << >>
  /\ ~ReadOK \/ (s.pc \in BodyPcs /\ Eof)
  /\ Stop("aborted")

(* Write flushes once the announced size is reached, for empty bodies too. *)
Flushes(sz, data) == sz - Len(data) = 0

(* SendMsgHdr and Write on top of state t.                                 *)
SendMsg(t, id, data) ==
  LET file == t.file_wr \o Message(id, data)
  IN  IF Flushes(Len(data), data)
      THEN [t EXCEPT !.out = @ \o file, !.file_wr = << >>]
      ELSE [t EXCEPT !.file_wr = file]

(* SendObject: the client configuration goes out before the first object.  *)
SendObject(t, data) ==
  IF t.need_iwcc
  THEN SendMsg([SendMsg(t, "S_INIT", <<Dat("tc")>>) EXCEPT !.need_iwcc = FALSE],
               "S_OBJECT", data)
  ELSE SendMsg(t, "S_OBJECT", data)

Object == [addr |-> s.addr, seen |-> s.seen]

(* Run up to the end of the IWState constructor, which sends the object    *)
(* with the helper functions of the tool.                                  *)
InitServer ==
  \/ /\ SAt("init_hdr")
     /\ IF RecvMsg = "C_INIT"
        THEN s' = [SWait("init_body", 1) EXCEPT !.recv_sz = RecvSz]
        ELSE Stop("exited")
  \/ /\ SAt("init_body") /\ ~Eof
     /\ \E n \in ObjSizes :
          s' = SendObject([Read("main_hdr", 1) EXCEPT !.need_iwcc = TRUE],
                          Units(n, NoObj))

(* The message loop of Run and the beginning of Translate.                 *)
Run ==
  \/ /\ SAt("main_hdr")
     /\ IF RecvMsg = "C_TRANSLATE"
        THEN s' = [SWait("addr_body", 1) EXCEPT !.recv_sz = RecvSz]
        ELSE Stop("exited")
  \/ /\ SAt("addr_body") /\ ~Eof
     /\ LET a == s.in[1].dat[1]
        IN  s' = [Read("decode", 0) EXCEPT
                    !.addr = a, !.pre_addr = a,
                    !.isKernel = (a - s.pre_addr = KernelDelta),
                    !.seen = [p \in Pages |-> Unread], !.reads = 0]

(* What GetPage puts into page_cache: failures are not remembered.         *)
Cached_failed(x) == x
Cached(x) == IF x = Unmapped THEN Unread ELSE x

(* RemoteMemory::GetPage, called from Predecode and Lift.                  *)
GetPage ==
  \/ \E p \in Pages :
       /\ SAt("decode") /\ s.page_cache[p] # Unread /\ s.seen[p] = Unread
       /\ s' = [s EXCEPT !.seen[p] = s.page_cache[p]]
  \/ \E p \in Pages :
       /\ SAt("decode") /\ s.page_cache[p] = Unread /\ s.reads < MaxReads
       /\ s' = SendMsg([SWait("page_hdr", 1) EXCEPT !.page = p, !.reads = @ + 1],
                       "S_MEMREQ", <<Dat(p)>>)
  \/ /\ SAt("page_hdr")
     /\ IF RecvMsg = "C_MEMBUF"
        THEN s' = [SWait("page_body", PageUnits) EXCEPT !.recv_sz = RecvSz]
        ELSE s' = [SWait("decode", 0) EXCEPT !.recv_sz = RecvSz,
                                             !.seen[s.page] = Unmapped]
  \/ /\ SAt("page_body") /\ ~Eof
     /\ s' = [Read("failed_body", 1) EXCEPT !.data = s.in[1].dat]
  \/ /\ SAt("failed_body") /\ ~Eof
     /\ LET x == IF s.in[1].dat[1] = "failed" THEN Unmapped ELSE s.data[1]
        IN  s' = [Read("decode", 0) EXCEPT
                    !.seen[s.page] = x, !.page_cache[s.page] = Cached(x)]

(* CacheProbe finds the object: the header goes through the stdio buffer,  *)
(* the body past it, so Sendfile flushes first.                            *)
Sendfile(t, data) == [t EXCEPT !.out = t.file_wr \o data, !.file_wr = << >>]

CacheProbe ==
  /\ SAt("decode")
  /\ \E n \in ObjSizes :
       s' = Sendfile([SWait("main_hdr", 1) EXCEPT !.file_wr = @ \o <<Hdr("S_OBJECT", n)>>],
                     Units(n, Object))

(* The rest of Translate after a miss: lifting fails, or the object of the *)
(* function is sent, or the server exits after dumping the kernel.         *)
Translate ==
  /\ SAt("decode")
  /\ \/ s' = SendObject(SWait("main_hdr", 1), << >>)
     \/ s.isKernel /\ Stop("exited")
     \/ /\ ~s.isKernel
        /\ \E n \in ObjSizes : s' = SendObject(SWait("main_hdr", 1), Units(n, Object))

SStep ==
  /\ InitServer \/ Run \/ GetPage \/ CacheProbe \/ Translate \/ AssertFails
  /\ UNCHANGED <<c2s, s2c, c, mem, changed>>

ServerDies ==
  /\ ServerAlive /\ Stop("killed")
  /\ UNCHANGED <<c2s, s2c, c, mem, changed>>
-----------------------------------------------------------------------------
Init ==
  /\ c2s = << >> /\ s2c = << >>
  /\ c = [pc |-> "init", err |-> "none", out |-> << >>, in |-> << >>, want |-> 0,
          last_hdr |-> UNKNOWN, recvbuf_sz |-> 0, asked |-> NoAddr, got |-> NoObj]
  /\ mem \in [Pages -> Contents \cup {Unmapped}]
  /\ changed = {}
  /\ s = [pc |-> "init_hdr", in |-> << >>, want |-> 1, recv_sz |-> 0,
          out |-> << >>, file_wr |-> << >>, need_iwcc |-> FALSE,
          page_cache |-> [p \in Pages |-> Unread], addr |-> NoAddr,
          pre_addr |-> NoAddr, isKernel |-> FALSE, page |-> CHOOSE p \in Pages : TRUE,
          data |-> << >>, seen |-> [p \in Pages |-> Unread], reads |-> 0]

Guest == \/ \E a \in Addrs : GuestCalls(a)
         \/ \E p \in Pages, x \in Contents \cup {Unmapped} : GuestChanges(p, x)

(* Nothing is left to do once both processes are gone.                     *)
Gone == ~ClientAlive /\ ~ServerAlive /\ UNCHANGED vars

Next == \/ CWrite \/ CRead \/ CStep \/ Guest \/ ClientDies
        \/ SWrite \/ SRead \/ SStep \/ ServerDies \/ Gone

(* Both processes are scheduled: a call that can go on does.  Nothing      *)
(* obliges the guest to run on or anybody to die.                          *)
Fairness == /\ WF_vars(CWrite) /\ WF_vars(CRead) /\ WF_vars(CStep)
            /\ WF_vars(SWrite) /\ WF_vars(SRead) /\ WF_vars(SStep)

Spec == Init /\ [][Next]_vars /\ Fairness
-----------------------------------------------------------------------------
ClientPcs == {"init", "cfg_hdr", "cfg_body", "obj_hdr", "obj_body", "run",
              "get_hdr", "mem_body", "dead"}

(* Type invariant: both call states, the pipe capacity and the caches.     *)
TypeOK ==
  /\ c.pc \in ClientPcs
  /\ s.pc \in HdrPcs \cup BodyPcs \cup {"decode", "exited", "aborted", "killed"}
  /\ Len(c2s) <= PipeCap /\ Len(s2c) <= PipeCap
  /\ c.asked \in Addrs \cup {NoAddr} /\ s.addr \in Addrs \cup {NoAddr}
  /\ c.recvbuf_sz \in Nat /\ s.recv_sz \in Nat
  /\ mem \in [Pages -> Contents \cup {Unmapped}]
  /\ s.page_cache \in [Pages -> Contents \cup {Unread, Unmapped}]
  /\ changed \subseteq Pages

(* No assertion of Conn fails while the client lives: message sizes and    *)
(* the reads of Run and GetPage agree with what translator.c sends         *)
(* (connection.cc, RecvMsg and Read).                                      *)
AssertionsHold == s.pc = "aborted" => ~ClientAlive

(* The client never meets an unexpected header, whatever mix of page       *)
(* requests, cached and generated objects the server sends: translator.c   *)
(* returns -EPROTO nowhere.                                                *)
NoProtocolError == c.err # "eproto"

(* When the server waits for the client nothing it has to say is left in   *)
(* the stdio buffer (Conn::Write and Sendfile flush): otherwise both       *)
(* sides would wait.                                                       *)
NothingBuffered == s.pc \in HdrPcs /\ ServerAlive => s.file_wr = << >>

(* Page p as the server saw it when it made object o.                      *)
FreshPage(o, p) ==
  o.seen[p] \in {Unread, mem[p]} \/ p \in changed

(* The object a call of translator_get is about to return was made from    *)
(* the bytes the guest has in memory now: the only stale pages are those   *)
(* the guest changed after RemoteMemory cached them, and a page counts as  *)
(* unreadable only while it is not mapped (GetPage, translator_get).       *)
AnswerFresh ==
  c.pc = "obj_body" /\ Len(c.in) = c.want /\ c.want > 0 /\ c.asked # NoAddr =>
    \A p \in Pages : FreshPage(c.in[1].dat[1], p)

(* The conversation goes as both sides expect: no assertion of Conn fails, *)
(* no header is unexpected, nothing the other side waits for stays in a    *)
(* buffer, and every object answers for the memory as it is.               *)
ConversationRight ==
  AssertionsHold /\ NoProtocolError /\ NothingBuffered /\ AnswerFresh

(* A server never outlives its client: CreateFork leaves it no copy of the *)
(* write end, so it sees end of file, or SIGPIPE, wherever it is.          *)
NoOrphan == ~ClientAlive ~> ~ServerAlive

(* The client of a server that died dies too instead of waiting for ever,  *)
(* unless the guest runs on in translated code.                            *)
NoHang == ~ServerAlive ~> c.pc \in {"dead", "run"}

(* What the detailed protocol promises the dispatcher: see TranslateService. *)
Translator == INSTANCE TranslateService WITH
  phase <- IF c.pc = "dead" THEN "ended"
           ELSE IF c.pc = "run" THEN "running"
           ELSE IF c.asked = NoAddr THEN "starting" ELSE "waiting",
  asked <- c.asked,
  answer <- c.got.addr

Service == Translator!Service

(* The safety part of Service.                                             *)
ServiceSafe ==
  Translator!ServiceInit /\ [][Translator!ServiceNext]_(Translator!svars)
-----------------------------------------------------------------------------
(* The inductive invariant.  Both directions are seen as one stream: what  *)
(* the reader has already got of the units it waits for, then the pipe,    *)
(* then what the writer has still to write.  Moving a unit along changes   *)
(* no stream, and a process that died leaves the stream as it was, only    *)
(* incomplete.                                                             *)

ToClient == c.in \o (s2c \o s.out)
ToServer == s.in \o (c2s \o c.out)

Objects ==
  [addr : Addrs \cup {NoAddr}, seen : [Pages -> Contents \cup {Unread, Unmapped}]]
Sizes == ObjSizes \cup {0}

(* The object the client asked for; main asks for none.                    *)
Asked(o) == IF c.asked = NoAddr THEN o = NoObj
            ELSE o.addr = c.asked /\ \A p \in Pages : FreshPage(o, p)

Body(stream, n) == \E o \in Objects : Asked(o) /\ stream = Units(n, o)
ObjectMsg(stream) ==
  \E n \in Sizes, o \in Objects : Asked(o) /\ stream = Message("S_OBJECT", Units(n, o))
ConfigMsg(rest, stream) ==
  \E n \in Sizes, o \in Objects :
    Asked(o) /\ stream = rest \o Message("S_OBJECT", Units(n, o))

(* Where the client is, and what is then on its way to it.                 *)
OnInit == c.asked = NoAddr /\ c.want = 0 /\ ToClient = << >>
OnCfgHdr ==
  /\ c.asked = NoAddr /\ c.want = 1
  /\ ToClient = << >> \/ ConfigMsg(Message("S_INIT", <<Dat("tc")>>), ToClient)
OnCfgBody == c.asked = NoAddr /\ c.want = 1 /\ ConfigMsg(<<Dat("tc")>>, ToClient)
OnObjHdr ==
  \/ c.last_hdr = UNKNOWN /\ c.want = 1 /\ ObjectMsg(ToClient)
  \/ c.want = 0 /\ \E n \in Sizes : c.last_hdr = Hdr("S_OBJECT", n) /\ Body(ToClient, n)
OnObjBody == c.want \in Sizes /\ Body(ToClient, c.want)
OnRun == c.want = 0 /\ ToClient = << >>
OnGetHdr ==
  /\ c.asked # NoAddr /\ c.want = 1
  /\ \/ ToClient = << >> \/ ObjectMsg(ToClient)
     \/ \E p \in Pages : ToClient = Message("S_MEMREQ", <<Dat(p)>>)
OnMemBody ==
  c.asked # NoAddr /\ c.want = 1 /\ \E p \in Pages : ToClient = <<Dat(p)>>

ClientExpects ==
  /\ c.pc \in ClientPcs
  /\ c.pc \notin {"run", "dead"} => c.got = NoObj
  /\ c.pc # "obj_hdr" => c.last_hdr = UNKNOWN
  /\ c.pc = "init" => OnInit
  /\ c.pc = "cfg_hdr" => OnCfgHdr
  /\ c.pc = "cfg_body" => OnCfgBody
  /\ c.pc = "obj_hdr" => OnObjHdr
  /\ c.pc = "obj_body" => OnObjBody
  /\ c.pc = "run" => OnRun
  /\ c.pc = "get_hdr" => OnGetHdr
  /\ c.pc = "mem_body" => OnMemBody

(* A page as translator_get answers for it.                                *)
Reply(p) == IF mem[p] = Unmapped THEN Units(PageUnits, "zero") \o <<Dat("failed")>>
            ELSE Units(PageUnits, mem[p]) \o <<Dat("ok")>>

(* The server is in the midst of a translation for the client.             *)
Translating ==
  /\ s.addr = c.asked /\ c.asked # NoAddr
  /\ \A p \in Pages : FreshPage([seen |-> s.seen], p)

(* The client waits for the server, which has all it sent but stream.      *)
Serving(stream) == c.pc = "get_hdr" /\ ToClient = << >> /\ ToServer = stream

(* Where the server is, and what is then on its way to it: only one of the *)
(* two has the word.                                                       *)
OnInitHdr ==
  /\ s.want = 1 /\ s.recv_sz = 0 /\ ToClient = << >>
  /\ \/ c.pc = "init" /\ ToServer = << >>
     \/ c.pc = "cfg_hdr" /\ ToServer = Message("C_INIT", <<Dat("tsc")>>)
OnInitBody ==
  /\ s.want = 1 /\ s.recv_sz = 1
  /\ c.pc = "cfg_hdr" /\ ToClient = << >> /\ ToServer = <<Dat("tsc")>>
OnMainHdr ==
  /\ s.want = 1 /\ s.recv_sz = 0
  /\ \/ /\ c.pc \notin {"init", "mem_body"} /\ ToServer = << >>
        /\ c.pc = "cfg_hdr" => ToClient # << >>
        /\ c.pc = "get_hdr" => ObjectMsg(ToClient)
     \/ Serving(Message("C_TRANSLATE", <<Dat(c.asked)>>))
OnAddrBody ==
  s.want = 1 /\ s.recv_sz = 1 /\ c.asked # NoAddr /\ Serving(<<Dat(c.asked)>>)
OnDecode == s.want = 0 /\ s.recv_sz = 0 /\ Translating /\ Serving(<< >>)
OnPageHdr ==
  /\ s.want = 1 /\ s.recv_sz = 0 /\ s.page \in Pages /\ Translating
  /\ \/ /\ c.pc = "get_hdr" /\ ToClient = Message("S_MEMREQ", <<Dat(s.page)>>)
        /\ ToServer = << >>
     \/ c.pc = "mem_body" /\ ToClient = <<Dat(s.page)>> /\ ToServer = << >>
     \/ Serving(Message("C_MEMBUF", Reply(s.page)))
OnPageBody ==
  /\ s.want = PageUnits /\ s.recv_sz = PageUnits + 1 /\ s.page \in Pages
  /\ Translating /\ Serving(Reply(s.page))
OnFailedBody ==
  /\ s.want = 1 /\ s.recv_sz = 1 /\ s.page \in Pages /\ Translating
  /\ \/ mem[s.page] = Unmapped /\ Serving(<<Dat("failed")>>)
     \/ mem[s.page] # Unmapped /\ s.data = <<mem[s.page]>> /\ Serving(<<Dat("ok")>>)

ServerExpects ==
  /\ s.pc \in HdrPcs \cup BodyPcs \cup {"decode"}
  /\ s.pc = "init_hdr" => OnInitHdr
  /\ s.pc = "init_body" => OnInitBody
  /\ s.pc = "main_hdr" => OnMainHdr
  /\ s.pc = "addr_body" => OnAddrBody
  /\ s.pc = "decode" => OnDecode
  /\ s.pc = "page_hdr" => OnPageHdr
  /\ s.pc = "page_body" => OnPageBody
  /\ s.pc = "failed_body" => OnFailedBody

(* The memory, the pages the server holds and how they differ.             *)
CacheRight ==
  /\ mem \in [Pages -> Contents \cup {Unmapped}]
  /\ s.page_cache \in [Pages -> Contents \cup {Unread}]
  /\ s.seen \in [Pages -> Contents \cup {Unread, Unmapped}]
  /\ \A p \in Pages : s.page_cache[p] \in {Unread, mem[p]} \/ p \in changed

IInv ==
  /\ NoProtocolError /\ s.file_wr = << >>
  /\ ClientAlive =>
       /\ s.pc # "aborted" /\ s.need_iwcc = FALSE
       /\ c.asked \in Addrs \cup {NoAddr}
       /\ CacheRight /\ ClientExpects
       /\ ServerAlive => ServerExpects
=============================================================================
