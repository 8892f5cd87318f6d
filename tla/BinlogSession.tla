---------------------------- MODULE BinlogSession ----------------------------
(***************************************************************************)
(* The parser thread as a replication client: main's loop, Packet::Read and *)
(* Packet::Parse (packet.cpp), and MysqlConnector's Connect, GetNowBinlogPos *)
(* and ReqBinlog (mysql_connector.cpp), against a MySQL server whose        *)
(* connections may fail at any byte.                                       *)
(*                                                                         *)
(* The server's log is the events 1..logLen; a binlog file and position are *)
(* the number of the event they start at, 0 if the server knows no such     *)
(* place.  The server streams across files by itself, so files do not       *)
(* matter, except that all events of a file are logged with a CRC or        *)
(* without one, as the Format event at its start says.  The position that   *)
(* Rotate events and event heads leave in NormalPacket is never read.       *)
(*                                                                         *)
(* The server is a MySQL 5.6: it sends events with the CRC they were logged *)
(* with, but refuses to send a file with CRCs unless the connection has set *)
(* @master_binlog_checksum.  An event is one packet, but for those of 16 MB *)
(* and more (Large), which are a packet of full length and the rest.        *)
(*                                                                         *)
(* main ignores what Read returns: a Read that got nothing is followed by a *)
(* Parse of whatever body_buf_ still holds, and only a packet that is not a *)
(* normal one ends the session.                                            *)
(***************************************************************************)
EXTENDS Naturals, FiniteSets

CONSTANTS MaxEvents,   \* bound on the server's log
          Large        \* the events of 16 MB and more

ASSUME SessionAssumption == MaxEvents \in Nat /\ Large \subseteq 1..MaxEvents

VARIABLES logLen,      \* the server's log is 1..logLen
          checksum,    \* the server's binlog_checksum
          summed,      \* the events that were logged with a CRC
          pc,          \* where main is
          binlogPos,   \* binlog_filename and binlog_pos
          retryCnt,    \* retry_cnt
          asked,       \* binlog_checksum_enable
          enabled,     \* packet_struct_->checksum_enable
          alg,         \* format_event.alg_; OFF and UNDEF are "off", all others "crc32"
          conn,        \* "none", "open" (no dump runs), "stream", "rest" (a stream
                       \* inside a large event), "refused" (the dump will be
                       \* answered by an error) or "closed"
          next,        \* the next event the server sends on this connection
          told,        \* the algorithm in its last Format event on it, or "none"
          buf,         \* what body_buf_ holds, see Packets
          first,       \* history: the position of the first request, up to the
                       \* fifth disconnection
          base,        \* history: the last position read from the server
          seen,        \* history: the events parsed from whole packets
          fresh,       \* history: was the packet in buf read, and not parsed yet?
          drops        \* history: disconnections so far, up to 5

server  == <<logLen, checksum, summed>>
options == <<asked, enabled>>
link    == <<conn, next, told>>
history == <<first, base, seen, drops>>
vars == <<server, pc, binlogPos, retryCnt, options, alg, link, buf, fresh, history>>

Events == 1..MaxEvents
Positions == 0..MaxEvents + 1

Algs == {"off", "crc32"}

\* The contents of body_buf_: uninitialised memory, a whole event with or without
\* a CRC, a Format event of a file with or without them, the first packet of a
\* large event, bytes that start with 0x00 but are no event, an error packet
\* (0xff) or another one (as 0xfe).
Packets == [kind : {"none", "event", "format", "head", "torn", "error", "other"},
            event : 0..MaxEvents, alg : Algs]
Event(e, a) == [kind |-> "event", event |-> e, alg |-> a]
Format(a) == [kind |-> "format", event |-> 0, alg |-> a]
NoEvent(kind) == [kind |-> kind, event |-> 0, alg |-> "off"]
Normal == {"event", "format", "head", "torn"}

\* The checksum algorithm of the file with position p.
FileAlg(p) ==
    IF p > logLen THEN checksum ELSE IF p \in summed THEN "crc32" ELSE "off"

TypeOK ==
    /\ logLen \in 0..MaxEvents
    /\ checksum \in Algs
    /\ summed \subseteq Events
    /\ pc \in {"connect", "locate", "ask", "init", "request", "read", "parse", "drop", "exited"}
    /\ binlogPos \in Positions
    /\ retryCnt \in 0..4
    /\ asked \in BOOLEAN /\ enabled \in BOOLEAN
    /\ alg \in Algs
    /\ conn \in {"none", "open", "stream", "rest", "refused", "closed"}
    /\ next \in Positions
    /\ told \in Algs \cup {"none"}
    /\ buf \in Packets
    /\ first \in Positions /\ base \in Positions
    /\ seen \subseteq Events
    /\ fresh \in BOOLEAN
    /\ drops \in 0..5

Init ==
    /\ logLen \in 0..MaxEvents
    /\ checksum \in Algs
    /\ summed \in SUBSET (1..logLen)
    /\ pc = "connect"
    /\ binlogPos = 0
    /\ retryCnt = 0
    /\ asked = FALSE /\ enabled = FALSE
    /\ alg = "off"
    /\ conn = "none"
    /\ next = 0
    /\ told = "none"
    /\ buf = NoEvent("none")
    /\ first = 0 /\ base = 0
    /\ seen = {}
    /\ fresh = FALSE
    /\ drops = 0

\* The connection is one without a dump now.
NoStream(state) ==
    /\ conn' = state
    /\ next' = 0
    /\ told' = "none"

-----------------------------------------------------------------------------
(* The server.                                                             *)

LogEvent ==
    /\ logLen < MaxEvents
    /\ logLen' = logLen + 1
    /\ summed' = IF checksum = "crc32" THEN summed \cup {logLen + 1} ELSE summed
    /\ UNCHANGED <<checksum, pc, binlogPos, retryCnt, options, alg, link, buf, fresh, history>>

\* SET GLOBAL binlog_checksum: the server goes on in a new file.
SetChecksum ==
    /\ checksum' \in Algs \ {checksum}
    /\ UNCHANGED <<logLen, summed, pc, binlogPos, retryCnt, options, alg, link, buf, fresh, history>>

-----------------------------------------------------------------------------
(* main before its loop.                                                   *)

\* while (mysql_connector.Connect() == -1) sleep(2);
FirstConnect ==
    /\ pc = "connect"
    /\ NoStream("open")
    /\ pc' = "locate"
    /\ UNCHANGED <<server, binlogPos, retryCnt, options, alg, buf, fresh, history>>

\* GetNowBinlogPos reads the end of the log.  If it fails, main goes on with
\* an uninitialised binlog_pos.
Locate ==
    /\ pc = "locate"
    /\ \/ binlogPos' = logLen + 1
       \/ binlogPos' \in Positions
    /\ first' = binlogPos'
    /\ base' = binlogPos'
    /\ pc' = "ask"
    /\ UNCHANGED <<server, retryCnt, options, alg, link, buf, fresh, seen, drops>>

\* What CheckIsChecksumEnable may return: false if the query fails.
CheckIsChecksumEnable == IF checksum = "off" THEN {FALSE} ELSE BOOLEAN

AskChecksum ==
    /\ pc = "ask"
    /\ asked' \in CheckIsChecksumEnable
    /\ pc' = "init"
    /\ UNCHANGED <<server, binlogPos, retryCnt, enabled, alg, link, buf, fresh, history>>

\* packet.Init(mysql_connector.CheckIsChecksumEnable()): the question is asked
\* again.
InitPacket ==
    /\ pc = "init"
    /\ enabled' \in CheckIsChecksumEnable
    /\ pc' = "request"
    /\ UNCHANGED <<server, binlogPos, retryCnt, asked, alg, link, buf, fresh, history>>

-----------------------------------------------------------------------------
(* A session.                                                              *)

\* Mutant: the request asks for the event after the position.
RequestAfter ==
    /\ pc = "request"
    /\ IF binlogPos \in 1..logLen
       THEN conn' = "stream" /\ next' = binlogPos + 1 /\ told' = "none"
       ELSE NoStream("refused")
    /\ pc' = "read"
    /\ UNCHANGED <<server, binlogPos, retryCnt, options, alg, buf, fresh, history>>

\* ReqBinlog: the dump command reaches the server, or the connection is dead,
\* or mysql_query reconnected behind its back and fcntl fails on the old fd:
\* then the new connection is never asked for anything.
ReqBinlog ==
    /\ pc = "request"
    /\ \/ /\ binlogPos \in 1..logLen + 1
          /\ conn' = "stream"
          /\ next' = binlogPos
          /\ told' = "none"
       \/ binlogPos \notin 1..logLen + 1 /\ NoStream("refused")
       \/ \E state \in {"open", "closed"} : NoStream(state)
    /\ pc' = "read"
    /\ UNCHANGED <<server, binlogPos, retryCnt, options, alg, buf, fresh, history>>

Streaming == conn \in {"stream", "rest"}

\* The server has an event to send.
Sends == conn = "stream" /\ told = FileAlg(next) /\ next <= logLen

\* The connection did not set @master_binlog_checksum, and the file has CRCs.
ChecksumRefused == conn = "stream" /\ FileAlg(next) # "off" /\ ~asked

Reading ==
    /\ pc = "read"
    /\ pc' = "parse"
    /\ UNCHANGED <<server, binlogPos, retryCnt, options, alg, history>>

\* Packet::Read gets a whole packet with the next event.
ReadEvent ==
    /\ Reading
    /\ Sends
    /\ next \notin Large
    /\ buf' = Event(next, FileAlg(next))
    /\ next' = next + 1
    /\ fresh' = TRUE
    /\ UNCHANGED <<conn, told>>

\* A Format event starts the dump and every file.  (Nothing changes here if it
\* says what the last one said.)
ReadFormat ==
    /\ Reading
    /\ conn = "stream"
    /\ told # FileAlg(next)
    /\ ~ChecksumRefused
    /\ buf' = Format(FileAlg(next))
    /\ told' = FileAlg(next)
    /\ fresh' = TRUE
    /\ UNCHANGED <<conn, next>>

\* The first packet of a large event.
ReadHead ==
    /\ Reading
    /\ Sends
    /\ next \in Large
    /\ buf' = NoEvent("head")
    /\ conn' = "rest"
    /\ fresh' = TRUE
    /\ UNCHANGED <<next, told>>

\* The rest of a large event, which starts with any byte.
ReadRest ==
    /\ Reading
    /\ conn = "rest"
    /\ \E kind \in {"torn", "error", "other"} : buf' = NoEvent(kind)
    /\ conn' = "stream"
    /\ next' = next + 1
    /\ fresh' = TRUE
    /\ UNCHANGED told

\* The server ends the dump with an error packet or an EOF packet.
ReadFinal ==
    /\ Reading
    /\ conn \in {"stream", "refused"}
    /\ \E kind \in {"error", "other"} : buf' = NoEvent(kind)
    /\ fresh' = TRUE
    /\ UNCHANGED link

\* The connection is closed or fails before the packet's head is complete, or
\* it was closed before: read returns 0 or -1 and body_buf_ stays as it is.
ReadNothing ==
    /\ Reading
    /\ NoStream("closed")
    /\ UNCHANGED <<buf, fresh>>

\* The connection is closed or fails behind the head of a packet: body_len_ and
\* the first bytes of body_buf_ are the new ones, the others are older.
ReadTorn ==
    /\ Reading
    /\ Streaming
    /\ NoStream("closed")
    /\ \E kind \in {"torn"} \cup (IF conn = "rest" THEN {"error", "other"} ELSE {}) :
           buf' = NoEvent(kind)
    /\ fresh' = TRUE

\* Mutant: a second Parse of the same packet ends the session, as a check for
\* a Read without a packet would that does not look at the buffer.
ParseNormalOnce ==
    /\ pc = "parse"
    /\ buf.kind = "event"
    /\ seen' = seen \cup {buf.event}
    /\ fresh' = FALSE
    /\ pc' = IF fresh THEN "read" ELSE "drop"
    /\ UNCHANGED <<server, binlogPos, retryCnt, options, alg, link, buf, first, base, drops>>

\* Packet::Parse of a whole event: NormalPacket::Parse handles it, whether it
\* is new or was parsed before.  Its return value is ignored.
ParseNormal ==
    /\ pc = "parse"
    /\ buf.kind = "event"
    /\ seen' = seen \cup {buf.event}
    /\ fresh' = FALSE
    /\ pc' = "read"
    /\ UNCHANGED <<server, binlogPos, retryCnt, options, alg, link, buf, first, base, drops>>

\* Mutant: the algorithm is looked at only in the first Format event.
ParseFormatOnce ==
    /\ pc = "parse"
    /\ buf.kind = "format"
    /\ alg' = IF enabled /\ alg = "off" THEN buf.alg ELSE alg
    /\ fresh' = FALSE
    /\ pc' = "read"
    /\ UNCHANGED <<server, binlogPos, retryCnt, options, link, buf, history>>

\* FormatEvent::Parse knows where alg_ is only if the packet parser was told
\* that there are checksums.
ParseFormat ==
    /\ pc = "parse"
    /\ buf.kind = "format"
    /\ alg' = IF enabled THEN buf.alg ELSE alg
    /\ fresh' = FALSE
    /\ pc' = "read"
    /\ UNCHANGED <<server, binlogPos, retryCnt, options, link, buf, history>>

\* Packet::Parse of a part of a large event, of bytes of two packets, or of
\* uninitialised memory that happens to start with 0x00: it may yield rows that
\* never were, run into an assertion, look like a Format event, or find the
\* packet too short.
ParseGarbage ==
    /\ pc = "parse"
    /\ buf.kind \in {"head", "torn", "none"}
    /\ alg' \in IF enabled /\ buf.kind # "head" THEN Algs ELSE {alg}
    /\ fresh' = FALSE
    /\ pc' \in IF buf.kind = "none" THEN {"read"} ELSE {"read", "exited"}
    /\ UNCHANGED <<server, binlogPos, retryCnt, options, link, buf, history>>

\* Packet::Parse returns -1: an error packet, a packet of another kind, or
\* uninitialised memory that does not start with 0x00.
ParseFinal ==
    /\ pc = "parse"
    /\ buf.kind \in {"error", "other", "none"}
    /\ fresh' = FALSE
    /\ pc' = "drop"
    /\ UNCHANGED <<server, binlogPos, retryCnt, options, alg, link, buf, history>>

-----------------------------------------------------------------------------
(* Between two sessions.                                                   *)

\* Mutant: every reconnection goes on at the end of the log.
ReconnectAtEnd ==
    /\ pc = "drop"
    /\ NoStream("open")
    /\ pc' = "request"
    /\ drops' = IF drops < 5 THEN drops + 1 ELSE drops
    /\ first' = IF drops' < 5 THEN first ELSE 0
    /\ retryCnt' = 0
    /\ binlogPos' = logLen + 1
    /\ base' = binlogPos'
    /\ UNCHANGED <<server, options, alg, buf, fresh, seen>>

\* Mutant: retry_cnt is not reset after the switch.
ReconnectNoReset ==
    /\ pc = "drop"
    /\ NoStream("open")
    /\ pc' = "request"
    /\ drops' = IF drops < 5 THEN drops + 1 ELSE drops
    /\ first' = IF drops' < 5 THEN first ELSE 0
    /\ retryCnt' = retryCnt + 1
    /\ binlogPos' \in IF retryCnt > 3 THEN {binlogPos, logLen + 1} ELSE {binlogPos}
    /\ base' = binlogPos'
    /\ UNCHANGED <<server, options, alg, buf, fresh, seen>>

\* DisConnect and Connect.  Every fifth time (retry_cnt++ > 3) main moves on to
\* the end of the log, unless GetNowBinlogPos fails.
Reconnect ==
    /\ pc = "drop"
    /\ NoStream("open")
    /\ pc' = "request"
    /\ drops' = IF drops < 5 THEN drops + 1 ELSE drops
    /\ first' = IF drops' < 5 THEN first ELSE 0
    /\ \/ /\ retryCnt <= 3
          /\ retryCnt' = retryCnt + 1
          /\ UNCHANGED <<binlogPos, base>>
       \/ /\ retryCnt > 3
          /\ retryCnt' = 0
          /\ binlogPos' \in {binlogPos, logLen + 1}
          /\ base' = binlogPos'
    /\ UNCHANGED <<server, options, alg, buf, fresh, seen>>

\* if (res != 0) return -1;
ReconnectFails ==
    /\ pc = "drop"
    /\ NoStream("none")
    /\ pc' = "exited"
    /\ UNCHANGED <<server, binlogPos, retryCnt, options, alg, buf, fresh, history>>

-----------------------------------------------------------------------------
Read ==
    \/ ReadEvent \/ ReadFormat \/ ReadHead \/ ReadRest
    \/ ReadFinal \/ ReadNothing \/ ReadTorn
Parse == ParseNormal \/ ParseFormat \/ ParseGarbage \/ ParseFinal

ClientStep ==
    \/ FirstConnect \/ Locate \/ AskChecksum \/ InitPacket \/ ReqBinlog
    \/ Read \/ Parse
    \/ Reconnect \/ ReconnectFails

Next == ClientStep \/ LogEvent \/ SetChecksum

Spec == Init /\ [][Next]_vars

\* main runs on; a Read is answered once the server has something to send, so
\* it counts as a step to come only then, or when the connection is closed.
FairSpec ==
    /\ Spec
    /\ WF_vars(FirstConnect \/ Locate \/ AskChecksum \/ InitPacket \/ ReqBinlog \/ Parse \/ Reconnect)
    /\ WF_vars(ReadEvent \/ ReadFormat \/ ReadHead \/ ReadRest)
    /\ WF_vars((conn = "refused" \/ ChecksumRefused) /\ ReadFinal)
    /\ WF_vars(conn = "closed" /\ ReadNothing)

-----------------------------------------------------------------------------
(* Properties.                                                             *)

\* No event is skipped: from the position main last read from the server, all
\* events up to the newest parsed one have been parsed, through any number of
\* lost connections and repeated requests, except those of 16 MB and more.
NoGap == \A e \in seen : base # 0 /\ base <= e => (base..e) \ Large \subseteq seen

\* An event from the first position on is passed over only after five
\* disconnections, when main moves on to the end of the log.
LossNeedsFiveDrops ==
    drops < 5 /\ first # 0 => \A e \in seen : first <= e => (first..e) \ Large \subseteq seen

\* A session never starts with a normal packet of an earlier one in body_buf_,
\* so the stale packet that Parse meets after a failed Read is of the same session.
SessionsStartClean == pc = "request" => buf.kind \notin Normal

\* Would NormalPacket take four bytes off the end of an event now?
Strips == enabled /\ alg # "off"

\* Nothing but whole packets came before the event on this connection.
WholeBefore(e) == \A l \in Large : ~(binlogPos <= l /\ l < e)

\* The CRC is taken off an event if and only if it has one, however often the
\* server's setting changes and main reconnects: the rows of the event end where
\* the parser thinks they do.  It takes that main's two questions were not
\* answered with yes and no.
StripsChecksums ==
    pc = "parse" /\ buf.kind = "event" /\ WholeBefore(buf.event) /\ (asked => enabled)
        => (Strips <=> buf.alg # "off")

\* Every event of the log from the requested position on is eventually parsed,
\* provided that from some time on no connection is lost or refused and no
\* garbage ends the process.
StreamIsParsed ==
    \A e \in Events \ Large :
        <>[](pc # "exited" /\ Streaming /\ binlogPos <= e) /\ <>(logLen >= e) => <>(e \in seen)

\* The event in body_buf_, if it was not parsed yet.
InHand == IF pc = "parse" /\ buf.kind = "event" THEN {buf.event} ELSE {}

\* The next event to be parsed: the one in hand, the next one of the stream, or
\* the first one of the next request.
At == IF Streaming THEN IF InHand = {} THEN next ELSE next - 1 ELSE base

Replay == INSTANCE EventReplay WITH from <- base, at <- At, applied <- seen

\* Through packets, CRCs, lost connections and stale buffers, main parses the
\* events in their order, starts again only at its position, and moves that only
\* beyond what it parsed.
ImplementsReplay == Replay!Spec

(* What the README says of the parser, and the code does not do.           *)

\* "it pulls one packet at a time and then parses that packet": a packet is
\* parsed once.
EachPacketParsedOnce == pc = "parse" /\ buf.kind = "event" => fresh

-----------------------------------------------------------------------------
(* The inductive invariant behind the safety properties.                   *)

\* main has parsed nothing and asked for nothing before its loop.
StartInv == pc \in {"connect", "locate", "ask", "init"} => seen = {} /\ ~Streaming

\* Only events of the log are parsed or in hand.
LoggedInv == seen \cup InHand \subseteq 1..logLen

\* The dump started at the position main knows, and everything the server sent
\* on this connection was parsed or is in hand.
StreamInv ==
    /\ binlogPos = base
    /\ Streaming =>
        base # 0 /\ base <= next /\ (base..next - 1) \ Large \subseteq seen \cup InHand

\* An event that comes to be parsed, for the first time or again, leaves no gap.
HandInv ==
    /\ buf.kind = "event" => buf.event \in seen \cup InHand
    /\ InHand # {} /\ base # 0 /\ base <= buf.event => (base..buf.event - 1) \ Large \subseteq seen
    /\ InHand # {} => IF Streaming THEN buf.event = next - 1 /\ buf.event \notin Large
                                  ELSE buf.event \in seen

\* Only a packet that is not a normal one ends a session.
BufferInv ==
    pc \in {"connect", "locate", "ask", "init", "request", "drop"} => buf.kind \notin Normal

\* Up to the fifth disconnection main counts them and keeps the first position.
DropInv == drops < 5 => retryCnt = drops /\ base = first

\* What is parsed on a stream was just read from it.
FreshInv ==
    /\ pc = "parse" /\ Streaming => fresh
    /\ fresh => pc = "parse" /\ buf.kind # "none"
    /\ conn = "rest" => next \in Large
    /\ Streaming /\ buf.kind = "torn" => ~WholeBefore(next)

\* alg_ is what the last Format event of the stream said, once it is parsed and
\* until a large event came by.
SumInv ==
    /\ told = "crc32" => asked
    /\ told # "none" => Streaming
    /\ fresh /\ buf.kind = "format" /\ Streaming => told = buf.alg
    /\ enabled /\ told # "none" /\ WholeBefore(next) /\ ~(fresh /\ buf.kind = "format") => told = alg
    /\ buf.kind = "event" =>
        /\ buf.alg = "crc32" => asked
        /\ enabled /\ WholeBefore(buf.event) => alg = buf.alg

SessionInv ==
    /\ TypeOK /\ StartInv /\ LoggedInv /\ StreamInv /\ HandInv
    /\ BufferInv /\ DropInv /\ FreshInv /\ SumInv /\ NoGap

=============================================================================
