------------------------- MODULE BinlogSessionProofs -------------------------
(***************************************************************************)
(* Proofs about BinlogSession, for every length of the server's log and     *)
(* every set of large events: no event but those is skipped behind the      *)
(* position that main asks for, and none behind its first position before   *)
(* the fifth disconnection; CRCs are taken off where they are; and main     *)
(* implements EventReplay.                                                 *)
(*                                                                         *)
(* SessionInv is inductive.  NoGap by itself is not: an event read into     *)
(* body_buf_ may be parsed although one before it was not, unless the       *)
(* events sent earlier on this connection are known to be parsed (StreamInv *)
(* and HandInv), and moving on to the end of the log leaves no gap only     *)
(* because nothing beyond the log was ever parsed (LoggedInv).  That alg_   *)
(* fits an event takes SumInv: since its Format event, unless garbage of a  *)
(* large event came between; and that the packet in hand is the stream's    *)
(* last one and not an older one takes FreshInv.                           *)
(***************************************************************************)
EXTENDS BinlogSession, TLAPS

USE SessionAssumption

-----------------------------------------------------------------------------
(* The type invariant.                                                     *)

\* main starts with well-typed variables.
LEMMA TypeInit == Init => TypeOK
  <1> SUFFICES ASSUME Init
               PROVE  TypeOK
    OBVIOUS
  <1>1. buf \in Packets
    BY DEF Init, Packets, NoEvent, Algs
  <1>2. summed \subseteq Events /\ seen \subseteq Events
    BY DEF Init, Events
  <1>3. asked \in BOOLEAN /\ enabled \in BOOLEAN /\ fresh \in BOOLEAN
    BY DEF Init
  <1> QED
    BY <1>1, <1>2, <1>3 DEF Init, TypeOK, Positions, Algs

\* Every step keeps them so.  That a parsed event is one takes LoggedInv,
\* and that the rest of a large event is the last of it, FreshInv.
LEMMA TypeNext == TypeOK /\ LoggedInv /\ FreshInv /\ [Next]_vars => TypeOK'
  <1> SUFFICES ASSUME TypeOK, LoggedInv, FreshInv, [Next]_vars
               PROVE  TypeOK'
    OBVIOUS
  <1> USE DEF TypeOK, Positions, Packets, Events, Algs, server, options, link, history
  <1>1. CASE LogEvent
    BY <1>1 DEF LogEvent
  <1>2. CASE SetChecksum
    BY <1>2 DEF SetChecksum
  <1>3. CASE FirstConnect
    BY <1>3 DEF FirstConnect, NoStream
  <1>4. CASE Locate
    BY <1>4 DEF Locate
  <1>5. CASE AskChecksum
    <2>1. asked' \in BOOLEAN
      BY <1>5, Zenon DEF AskChecksum, CheckIsChecksumEnable
    <2> QED
      BY <1>5, <2>1 DEF AskChecksum
  <1>6. CASE InitPacket
    <2>1. enabled' \in BOOLEAN
      BY <1>6, Zenon DEF InitPacket, CheckIsChecksumEnable
    <2> QED
      BY <1>6, <2>1 DEF InitPacket
  <1>7. CASE ReqBinlog
    BY <1>7 DEF ReqBinlog, NoStream
  <1>8. CASE ReadEvent
    BY <1>8 DEF ReadEvent, Reading, Sends, Event, FileAlg
  <1>9. CASE ReadFormat
    BY <1>9 DEF ReadFormat, Reading, Format, FileAlg
  <1>10. CASE ReadHead
    BY <1>10 DEF ReadHead, Reading, NoEvent
  <1>11. CASE ReadRest
    <2>1. buf' \in Packets
      BY <1>11 DEF ReadRest, NoEvent
    <2>2. next' \in Positions
      BY <1>11 DEF ReadRest, FreshInv
    <2> QED
      BY <1>11, <2>1, <2>2 DEF ReadRest, Reading
  <1>12. CASE ReadFinal
    BY <1>12 DEF ReadFinal, Reading, NoEvent
  <1>13. CASE ReadNothing
    BY <1>13 DEF ReadNothing, Reading, NoStream
  <1>14. CASE ReadTorn
    <2>1. buf' \in Packets
      BY <1>14 DEF ReadTorn, NoEvent
    <2> QED
      BY <1>14, <2>1 DEF ReadTorn, Reading, NoStream
  <1>15. CASE ParseNormal
    <2>1. seen' \subseteq Events
      BY <1>15 DEF ParseNormal, LoggedInv, InHand
    <2> QED
      BY <1>15, <2>1 DEF ParseNormal
  <1>16. CASE ParseFormat
    BY <1>16 DEF ParseFormat
  <1>17. CASE ParseGarbage
    BY <1>17, ZenonT(40) DEF ParseGarbage
  <1>18. CASE ParseFinal
    BY <1>18, ZenonT(40) DEF ParseFinal
  <1>19. CASE Reconnect
    BY <1>19 DEF Reconnect, NoStream
  <1>20. CASE ReconnectFails
    BY <1>20 DEF ReconnectFails, NoStream
  <1>21. CASE UNCHANGED vars
    BY <1>21 DEF vars
  <1> QED
    BY <1>1, <1>2, <1>3, <1>4, <1>5, <1>6, <1>7, <1>8, <1>9, <1>10, <1>11, <1>12, <1>13,
       <1>14, <1>15, <1>16, <1>17, <1>18, <1>19, <1>20, <1>21
       DEF Next, ClientStep, Read, Parse
-----------------------------------------------------------------------------
(* The other parts, each with the parts it rests on.                       *)

\* Before main read a position nothing was parsed or asked for.
LEMMA StartNext == StartInv /\ [Next]_vars => StartInv'
  BY DEF StartInv, Streaming, vars, server, options, link, history, Next, ClientStep, Read, Parse,
     LogEvent, SetChecksum, FirstConnect, Locate, AskChecksum, InitPacket, ReqBinlog, Reading,
     ReadEvent, ReadFormat, ReadHead, ReadRest, ReadFinal, ReadNothing, ReadTorn,
     ParseNormal, ParseFormat, ParseGarbage, ParseFinal, Reconnect, ReconnectFails,
     NoStream, Event, Format, NoEvent

\* A session ends with a packet that is not an event, and starts with it.
LEMMA BufferNext == BufferInv /\ [Next]_vars => BufferInv'
  BY DEF BufferInv, Normal, vars, server, options, link, history, Next, ClientStep, Read, Parse,
     LogEvent, SetChecksum, FirstConnect, Locate, AskChecksum, InitPacket, ReqBinlog, Reading,
     ReadEvent, ReadFormat, ReadHead, ReadRest, ReadFinal, ReadNothing, ReadTorn,
     ParseNormal, ParseFormat, ParseGarbage, ParseFinal, Reconnect, ReconnectFails,
     NoStream, Event, Format, NoEvent

\* retry_cnt counts the disconnections until it reaches the switch.
LEMMA DropNext == TypeOK /\ DropInv /\ [Next]_vars => DropInv'
  BY DEF TypeOK, DropInv, vars, server, options, link, history, Next, ClientStep, Read, Parse,
     LogEvent, SetChecksum, FirstConnect, Locate, AskChecksum, InitPacket, ReqBinlog, Reading,
     ReadEvent, ReadFormat, ReadHead, ReadRest, ReadFinal, ReadNothing, ReadTorn,
     ParseNormal, ParseFormat, ParseGarbage, ParseFinal, Reconnect, ReconnectFails,
     NoStream, Event, Format, NoEvent

\* A packet parsed on a stream is the last one read.
LEMMA FreshNext == TypeOK /\ BufferInv /\ StreamInv /\ FreshInv /\ [Next]_vars => FreshInv'
  <1> SUFFICES ASSUME TypeOK, BufferInv, StreamInv, FreshInv, [Next]_vars
               PROVE  FreshInv'
    OBVIOUS
  <1> USE DEF FreshInv, Streaming, WholeBefore, TypeOK, Positions, server, options, link, history
  <1>1. CASE LogEvent \/ SetChecksum
    BY <1>1 DEF LogEvent, SetChecksum
  <1>2. CASE FirstConnect \/ Locate \/ AskChecksum \/ InitPacket
    BY <1>2 DEF FirstConnect, Locate, AskChecksum, InitPacket, NoStream, BufferInv, Normal
  <1>3. CASE ReqBinlog
    BY <1>3 DEF ReqBinlog, NoStream, BufferInv, Normal
  <1>4. CASE ReadEvent
    BY <1>4 DEF ReadEvent, Reading, Sends, Event
  <1>5. CASE ReadFormat
    BY <1>5 DEF ReadFormat, Reading, Format
  <1>6. CASE ReadHead
    BY <1>6 DEF ReadHead, Reading, Sends, NoEvent
  <1>7. CASE ReadRest
    BY <1>7 DEF ReadRest, Reading, NoEvent, StreamInv
  <1>8. CASE ReadFinal \/ ReadNothing \/ ReadTorn
    BY <1>8 DEF ReadFinal, ReadNothing, ReadTorn, Reading, NoStream, NoEvent
  <1>9. CASE Parse
    BY <1>9 DEF Parse, ParseNormal, ParseFormat, ParseGarbage, ParseFinal
  <1>10. CASE Reconnect \/ ReconnectFails
    BY <1>10 DEF Reconnect, ReconnectFails, NoStream
  <1>11. CASE UNCHANGED vars
    BY <1>11 DEF vars
  <1> QED
    BY <1>1, <1>2, <1>3, <1>4, <1>5, <1>6, <1>7, <1>8, <1>9, <1>10, <1>11
       DEF Next, ClientStep, Read

\* The server sends only what it has logged, and the log only grows.
LEMMA LoggedNext == TypeOK /\ LoggedInv /\ StreamInv /\ HandInv /\ [Next]_vars => LoggedInv'
  <1> SUFFICES ASSUME TypeOK, LoggedInv, StreamInv, HandInv, [Next]_vars
               PROVE  LoggedInv'
    OBVIOUS
  <1> USE DEF LoggedInv, InHand, TypeOK, Positions, server, options, link, history
  <1>1. CASE LogEvent \/ SetChecksum
    BY <1>1 DEF LogEvent, SetChecksum
  <1>2. CASE ReadEvent
    <2>1. next \in 1..logLen
      BY <1>2 DEF ReadEvent, Sends, Streaming, StreamInv
    <2> QED
      BY <1>2, <2>1 DEF ReadEvent, Reading, Event
  <1>3. CASE ReadFormat \/ ReadHead \/ ReadRest \/ ReadFinal \/ ReadTorn
    BY <1>3 DEF ReadFormat, ReadHead, ReadRest, ReadFinal, ReadTorn, Reading, Format, NoEvent
  <1>4. CASE ReadNothing
    BY <1>4 DEF ReadNothing, Reading, HandInv
  <1>5. CASE Parse
    BY <1>5 DEF Parse, ParseNormal, ParseFormat, ParseGarbage, ParseFinal
  <1>6. CASE FirstConnect \/ Locate \/ AskChecksum \/ InitPacket \/ ReqBinlog \/ Reconnect \/ ReconnectFails
    BY <1>6 DEF FirstConnect, Locate, AskChecksum, InitPacket, ReqBinlog, Reconnect, ReconnectFails
  <1>7. CASE UNCHANGED vars
    BY <1>7 DEF vars
  <1> QED
    BY <1>1, <1>2, <1>3, <1>4, <1>5, <1>6, <1>7 DEF Next, ClientStep, Read

\* What the server sends on a connection follows without a gap on what main asked for.
LEMMA StreamNext == TypeOK /\ StartInv /\ StreamInv /\ FreshInv /\ [Next]_vars => StreamInv'
  <1> SUFFICES ASSUME TypeOK, StartInv, StreamInv, FreshInv, [Next]_vars
               PROVE  StreamInv'
    OBVIOUS
  <1> USE DEF StreamInv, InHand, Streaming, TypeOK, Positions, server, options, link, history
  <1>1. CASE LogEvent \/ SetChecksum
    BY <1>1 DEF LogEvent, SetChecksum
  <1>2. CASE FirstConnect \/ Locate \/ AskChecksum \/ InitPacket
    BY <1>2 DEF FirstConnect, Locate, AskChecksum, InitPacket, StartInv, NoStream
  <1>3. CASE ReqBinlog
    BY <1>3 DEF ReqBinlog, NoStream
  <1>4. CASE ReadEvent
    BY <1>4 DEF ReadEvent, Reading, Sends, Event
  <1>5. CASE ReadFormat \/ ReadHead
    BY <1>5 DEF ReadFormat, ReadHead, Reading, Sends, Format, NoEvent
  <1>6. CASE ReadRest
    BY <1>6 DEF ReadRest, Reading, NoEvent, FreshInv
  <1>7. CASE ReadFinal \/ ReadNothing \/ ReadTorn
    BY <1>7 DEF ReadFinal, ReadNothing, ReadTorn, Reading, NoStream, NoEvent
  <1>8. CASE ParseNormal
    BY <1>8 DEF ParseNormal
  <1>9. CASE ParseFormat \/ ParseGarbage \/ ParseFinal
    BY <1>9 DEF ParseFormat, ParseGarbage, ParseFinal
  <1>10. CASE Reconnect \/ ReconnectFails
    BY <1>10 DEF Reconnect, ReconnectFails, NoStream
  <1>11. CASE UNCHANGED vars
    BY <1>11 DEF vars
  <1> QED
    BY <1>1, <1>2, <1>3, <1>4, <1>5, <1>6, <1>7, <1>8, <1>9, <1>10, <1>11
       DEF Next, ClientStep, Read, Parse

\* The event that is parsed next follows on the parsed ones, or is one of them.
LEMMA HandNext ==
    TypeOK /\ StreamInv /\ HandInv /\ BufferInv /\ NoGap /\ [Next]_vars => HandInv'
  <1> SUFFICES ASSUME TypeOK, StreamInv, HandInv, BufferInv, NoGap, [Next]_vars
               PROVE  HandInv'
    OBVIOUS
  <1> USE DEF HandInv, InHand, Streaming, TypeOK, Positions, Events, server, options, link, history
  <1>1. CASE LogEvent \/ SetChecksum
    BY <1>1 DEF LogEvent, SetChecksum
  <1>2. CASE FirstConnect \/ Locate \/ AskChecksum \/ InitPacket \/ ReqBinlog \/ Reconnect \/ ReconnectFails
    BY <1>2 DEF FirstConnect, Locate, AskChecksum, InitPacket, ReqBinlog, Reconnect, ReconnectFails,
                BufferInv, Normal
  <1>3. CASE ReadEvent
    BY <1>3 DEF ReadEvent, Reading, Sends, Event, StreamInv
  <1>4. CASE ReadNothing
    <2>1. buf' = buf /\ seen' = seen /\ base' = base /\ InHand = {} /\ ~Streaming'
      BY <1>4 DEF ReadNothing, Reading, NoStream
    <2>2. CASE buf.kind = "event"
      <3>1. buf.event \in seen
        BY <2>1, <2>2
      <3>2. buf.event \in Events /\ base \in Positions
        BY <3>1
      <3>3. base # 0 /\ base <= buf.event => (base..buf.event - 1) \ Large \subseteq seen
        BY <3>1, <3>2 DEF NoGap
      <3> QED
        BY <2>1, <3>1, <3>3
    <2> QED
      BY <2>1, <2>2
  <1>5. CASE ReadFormat \/ ReadHead \/ ReadRest \/ ReadFinal \/ ReadTorn
    BY <1>5 DEF ReadFormat, ReadHead, ReadRest, ReadFinal, ReadTorn, Reading, Format, NoEvent
  <1>6. CASE Parse
    BY <1>6 DEF Parse, ParseNormal, ParseFormat, ParseGarbage, ParseFinal
  <1>7. CASE UNCHANGED vars
    BY <1>7 DEF vars
  <1> QED
    BY <1>1, <1>2, <1>3, <1>4, <1>5, <1>6, <1>7 DEF Next, ClientStep, Read

\* Parsing the event in hand leaves no gap, and a new position lies behind
\* everything that was parsed.
LEMMA NoGapNext ==
    TypeOK /\ StartInv /\ LoggedInv /\ StreamInv /\ HandInv /\ NoGap /\ [Next]_vars => NoGap'
  <1> SUFFICES ASSUME TypeOK, StartInv, LoggedInv, StreamInv, HandInv, NoGap, [Next]_vars
               PROVE  NoGap'
    OBVIOUS
  <1> USE DEF NoGap, TypeOK, Positions, Events, server, options, link, history
  <1>1. CASE Locate
    BY <1>1 DEF Locate, StartInv
  <1>2. CASE ParseNormal
    <2>1. seen' = seen \cup {buf.event} /\ base' = base /\ InHand = {buf.event}
      BY <1>2 DEF ParseNormal, InHand
    <2>2. ASSUME NEW e \in seen', base # 0, base <= e
          PROVE  (base..e) \ Large \subseteq seen'
      BY <2>1, <2>2 DEF HandInv, LoggedInv
    <2> QED
      BY <2>1, <2>2
  <1>3. CASE Reconnect
    <2>1. seen' = seen /\ (base' = base \/ base' = logLen + 1)
      BY <1>3 DEF Reconnect, StreamInv
    <2>2. \A e \in seen : e <= logLen
      BY DEF LoggedInv
    <2> QED
      BY <2>1, <2>2
  <1>4. CASE LogEvent \/ SetChecksum \/ FirstConnect \/ AskChecksum \/ InitPacket \/ ReqBinlog \/ ReconnectFails
    BY <1>4 DEF LogEvent, SetChecksum, FirstConnect, AskChecksum, InitPacket, ReqBinlog, ReconnectFails
  <1>5. CASE Read
    BY <1>5 DEF Read, ReadEvent, ReadFormat, ReadHead, ReadRest, ReadFinal, ReadNothing, ReadTorn, Reading
  <1>6. CASE ParseFormat \/ ParseGarbage \/ ParseFinal
    BY <1>6 DEF ParseFormat, ParseGarbage, ParseFinal
  <1>7. CASE UNCHANGED vars
    BY <1>7 DEF vars
  <1> QED
    BY <1>1, <1>2, <1>3, <1>4, <1>5, <1>6, <1>7 DEF Next, ClientStep, Parse

\* alg_ follows the stream's Format events.
LEMMA SumNext ==
    TypeOK /\ StartInv /\ StreamInv /\ BufferInv /\ FreshInv /\ SumInv /\ [Next]_vars => SumInv'
  <1> SUFFICES ASSUME TypeOK, StartInv, StreamInv, BufferInv, FreshInv, SumInv, [Next]_vars
               PROVE  SumInv'
    OBVIOUS
  <1> USE DEF TypeOK, Positions, Packets, SumInv, FreshInv, Streaming, WholeBefore, Algs, server, options, link, history
  <1>1. CASE LogEvent \/ SetChecksum
    BY <1>1 DEF LogEvent, SetChecksum
  <1>2. CASE FirstConnect \/ Locate \/ AskChecksum \/ InitPacket
    BY <1>2 DEF FirstConnect, Locate, AskChecksum, InitPacket, NoStream, StartInv, BufferInv, Normal
  <1>3. CASE ReqBinlog
    BY <1>3 DEF ReqBinlog, NoStream, BufferInv, Normal
  <1>4. CASE ReadEvent
    <2>1. /\ buf'.kind = "event" /\ buf'.event = next /\ buf'.alg = told
          /\ told # "none" /\ ~fresh /\ conn = "stream" /\ conn' = conn
          /\ next \notin Large /\ next' = next + 1
          /\ UNCHANGED <<asked, enabled, alg, told, binlogPos>>
      BY <1>4 DEF ReadEvent, Reading, Sends, Event, FileAlg
    <2>2. WholeBefore(next + 1) <=> WholeBefore(next)
      BY <2>1
    <2>3. enabled /\ WholeBefore(next) => told = alg
      BY <2>1
    <2> QED
      BY <2>1, <2>2, <2>3
  <1>5. CASE ReadFormat
    BY <1>5 DEF ReadFormat, Reading, Format, ChecksumRefused
  <1>6. CASE ReadHead
    BY <1>6 DEF ReadHead, Reading, NoEvent
  <1>7. CASE ReadRest
    BY <1>7 DEF ReadRest, Reading, NoEvent, StreamInv
  <1>8. CASE ReadFinal
    BY <1>8 DEF ReadFinal, Reading, NoEvent
  <1>9. CASE ReadNothing \/ ReadTorn
    BY <1>9 DEF ReadNothing, ReadTorn, Reading, NoStream, NoEvent
  <1>10. CASE ParseNormal
    BY <1>10 DEF ParseNormal
  <1>11. CASE ParseFormat
    BY <1>11 DEF ParseFormat
  <1>12. CASE ParseGarbage
    BY <1>12 DEF ParseGarbage
  <1>13. CASE ParseFinal
    BY <1>13 DEF ParseFinal
  <1>14. CASE Reconnect \/ ReconnectFails
    BY <1>14 DEF Reconnect, ReconnectFails, NoStream, BufferInv, Normal
  <1>15. CASE UNCHANGED vars
    BY <1>15 DEF vars
  <1> QED
    BY <1>1, <1>2, <1>3, <1>4, <1>5, <1>6, <1>7, <1>8, <1>9, <1>10, <1>11, <1>12, <1>13, <1>14, <1>15
       DEF Next, ClientStep, Read, Parse

\* Every step of main's loop is one of EventReplay or changes nothing there.
LEMMA ReplayStep == SessionInv /\ [Next]_vars => [Replay!Next]_Replay!vars
  <1> SUFFICES ASSUME SessionInv, [Next]_vars
               PROVE  [Replay!Next]_Replay!vars
    OBVIOUS
  <1> USE DEF SessionInv, At, InHand, Streaming, TypeOK, Positions, Events,
              server, options, link, history
  <1>a. At' = base' /\ base' = base /\ seen' = seen => [Replay!Next]_Replay!vars
    BY DEF Replay!Next, Replay!Rewind, Replay!vars
  <1>b. At' = At /\ base' = base /\ seen' = seen => [Replay!Next]_Replay!vars
    BY DEF Replay!Next, Replay!vars
  <1>c. At' = base' /\ base' \in Positions /\ (\A e \in seen : e < base') /\ seen' = seen
            => [Replay!Next]_Replay!vars
    BY DEF Replay!Next, Replay!Move, Replay!vars
  <1>1. CASE LogEvent \/ SetChecksum
    BY <1>1, <1>b DEF LogEvent, SetChecksum
  <1>2. CASE FirstConnect \/ AskChecksum \/ InitPacket
    BY <1>2, <1>b DEF FirstConnect, AskChecksum, InitPacket, NoStream, StartInv
  <1>3. CASE Locate
    BY <1>3, <1>c DEF Locate, StartInv
  <1>4. CASE ReqBinlog
    BY <1>4, <1>a DEF ReqBinlog, NoStream, StreamInv
  <1>5. CASE ReadEvent
    BY <1>5, <1>b DEF ReadEvent, Reading, Sends, Event
  <1>6. CASE ReadFormat \/ ReadHead
    BY <1>6, <1>b DEF ReadFormat, ReadHead, Reading, Sends, Format, NoEvent
  <1>7. CASE ReadRest
    <2>1. At = next /\ next \in Large /\ At' = next + 1 /\ base' = base /\ seen' = seen
      BY <1>7 DEF ReadRest, Reading, NoEvent, FreshInv
    <2> QED
      BY <2>1 DEF Replay!Next, Replay!Pass, Replay!vars
  <1>8. CASE ReadFinal
    BY <1>8, <1>b DEF ReadFinal, Reading, NoEvent
  <1>9. CASE ReadNothing \/ ReadTorn
    BY <1>9, <1>a DEF ReadNothing, ReadTorn, Reading, NoStream
  <1>10. CASE ParseNormal
    <2>1. seen' = seen \cup {buf.event} /\ base' = base /\ InHand = {buf.event} /\ InHand' = {}
      BY <1>10 DEF ParseNormal
    <2>2. CASE Streaming
      <3>1. buf.event = next - 1 /\ buf.event \notin Large /\ next' = next /\ Streaming'
        BY <1>10, <2>1, <2>2 DEF ParseNormal, HandInv
      <3>2. At = buf.event /\ At' = At + 1
        BY <2>1, <2>2, <3>1
      <3>3. buf.event \in 1..logLen
        BY <2>1 DEF LoggedInv
      <3>4. At \in (1..MaxEvents) \ Large
        BY <3>1, <3>2, <3>3
      <3> QED
        BY <2>1, <3>2, <3>4 DEF Replay!Next, Replay!Apply, Replay!vars
    <2>3. CASE ~Streaming
      <3>1. seen' = seen /\ At' = At
        BY <1>10, <2>1, <2>3 DEF ParseNormal, HandInv
      <3> QED
        BY <2>1, <3>1, <1>b
    <2> QED
      BY <2>2, <2>3
  <1>11. CASE ParseFormat \/ ParseGarbage \/ ParseFinal
    BY <1>11, <1>b DEF ParseFormat, ParseGarbage, ParseFinal
  <1>12. CASE Reconnect
    <2>1. At' = base' /\ seen' = seen /\ (base' = base \/ base' = logLen + 1)
      BY <1>12 DEF Reconnect, NoStream, StreamInv
    <2>2. \A e \in seen : e < logLen + 1
      BY DEF LoggedInv
    <2> QED
      BY <2>1, <2>2, <1>a, <1>c
  <1>13. CASE ReconnectFails
    BY <1>13, <1>a DEF ReconnectFails, NoStream
  <1>14. CASE UNCHANGED vars
    BY <1>14, <1>b DEF vars
  <1> QED
    BY <1>1, <1>2, <1>3, <1>4, <1>5, <1>6, <1>7, <1>8, <1>9, <1>10, <1>11, <1>12, <1>13, <1>14
       DEF Next, ClientStep, Read, Parse

-----------------------------------------------------------------------------
(* The theorems.                                                           *)

\* SessionInv is an invariant of main's loop: through lost connections, torn
\* packets and repeated requests.
THEOREM SessionInductive == Spec => []SessionInv
  <1>1. Init => SessionInv
    <2> SUFFICES ASSUME Init
                 PROVE  SessionInv
      OBVIOUS
    <2>1. TypeOK
      BY TypeInit
    <2>2. StartInv /\ LoggedInv /\ StreamInv /\ HandInv /\ BufferInv /\ DropInv /\ NoGap
      BY DEF Init, NoEvent, Normal, Streaming, InHand, StartInv, LoggedInv, StreamInv, HandInv,
             BufferInv, DropInv, NoGap
    <2>3. FreshInv /\ SumInv
      BY DEF Init, NoEvent, Streaming, FreshInv, SumInv
    <2> QED
      BY <2>1, <2>2, <2>3 DEF SessionInv
  <1>2. SessionInv /\ [Next]_vars => SessionInv'
    BY TypeNext, StartNext, LoggedNext, StreamNext, HandNext, BufferNext, DropNext, FreshNext,
       SumNext, NoGapNext DEF SessionInv
  <1> QED
    BY <1>1, <1>2, PTL DEF Spec

\* main's variables keep their types.
THEOREM SessionTypeCorrect == Spec => []TypeOK
  <1>1. SessionInv => TypeOK
    BY DEF SessionInv
  <1> QED
    BY <1>1, SessionInductive, PTL

\* No event is skipped behind the position last read from the server.
THEOREM SessionNoGap == Spec => []NoGap
  <1>1. SessionInv => NoGap
    BY DEF SessionInv
  <1> QED
    BY <1>1, SessionInductive, PTL

\* An event behind the first position is passed over only after five
\* disconnections.
THEOREM SessionLossNeedsFiveDrops == Spec => []LossNeedsFiveDrops
  <1>1. SessionInv => LossNeedsFiveDrops
    BY DEF SessionInv, DropInv, NoGap, LossNeedsFiveDrops
  <1> QED
    BY <1>1, SessionInductive, PTL

\* No session starts with an event of an earlier one in body_buf_.
THEOREM SessionStartsClean == Spec => []SessionsStartClean
  <1>1. SessionInv => SessionsStartClean
    BY DEF SessionInv, BufferInv, SessionsStartClean
  <1> QED
    BY <1>1, SessionInductive, PTL

\* The four bytes of a checksum are taken off exactly the events that have them,
\* if main's two questions about them were not answered with yes and no.
THEOREM SessionStripsChecksums == Spec => []StripsChecksums
  <1>1. SessionInv => StripsChecksums
    BY DEF SessionInv, TypeOK, Packets, Algs, SumInv, StripsChecksums, Strips
  <1> QED
    BY <1>1, SessionInductive, PTL

\* main's loop with its connections, packets and buffers implements EventReplay.
THEOREM SessionImplementsReplay == Spec => ImplementsReplay
  <1>1. Init => Replay!Init
    BY DEF Init, Replay!Init, At, Streaming
  <1>2. SessionInv /\ [Next]_vars => [Replay!Next]_Replay!vars
    BY ReplayStep
  <1> QED
    BY <1>1, <1>2, SessionInductive, PTL DEF Spec, ImplementsReplay, Replay!Spec
=============================================================================
