--------------------------- MODULE EndpointProofs ---------------------------
(***************************************************************************)
(* Proofs about SessionEndpoint, for any options, any set of messages the  *)
(* peer may send and any bounds.                                           *)
(*                                                                         *)
(* One relation between a session before and after a call carries all of   *)
(* them: Follows.  It is reflexive and transitive, holds for the updates   *)
(* of the record and for write, and so for every function of the session   *)
(* that is composed of them.                                               *)
(***************************************************************************)
EXTENDS SessionEndpoint, TLAPS

(* An acceptor that is logged on or beats has processed a Logon.           *)
Vouched(x) ==
    x.behaviour = "acceptor" /\ (x.state = "logged_on" \/ x.heartbeatTimer) =>
        x.logonReceived

Follows(x, y) ==
    /\ y \in SessionRecord
    /\ y.behaviour = x.behaviour
    /\ x.logonReceived => y.logonReceived
    /\ Vouched(x) => Vouched(y)
    /\ ~x.writerOpen => y.out = x.out /\ ~y.writerOpen

(* A session that may be logged on.                                        *)
Known(x) == x.behaviour = "initiator" \/ x.logonReceived

LEMMA Reflexive ==
    ASSUME NEW x \in SessionRecord PROVE Follows(x, x)
BY DEF Follows

LEMMA Transitive ==
    ASSUME NEW x, NEW y, NEW z, Follows(x, y), Follows(y, z)
    PROVE  Follows(x, z)
BY DEF Follows

LEMMA StaysKnown ==
    ASSUME NEW x, NEW y, Follows(x, y), Known(x)
    PROVE  Known(y)
BY DEF Follows, Known

-----------------------------------------------------------------------------
(* Updates of the record.                                                  *)

LEMMA Typed ==
    ASSUME NEW x \in SessionRecord
    PROVE  /\ x.behaviour \in Behaviours /\ x.heartbeat \in Nat /\ x.delay \in Nat
           /\ x.nextTestReq \in Nat /\ x.incoming \in Nat /\ x.outgoing \in Nat
           /\ x.orphans \in Nat /\ x.posted \in Nat /\ x.out \in Seq(Message)
BY DEF SessionRecord

(* Nothing but the way into logged_on, the heartbeat and the writer        *)
(* matters, as long as no message is written.                              *)
LEMMA UpdateFollows ==
    ASSUME NEW x \in SessionRecord, NEW y \in SessionRecord,
           y.behaviour = x.behaviour, y.out = x.out, y.writerOpen = x.writerOpen,
           x.logonReceived => y.logonReceived,
           y.state = "logged_on" => x.state = "logged_on",
           y.heartbeatTimer => x.heartbeatTimer
    PROVE  Follows(x, y)
BY DEF Follows, Vouched

LEMMA StateFollows ==
    ASSUME NEW x \in SessionRecord, NEW st \in SessionStates, st # "logged_on"
    PROVE  Follows(x, [x EXCEPT !.state = st])
<1> DEFINE y == [x EXCEPT !.state = st]
<1>1. /\ y \in SessionRecord /\ y.behaviour = x.behaviour /\ y.out = x.out
      /\ y.writerOpen = x.writerOpen /\ y.logonReceived = x.logonReceived
      /\ y.state = st /\ y.heartbeatTimer = x.heartbeatTimer
  BY DEF SessionRecord
<1> HIDE DEF y
<1>2. Follows(x, y)
  BY <1>1, UpdateFollows
<1> QED
  BY <1>2 DEF y

LEMMA NumberFollows ==
    ASSUME NEW x \in SessionRecord, NEW n \in Nat
    PROVE  /\ Follows(x, [x EXCEPT !.incoming = n])
           /\ Follows(x, [x EXCEPT !.outgoing = n])
           /\ Follows(x, [x EXCEPT !.resent = n])
           /\ Follows(x, [x EXCEPT !.target = n])
<1>0. ASSUME NEW y \in SessionRecord, y.behaviour = x.behaviour, y.out = x.out,
             y.writerOpen = x.writerOpen, y.logonReceived = x.logonReceived,
             y.state = x.state, y.heartbeatTimer = x.heartbeatTimer
      PROVE  Follows(x, y)
  BY <1>0, UpdateFollows
<1>1. Follows(x, [x EXCEPT !.incoming = n])
  <2> DEFINE y == [x EXCEPT !.incoming = n]
  <2>1. /\ y \in SessionRecord /\ y.behaviour = x.behaviour /\ y.out = x.out
        /\ y.writerOpen = x.writerOpen /\ y.logonReceived = x.logonReceived
        /\ y.state = x.state /\ y.heartbeatTimer = x.heartbeatTimer
    BY DEF SessionRecord
  <2> HIDE DEF y
  <2>2. Follows(x, y)
    BY <1>0, <2>1
  <2> QED
    BY <2>2 DEF y
<1>2. Follows(x, [x EXCEPT !.outgoing = n])
  <2> DEFINE y == [x EXCEPT !.outgoing = n]
  <2>1. /\ y \in SessionRecord /\ y.behaviour = x.behaviour /\ y.out = x.out
        /\ y.writerOpen = x.writerOpen /\ y.logonReceived = x.logonReceived
        /\ y.state = x.state /\ y.heartbeatTimer = x.heartbeatTimer
    BY DEF SessionRecord
  <2> HIDE DEF y
  <2>2. Follows(x, y)
    BY <1>0, <2>1
  <2> QED
    BY <2>2 DEF y
<1>3. Follows(x, [x EXCEPT !.resent = n])
  <2> DEFINE y == [x EXCEPT !.resent = n]
  <2>1. /\ y \in SessionRecord /\ y.behaviour = x.behaviour /\ y.out = x.out
        /\ y.writerOpen = x.writerOpen /\ y.logonReceived = x.logonReceived
        /\ y.state = x.state /\ y.heartbeatTimer = x.heartbeatTimer
    BY DEF SessionRecord
  <2> HIDE DEF y
  <2>2. Follows(x, y)
    BY <1>0, <2>1
  <2> QED
    BY <2>2 DEF y
<1>4. Follows(x, [x EXCEPT !.target = n])
  <2> DEFINE y == [x EXCEPT !.target = n]
  <2>1. /\ y \in SessionRecord /\ y.behaviour = x.behaviour /\ y.out = x.out
        /\ y.writerOpen = x.writerOpen /\ y.logonReceived = x.logonReceived
        /\ y.state = x.state /\ y.heartbeatTimer = x.heartbeatTimer
    BY DEF SessionRecord
  <2> HIDE DEF y
  <2>2. Follows(x, y)
    BY <1>0, <2>1
  <2> QED
    BY <2>2 DEF y
<1> QED
  BY <1>1, <1>2, <1>3, <1>4

LEMMA TimerFollows ==
    ASSUME NEW x \in SessionRecord, NEW timer \in TestTimerStates,
           NEW m \in Nat, NEW n \in Nat
    PROVE  /\ Follows(x, [x EXCEPT !.testTimer = timer])
           /\ Follows(x, [x EXCEPT !.testTimer = timer, !.orphans = n])
           /\ Follows(x, [x EXCEPT !.testTimer = timer, !.posted = n])
           /\ Follows(x, [x EXCEPT !.orphans = m, !.posted = n])
           /\ Follows(x, [x EXCEPT !.posted = m, !.orphans = n, !.testTimer = timer])
<1>0. ASSUME NEW y \in SessionRecord, y.behaviour = x.behaviour, y.out = x.out,
             y.writerOpen = x.writerOpen, y.logonReceived = x.logonReceived,
             y.state = x.state, y.heartbeatTimer = x.heartbeatTimer
      PROVE  Follows(x, y)
  BY <1>0, UpdateFollows
<1>1. Follows(x, [x EXCEPT !.testTimer = timer])
  <2> DEFINE y == [x EXCEPT !.testTimer = timer]
  <2>1. /\ y \in SessionRecord /\ y.behaviour = x.behaviour /\ y.out = x.out
        /\ y.writerOpen = x.writerOpen /\ y.logonReceived = x.logonReceived
        /\ y.state = x.state /\ y.heartbeatTimer = x.heartbeatTimer
    BY DEF SessionRecord
  <2> HIDE DEF y
  <2>2. Follows(x, y)
    BY <1>0, <2>1
  <2> QED
    BY <2>2 DEF y
<1>2. Follows(x, [x EXCEPT !.testTimer = timer, !.orphans = n])
  <2> DEFINE y == [x EXCEPT !.testTimer = timer, !.orphans = n]
  <2>1. /\ y \in SessionRecord /\ y.behaviour = x.behaviour /\ y.out = x.out
        /\ y.writerOpen = x.writerOpen /\ y.logonReceived = x.logonReceived
        /\ y.state = x.state /\ y.heartbeatTimer = x.heartbeatTimer
    BY DEF SessionRecord
  <2> HIDE DEF y
  <2>2. Follows(x, y)
    BY <1>0, <2>1
  <2> QED
    BY <2>2 DEF y
<1>3. Follows(x, [x EXCEPT !.testTimer = timer, !.posted = n])
  <2> DEFINE y == [x EXCEPT !.testTimer = timer, !.posted = n]
  <2>1. /\ y \in SessionRecord /\ y.behaviour = x.behaviour /\ y.out = x.out
        /\ y.writerOpen = x.writerOpen /\ y.logonReceived = x.logonReceived
        /\ y.state = x.state /\ y.heartbeatTimer = x.heartbeatTimer
    BY DEF SessionRecord
  <2> HIDE DEF y
  <2>2. Follows(x, y)
    BY <1>0, <2>1
  <2> QED
    BY <2>2 DEF y
<1>4. Follows(x, [x EXCEPT !.orphans = m, !.posted = n])
  <2> DEFINE y == [x EXCEPT !.orphans = m, !.posted = n]
  <2>1. /\ y \in SessionRecord /\ y.behaviour = x.behaviour /\ y.out = x.out
        /\ y.writerOpen = x.writerOpen /\ y.logonReceived = x.logonReceived
        /\ y.state = x.state /\ y.heartbeatTimer = x.heartbeatTimer
    BY DEF SessionRecord
  <2> HIDE DEF y
  <2>2. Follows(x, y)
    BY <1>0, <2>1
  <2> QED
    BY <2>2 DEF y
<1>5. Follows(x, [x EXCEPT !.posted = m, !.orphans = n, !.testTimer = timer])
  <2> DEFINE y == [x EXCEPT !.posted = m, !.orphans = n, !.testTimer = timer]
  <2>1. /\ y \in SessionRecord /\ y.behaviour = x.behaviour /\ y.out = x.out
        /\ y.writerOpen = x.writerOpen /\ y.logonReceived = x.logonReceived
        /\ y.state = x.state /\ y.heartbeatTimer = x.heartbeatTimer
    BY DEF SessionRecord
  <2> HIDE DEF y
  <2>2. Follows(x, y)
    BY <1>0, <2>1
  <2> QED
    BY <2>2 DEF y
<1> QED
  BY <1>1, <1>2, <1>3, <1>4, <1>5

LEMMA DefibrillatorFollows ==
    ASSUME NEW x \in SessionRecord
    PROVE  /\ Follows(x, stop_defibrillator(x))
           /\ Known(x) => Follows(x, start_defibrillator(x))
<1>1. Follows(x, stop_defibrillator(x))
  <2> DEFINE y == stop_defibrillator(x)
  <2>1. /\ y \in SessionRecord /\ y.behaviour = x.behaviour /\ y.out = x.out
        /\ y.writerOpen = x.writerOpen /\ y.logonReceived = x.logonReceived
        /\ y.state = x.state /\ ~y.heartbeatTimer
    BY DEF SessionRecord, stop_defibrillator
  <2> HIDE DEF y
  <2>2. Follows(x, y)
    BY <2>1, UpdateFollows
  <2> QED
    BY <2>2 DEF y
<1>2. ASSUME Known(x) PROVE Follows(x, start_defibrillator(x))
  <2> DEFINE b == x.heartbeat # 0
             y == start_defibrillator(x)
  <2>1. b \in BOOLEAN /\ y = [x EXCEPT !.heartbeatTimer = b]
    BY DEF start_defibrillator
  <2> HIDE DEF b, y
  <2>2. /\ y \in SessionRecord /\ y.behaviour = x.behaviour /\ y.out = x.out
        /\ y.writerOpen = x.writerOpen /\ y.logonReceived = x.logonReceived
    BY <2>1 DEF SessionRecord
  <2>3. Follows(x, y)
    BY <1>2, <2>2 DEF Follows, Vouched, Known
  <2> QED
    BY <2>3 DEF y
<1> QED
  BY <1>1, <1>2

-----------------------------------------------------------------------------
(* The writer and the reader.                                              *)

LEMMA MessageTyped ==
    ASSUME NEW type \in MessageTypes, NEW n \in NumericField
    PROVE  /\ message(type) \in Message
           /\ [message(type) EXCEPT !.testReqID = n] \in Message
BY DEF message, Message, NumericField, Missing

LEMMA WriteFollows ==
    ASSUME NEW x \in SessionRecord, NEW m \in Message
    PROVE  Follows(x, write(x, m))
<1>1. CASE x.writerOpen
  <2> DEFINE out == Append(x.out, m)
             y == [x EXCEPT !.out = out]
  <2>1. out \in Seq(Message) /\ write(x, m) = y
    BY <1>1, Typed DEF write
  <2> HIDE DEF out
  <2>2. /\ y \in SessionRecord /\ y.behaviour = x.behaviour
        /\ y.logonReceived = x.logonReceived /\ y.state = x.state
        /\ y.heartbeatTimer = x.heartbeatTimer
    BY <2>1 DEF SessionRecord
  <2> HIDE DEF y
  <2> QED
    BY <1>1, <2>1, <2>2 DEF Follows, Vouched
<1>2. CASE ~x.writerOpen
  BY <1>2, Reflexive DEF write
<1> QED
  BY <1>1, <1>2

LEMMA CloseFollows ==
    ASSUME NEW x \in SessionRecord
    PROVE  Follows(x, close_reader(x)) /\ Follows(x, close(x))
<1>1. ASSUME NEW y \in SessionRecord PROVE Follows(y, close_reader(y))
  <2>1. CASE y.readerOpen
    <3> DEFINE z == [y EXCEPT !.readerOpen = FALSE, !.state = "disconnected"]
    <3>1. /\ z \in SessionRecord /\ z.behaviour = y.behaviour /\ z.out = y.out
          /\ z.writerOpen = y.writerOpen /\ z.logonReceived = y.logonReceived
          /\ z.state = "disconnected" /\ z.heartbeatTimer = y.heartbeatTimer
      BY DEF SessionRecord, SessionStates
    <3>2. close_reader(y) = z
      BY <2>1 DEF close_reader
    <3> HIDE DEF z
    <3> QED
      BY <3>1, <3>2, UpdateFollows
  <2> QED
    BY <2>1, Reflexive DEF close_reader
<1>2. ASSUME NEW y \in SessionRecord PROVE Follows(y, close_writer(y))
  <2>1. CASE y.writerOpen
    <3> DEFINE out == Append(y.out, message("Close"))
               z == [y EXCEPT !.writerOpen = FALSE, !.state = "disconnected", !.out = out]
    <3>1. "Close" \in MessageTypes /\ Missing \in NumericField
      BY DEF MessageTypes, NumericField
    <3>2. out \in Seq(Message)
      <4>1. message("Close") \in Message
        BY <3>1, MessageTyped
      <4> QED
        BY <4>1, Typed
    <3>3. close_writer(y) = z
      BY <2>1 DEF close_writer
    <3> HIDE DEF out
    <3>4. /\ z \in SessionRecord /\ z.behaviour = y.behaviour
          /\ z.logonReceived = y.logonReceived
          /\ z.state = "disconnected" /\ z.heartbeatTimer = y.heartbeatTimer
      BY <3>2 DEF SessionRecord, SessionStates
    <3> HIDE DEF z
    <3> QED
      BY <2>1, <3>3, <3>4 DEF Follows, Vouched
  <2> QED
    BY <2>1, Reflexive DEF close_writer
<1> DEFINE c == close_writer(close_reader(x))
<1>3. Follows(x, c) /\ c \in SessionRecord
  BY <1>1, <1>2, Transitive DEF Follows
<1>4. "disconnected" \in SessionStates /\ "disconnected" # "logged_on"
  BY DEF SessionStates
<1>5. Follows(c, close(x))
  <2>1. close(x) = [c EXCEPT !.state = "disconnected"]
    BY DEF close
  <2> HIDE DEF c
  <2> QED
    BY <1>3, <1>4, <2>1, StateFollows
<1> QED
  BY <1>1, <1>3, <1>5, Transitive

-----------------------------------------------------------------------------
(* Sending.                                                                *)

LEMMA SendFollows ==
    ASSUME NEW x \in SessionRecord, NEW m \in Message
    PROVE  Follows(x, send(x, m)) /\ Follows(x, send_unnumbered(x, m))
<1> DEFINE r == reset_for_logon(x, m)
           n == r.outgoing
           y == [r EXCEPT !.outgoing = n + 1]
           numbered == [m EXCEPT !.seq = n]
<1>1. Follows(x, r) /\ r \in SessionRecord
  <2> DEFINE z == [x EXCEPT !.state = "resetting", !.outgoing = 1, !.incoming = 1]
  <2>1. /\ z \in SessionRecord /\ z.behaviour = x.behaviour /\ z.out = x.out
        /\ z.writerOpen = x.writerOpen /\ z.logonReceived = x.logonReceived
        /\ z.state = "resetting" /\ z.heartbeatTimer = x.heartbeatTimer
    BY DEF SessionRecord, SessionStates
  <2>2. r \in {z, x}
    BY DEF reset_for_logon
  <2> HIDE DEF z, r
  <2>3. Follows(x, z)
    BY <2>1, UpdateFollows
  <2> QED
    BY <2>2, <2>3, Reflexive DEF Follows
<1>2. send(x, m) = write(y, numbered) /\ send_unnumbered(x, m) = write(r, m)
  BY DEF send, send_unnumbered
<1> HIDE DEF r
<1>3. n \in Nat /\ n + 1 \in Nat
  BY <1>1, Typed
<1>4. Follows(r, y) /\ y \in SessionRecord
  BY <1>1, <1>3, NumberFollows DEF Follows
<1>5. numbered \in Message
  BY <1>3 DEF Message
<1> HIDE DEF y, numbered
<1> QED
  BY <1>1, <1>2, <1>4, <1>5, WriteFollows, Transitive

LEMMA PlainSendFollows ==
    ASSUME NEW x \in SessionRecord, NEW type \in MessageTypes
    PROVE  Follows(x, send(x, message(type)))
<1>1. Missing \in NumericField
  BY DEF NumericField
<1> QED
  BY <1>1, SendFollows, MessageTyped

LEMMA RepliesFollow ==
    ASSUME NEW x \in SessionRecord
    PROVE  Follows(x, send_reject(x)) /\ Follows(x, send_logout(x))
<1>1. "Reject" \in MessageTypes /\ "Logout" \in MessageTypes
      /\ "connected" \in SessionStates /\ "connected" # "logged_on"
  BY DEF MessageTypes, AdminTypes, SessionStates
<1>2. Follows(x, send_reject(x))
  BY <1>1, PlainSendFollows DEF send_reject
<1> DEFINE sent == send(x, message("Logout"))
           stopped == stop_defibrillator(sent)
           y == [stopped EXCEPT !.state = "connected"]
<1>3. Follows(x, sent) /\ sent \in SessionRecord
  BY <1>1, PlainSendFollows DEF Follows
<1>4. send_logout(x) \in {close(sent), close(y)}
  BY DEF send_logout
<1> HIDE DEF sent
<1>5. Follows(sent, stopped) /\ stopped \in SessionRecord
  BY <1>3, DefibrillatorFollows DEF Follows
<1> HIDE DEF stopped
<1>6. Follows(stopped, y) /\ y \in SessionRecord
  BY <1>1, <1>5, StateFollows DEF Follows
<1> HIDE DEF y
<1>7. Follows(x, y)
  BY <1>3, <1>5, <1>6, Transitive
<1>8. Follows(x, close(sent)) /\ Follows(x, close(y))
  BY <1>3, <1>6, <1>7, CloseFollows, Transitive
<1> QED
  BY <1>2, <1>4, <1>8

LEMMA LogonFollows ==
    ASSUME NEW x \in SessionRecord, NEW flag \in BOOLEAN
    PROVE  Follows(x, send_logon(x, flag)) /\ Follows(x, acceptor_send_logon(x, flag))
<1> DEFINE next == IF x.useNext THEN x.incoming ELSE Missing
           m == [message("Logon") EXCEPT !.heartBtInt = x.heartbeat,
                                         !.resetSeqNum = flag, !.nextExpected = next]
<1>1. next \in NumericField /\ x.heartbeat \in NumericField
  BY Typed DEF NumericField
<1>2. send_logon(x, flag) = send(x, m)
  BY DEF send_logon
<1> HIDE DEF next
<1>3. message("Logon") \in Message
  <2>1. "Logon" \in MessageTypes /\ Missing \in NumericField
    BY DEF MessageTypes, AdminTypes, NumericField
  <2> QED
    BY <2>1, MessageTyped
<1>4. m \in Message
  BY <1>1, <1>3 DEF Message
<1> HIDE DEF m
<1>5. Follows(x, send_logon(x, flag))
  BY <1>2, <1>4, SendFollows
<1> QED
  BY <1>5, Reflexive DEF acceptor_send_logon

LEMMA TestRequestFollows ==
    ASSUME NEW x \in SessionRecord
    PROVE  Follows(x, send_test_request(x)) /\ Follows(x, send_post_logon_test_request(x))
<1> DEFINE n == x.nextTestReq
           y == [x EXCEPT !.expectedTestReq = n, !.nextTestReq = n + 1]
           m == [message("TestRequest") EXCEPT !.testReqID = n]
<1>1. n \in Nat /\ n + 1 \in Nat /\ n \in NumericField
  BY Typed DEF NumericField
<1>2. send_test_request(x) = send(y, m)
  BY DEF send_test_request
<1>3. m \in Message
  <2>1. "TestRequest" \in MessageTypes
    BY DEF MessageTypes, AdminTypes
  <2> QED
    BY <1>1, <2>1, MessageTyped
<1> HIDE DEF n
<1>4. /\ y \in SessionRecord /\ y.behaviour = x.behaviour /\ y.out = x.out
      /\ y.writerOpen = x.writerOpen /\ y.logonReceived = x.logonReceived
      /\ y.state = x.state /\ y.heartbeatTimer = x.heartbeatTimer
  BY <1>1 DEF SessionRecord
<1> HIDE DEF y, m
<1>5. Follows(x, send_test_request(x))
  BY <1>2, <1>3, <1>4, UpdateFollows, SendFollows, Transitive
<1> DEFINE k == IF x.testTimer = "armed" THEN x.orphans + 1 ELSE x.orphans
           z == [x EXCEPT !.testTimer = "armed", !.orphans = k]
<1>6. k \in Nat /\ "armed" \in TestTimerStates
  BY Typed DEF TestTimerStates
<1>7. send_post_logon_test_request(x) \in {send_test_request(x), z}
  BY DEF send_post_logon_test_request
<1> HIDE DEF k
<1>8. Follows(x, z)
  BY <1>6, TimerFollows
<1> QED
  BY <1>5, <1>7, <1>8

LEMMA ResendFollows ==
    ASSUME NEW x \in SessionRecord, NEW begin \in Nat
    PROVE  Follows(x, perform_resend(x, begin))
<1> DEFINE n == x.outgoing
           m == [message("SequenceReset") EXCEPT !.seq = begin, !.gapFill = TRUE,
                                                 !.possDup = TRUE, !.newSeqNo = n]
<1>1. perform_resend(x, begin) = send_unnumbered(x, m)
  BY DEF perform_resend, send_gap_fill
<1>2. n \in NumericField
  BY Typed DEF NumericField
<1>3. message("SequenceReset") \in Message
  <2>1. "SequenceReset" \in MessageTypes /\ Missing \in NumericField
    BY DEF MessageTypes, AdminTypes, NumericField
  <2> QED
    BY <2>1, MessageTyped
<1> HIDE DEF n
<1>4. m \in Message
  BY <1>2, <1>3 DEF Message
<1> HIDE DEF m
<1> QED
  BY <1>1, <1>4, SendFollows

LEMMA HighFollows ==
    ASSUME NEW x \in SessionRecord, NEW m \in Message
    PROVE  Follows(x, on_high_sequence_number(x, m))
<1> DEFINE n == m.seq
           i == x.incoming
           y == [x EXCEPT !.state = "resending", !.resent = i, !.target = n]
           r == [message("ResendRequest") EXCEPT !.beginSeqNo = i, !.endSeqNo = n]
           z == [x EXCEPT !.target = n]
<1>1. n \in Nat /\ i \in Nat /\ n \in NumericField /\ i \in NumericField
  BY Typed DEF Message, NumericField
<1>2. on_high_sequence_number(x, m) \in {send(y, r), z, x}
  BY DEF on_high_sequence_number, request_resend
<1>3. message("ResendRequest") \in Message
  <2>1. "ResendRequest" \in MessageTypes /\ Missing \in NumericField
    BY DEF MessageTypes, AdminTypes, NumericField
  <2> QED
    BY <2>1, MessageTyped
<1> HIDE DEF n, i
<1>4. r \in Message
  BY <1>1, <1>3 DEF Message
<1>5. /\ y \in SessionRecord /\ y.behaviour = x.behaviour /\ y.out = x.out
      /\ y.writerOpen = x.writerOpen /\ y.logonReceived = x.logonReceived
      /\ y.state = "resending" /\ y.heartbeatTimer = x.heartbeatTimer
  BY <1>1 DEF SessionRecord, SessionStates
<1>6. Follows(x, z)
  BY <1>1, NumberFollows
<1> HIDE DEF y, r, z
<1>7. Follows(x, send(y, r))
  BY <1>4, <1>5, UpdateFollows, SendFollows, Transitive
<1> QED
  BY <1>2, <1>6, <1>7, Reflexive

LEMMA AcceptedFollows ==
    ASSUME NEW x \in SessionRecord, NEW m \in Message
    PROVE  Follows(x, Accepted(x, m))
<1>1. m.seq + 1 \in Nat
  BY DEF Message
<1> QED
  BY <1>1, NumberFollows DEF Accepted

-----------------------------------------------------------------------------
(* Logon.                                                                  *)

LEMMA NextExpectedFollows ==
    ASSUME NEW x \in SessionRecord, NEW m \in Message
    PROVE  Follows(x, process_next_expected_logon(x, m))
<1> DEFINE y == [x EXCEPT !.state = "resending"]
           r == IF m.nextExpected + 1 < x.outgoing
                THEN perform_resend(y, m.nextExpected) ELSE x
           a == acceptor_send_logon(r, FALSE)
           t == send_post_logon_test_request(a)
<1>1. CASE m.nextExpected < 0 \/ m.nextExpected > x.outgoing
  BY <1>1, RepliesFollow DEF process_next_expected_logon
<1>2. CASE ~(m.nextExpected < 0 \/ m.nextExpected > x.outgoing)
  <2>1. m.nextExpected \in Nat
    BY <1>2 DEF Message, NumericField, Missing, NotANumber
  <2>2. Follows(x, y) /\ y \in SessionRecord
    <3>1. "resending" \in SessionStates /\ "resending" # "logged_on"
      BY DEF SessionStates
    <3> QED
      BY <3>1, StateFollows DEF Follows
  <2>3. process_next_expected_logon(x, m) = Accepted(t, m)
    BY <1>2 DEF process_next_expected_logon
  <2> HIDE DEF y
  <2>4. Follows(x, r) /\ r \in SessionRecord
    <3>1. Follows(x, perform_resend(y, m.nextExpected))
      BY <2>1, <2>2, ResendFollows, Transitive
    <3> QED
      BY <3>1, Reflexive DEF Follows
  <2> HIDE DEF r
  <2>5. Follows(x, a) /\ a \in SessionRecord
    BY <2>4, LogonFollows, Transitive DEF Follows
  <2> HIDE DEF a
  <2>6. Follows(x, t) /\ t \in SessionRecord
    BY <2>5, TestRequestFollows, Transitive DEF Follows
  <2> HIDE DEF t
  <2> QED
    BY <2>3, <2>6, AcceptedFollows, Transitive
<1> QED
  BY <1>1, <1>2

LEMMA ResetLogonFollows ==
    ASSUME NEW x \in SessionRecord, NEW m \in Message
    PROVE  Follows(x, process_reset_logon(x, m))
<1> DEFINE d == stop_defibrillator(x)
           y == reset(x)
           l == send_logon(y, TRUE)
           t == send_post_logon_test_request(l)
           u == send_test_request(x)
<1>1. process_reset_logon(x, m) \in {x, Accepted(u, m), Accepted(t, m)}
  BY DEF process_reset_logon
<1>2. Follows(x, d) /\ d \in SessionRecord
  BY DefibrillatorFollows DEF Follows
<1>3. y = [d EXCEPT !.state = "resetting", !.outgoing = 1, !.incoming = 1]
  BY DEF reset
<1>4. Follows(x, u) /\ u \in SessionRecord
  BY TestRequestFollows DEF Follows
<1> HIDE DEF d, u, y
<1>5. /\ y \in SessionRecord /\ y.behaviour = d.behaviour /\ y.out = d.out
      /\ y.writerOpen = d.writerOpen /\ y.logonReceived = d.logonReceived
      /\ y.state = "resetting" /\ y.heartbeatTimer = d.heartbeatTimer
  BY <1>2, <1>3 DEF SessionRecord, SessionStates
<1>6. Follows(x, y)
  BY <1>2, <1>5, UpdateFollows, Transitive
<1>7. Follows(x, l) /\ l \in SessionRecord
  BY <1>5, <1>6, LogonFollows, Transitive DEF Follows
<1> HIDE DEF l
<1>8. Follows(x, t) /\ t \in SessionRecord
  BY <1>7, TestRequestFollows, Transitive DEF Follows
<1> HIDE DEF t
<1>9. Follows(x, Accepted(u, m)) /\ Follows(x, Accepted(t, m))
  BY <1>4, <1>8, AcceptedFollows, Transitive
<1> QED
  BY <1>1, <1>9, Reflexive

LEMMA NumberedLogonFollows ==
    ASSUME NEW x \in SessionRecord, NEW m \in Message
    PROVE  Follows(x, process_numbered_logon(x, m))
<1> DEFINE a == acceptor_send_logon(x, FALSE)
           t == send_post_logon_test_request(a)
<1>1. process_numbered_logon(x, m) \in {send_logout(x), on_high_sequence_number(a, m),
                                        Accepted(t, m)}
  BY DEF process_numbered_logon, on_low_sequence_number
<1>2. Follows(x, a) /\ a \in SessionRecord
  BY LogonFollows DEF Follows
<1> HIDE DEF a
<1>3. Follows(x, t) /\ t \in SessionRecord
  BY <1>2, TestRequestFollows, Transitive DEF Follows
<1> HIDE DEF t
<1>4. Follows(x, on_high_sequence_number(a, m)) /\ Follows(x, Accepted(t, m))
  BY <1>2, <1>3, HighFollows, AcceptedFollows, Transitive
<1> QED
  BY <1>1, <1>4, RepliesFollow

LEMMA ProcessLogonFollows ==
    ASSUME NEW x \in SessionRecord, NEW m \in Message
    PROVE  Follows(x, process_logon(x, m))
<1> DEFINE h == m.heartBtInt
           y == [x EXCEPT !.heartbeat = h, !.logonReceived = TRUE]
           j == send_reject(x)
<1>1. Follows(x, j) /\ j \in SessionRecord
  BY RepliesFollow DEF Follows
<1>2. CASE h < 0
  <2>1. ~(h >= 0)
    BY <1>2 DEF Message, NumericField, Missing, NotANumber
  <2>2. process_logon(x, m) = send_logout(j)
    BY <1>2, <2>1 DEF process_logon
  <2> HIDE DEF j
  <2> QED
    BY <1>1, <2>2, RepliesFollow, Transitive
<1>3. CASE ~(h < 0)
  <2>1. h \in Nat
    BY <1>3 DEF Message, NumericField, Missing, NotANumber
  <2>2. process_logon(x, m) \in {process_next_expected_logon(y, m),
                                 process_reset_logon(y, m), process_numbered_logon(y, m)}
    BY <2>1 DEF process_logon
  <2> HIDE DEF h
  <2>3. /\ y \in SessionRecord /\ y.behaviour = x.behaviour /\ y.out = x.out
        /\ y.writerOpen = x.writerOpen /\ y.logonReceived
        /\ y.state = x.state /\ y.heartbeatTimer = x.heartbeatTimer
    BY <2>1 DEF SessionRecord
  <2> HIDE DEF y
  <2>4. Follows(x, y)
    BY <2>3, UpdateFollows
  <2> QED
    BY <2>2, <2>3, <2>4, NextExpectedFollows, ResetLogonFollows, NumberedLogonFollows,
       Transitive
<1> QED
  BY <1>2, <1>3

-----------------------------------------------------------------------------
(* The other messages: only for a session that has seen a Logon.           *)

LEMMA CompleteFollows ==
    ASSUME NEW x \in SessionRecord, Known(x)
    PROVE  Follows(x, complete_resend(x))
<1> DEFINE t == send_test_request(x)
<1>1. complete_resend(x) \in {start_defibrillator(t), x}
  BY DEF complete_resend
<1>2. Follows(x, t) /\ t \in SessionRecord
  BY TestRequestFollows DEF Follows
<1>3. Known(t)
  BY <1>2, StaysKnown
<1> HIDE DEF t
<1> QED
  BY <1>1, <1>2, <1>3, DefibrillatorFollows, Reflexive, Transitive

LEMMA SequenceResetFollows ==
    ASSUME NEW x \in SessionRecord, NEW m \in Message, Known(x)
    PROVE  Follows(x, process_sequence_reset(x, m))
<1> DEFINE n == m.newSeqNo
           y == [x EXCEPT !.resent = n]
           z == [x EXCEPT !.resent = n, !.incoming = n]
<1>1. \/ process_sequence_reset(x, m) \in {send_reject(x), send_logout(x),
                                           on_high_sequence_number(x, m)}
      \/ /\ n > x.incoming
         /\ process_sequence_reset(x, m) \in {complete_resend(y), complete_resend(z)}
  BY Typed DEF process_sequence_reset, process_gap_fill, on_low_sequence_number,
     Message, NumericField, Missing, NotANumber
<1>2. CASE process_sequence_reset(x, m) \in {send_reject(x), send_logout(x),
                                             on_high_sequence_number(x, m)}
  BY <1>2, RepliesFollow, HighFollows
<1>3. CASE /\ n > x.incoming
           /\ process_sequence_reset(x, m) \in {complete_resend(y), complete_resend(z)}
  <2>1. n \in Nat
    BY <1>3, Typed DEF Message, NumericField, Missing, NotANumber
  <2> HIDE DEF n
  <2>2. Follows(x, y) /\ y \in SessionRecord
    BY <2>1, NumberFollows DEF Follows
  <2>3. /\ z \in SessionRecord /\ z.behaviour = x.behaviour /\ z.out = x.out
        /\ z.writerOpen = x.writerOpen /\ z.logonReceived = x.logonReceived
        /\ z.state = x.state /\ z.heartbeatTimer = x.heartbeatTimer
    BY <2>1 DEF SessionRecord
  <2> HIDE DEF y, z
  <2>4. Follows(x, z)
    BY <2>3, UpdateFollows
  <2>5. Known(y) /\ Known(z)
    BY <2>2, <2>4, StaysKnown
  <2> QED
    BY <1>3, <2>2, <2>3, <2>4, <2>5, CompleteFollows, Transitive
<1> QED
  BY <1>1, <1>2, <1>3

LEMMA HeartbeatFollows ==
    ASSUME NEW x \in SessionRecord, NEW m \in Message, Known(x)
    PROVE  Follows(x, process_heartbeat(x, m))
<1> DEFINE y == [x EXCEPT !.state = "logged_on"]
<1>1. process_heartbeat(x, m) \in {x, close(x), start_defibrillator(y)}
  BY DEF process_heartbeat
<1>2. /\ y \in SessionRecord /\ y.behaviour = x.behaviour /\ y.out = x.out
      /\ y.writerOpen = x.writerOpen /\ y.logonReceived = x.logonReceived
  BY DEF SessionRecord, SessionStates
<1> HIDE DEF y
<1>3. Follows(x, y)
  BY <1>2 DEF Follows, Vouched, Known
<1>4. Known(y)
  BY <1>3, StaysKnown
<1> QED
  BY <1>1, <1>2, <1>3, <1>4, DefibrillatorFollows, CloseFollows, Reflexive, Transitive

LEMMA ResendRequestFollows ==
    ASSUME NEW x \in SessionRecord, NEW m \in Message
    PROVE  Follows(x, process_resend_request(x, m))
<1> DEFINE y == stop_test_request_timer(x)
           b == m.beginSeqNo
           r == perform_resend(y, b)
<1>1. Follows(x, y) /\ y \in SessionRecord
  <2>1. "none" \in TestTimerStates /\ 0 \in Nat
    BY DEF TestTimerStates
  <2> QED
    BY <2>1, TimerFollows DEF stop_test_request_timer, Follows
<1>2. \/ process_resend_request(x, m) \in {send_reject(y), y}
      \/ b \in Nat /\ process_resend_request(x, m) = send_post_logon_test_request(r)
  BY DEF process_resend_request, Message, NumericField
<1> HIDE DEF y, b
<1>3. b \in Nat => Follows(x, r) /\ r \in SessionRecord
  BY <1>1, ResendFollows, Transitive DEF Follows
<1> HIDE DEF r
<1> QED
  BY <1>1, <1>2, <1>3, RepliesFollow, TestRequestFollows, Transitive

LEMMA DispatchFollows ==
    ASSUME NEW x \in SessionRecord, NEW m \in Message,
           m.type = "Heartbeat" => Known(x)
    PROVE  Follows(x, dispatch(x, m))
<1>1. Follows(x, process_test_request(x, m))
  <2> DEFINE r == [message("Heartbeat") EXCEPT !.testReqID = m.testReqID]
  <2>1. process_test_request(x, m) \in {send_reject(x), send(x, r)}
    BY DEF process_test_request
  <2>2. r \in Message
    <3>1. "Heartbeat" \in MessageTypes /\ m.testReqID \in NumericField
      BY DEF MessageTypes, AdminTypes, Message
    <3> QED
      BY <3>1, MessageTyped
  <2> HIDE DEF r
  <2> QED
    BY <2>1, <2>2, RepliesFollow, SendFollows
<1>2. \/ m.type = "Heartbeat" /\ dispatch(x, m) = process_heartbeat(x, m)
      \/ dispatch(x, m) \in {process_test_request(x, m), process_resend_request(x, m),
                             close(x), x}
  BY DEF dispatch, process_logout
<1> QED
  BY <1>1, <1>2, HeartbeatFollows, ResendRequestFollows, CloseFollows, Reflexive

LEMMA NumberedFollows ==
    ASSUME NEW x \in SessionRecord, NEW m \in Message,
           m.type = "Heartbeat" => Known(x)
    PROVE  Follows(x, process_numbered(x, m))
<1> DEFINE y == Accepted(x, m)
<1>1. process_numbered(x, m) \in {on_high_sequence_number(x, m), send_logout(x),
                                  dispatch(y, m)}
  BY DEF process_numbered, on_low_sequence_number
<1>2. Follows(x, y) /\ y \in SessionRecord
  BY AcceptedFollows DEF Follows
<1>3. m.type = "Heartbeat" => Known(y)
  BY <1>2, StaysKnown
<1> HIDE DEF y
<1>4. Follows(x, dispatch(y, m))
  BY <1>2, <1>3, DispatchFollows, Transitive
<1> QED
  BY <1>1, <1>4, HighFollows, RepliesFollow

(* session::on_message_read, whatever the peer sent.                       *)
LEMMA MessageFollows ==
    ASSUME NEW x \in SessionRecord, NEW m \in Message
    PROVE  Follows(x, on_message_read(x, m))
<1> DEFINE j == send_reject(x)
<1>1. Follows(x, j) /\ j \in SessionRecord
  BY RepliesFollow DEF Follows
<1>2. \/ on_message_read(x, m) \in {close(j), send_logout(j), x, process_logon(x, m)}
      \/ /\ FirstMessageIsValid(x, m)
         /\ \/ m.type = "SequenceReset" /\ on_message_read(x, m) = process_sequence_reset(x, m)
            \/ on_message_read(x, m) = process_numbered(x, m)
  BY DEF on_message_read
<1>3. FirstMessageIsValid(x, m) /\ m.type \in {"SequenceReset", "Heartbeat"} => Known(x)
  BY DEF FirstMessageIsValid, Known
<1> HIDE DEF j
<1>4. Follows(x, close(j)) /\ Follows(x, send_logout(j))
  BY <1>1, CloseFollows, RepliesFollow, Transitive
<1> QED
  BY <1>2, <1>3, <1>4, ProcessLogonFollows, SequenceResetFollows, NumberedFollows, Reflexive

-----------------------------------------------------------------------------
(* The application's calls and the timers.                                 *)

LEMMA OpenFollows ==
    ASSUME NEW x \in SessionRecord
    PROVE  Follows(x, open(x))
<1> DEFINE r == [x EXCEPT !.readerOpen = TRUE]
           l == [r EXCEPT !.state = "logging_on"]
<1>1. /\ r \in SessionRecord /\ r.behaviour = x.behaviour /\ r.out = x.out
      /\ r.writerOpen = x.writerOpen /\ r.logonReceived = x.logonReceived
      /\ r.state = x.state /\ r.heartbeatTimer = x.heartbeatTimer
  BY DEF SessionRecord
<1>2. open(x) \in {send_logon(l, FALSE), l, r}
  BY DEF open, logon
<1> HIDE DEF r
<1>3. Follows(x, r)
  BY <1>1, UpdateFollows
<1>4. Follows(x, l) /\ l \in SessionRecord
  <2>1. "logging_on" \in SessionStates /\ "logging_on" # "logged_on"
    BY DEF SessionStates
  <2> QED
    BY <1>1, <1>3, <2>1, StateFollows, Transitive DEF Follows
<1> HIDE DEF l
<1>5. Follows(x, send_logon(l, FALSE))
  BY <1>4, LogonFollows, Transitive
<1> QED
  BY <1>2, <1>3, <1>4, <1>5

LEMMA CallbackFollows ==
    ASSUME NEW x \in SessionRecord
    PROVE  /\ Follows(x, defibrillate(x))
           /\ Follows(x, expire_test_timer(x))
           /\ x.orphans > 0 => Follows(x, expire_orphan_timer(x))
           /\ x.posted > 0 => Follows(x, test_request_callback(x))
<1> DEFINE k == IF x.testTimer = "armed" THEN x.orphans + 1 ELSE x.orphans
           p == x.posted - 1
           y == [x EXCEPT !.posted = p, !.orphans = k, !.testTimer = "none"]
<1>1. /\ x.orphans \in Nat /\ x.posted \in Nat /\ x.posted + 1 \in Nat /\ k \in Nat
      /\ x.orphans > 0 => x.orphans - 1 \in Nat
      /\ x.posted > 0 => p \in Nat
      /\ 0 \in Nat
  BY Typed
<1>2. "none" \in TestTimerStates /\ "expired" \in TestTimerStates
  BY DEF TestTimerStates
<1>3. Follows(x, defibrillate(x))
  <2>1. "Heartbeat" \in MessageTypes
    BY DEF MessageTypes, AdminTypes
  <2> QED
    BY <2>1, PlainSendFollows, Reflexive DEF defibrillate
<1>4. Follows(x, expire_test_timer(x))
  BY <1>1, <1>2, TimerFollows DEF expire_test_timer
<1>5. x.orphans > 0 => Follows(x, expire_orphan_timer(x))
  BY <1>1, <1>2, TimerFollows DEF expire_orphan_timer
<1>6. ASSUME x.posted > 0 PROVE Follows(x, test_request_callback(x))
  <2>1. test_request_callback(x) = send_test_request(y)
    BY DEF test_request_callback
  <2>2. p \in Nat /\ k \in Nat
    BY <1>1, <1>6
  <2> HIDE DEF p, k
  <2>3. Follows(x, y)
    BY <1>2, <2>2, TimerFollows
  <2> HIDE DEF y
  <2>4. y \in SessionRecord
    BY <2>3 DEF Follows
  <2> QED
    BY <2>1, <2>3, <2>4, TestRequestFollows, Transitive
<1> QED
  BY <1>3, <1>4, <1>5, <1>6

-----------------------------------------------------------------------------
(* The steps of the endpoint.                                              *)

LEMMA ReadTyped ==
    ASSUME s \in SessionRecord
    PROVE  /\ Read \in SessionRecord /\ Read.out = <<>>
           /\ Read.behaviour = s.behaviour /\ Read.logonReceived = s.logonReceived
           /\ Read.state = s.state /\ Read.heartbeatTimer = s.heartbeatTimer
           /\ Read.writerOpen = s.writerOpen /\ Read.orphans = s.orphans
           /\ Read.posted = s.posted
<1>1. <<>> \in Seq(Message)
  OBVIOUS
<1> QED
  BY <1>1 DEF Read, SessionRecord

LEMMA Steps ==
    ASSUME TypeOK, Next
    PROVE  Follows(Read, s') /\ threw' \in BOOLEAN
<1>1. Read \in SessionRecord /\ Read.orphans = s.orphans /\ Read.posted = s.posted
  BY ReadTyped DEF TypeOK
<1>2. threw \in BOOLEAN
  BY DEF TypeOK
<1>3. CASE Open
  BY <1>1, <1>2, <1>3, OpenFollows DEF Open
<1>4. CASE Close
  BY <1>1, <1>2, <1>4, CloseFollows DEF Close
<1>5. CASE SendApplicationMessage
  <2>1. "App" \in MessageTypes
    BY DEF MessageTypes
  <2> QED
    BY <1>1, <1>2, <1>5, <2>1, PlainSendFollows DEF SendApplicationMessage
<1>6. CASE SendResetLogon
  <2> DEFINE m == [message("Logon") EXCEPT !.heartBtInt = Heartbeat, !.resetSeqNum = TRUE]
  <2>1. m \in Message
    BY EndpointAssumption DEF message, Message, MessageTypes, AdminTypes, NumericField
  <2>2. s' = send(Read, m) /\ threw' = threw
    BY <1>6 DEF SendResetLogon
  <2> HIDE DEF m
  <2> QED
    BY <1>1, <1>2, <2>1, <2>2, SendFollows
<1>7. ASSUME NEW m \in Inputs, Deliver(m) PROVE Follows(Read, s') /\ threw' \in BOOLEAN
  <2>1. m \in Message
    BY EndpointAssumption
  <2>2. s' = on_message_read(Read, m) /\ threw' = Throws(s, m)
    BY <1>7 DEF Deliver
  <2>3. Throws(s, m) \in BOOLEAN
    BY Zenon DEF Throws
  <2> QED
    BY <1>1, <2>1, <2>2, <2>3, MessageFollows
<1>8. CASE PeerCloses
  BY <1>1, <1>2, <1>8, CloseFollows DEF PeerCloses
<1>9. CASE HeartbeatTimer
  BY <1>1, <1>2, <1>9, CallbackFollows DEF HeartbeatTimer
<1>10. CASE TestTimerExpires
  BY <1>1, <1>2, <1>10, CallbackFollows DEF TestTimerExpires
<1>11. CASE OrphanTimerExpires
  BY <1>1, <1>2, <1>11, CallbackFollows DEF OrphanTimerExpires
<1>12. CASE TestRequestCallback
  BY <1>1, <1>2, <1>12, CallbackFollows DEF TestRequestCallback
<1> QED
  BY <1>3, <1>4, <1>5, <1>6, <1>7, <1>8, <1>9, <1>10, <1>11, <1>12 DEF Next

LEMMA Initial == Init => TypeOK /\ Vouched(s)
<1> SUFFICES ASSUME Init PROVE TypeOK /\ Vouched(s)
  OBVIOUS
<1>1. PICK o \in Options : s = session(o.behaviour, Heartbeat, o.delay, o.useNext, 1, 1)
  BY DEF Init
<1>2. /\ o.behaviour \in Behaviours /\ o.delay \in Nat /\ o.useNext \in BOOLEAN
      /\ Heartbeat \in Nat /\ <<>> \in Seq(Message)
  BY EndpointAssumption
<1>3. s \in SessionRecord /\ s.state = "connected" /\ ~s.heartbeatTimer
  BY <1>1, <1>2 DEF session, SessionRecord, SessionStates, NumericField, Missing,
     TestTimerStates
<1> QED
  BY <1>3 DEF TypeOK, Vouched, Init

(* Whatever the peer sends, the record of the session stays well typed.    *)
THEOREM EndpointTypeCorrect == Spec => []TypeOK
<1>1. TypeOK /\ [Next]_vars => TypeOK'
  BY Steps DEF TypeOK, Follows, vars
<1> QED
  BY <1>1, Initial, PTL DEF Spec

(* An acceptor is logged on, or sends heartbeats, only after it has        *)
(* processed a Logon: no sequence of other messages, of any numbers, gets  *)
(* past validate_first_message.                                            *)
THEOREM AcceptorWaitsForLogon == Spec => []AcceptorNeedsLogon
<1>1. TypeOK /\ Vouched(s) /\ [Next]_vars => Vouched(s)'
  <2> SUFFICES ASSUME TypeOK, Vouched(s), [Next]_vars PROVE Vouched(s)'
    OBVIOUS
  <2>1. CASE Next
    <3>1. Vouched(Read)
      BY ReadTyped DEF TypeOK, Vouched
    <3>2. Vouched(s')
      BY <2>1, <3>1, Steps DEF Follows
    <3> QED
      BY <3>2 DEF Vouched
  <2>2. CASE UNCHANGED vars
    BY <2>2 DEF vars, Vouched
  <2> QED
    BY <2>1, <2>2
<1>2. Vouched(s) => AcceptorNeedsLogon
  BY DEF Vouched, AcceptorNeedsLogon
<1> QED
  BY <1>1, <1>2, Initial, EndpointTypeCorrect, PTL DEF Spec

-----------------------------------------------------------------------------
(* The numbers of a session.  Counts(x, y): what y has written continues   *)
(* the numbers of what x has written.  Leaves(x, y): y also expects the    *)
(* same number as x; Keeps(x, y): and its writer has not been closed.      *)
(* Closes(x, y): if y's writer is closed y has ended, and the end of the   *)
(* stream is all that comes after a Logout.                                *)

Counts(x, y) ==
    \A n \in Nat : Consecutive(n, x.out, x.outgoing) => Consecutive(n, y.out, y.outgoing)

Logoutless(w) == \A i \in DOMAIN w : w[i].type # "Logout"

LogoutLast(w) ==
    \A i \in DOMAIN w :
        w[i].type = "Logout" => i + 1 = Len(w) /\ w[i + 1].type = "Close"

Closes(x, y) ==
    Logoutless(x.out) => IF y.writerOpen THEN Logoutless(y.out)
                                         ELSE Ended(y) /\ LogoutLast(y.out)

Writes(x, y) == Counts(x, y) /\ Closes(x, y)

Leaves(x, y) ==
    /\ y.incoming = x.incoming /\ y.useNext = x.useNext
    /\ x.writerOpen => Writes(x, y)

Keeps(x, y) == Leaves(x, y) /\ y.writerOpen = x.writerOpen

LEMMA KeepsCompose ==
    ASSUME NEW x, NEW y, NEW z, Keeps(x, y)
    PROVE  /\ Keeps(x, x)
           /\ Leaves(y, z) => Leaves(x, z)
           /\ Keeps(y, z) => Keeps(x, z)
BY DEF Keeps, Leaves, Writes, Counts, Closes

(* Updates that leave numbers, writer and stream alone.                    *)
LEMMA SameKeeps ==
    ASSUME NEW x, NEW y, y.incoming = x.incoming, y.useNext = x.useNext,
           y.writerOpen = x.writerOpen, y.out = x.out, y.outgoing = x.outgoing
    PROVE  Keeps(x, y)
BY DEF Keeps, Leaves, Writes, Counts, Closes

(* What is appended to a stream with no Logout in it.                      *)
LEMMA AppendLogout ==
    ASSUME NEW w \in Seq(Message), Logoutless(w), NEW m \in Message,
           NEW c \in Message, c.type = "Close"
    PROVE  /\ m.type # "Logout" => Logoutless(Append(w, m))
           /\ LogoutLast(Append(w, c)) /\ LogoutLast(Append(Append(w, m), c))
<1>1. ASSUME m.type # "Logout" PROVE Logoutless(Append(w, m))
  BY <1>1 DEF Logoutless
<1>2. LogoutLast(Append(w, c))
  BY DEF Logoutless, LogoutLast
<1>3. LogoutLast(Append(Append(w, m), c))
  <2> DEFINE v == Append(Append(w, m), c)
             l == Len(w)
  <2>1. /\ Len(v) = l + 2 /\ l \in Nat /\ v[l + 1] = m /\ v[l + 2] = c
        /\ DOMAIN v = 1..(l + 2) /\ DOMAIN w = 1..l /\ \A i \in 1..l : v[i] = w[i]
    OBVIOUS
  <2> HIDE DEF v, l
  <2>2. \A i \in DOMAIN v : i \in 1..l \/ i = l + 1 \/ i = l + 2
    BY <2>1
  <2>3. LogoutLast(v)
    BY <2>1, <2>2 DEF Logoutless, LogoutLast
  <2> QED
    BY <2>3 DEF v
<1> QED
  BY <1>1, <1>2, <1>3

(* A message is appended to a stream.                                      *)
LEMMA AppendCounts ==
    ASSUME NEW first \in Nat, NEW w \in Seq(Message), NEW next \in Nat, NEW m \in Message,
           Consecutive(first, w, next)
    PROVE  /\ ~Numbered(m) => Consecutive(first, Append(w, m), next)
           /\ Numbered(m) /\ ~ResetLogon(m) /\ m.seq = next =>
                 Consecutive(first, Append(w, m), next + 1)
           /\ Numbered(m) /\ ResetLogon(m) /\ m.seq = 1 =>
                 Consecutive(first, Append(w, m), 2)
<1> DEFINE v == Append(w, m)
           l == Len(w)
<1>1. /\ Len(v) = l + 1 /\ l \in Nat /\ v[l + 1] = m
      /\ \A i \in 1..l : v[i] = w[i]
  OBVIOUS
<1> HIDE DEF v, l
<1>2. ASSUME NEW n, NEW i \in 0..l
      PROVE  ComesAfter(n, first, w, i) <=> ComesAfter(n, first, v, i)
  <2>1. \A j \in 1..i : v[j] = w[j] /\ \A k \in (j + 1)..i : v[k] = w[k]
    BY <1>1
  <2> QED
    BY <2>1 DEF ComesAfter
<1>3. ASSUME NEW i \in 1..l, Numbered(v[i])
      PROVE  IF ResetLogon(v[i]) THEN v[i].seq = 1
                                 ELSE ComesAfter(v[i].seq, first, v, i - 1)
  <2>1. v[i] = w[i] /\ i - 1 \in 0..l
    BY <1>1
  <2>2. IF ResetLogon(w[i]) THEN w[i].seq = 1
                            ELSE ComesAfter(w[i].seq, first, w, i - 1)
    BY <1>3, <2>1 DEF Consecutive, l
  <2> QED
    BY <1>2, <2>1, <2>2
<1>4. ComesAfter(next, first, v, l)
  <2>1. ComesAfter(next, first, w, l) /\ l \in 0..l
    BY <1>1 DEF Consecutive, l
  <2> QED
    BY <1>2, <2>1
<1>5. \A i \in 1..(l + 1) : i \in 1..l \/ i = l + 1
  BY <1>1
<1>6. ASSUME ~Numbered(m) PROVE Consecutive(first, v, next)
  <2>1. ComesAfter(next, first, v, l + 1)
    <3>1. CASE next = first /\ \A j \in 1..l : ~Numbered(v[j])
      BY <1>1, <1>5, <1>6, <3>1 DEF ComesAfter
    <3>2. ASSUME NEW j \in 1..l, Numbered(v[j]), next = v[j].seq + 1,
                 \A k \in (j + 1)..l : ~Numbered(v[k])
          PROVE  ComesAfter(next, first, v, l + 1)
      <4>1. j \in 1..(l + 1) /\ \A k \in (j + 1)..(l + 1) : k \in (j + 1)..l \/ k = l + 1
        BY <1>1
      <4>2. \A k \in (j + 1)..(l + 1) : ~Numbered(v[k])
        BY <1>1, <1>6, <3>2, <4>1
      <4> QED
        BY <3>2, <4>1, <4>2 DEF ComesAfter
    <3> QED
      BY <1>4, <3>1, <3>2 DEF ComesAfter
  <2> QED
    BY <1>1, <1>3, <1>5, <1>6, <2>1 DEF Consecutive
<1>7. ASSUME Numbered(m), NEW n, n = m.seq + 1,
             IF ResetLogon(m) THEN m.seq = 1 ELSE m.seq = next
      PROVE  Consecutive(first, v, n)
  <2>1. l + 1 \in 1..(l + 1) /\ (l + 1 + 1)..(l + 1) = {} /\ (l + 1) - 1 = l
    BY <1>1
  <2>2. ComesAfter(n, first, v, l + 1)
    BY <1>1, <1>7, <2>1 DEF ComesAfter
  <2> QED
    BY <1>1, <1>3, <1>4, <1>5, <1>7, <2>1, <2>2 DEF Consecutive
<1> QED
  BY <1>6, <1>7 DEF v

(* Writing.                                                                *)
LEMMA WriteCounts ==
    ASSUME NEW x \in SessionRecord, NEW m \in Message, NEW k \in Nat, x.writerOpen,
           NEW n \in Nat, Consecutive(n, x.out, k)
    PROVE  /\ ~Numbered(m) => Consecutive(n, write(x, m).out, k)
           /\ Numbered(m) /\ ~ResetLogon(m) /\ m.seq = k =>
                 Consecutive(n, write(x, m).out, k + 1)
           /\ Numbered(m) /\ ResetLogon(m) /\ m.seq = 1 =>
                 Consecutive(n, write(x, m).out, 2)
<1>1. write(x, m).out = Append(x.out, m) /\ x.out \in Seq(Message)
  BY DEF write, SessionRecord
<1> QED
  BY <1>1, AppendCounts

(* All that write changes.                                                 *)
LEMMA WriteLeaves ==
    ASSUME NEW x \in SessionRecord, NEW m \in Message
    PROVE  /\ write(x, m).incoming = x.incoming /\ write(x, m).useNext = x.useNext
           /\ write(x, m).outgoing = x.outgoing /\ write(x, m).writerOpen = x.writerOpen
BY DEF write, SessionRecord

LEMMA SendCounts ==
    ASSUME NEW x \in SessionRecord, NEW m \in Message, Numbered(m), ~ResetLogon(m)
    PROVE  /\ send(x, m).incoming = x.incoming /\ send(x, m).useNext = x.useNext
           /\ send(x, m).writerOpen = x.writerOpen
           /\ x.writerOpen => /\ Counts(x, send(x, m))
                              /\ \E v \in Message : /\ v.type = m.type
                                                     /\ send(x, m).out = Append(x.out, v)
<1> DEFINE n == x.outgoing
           y == [x EXCEPT !.outgoing = n + 1]
           numbered == [m EXCEPT !.seq = n]
<1>1. n \in Nat /\ n + 1 \in Nat
  BY Typed
<1>2. send(x, m) = write(y, numbered)
  BY DEF send, reset_for_logon, ResetLogon
<1> HIDE DEF n
<1>3. /\ y \in SessionRecord /\ y.outgoing = n + 1 /\ y.incoming = x.incoming
      /\ y.useNext = x.useNext /\ y.writerOpen = x.writerOpen /\ y.out = x.out
  BY <1>1 DEF SessionRecord
<1>4. /\ numbered \in Message /\ Numbered(numbered) /\ ~ResetLogon(numbered)
      /\ numbered.seq = n /\ numbered.type = m.type
  BY <1>1 DEF Message, Numbered, ResetLogon
<1> HIDE DEF y, numbered
<1>5. /\ send(x, m).incoming = x.incoming /\ send(x, m).useNext = x.useNext
      /\ send(x, m).outgoing = n + 1 /\ send(x, m).writerOpen = x.writerOpen
  BY <1>2, <1>3, <1>4, WriteLeaves
<1>6. ASSUME x.writerOpen, NEW k \in Nat, Consecutive(k, x.out, x.outgoing)
      PROVE  Consecutive(k, send(x, m).out, send(x, m).outgoing)
  BY <1>1, <1>2, <1>3, <1>4, <1>5, <1>6, WriteCounts DEF n
<1>7. x.writerOpen => send(x, m).out = Append(x.out, numbered)
  BY <1>2, <1>3 DEF write, SessionRecord
<1> QED
  BY <1>4, <1>5, <1>6, <1>7 DEF Counts

LEMMA CloseMessage == message("Close") \in Message /\ message("Close").type = "Close"
<1>1. "Close" \in MessageTypes
  BY DEF MessageTypes
<1> QED
  BY <1>1, MessageTyped DEF NumericField, message

LEMMA SendKeeps ==
    ASSUME NEW x \in SessionRecord, NEW m \in Message, Numbered(m), ~ResetLogon(m),
           m.type # "Logout"
    PROVE  Keeps(x, send(x, m))
<1> DEFINE y == send(x, m)
<1>1. /\ y.incoming = x.incoming /\ y.useNext = x.useNext /\ y.writerOpen = x.writerOpen
      /\ x.writerOpen => Counts(x, y)
  BY SendCounts
<1>2. ASSUME x.writerOpen, Logoutless(x.out) PROVE Logoutless(y.out)
  <2>1. PICK v \in Message : v.type = m.type /\ y.out = Append(x.out, v)
    BY <1>2, SendCounts
  <2> HIDE DEF y
  <2> QED
    BY <1>2, <2>1, Typed, AppendLogout, CloseMessage
<1> HIDE DEF y
<1>3. Keeps(x, y)
  BY <1>1, <1>2 DEF Keeps, Leaves, Writes, Closes
<1> QED
  BY <1>3 DEF y

(* A Logon that resets: both numbers begin again, whatever the session was *)
(* about to give.                                                          *)
LEMMA SendResets ==
    ASSUME NEW x \in SessionRecord, NEW m \in Message, ResetLogon(m)
    PROVE  /\ send(x, m).incoming = 1 /\ send(x, m).useNext = x.useNext
           /\ send(x, m).writerOpen = x.writerOpen
           /\ \A k \in Nat, last \in Nat : x.writerOpen /\ Consecutive(k, x.out, last) =>
                 Consecutive(k, send(x, m).out, send(x, m).outgoing)
           /\ x.writerOpen => Closes(x, send(x, m))
<1> DEFINE r == [x EXCEPT !.state = "resetting", !.outgoing = 1, !.incoming = 1]
           n == r.outgoing
           k == n + 1
           y == [r EXCEPT !.outgoing = k]
           numbered == [m EXCEPT !.seq = n]
<1>1. send(x, m) = write(y, numbered)
  BY DEF send, reset_for_logon, ResetLogon
<1>2. /\ r \in SessionRecord /\ r.incoming = 1 /\ n = 1 /\ k = 2
      /\ r.useNext = x.useNext /\ r.writerOpen = x.writerOpen /\ r.out = x.out
  <2>1. /\ r \in SessionRecord /\ r.incoming = 1 /\ n = 1
        /\ r.useNext = x.useNext /\ r.writerOpen = x.writerOpen /\ r.out = x.out
    BY DEF SessionRecord, SessionStates
  <2> HIDE DEF n
  <2> QED
    BY <2>1
<1> HIDE DEF r, n, k
<1>3. /\ y \in SessionRecord /\ y.outgoing = 2 /\ y.incoming = 1
      /\ y.useNext = x.useNext /\ y.writerOpen = x.writerOpen /\ y.out = x.out
  BY <1>2 DEF SessionRecord
<1>4. /\ numbered \in Message /\ Numbered(numbered) /\ ResetLogon(numbered)
      /\ numbered.seq = 1 /\ numbered.type # "Logout"
  BY <1>2 DEF Message, Numbered, ResetLogon
<1> HIDE DEF y, numbered
<1>5. /\ send(x, m).incoming = 1 /\ send(x, m).useNext = x.useNext
      /\ send(x, m).outgoing = 2 /\ send(x, m).writerOpen = x.writerOpen
  BY <1>1, <1>3, <1>4, WriteLeaves
<1>6. ASSUME x.writerOpen, NEW first \in Nat, NEW last \in Nat, Consecutive(first, x.out, last)
      PROVE  Consecutive(first, send(x, m).out, send(x, m).outgoing)
  BY <1>1, <1>3, <1>4, <1>5, <1>6, WriteCounts
<1>7. x.writerOpen => send(x, m).out = Append(x.out, numbered)
  BY <1>1, <1>3 DEF write, SessionRecord
<1>8. x.writerOpen => Closes(x, send(x, m))
  BY <1>4, <1>5, <1>7, Typed, AppendLogout, CloseMessage DEF Closes
<1> QED
  BY <1>5, <1>6, <1>8

LEMMA UnnumberedKeeps ==
    ASSUME NEW x \in SessionRecord, NEW m \in Message, ~Numbered(m)
    PROVE  Keeps(x, send_unnumbered(x, m)) /\ Keeps(x, write(x, m))
<1>1. send_unnumbered(x, m) = write(x, m)
  BY DEF send_unnumbered, reset_for_logon, Numbered
<1>2. ASSUME x.writerOpen, NEW k \in Nat, Consecutive(k, x.out, x.outgoing)
      PROVE  Consecutive(k, write(x, m).out, x.outgoing)
  BY <1>2, Typed, WriteCounts
<1>3. x.writerOpen => write(x, m).out = Append(x.out, m)
  BY DEF write, SessionRecord
<1>4. ASSUME x.writerOpen, Logoutless(x.out) PROVE Logoutless(write(x, m).out)
  BY <1>3, <1>4, Typed, AppendLogout, CloseMessage DEF Numbered
<1> QED
  BY <1>1, <1>2, <1>4, WriteLeaves DEF Keeps, Leaves, Writes, Counts, Closes

LEMMA PlainSendKeeps ==
    ASSUME NEW x \in SessionRecord, NEW type \in MessageTypes,
           type \notin {"SequenceReset", "Close", "Logout"}
    PROVE  Keeps(x, send(x, message(type)))
<1>1. message(type) \in Message
  BY MessageTyped DEF NumericField
<1>2. /\ Numbered(message(type)) /\ ~ResetLogon(message(type))
      /\ message(type).type # "Logout"
  BY DEF message, Numbered, ResetLogon
<1> QED
  BY <1>1, <1>2, SendKeeps

(* All that close changes.                                                 *)
LEMMA CloseEnds ==
    ASSUME NEW x \in SessionRecord
    PROVE  /\ Leaves(x, close_reader(x))
           /\ close(x).incoming = x.incoming /\ close(x).useNext = x.useNext
           /\ ~close(x).writerOpen /\ Ended(close(x))
           /\ x.writerOpen => /\ Counts(x, close(x))
                              /\ close(x).out = Append(x.out, message("Close"))
<1> DEFINE r == close_reader(x)
           w == close_writer(r)
           c == message("Close")
<1>1. /\ r \in SessionRecord /\ r.incoming = x.incoming /\ r.useNext = x.useNext
      /\ r.writerOpen = x.writerOpen /\ r.out = x.out /\ r.outgoing = x.outgoing
      /\ ~r.readerOpen
  BY DEF close_reader, SessionRecord, SessionStates
<1>2. c \in Message /\ ~Numbered(c)
  <2>1. "Close" \in MessageTypes
    BY DEF MessageTypes
  <2> QED
    BY <2>1, MessageTyped DEF NumericField, message, Numbered
<1>3. close(x) = [w EXCEPT !.state = "disconnected"]
  BY DEF close
<1> HIDE DEF r, c
<1>4. /\ w.incoming = r.incoming /\ w.useNext = r.useNext /\ w.outgoing = r.outgoing
      /\ w.out = IF r.writerOpen THEN Append(r.out, c) ELSE r.out
      /\ DOMAIN w = DOMAIN r /\ ~w.writerOpen /\ w.readerOpen = r.readerOpen
  BY <1>1 DEF close_writer, SessionRecord, c
<1> HIDE DEF w
<1>5. /\ close(x).incoming = x.incoming /\ close(x).useNext = x.useNext
      /\ close(x).outgoing = x.outgoing
      /\ close(x).out = IF x.writerOpen THEN Append(x.out, c) ELSE x.out
      /\ ~close(x).writerOpen /\ close(x).state = "disconnected"
      /\ ~close(x).readerOpen
  BY <1>1, <1>3, <1>4 DEF SessionRecord
<1>6. x.writerOpen => Counts(x, close(x))
  BY <1>2, <1>5, Typed, AppendCounts DEF Counts
<1>7. Leaves(x, r)
  BY <1>1, SameKeeps DEF Keeps
<1> QED
  BY <1>5, <1>6, <1>7 DEF Ended, r, c

LEMMA CloseLeaves ==
    ASSUME NEW x \in SessionRecord
    PROVE  Leaves(x, close_reader(x)) /\ Leaves(x, close(x))
<1> DEFINE y == close(x)
<1>1. /\ Leaves(x, close_reader(x))
      /\ y.incoming = x.incoming /\ y.useNext = x.useNext /\ ~y.writerOpen /\ Ended(y)
      /\ x.writerOpen => Counts(x, y) /\ y.out = Append(x.out, message("Close"))
  BY CloseEnds
<1> HIDE DEF y
<1>2. ASSUME x.writerOpen, Logoutless(x.out) PROVE LogoutLast(y.out)
  BY <1>1, <1>2, Typed, AppendLogout, CloseMessage
<1>3. Leaves(x, y)
  BY <1>1, <1>2 DEF Leaves, Writes, Closes
<1> QED
  BY <1>1, <1>3 DEF y

LEMMA RepliesKeep ==
    ASSUME NEW x \in SessionRecord
    PROVE  Keeps(x, send_reject(x)) /\ Leaves(x, send_logout(x))
<1>1. "Reject" \in MessageTypes /\ "Logout" \in MessageTypes
  BY DEF MessageTypes, AdminTypes
<1>2. Keeps(x, send_reject(x))
  BY <1>1, PlainSendKeeps DEF send_reject
<1> DEFINE l == message("Logout")
           sent == send(x, l)
           y == [stop_defibrillator(sent) EXCEPT !.state = "connected"]
<1>3. l \in Message /\ Numbered(l) /\ ~ResetLogon(l)
  <2>1. l \in Message
    BY <1>1, MessageTyped DEF NumericField
  <2> QED
    BY <2>1 DEF message, Numbered, ResetLogon
<1>4. /\ sent.incoming = x.incoming /\ sent.useNext = x.useNext
      /\ sent.writerOpen = x.writerOpen
      /\ x.writerOpen => /\ Counts(x, sent)
                         /\ \E v \in Message : sent.out = Append(x.out, v)
      /\ sent \in SessionRecord
  <2>1. sent \in SessionRecord
    BY <1>1, PlainSendFollows DEF Follows
  <2> HIDE DEF l
  <2> QED
    BY <1>3, <2>1, SendCounts
<1>5. send_logout(x) \in {close(sent), close(y)}
  BY DEF send_logout
<1> HIDE DEF sent, l
<1>6. /\ y \in SessionRecord /\ y.incoming = sent.incoming /\ y.useNext = sent.useNext
      /\ y.writerOpen = sent.writerOpen /\ y.out = sent.out /\ y.outgoing = sent.outgoing
  BY <1>4 DEF stop_defibrillator, SessionRecord, SessionStates
<1> HIDE DEF y
<1>7. ASSUME NEW z \in SessionRecord, z.incoming = sent.incoming, z.useNext = sent.useNext,
             z.writerOpen = sent.writerOpen, z.out = sent.out, z.outgoing = sent.outgoing
      PROVE  Leaves(x, close(z))
  <2> DEFINE c == close(z)
  <2>1. /\ c.incoming = z.incoming /\ c.useNext = z.useNext
        /\ ~c.writerOpen /\ Ended(c)
        /\ z.writerOpen => Counts(z, c) /\ c.out = Append(z.out, message("Close"))
    BY <1>7, CloseEnds
  <2> HIDE DEF c
  <2>2. x.writerOpen => Counts(x, c)
    BY <1>4, <1>7, <2>1 DEF Counts
  <2>3. ASSUME x.writerOpen, Logoutless(x.out) PROVE LogoutLast(c.out)
    <3>1. PICK v \in Message : sent.out = Append(x.out, v)
      BY <1>4, <2>3
    <3>2. c.out = Append(Append(x.out, v), message("Close"))
      BY <1>4, <1>7, <2>1, <2>3, <3>1
    <3> QED
      BY <2>3, <3>2, Typed, AppendLogout, CloseMessage
  <2>4. Leaves(x, c)
    BY <1>4, <1>7, <2>1, <2>2, <2>3 DEF Leaves, Writes, Closes
  <2> QED
    BY <2>4 DEF c
<1>8. Leaves(x, close(sent)) /\ Leaves(x, close(y))
  BY <1>4, <1>6, <1>7
<1> QED
  BY <1>2, <1>5, <1>8

(* The Logon a session sends, with and without ResetSeqNumFlag.            *)
LEMMA LogonTyped ==
    ASSUME NEW x \in SessionRecord, NEW flag \in BOOLEAN
    PROVE  \E m \in Message : /\ m.type = "Logon" /\ m.resetSeqNum = flag
                              /\ send_logon(x, flag) = send(x, m)
<1> DEFINE next == IF x.useNext THEN x.incoming ELSE Missing
           m == [message("Logon") EXCEPT !.heartBtInt = x.heartbeat,
                                         !.resetSeqNum = flag, !.nextExpected = next]
<1>1. next \in NumericField /\ x.heartbeat \in NumericField
  BY Typed DEF NumericField
<1>2. send_logon(x, flag) = send(x, m)
  BY DEF send_logon
<1> HIDE DEF next
<1>3. m \in Message /\ m.type = "Logon" /\ m.resetSeqNum = flag
  BY <1>1 DEF message, Message, MessageTypes, AdminTypes, NumericField
<1> HIDE DEF m
<1> QED
  BY <1>2, <1>3

LEMMA LogonKeeps ==
    ASSUME NEW x \in SessionRecord
    PROVE  Keeps(x, send_logon(x, FALSE)) /\ Keeps(x, acceptor_send_logon(x, FALSE))
<1>1. PICK m \in Message : /\ m.type = "Logon" /\ m.resetSeqNum = FALSE
                           /\ send_logon(x, FALSE) = send(x, m)
  BY LogonTyped
<1>2. Keeps(x, send_logon(x, FALSE))
  BY <1>1, SendKeeps DEF Numbered, ResetLogon
<1>3. Keeps(x, x)
  BY SameKeeps
<1> QED
  BY <1>2, <1>3 DEF acceptor_send_logon

LEMMA TestRequestKeeps ==
    ASSUME NEW x \in SessionRecord
    PROVE  Keeps(x, send_test_request(x)) /\ Keeps(x, send_post_logon_test_request(x))
<1> DEFINE n == x.nextTestReq
           y == [x EXCEPT !.expectedTestReq = n, !.nextTestReq = n + 1]
           m == [message("TestRequest") EXCEPT !.testReqID = n]
           k == IF x.testTimer = "armed" THEN x.orphans + 1 ELSE x.orphans
           z == [x EXCEPT !.testTimer = "armed", !.orphans = k]
<1>1. n \in Nat /\ n + 1 \in Nat /\ n \in NumericField
  BY Typed DEF NumericField
<1>2. send_test_request(x) = send(y, m)
  BY DEF send_test_request
<1>3. send_post_logon_test_request(x) \in {send_test_request(x), z}
  BY DEF send_post_logon_test_request
<1> HIDE DEF n, k
<1>4. m \in Message /\ Numbered(m) /\ ~ResetLogon(m) /\ m.type # "Logout"
  <2>1. "TestRequest" \in MessageTypes
    BY DEF MessageTypes, AdminTypes
  <2>2. m \in Message
    BY <1>1, <2>1, MessageTyped
  <2> QED
    BY <2>2 DEF message, Numbered, ResetLogon
<1>5. /\ y \in SessionRecord /\ y.incoming = x.incoming /\ y.useNext = x.useNext
      /\ y.writerOpen = x.writerOpen /\ y.out = x.out /\ y.outgoing = x.outgoing
  BY <1>1 DEF SessionRecord
<1>6. Keeps(x, z)
  <2>1. /\ z.incoming = x.incoming /\ z.useNext = x.useNext
        /\ z.writerOpen = x.writerOpen /\ z.out = x.out /\ z.outgoing = x.outgoing
    BY DEF SessionRecord
  <2> HIDE DEF z
  <2> QED
    BY <2>1, SameKeeps
<1> HIDE DEF y, m, z
<1>7. Keeps(x, send_test_request(x))
  BY <1>2, <1>4, <1>5, SameKeeps, SendKeeps, KeepsCompose
<1> QED
  BY <1>3, <1>6, <1>7

(* A gap fill takes no number.                                             *)
LEMMA ResendKeeps ==
    ASSUME NEW x \in SessionRecord, NEW begin \in Nat
    PROVE  Keeps(x, perform_resend(x, begin))
<1> DEFINE n == x.outgoing
           m == [message("SequenceReset") EXCEPT !.seq = begin, !.gapFill = TRUE,
                                                 !.possDup = TRUE, !.newSeqNo = n]
<1>1. perform_resend(x, begin) = send_unnumbered(x, m)
  BY DEF perform_resend, send_gap_fill
<1>2. n \in NumericField
  BY Typed DEF NumericField
<1> HIDE DEF n
<1>3. m \in Message /\ ~Numbered(m)
  BY <1>2 DEF message, Message, MessageTypes, AdminTypes, NumericField, Numbered
<1> HIDE DEF m
<1> QED
  BY <1>1, <1>3, UnnumberedKeeps

LEMMA HighKeeps ==
    ASSUME NEW x \in SessionRecord, NEW m \in Message
    PROVE  Keeps(x, on_high_sequence_number(x, m))
<1> DEFINE n == m.seq
           i == x.incoming
           y == [x EXCEPT !.state = "resending", !.resent = i, !.target = n]
           r == [message("ResendRequest") EXCEPT !.beginSeqNo = i, !.endSeqNo = n]
           z == [x EXCEPT !.target = n]
<1>1. n \in Nat /\ i \in Nat /\ n \in NumericField /\ i \in NumericField
  BY Typed DEF Message, NumericField
<1>2. on_high_sequence_number(x, m) \in {send(y, r), z, x}
  BY DEF on_high_sequence_number, request_resend
<1>3. /\ y \in SessionRecord /\ y.incoming = x.incoming /\ y.useNext = x.useNext
      /\ y.writerOpen = x.writerOpen /\ y.out = x.out /\ y.outgoing = x.outgoing
  BY <1>1 DEF SessionRecord, SessionStates
<1>4. /\ z.incoming = x.incoming /\ z.useNext = x.useNext
      /\ z.writerOpen = x.writerOpen /\ z.out = x.out /\ z.outgoing = x.outgoing
  BY DEF SessionRecord
<1> HIDE DEF n, i
<1>5. r \in Message /\ Numbered(r) /\ ~ResetLogon(r) /\ r.type # "Logout"
  BY <1>1 DEF message, Message, MessageTypes, AdminTypes, NumericField, Numbered, ResetLogon
<1> HIDE DEF y, r, z
<1>6. Keeps(x, send(y, r)) /\ Keeps(x, z) /\ Keeps(x, x)
  BY <1>3, <1>4, <1>5, SameKeeps, SendKeeps, KeepsCompose
<1> QED
  BY <1>2, <1>6

LEMMA DefibrillatorKeeps ==
    ASSUME NEW x \in SessionRecord
    PROVE  Keeps(x, start_defibrillator(x)) /\ Keeps(x, stop_defibrillator(x))
<1> DEFINE y == start_defibrillator(x)
           z == stop_defibrillator(x)
<1>1. /\ y.incoming = x.incoming /\ y.useNext = x.useNext
      /\ y.writerOpen = x.writerOpen /\ y.out = x.out /\ y.outgoing = x.outgoing
  BY DEF SessionRecord, start_defibrillator
<1>2. /\ z.incoming = x.incoming /\ z.useNext = x.useNext
      /\ z.writerOpen = x.writerOpen /\ z.out = x.out /\ z.outgoing = x.outgoing
  BY DEF SessionRecord, stop_defibrillator
<1> HIDE DEF y, z
<1>3. Keeps(x, y) /\ Keeps(x, z)
  BY <1>1, <1>2, SameKeeps
<1> QED
  BY <1>3 DEF y, z

LEMMA CompleteKeeps ==
    ASSUME NEW x \in SessionRecord
    PROVE  Keeps(x, complete_resend(x))
<1> DEFINE t == send_test_request(x)
<1>1. complete_resend(x) \in {start_defibrillator(t), x}
  BY DEF complete_resend
<1>2. Keeps(x, t) /\ t \in SessionRecord /\ Keeps(x, x)
  BY TestRequestKeeps, TestRequestFollows, SameKeeps DEF Follows
<1> HIDE DEF t
<1> QED
  BY <1>1, <1>2, DefibrillatorKeeps, KeepsCompose

LEMMA DispatchLeaves ==
    ASSUME NEW x \in SessionRecord, NEW m \in Message
    PROVE  Leaves(x, dispatch(x, m))
<1>1. Keeps(x, process_test_request(x, m))
  <2> DEFINE r == [message("Heartbeat") EXCEPT !.testReqID = m.testReqID]
  <2>1. process_test_request(x, m) \in {send_reject(x), send(x, r)}
    BY DEF process_test_request
  <2>2. r \in Message /\ Numbered(r) /\ ~ResetLogon(r) /\ r.type # "Logout"
    <3>1. "Heartbeat" \in MessageTypes /\ m.testReqID \in NumericField
      BY DEF MessageTypes, AdminTypes, Message
    <3>2. r \in Message
      BY <3>1, MessageTyped
    <3> QED
      BY <3>2 DEF message, Numbered, ResetLogon
  <2> HIDE DEF r
  <2> QED
    BY <2>1, <2>2, RepliesKeep, SendKeeps
<1>2. Leaves(x, process_heartbeat(x, m))
  <2> DEFINE y == [x EXCEPT !.state = "logged_on"]
  <2>1. process_heartbeat(x, m) \in {x, close(x), start_defibrillator(y)}
    BY DEF process_heartbeat
  <2>2. /\ y \in SessionRecord /\ y.incoming = x.incoming /\ y.useNext = x.useNext
        /\ y.writerOpen = x.writerOpen /\ y.out = x.out /\ y.outgoing = x.outgoing
    BY DEF SessionRecord, SessionStates
  <2> HIDE DEF y
  <2>3. Keeps(x, start_defibrillator(y)) /\ Keeps(x, x)
    BY <2>2, SameKeeps, DefibrillatorKeeps, KeepsCompose
  <2> QED
    BY <2>1, <2>3, CloseLeaves DEF Keeps
<1>3. Keeps(x, process_resend_request(x, m))
  <2> DEFINE y == stop_test_request_timer(x)
             b == m.beginSeqNo
             r == perform_resend(y, b)
  <2>1. /\ y \in SessionRecord /\ y.incoming = x.incoming /\ y.useNext = x.useNext
        /\ y.writerOpen = x.writerOpen /\ y.out = x.out /\ y.outgoing = x.outgoing
    BY DEF stop_test_request_timer, SessionRecord, TestTimerStates
  <2>2. \/ process_resend_request(x, m) \in {send_reject(y), y}
        \/ b \in Nat /\ process_resend_request(x, m) = send_post_logon_test_request(r)
    BY DEF process_resend_request, Message, NumericField
  <2> HIDE DEF y, b
  <2>3. Keeps(x, y) /\ Keeps(x, send_reject(y))
    BY <2>1, SameKeeps, RepliesKeep, KeepsCompose
  <2>4. b \in Nat => Keeps(x, r) /\ r \in SessionRecord
    BY <2>1, <2>3, ResendKeeps, ResendFollows, KeepsCompose DEF Follows
  <2> HIDE DEF r
  <2> QED
    BY <2>2, <2>3, <2>4, TestRequestKeeps, KeepsCompose
<1>4. dispatch(x, m) \in {process_test_request(x, m), process_resend_request(x, m),
                          process_heartbeat(x, m), close(x), x}
  BY DEF dispatch, process_logout
<1>5. Leaves(x, x)
  BY SameKeeps DEF Keeps
<1> QED
  BY <1>1, <1>2, <1>3, <1>4, <1>5, CloseLeaves DEF Keeps

(* What reading m may do to the number a session expects.                  *)
Expects(x, m, y) ==
    \/ y.incoming = x.incoming
    \/ m.seq = x.incoming /\ y.incoming = m.seq + 1
    \/ ResetLogon(m) /\ m.seq = 1 /\ y.incoming = 2
    \/ m.type = "Logon" /\ x.useNext /\ y.incoming = m.seq + 1
    \/ /\ m.gapFill /\ m.seq = x.incoming
       /\ y.incoming = m.newSeqNo /\ m.newSeqNo > x.incoming

Handles(x, m, y) ==
    /\ y.useNext = x.useNext
    /\ x.writerOpen => Writes(x, y)
    /\ Expects(x, m, y)

LEMMA LeavesHandles ==
    ASSUME NEW x, NEW m, NEW y, Leaves(x, y)
    PROVE  Handles(x, m, y)
BY DEF Leaves, Handles, Expects

(* The number of m is accepted, and then v leaves it.                      *)
LEMMA AcceptedHandles ==
    ASSUME NEW x, NEW v \in SessionRecord, NEW m \in Message, v.useNext = x.useNext,
           x.writerOpen => v.writerOpen /\ Writes(x, v),
           \/ m.seq = x.incoming
           \/ ResetLogon(m) /\ m.seq = 1
           \/ m.type = "Logon" /\ x.useNext
    PROVE  \A u : Leaves(Accepted(v, m), u) => Handles(x, m, u)
<1> DEFINE a == Accepted(v, m)
<1>1. /\ a.incoming = m.seq + 1 /\ a.useNext = v.useNext /\ a.writerOpen = v.writerOpen
      /\ a.out = v.out /\ a.outgoing = v.outgoing
  BY DEF Accepted, SessionRecord
<1> HIDE DEF a
<1> SUFFICES ASSUME NEW u, Leaves(a, u) PROVE Handles(x, m, u)
  BY DEF a
<1>2. u.incoming = m.seq + 1 /\ u.useNext = x.useNext
  BY <1>1 DEF Leaves
<1>3. x.writerOpen => Writes(x, u)
  BY <1>1 DEF Leaves, Writes, Counts, Closes
<1>4. m.seq = 1 => u.incoming = 2
  BY <1>2
<1> QED
  BY <1>2, <1>3, <1>4 DEF Handles, Expects

LEMMA NumberedHandles ==
    ASSUME NEW x \in SessionRecord, NEW m \in Message
    PROVE  Handles(x, m, process_numbered(x, m))
<1> DEFINE a == Accepted(x, m)
<1>1. m.seq \in Nat /\ x.incoming \in Nat
  BY Typed DEF Message
<1>2. \/ process_numbered(x, m) \in {on_high_sequence_number(x, m), send_logout(x)}
      \/ m.seq = x.incoming /\ process_numbered(x, m) = dispatch(a, m)
  BY <1>1 DEF process_numbered, on_low_sequence_number,
              SequenceNumberIsLow, SequenceNumberIsHigh
<1>3. a \in SessionRecord
  BY AcceptedFollows DEF Follows
<1>4. x.writerOpen => Writes(x, x)
  BY DEF Writes, Counts, Closes
<1>5. ASSUME m.seq = x.incoming PROVE Handles(x, m, dispatch(a, m))
  BY <1>3, <1>4, <1>5, DispatchLeaves, AcceptedHandles
<1> QED
  BY <1>2, <1>5, HighKeeps, RepliesKeep, LeavesHandles DEF Keeps

LEMMA SequenceResetHandles ==
    ASSUME NEW x \in SessionRecord, NEW m \in Message
    PROVE  Handles(x, m, process_sequence_reset(x, m))
<1>1. /\ Handles(x, m, send_reject(x)) /\ Handles(x, m, send_logout(x))
      /\ Handles(x, m, on_high_sequence_number(x, m))
  BY HighKeeps, RepliesKeep, LeavesHandles DEF Keeps
<1> DEFINE n == m.newSeqNo
           y == [x EXCEPT !.resent = n]
           z == [x EXCEPT !.resent = n, !.incoming = n]
<1>2. n \in Int /\ x.incoming \in Nat /\ m.seq \in Nat
  BY Typed DEF Message, NumericField, Missing, NotANumber
<1>3. CASE n <= x.incoming
  <2>1. process_sequence_reset(x, m) = send_reject(x)
    BY <1>2, <1>3 DEF process_sequence_reset
  <2> QED
    BY <1>1, <2>1
<1>4. CASE ~(n <= x.incoming)
  <2>1. n \in Nat /\ n > x.incoming
    BY <1>2, <1>4
  <2>2. \/ process_sequence_reset(x, m) \in
              {complete_resend(y), send_reject(x), send_logout(x),
               on_high_sequence_number(x, m)}
        \/ /\ m.gapFill /\ m.seq = x.incoming
           /\ process_sequence_reset(x, m) = complete_resend(z)
    <3>1. CASE ~m.gapFill
      BY <1>4, <3>1 DEF process_sequence_reset
    <3>2. CASE m.gapFill
      <4>1. process_sequence_reset(x, m) = process_gap_fill(x, m)
        BY <1>4, <2>1, <3>2 DEF process_sequence_reset
      <4>2. \/ process_gap_fill(x, m) \in
                  {send_reject(x), send_logout(x), on_high_sequence_number(x, m)}
            \/ /\ ~(m.seq > x.incoming) /\ ~(m.seq < x.incoming)
               /\ process_gap_fill(x, m) = complete_resend(z)
        BY DEF process_gap_fill, on_low_sequence_number,
               SequenceNumberIsLow, SequenceNumberIsHigh
      <4> QED
        BY <1>2, <3>2, <4>1, <4>2
    <3> QED
      BY <3>1, <3>2
  <2> HIDE DEF n
  <2>3. /\ y \in SessionRecord /\ y.incoming = x.incoming /\ y.useNext = x.useNext
        /\ y.writerOpen = x.writerOpen /\ y.out = x.out /\ y.outgoing = x.outgoing
    BY <2>1 DEF SessionRecord
  <2>4. /\ z \in SessionRecord /\ z.incoming = n /\ z.useNext = x.useNext
        /\ z.writerOpen = x.writerOpen /\ z.out = x.out /\ z.outgoing = x.outgoing
    BY <2>1 DEF SessionRecord
  <2> HIDE DEF y, z
  <2>5. Handles(x, m, complete_resend(y))
    BY <2>3, SameKeeps, CompleteKeeps, KeepsCompose, LeavesHandles DEF Keeps
  <2>6. ASSUME m.gapFill, m.seq = x.incoming
        PROVE  Handles(x, m, complete_resend(z))
    <3>1. Keeps(z, complete_resend(z))
      BY <2>4, CompleteKeeps
    <3>2. complete_resend(z).incoming = n /\ complete_resend(z).useNext = x.useNext
      BY <2>4, <3>1 DEF Keeps, Leaves
    <3>3. x.writerOpen => Writes(x, complete_resend(z))
      BY <2>4, <3>1 DEF Keeps, Leaves, Writes, Counts, Closes
    <3> QED
      BY <2>1, <2>6, <3>2, <3>3 DEF Handles, Expects, n
  <2> QED
    BY <1>1, <2>2, <2>5, <2>6
<1> QED
  BY <1>3, <1>4

LEMMA NextExpectedHandles ==
    ASSUME NEW x \in SessionRecord, NEW m \in Message, m.type = "Logon", x.useNext
    PROVE  Handles(x, m, process_next_expected_logon(x, m))
<1> DEFINE y == [x EXCEPT !.state = "resending"]
           r == IF m.nextExpected + 1 < x.outgoing
                THEN perform_resend(y, m.nextExpected) ELSE x
           a == acceptor_send_logon(r, FALSE)
           t == send_post_logon_test_request(a)
<1>1. CASE m.nextExpected < 0 \/ m.nextExpected > x.outgoing
  BY <1>1, RepliesKeep, LeavesHandles DEF process_next_expected_logon
<1>2. CASE ~(m.nextExpected < 0 \/ m.nextExpected > x.outgoing)
  <2>1. m.nextExpected \in Nat
    BY <1>2 DEF Message, NumericField, Missing, NotANumber
  <2>2. /\ y \in SessionRecord /\ y.incoming = x.incoming /\ y.useNext = x.useNext
        /\ y.writerOpen = x.writerOpen /\ y.out = x.out /\ y.outgoing = x.outgoing
    BY DEF SessionRecord, SessionStates
  <2>3. process_next_expected_logon(x, m) = Accepted(t, m)
    BY <1>2 DEF process_next_expected_logon
  <2> HIDE DEF y
  <2>4. Keeps(x, r) /\ r \in SessionRecord
    <3>1. /\ Keeps(x, perform_resend(y, m.nextExpected))
          /\ perform_resend(y, m.nextExpected) \in SessionRecord
      BY <2>1, <2>2, SameKeeps, ResendKeeps, ResendFollows, KeepsCompose DEF Follows
    <3>2. Keeps(x, x)
      BY SameKeeps
    <3> QED
      BY <3>1, <3>2
  <2> HIDE DEF r
  <2>5. Keeps(x, a) /\ a \in SessionRecord
    BY <2>4, LogonKeeps, LogonFollows, KeepsCompose DEF Follows
  <2> HIDE DEF a
  <2>6. Keeps(x, t) /\ t \in SessionRecord
    BY <2>5, TestRequestKeeps, TestRequestFollows, KeepsCompose DEF Follows
  <2> HIDE DEF t
  <2>7. Leaves(Accepted(t, m), Accepted(t, m))
    BY SameKeeps DEF Keeps
  <2> QED
    BY <2>3, <2>6, <2>7, AcceptedHandles DEF Keeps, Leaves
<1> QED
  BY <1>1, <1>2

LEMMA ResetLogonHandles ==
    ASSUME NEW x \in SessionRecord, NEW m \in Message, ResetLogon(m)
    PROVE  Handles(x, m, process_reset_logon(x, m))
<1> DEFINE y == reset(x)
           l == send_logon(y, TRUE)
           t == send_post_logon_test_request(l)
           u == send_test_request(x)
<1>1. \/ process_reset_logon(x, m) = x
      \/ m.seq = 1 /\ process_reset_logon(x, m) \in {Accepted(u, m), Accepted(t, m)}
  BY DEF process_reset_logon
<1>2. Keeps(x, u) /\ u \in SessionRecord
  BY TestRequestKeeps, TestRequestFollows DEF Follows
<1>3. /\ y \in SessionRecord /\ y.useNext = x.useNext
      /\ y.writerOpen = x.writerOpen /\ y.out = x.out
  BY DEF reset, stop_defibrillator, SessionRecord, SessionStates
<1> HIDE DEF y, u
<1>4. PICK r \in Message : r.type = "Logon" /\ r.resetSeqNum = TRUE /\ l = send(y, r)
  BY <1>3, LogonTyped
<1>5. l \in SessionRecord
  BY <1>3, LogonFollows DEF Follows
<1> HIDE DEF l
<1>6. ResetLogon(r)
  BY <1>4 DEF ResetLogon
<1>7. /\ l.useNext = x.useNext /\ l.writerOpen = x.writerOpen
      /\ \A k \in Nat, last \in Nat : x.writerOpen /\ Consecutive(k, x.out, last) =>
            Consecutive(k, l.out, l.outgoing)
      /\ x.writerOpen => Closes(y, l)
  BY <1>3, <1>4, <1>6, SendResets
<1>8. x.writerOpen => Writes(x, l)
  BY <1>3, <1>7, Typed DEF Writes, Counts, Closes
<1>9. Keeps(l, t) /\ t \in SessionRecord
  BY <1>5, TestRequestKeeps, TestRequestFollows DEF Follows
<1> HIDE DEF t
<1>10. /\ t.useNext = x.useNext /\ t.writerOpen = x.writerOpen
       /\ x.writerOpen => Writes(x, t)
  BY <1>7, <1>8, <1>9 DEF Keeps, Leaves, Writes, Counts, Closes
<1>11. \A v : Keeps(v, v)
  BY SameKeeps
<1>12. ASSUME m.seq = 1
       PROVE  Handles(x, m, Accepted(u, m)) /\ Handles(x, m, Accepted(t, m))
  BY <1>2, <1>9, <1>10, <1>11, <1>12, AcceptedHandles DEF Keeps, Leaves
<1> QED
  BY <1>1, <1>11, <1>12, LeavesHandles DEF Keeps

LEMMA NumberedLogonHandles ==
    ASSUME NEW x \in SessionRecord, NEW m \in Message
    PROVE  Handles(x, m, process_numbered_logon(x, m))
<1> DEFINE a == acceptor_send_logon(x, FALSE)
           t == send_post_logon_test_request(a)
<1>1. m.seq \in Nat /\ x.incoming \in Nat
  BY Typed DEF Message
<1>2. \/ process_numbered_logon(x, m) \in {send_logout(x), on_high_sequence_number(a, m)}
      \/ /\ ~(m.seq < x.incoming) /\ ~(m.seq > x.incoming)
         /\ process_numbered_logon(x, m) = Accepted(t, m)
  BY DEF process_numbered_logon, on_low_sequence_number,
         SequenceNumberIsLow, SequenceNumberIsHigh
<1>3. Keeps(x, a) /\ a \in SessionRecord
  BY LogonKeeps, LogonFollows, KeepsCompose DEF Follows, acceptor_send_logon
<1> HIDE DEF a
<1>4. Keeps(x, t) /\ t \in SessionRecord
  BY <1>3, TestRequestKeeps, TestRequestFollows, KeepsCompose DEF Follows
<1> HIDE DEF t
<1>5. Handles(x, m, on_high_sequence_number(a, m)) /\ Handles(x, m, send_logout(x))
  BY <1>3, HighKeeps, RepliesKeep, KeepsCompose, LeavesHandles DEF Keeps
<1>6. Leaves(Accepted(t, m), Accepted(t, m))
  BY SameKeeps DEF Keeps
<1>7. m.seq = x.incoming => Handles(x, m, Accepted(t, m))
  BY <1>4, <1>6, AcceptedHandles DEF Keeps, Leaves
<1> QED
  BY <1>1, <1>2, <1>5, <1>7

LEMMA LogonHandles ==
    ASSUME NEW x \in SessionRecord, NEW m \in Message, m.type = "Logon"
    PROVE  Handles(x, m, process_logon(x, m))
<1> DEFINE h == m.heartBtInt
           y == [x EXCEPT !.heartbeat = h, !.logonReceived = TRUE]
           j == send_reject(x)
<1>1. CASE h < 0
  <2>1. ~(h >= 0)
    BY <1>1 DEF Message, NumericField, Missing, NotANumber
  <2>2. process_logon(x, m) = send_logout(j)
    BY <1>1, <2>1 DEF process_logon
  <2>3. Keeps(x, j) /\ j \in SessionRecord
    BY RepliesKeep, RepliesFollow DEF Follows
  <2> HIDE DEF j
  <2> QED
    BY <2>2, <2>3, RepliesKeep, KeepsCompose, LeavesHandles
<1>2. CASE ~(h < 0)
  <2>1. h \in Nat
    BY <1>2 DEF Message, NumericField, Missing, NotANumber
  <2>2. \/ x.useNext /\ process_logon(x, m) = process_next_expected_logon(y, m)
        \/ m.resetSeqNum /\ process_logon(x, m) = process_reset_logon(y, m)
        \/ process_logon(x, m) = process_numbered_logon(y, m)
    BY <1>2 DEF process_logon
  <2> HIDE DEF h
  <2>3. /\ y \in SessionRecord /\ y.incoming = x.incoming /\ y.useNext = x.useNext
        /\ y.writerOpen = x.writerOpen /\ y.out = x.out /\ y.outgoing = x.outgoing
    BY <2>1 DEF SessionRecord
  <2> HIDE DEF y
  <2>4. Handles(y, m, process_logon(x, m))
    BY <2>2, <2>3, NextExpectedHandles, ResetLogonHandles, NumberedLogonHandles
    DEF ResetLogon
  <2> QED
    BY <2>3, <2>4 DEF Handles, Expects, Writes, Counts, Closes
<1> QED
  BY <1>1, <1>2

(* session::on_message_read, whatever the peer sent.                       *)
LEMMA MessageHandles ==
    ASSUME NEW x \in SessionRecord, NEW m \in Message
    PROVE  Handles(x, m, on_message_read(x, m))
<1> DEFINE j == send_reject(x)
<1>1. Keeps(x, j) /\ j \in SessionRecord /\ Keeps(x, x)
  BY RepliesKeep, RepliesFollow, SameKeeps DEF Follows
<1>2. \/ on_message_read(x, m) \in {close(j), send_logout(j), x,
                                    process_sequence_reset(x, m), process_numbered(x, m)}
      \/ m.type = "Logon" /\ on_message_read(x, m) = process_logon(x, m)
  BY DEF on_message_read
<1> HIDE DEF j
<1>3. Handles(x, m, close(j)) /\ Handles(x, m, send_logout(j)) /\ Handles(x, m, x)
  BY <1>1, CloseLeaves, RepliesKeep, KeepsCompose, LeavesHandles DEF Keeps
<1> QED
  BY <1>2, <1>3, LogonHandles, SequenceResetHandles, NumberedHandles

(* The application's calls and the timers.                                 *)
LEMMA CallsLeave ==
    ASSUME NEW x \in SessionRecord
    PROVE  /\ Keeps(x, open(x)) /\ Keeps(x, defibrillate(x))
           /\ Keeps(x, expire_test_timer(x)) /\ Keeps(x, expire_orphan_timer(x))
           /\ x.posted > 0 => Keeps(x, test_request_callback(x))
<1>1. Keeps(x, open(x))
  <2> DEFINE r == [x EXCEPT !.readerOpen = TRUE]
             l == [r EXCEPT !.state = "logging_on"]
  <2>1. open(x) \in {send_logon(l, FALSE), l, r}
    BY DEF open, logon
  <2>2. /\ r \in SessionRecord /\ r.incoming = x.incoming /\ r.useNext = x.useNext
        /\ r.writerOpen = x.writerOpen /\ r.out = x.out /\ r.outgoing = x.outgoing
    BY DEF SessionRecord
  <2> HIDE DEF r
  <2>3. /\ l \in SessionRecord /\ l.incoming = r.incoming /\ l.useNext = r.useNext
        /\ l.writerOpen = r.writerOpen /\ l.out = r.out /\ l.outgoing = r.outgoing
    BY <2>2 DEF SessionRecord, SessionStates
  <2> HIDE DEF l
  <2>4. Keeps(x, r) /\ Keeps(x, l)
    BY <2>2, <2>3, SameKeeps
  <2>5. Keeps(x, send_logon(l, FALSE))
    BY <2>3, <2>4, LogonKeeps, KeepsCompose
  <2> QED
    BY <2>1, <2>4, <2>5
<1>2. Keeps(x, defibrillate(x))
  <2>1. "Heartbeat" \in MessageTypes
    BY DEF MessageTypes, AdminTypes
  <2>2. Keeps(x, send(x, message("Heartbeat"))) /\ Keeps(x, x)
    BY <2>1, PlainSendKeeps, SameKeeps
  <2> QED
    BY <2>2 DEF defibrillate
<1>3. Keeps(x, expire_test_timer(x)) /\ Keeps(x, expire_orphan_timer(x))
  <2> DEFINE y == expire_test_timer(x)
             z == expire_orphan_timer(x)
  <2>1. /\ y.incoming = x.incoming /\ y.useNext = x.useNext
        /\ y.writerOpen = x.writerOpen /\ y.out = x.out /\ y.outgoing = x.outgoing
    BY DEF SessionRecord, expire_test_timer
  <2>2. /\ z.incoming = x.incoming /\ z.useNext = x.useNext
        /\ z.writerOpen = x.writerOpen /\ z.out = x.out /\ z.outgoing = x.outgoing
    BY DEF SessionRecord, expire_orphan_timer
  <2> HIDE DEF y, z
  <2>3. Keeps(x, y) /\ Keeps(x, z)
    BY <2>1, <2>2, SameKeeps
  <2> QED
    BY <2>3 DEF y, z
<1>4. ASSUME x.posted > 0 PROVE Keeps(x, test_request_callback(x))
  <2> DEFINE k == IF x.testTimer = "armed" THEN x.orphans + 1 ELSE x.orphans
             p == x.posted - 1
             y == [x EXCEPT !.posted = p, !.orphans = k, !.testTimer = "none"]
  <2>1. test_request_callback(x) = send_test_request(y)
    BY DEF test_request_callback
  <2>2. p \in Nat /\ k \in Nat
    BY <1>4, Typed
  <2> HIDE DEF p, k
  <2>3. /\ y \in SessionRecord /\ y.incoming = x.incoming /\ y.useNext = x.useNext
        /\ y.writerOpen = x.writerOpen /\ y.out = x.out /\ y.outgoing = x.outgoing
    BY <2>2 DEF SessionRecord, TestTimerStates
  <2> HIDE DEF y
  <2> QED
    BY <2>1, <2>3, SameKeeps, TestRequestKeeps, KeepsCompose
<1> QED
  BY <1>1, <1>2, <1>3, <1>4

-----------------------------------------------------------------------------
(* The steps of the endpoint, and what they do to the numbers.             *)

Resetting ==
    /\ SendResetLogon
    /\ s'.incoming = 1
    /\ Read.writerOpen => Writes(Read, s')

LEMMA NumberSteps ==
    ASSUME TypeOK, Next
    PROVE  \/ Leaves(Read, s')
           \/ Resetting
           \/ \E m \in Inputs : Deliver(m) /\ Handles(Read, m, s')
<1>1. Read \in SessionRecord /\ Read.posted = s.posted
  BY ReadTyped DEF TypeOK
<1>2. CASE Open \/ HeartbeatTimer \/ TestTimerExpires \/ OrphanTimerExpires
           \/ TestRequestCallback
  BY <1>1, <1>2, CallsLeave
  DEF Open, HeartbeatTimer, TestTimerExpires, OrphanTimerExpires, TestRequestCallback,
      Keeps
<1>3. CASE Close \/ PeerCloses
  BY <1>1, <1>3, CloseLeaves DEF Close, PeerCloses
<1>4. CASE SendApplicationMessage
  <2>1. "App" \in MessageTypes
    BY DEF MessageTypes
  <2> QED
    BY <1>1, <1>4, <2>1, PlainSendKeeps DEF SendApplicationMessage, Keeps
<1>5. CASE SendResetLogon
  <2> DEFINE m == [message("Logon") EXCEPT !.heartBtInt = Heartbeat, !.resetSeqNum = TRUE]
  <2>1. m \in Message /\ ResetLogon(m)
    BY EndpointAssumption
    DEF message, Message, MessageTypes, AdminTypes, NumericField, ResetLogon
  <2>2. s' = send(Read, m)
    BY <1>5 DEF SendResetLogon
  <2> HIDE DEF m
  <2>3. s'.incoming = 1
    BY <1>1, <2>1, <2>2, SendResets
  <2>4. Read.writerOpen => Writes(Read, s')
    <3>1. Read.outgoing \in Nat
      BY <1>1, Typed
    <3> QED
      BY <1>1, <2>1, <2>2, <3>1, SendResets DEF Writes, Counts
  <2> QED
    BY <1>5, <2>3, <2>4 DEF Resetting
<1>6. ASSUME NEW m \in Inputs, Deliver(m)
      PROVE  Handles(Read, m, s')
  <2>1. m \in Message /\ s' = on_message_read(Read, m)
    BY <1>6, EndpointAssumption DEF Deliver
  <2> QED
    BY <1>1, <2>1, MessageHandles
<1> QED
  BY <1>2, <1>3, <1>4, <1>5, <1>6 DEF Next

(* Whatever the peer sends and whenever timers fire, the numbers a session *)
(* gives to what it writes are consecutive: a gap fill takes none, a Logon *)
(* that resets takes 1, nothing is numbered twice or skipped.              *)
THEOREM NumbersStayConsecutive == Spec => NumbersAreConsecutive
<1>1. ASSUME TypeOK, [Next]_vars
      PROVE  [s.writerOpen => Consecutive(s.outgoing, s'.out, s'.outgoing)]_vars
  <2> SUFFICES ASSUME Next, s.writerOpen
               PROVE  Consecutive(s.outgoing, s'.out, s'.outgoing)
    BY <1>1
  <2>1. /\ Read.writerOpen /\ Read.out = <<>> /\ Read.outgoing = s.outgoing
        /\ s.outgoing \in Nat
    BY <1>1, ReadTyped, Typed DEF TypeOK, Read, SessionRecord
  <2>2. Counts(Read, s')
    BY <1>1, <2>1, NumberSteps DEF Leaves, Resetting, Handles, Writes
  <2>3. Consecutive(s.outgoing, <<>>, s.outgoing)
    BY DEF Consecutive, ComesAfter
  <2> QED
    BY <2>1, <2>2, <2>3 DEF Counts
<1> QED
  BY <1>1, EndpointTypeCorrect, PTL DEF Spec, NumbersAreConsecutive

(* A session that has ended: of the application and the timers, only open  *)
(* gives it anything to say but a TestRequest that was put off.            *)
LEMMA EndedStays ==
    ASSUME TypeOK, Next, Ended(s)
    PROVE  Open \/ (Ended(s') /\ Types(s'.out) \subseteq {"TestRequest", "Close"})
<1>1. /\ Read \in SessionRecord /\ Read.out = <<>> /\ Read.state = "disconnected"
      /\ ~Read.readerOpen /\ Read.posted = s.posted
  BY ReadTyped DEF TypeOK, Read, SessionRecord, Ended
<1>2. Types(<<>>) = {} /\ Ended(Read)
  BY <1>1 DEF Types, Ended
<1>3. ASSUME NEW y, y.state = Read.state, y.readerOpen = Read.readerOpen, y.out = Read.out
      PROVE  Ended(y) /\ Types(y.out) \subseteq {"TestRequest", "Close"}
  BY <1>1, <1>2, <1>3 DEF Ended
<1>4. CASE Close
  <2>1. /\ Ended(s')
        /\ Read.writerOpen => s'.out = Append(<<>>, message("Close"))
    BY <1>1, <1>4, CloseEnds DEF Close
  <2>2. ~Read.writerOpen => s'.out = <<>>
    BY <1>1, <1>4, CloseFollows DEF Close, Follows
  <2>3. Types(Append(<<>>, message("Close"))) \subseteq {"TestRequest", "Close"}
    BY CloseMessage DEF Types
  <2> QED
    BY <1>2, <2>1, <2>2, <2>3
<1>5. CASE HeartbeatTimer
  <2>1. s' = Read
    BY <1>1, <1>5 DEF HeartbeatTimer, defibrillate
  <2> QED
    BY <1>3, <2>1
<1>6. CASE TestTimerExpires \/ OrphanTimerExpires
  <2>1. s'.state = Read.state /\ s'.readerOpen = Read.readerOpen /\ s'.out = Read.out
    BY <1>1, <1>6 DEF TestTimerExpires, OrphanTimerExpires, expire_test_timer,
       expire_orphan_timer, SessionRecord
  <2> QED
    BY <1>3, <2>1
<1>7. CASE TestRequestCallback
  <2> DEFINE n == Read.nextTestReq
             k == IF Read.testTimer = "armed" THEN Read.orphans + 1 ELSE Read.orphans
             p == Read.posted - 1
             y == [Read EXCEPT !.posted = p, !.orphans = k, !.testTimer = "none"]
             o == y.outgoing
             z == [[y EXCEPT !.expectedTestReq = n, !.nextTestReq = n + 1]
                        EXCEPT !.outgoing = o + 1]
             m == [[message("TestRequest") EXCEPT !.testReqID = n] EXCEPT !.seq = o]
  <2>1. y.nextTestReq = n /\ s' = send_test_request(y)
    BY <1>1, <1>7 DEF TestRequestCallback, test_request_callback, SessionRecord
  <2>2. s' = write(z, m)
    <3>1. [y EXCEPT !.expectedTestReq = n, !.nextTestReq = n + 1].outgoing = o
      BY <1>1 DEF SessionRecord
    <3> QED
      BY <2>1, <3>1 DEF send_test_request, send, reset_for_logon, message
  <2>3. /\ z.state = Read.state /\ z.readerOpen = Read.readerOpen /\ z.out = Read.out
        /\ z.writerOpen = Read.writerOpen /\ DOMAIN z = DOMAIN Read
    <3> HIDE DEF o, n, k, p
    <3> QED
      BY <1>1 DEF SessionRecord
  <2>4. m.type = "TestRequest"
    <3> HIDE DEF o, n
    <3> QED
      BY DEF message
  <2> HIDE DEF z, m
  <2>5. CASE ~z.writerOpen
    <3>1. s' = z
      BY <2>2, <2>5 DEF write
    <3> QED
      BY <1>3, <2>3, <3>1
  <2>6. CASE z.writerOpen
    <3>1. /\ s'.state = Read.state /\ s'.readerOpen = Read.readerOpen
          /\ s'.out = Append(<<>>, m)
      BY <1>1, <2>2, <2>3, <2>6 DEF write, SessionRecord
    <3>2. Types(Append(<<>>, m)) \subseteq {"TestRequest", "Close"}
      BY <2>4 DEF Types
    <3> QED
      BY <1>1, <3>1, <3>2 DEF Ended
  <2> QED
    BY <2>5, <2>6
<1>8. ASSUME \/ SendApplicationMessage \/ SendResetLogon \/ PeerCloses
             \/ \E m \in Inputs : Deliver(m)
      PROVE  FALSE
  BY <1>8 DEF SendApplicationMessage, SendResetLogon, PeerCloses, Deliver, Ended
<1> QED
  BY <1>4, <1>5, <1>6, <1>7, <1>8 DEF Next

(* The end of a session is final, whatever the peer sends and whenever     *)
(* timers fire: the writer closes only where the session ends, nothing     *)
(* but the end of the stream follows a Logout, and an ended session stays  *)
(* so and writes no heartbeat, although nobody stops its defibrillator.    *)
THEOREM EndsAreFinal == Spec => EndIsFinal
<1>1. ASSUME TypeOK, [Next]_vars
      PROVE  [/\ s.writerOpen /\ ~s'.writerOpen => Ended(s')
              /\ Ended(s) => \/ Open
                             \/ Ended(s') /\ Types(s'.out) \subseteq {"TestRequest", "Close"}
              /\ \A i \in DOMAIN s'.out : s'.out[i].type = "Logout" =>
                    i + 1 = Len(s'.out) /\ s'.out[i + 1].type = "Close"]_vars
  <2> SUFFICES ASSUME Next
               PROVE  /\ s.writerOpen /\ ~s'.writerOpen => Ended(s')
                      /\ Ended(s) => \/ Open
                                     \/ /\ Ended(s')
                                        /\ Types(s'.out) \subseteq {"TestRequest", "Close"}
                      /\ LogoutLast(s'.out)
    BY <1>1 DEF LogoutLast
  <2>1. Read.out = <<>> /\ Read.writerOpen = s.writerOpen
    BY <1>1, ReadTyped DEF TypeOK
  <2>2. Logoutless(<<>>) /\ LogoutLast(<<>>)
    BY DEF Logoutless, LogoutLast
  <2>3. CASE s.writerOpen
    <3>1. Closes(Read, s')
      BY <1>1, <2>1, <2>3, NumberSteps DEF Leaves, Resetting, Handles, Writes
    <3>2. Logoutless(s'.out) => LogoutLast(s'.out)
      BY DEF Logoutless, LogoutLast
    <3> QED
      BY <1>1, <2>1, <2>2, <3>1, <3>2, EndedStays DEF Closes
  <2>4. CASE ~s.writerOpen
    <3>1. s'.out = <<>>
      BY <1>1, <2>1, <2>4, Steps DEF Follows
    <3> QED
      BY <1>1, <2>2, <2>4, <3>1, EndedStays
  <2> QED
    BY <2>3, <2>4
<1> QED
  BY <1>1, EndpointTypeCorrect, PTL DEF Spec, EndIsFinal

(* What ExpectedNumberMoves says of one step.                              *)
ExpectedStep ==
    /\ s'.incoming < s.incoming =>
          \/ SendResetLogon
          \/ \E m \in Inputs : /\ (ResetLogon(m) /\ m.seq = 1) \/ NextExpectedLogon(m)
                               /\ Deliver(m)
    /\ s'.incoming > s.incoming + 1 =>
          \E m \in Inputs : /\ \/ m.gapFill /\ m.seq = s.incoming
                                  /\ m.newSeqNo = s'.incoming
                               \/ NextExpectedLogon(m)
                            /\ Deliver(m)

(* Whatever the peer sends, the number a session expects goes back only    *)
(* when the numbering is reset and moves past another only by a gap fill   *)
(* that was itself in sequence; only with NextExpectedMsgSeqNum may a      *)
(* Logon move it anywhere.                                                 *)
THEOREM ExpectedNumberMovesByRule == Spec => ExpectedNumberMoves
<1>1. Init => s.incoming >= 1
  BY DEF Init, session
<1>2. ASSUME TypeOK, s.incoming >= 1, [Next]_vars
      PROVE  s'.incoming >= 1 /\ [ExpectedStep]_vars
  <2>1. CASE UNCHANGED vars
    BY <1>2, <2>1 DEF vars
  <2>2. CASE Next
    <3>1. /\ Read.incoming = s.incoming /\ Read.useNext = s.useNext
          /\ s.incoming \in Nat
      BY <1>2, Typed DEF TypeOK, Read, SessionRecord
    <3>2. CASE Leaves(Read, s')
      <4>1. s'.incoming = s.incoming
        BY <3>1, <3>2 DEF Leaves
      <4>2. ~(s'.incoming < s.incoming) /\ ~(s'.incoming > s.incoming + 1)
        BY <3>1, <4>1
      <4> QED
        BY <1>2, <4>1, <4>2 DEF ExpectedStep
    <3>3. CASE Resetting
      <4>1. s'.incoming = 1 /\ ~(s'.incoming > s.incoming + 1) /\ SendResetLogon
        BY <1>2, <3>1, <3>3 DEF Resetting
      <4> QED
        BY <4>1 DEF ExpectedStep
    <3>4. ASSUME NEW m \in Inputs, Deliver(m), Handles(Read, m, s')
          PROVE  s'.incoming >= 1 /\ ExpectedStep
      <4>1. m.seq \in Nat /\ m.newSeqNo \in Int
        BY EndpointAssumption DEF Message, NumericField, Missing, NotANumber
      <4>2. CASE s'.incoming = s.incoming \/ (m.seq = s.incoming /\ s'.incoming = m.seq + 1)
        <5>1. s'.incoming >= 1 /\ ~(s'.incoming < s.incoming)
              /\ ~(s'.incoming > s.incoming + 1)
          BY <1>2, <3>1, <4>1, <4>2
        <5> QED
          BY <5>1 DEF ExpectedStep
      <4>3. CASE ResetLogon(m) /\ m.seq = 1 /\ s'.incoming = 2
        <5>1. s'.incoming >= 1 /\ ~(s'.incoming > s.incoming + 1)
          BY <1>2, <3>1, <4>3
        <5> QED
          BY <3>4, <4>3, <5>1 DEF ExpectedStep
      <4>4. CASE m.type = "Logon" /\ s.useNext /\ s'.incoming = m.seq + 1
        <5>1. NextExpectedLogon(m) /\ s'.incoming >= 1
          BY <4>1, <4>4 DEF NextExpectedLogon
        <5> QED
          BY <3>4, <5>1 DEF ExpectedStep
      <4>5. CASE /\ m.gapFill /\ m.seq = s.incoming
                 /\ s'.incoming = m.newSeqNo /\ m.newSeqNo > s.incoming
        <5>1. s'.incoming >= 1 /\ ~(s'.incoming < s.incoming)
          BY <1>2, <3>1, <4>1, <4>5
        <5> QED
          BY <3>4, <4>5, <5>1 DEF ExpectedStep
      <4> QED
        BY <3>1, <3>4, <4>2, <4>3, <4>4, <4>5 DEF Handles, Expects
    <3> QED
      BY <1>2, <2>2, <3>2, <3>3, <3>4, NumberSteps
  <2> QED
    BY <1>2, <2>1, <2>2
<1>3. TypeOK /\ s.incoming >= 1 /\ [Next]_vars =>
          (s.incoming >= 1)' /\ [ExpectedStep]_vars
  BY <1>2
<1> QED
  BY <1>1, <1>3, EndpointTypeCorrect, PTL DEF Spec, ExpectedNumberMoves, ExpectedStep
=============================================================================
