--------------------------- MODULE SessionProofs ---------------------------
(***************************************************************************)
(* Proofs about SessionPair, for every value of its constants.             *)
(*                                                                         *)
(* The functions of the session are composed of a few that update the      *)
(* record and of send.  The relation Grows says what all but the ones that *)
(* reset the numbering have in common; it is reflexive and transitive, so  *)
(* the lemmas on the larger functions follow from those on the smaller.    *)
(***************************************************************************)
EXTENDS SessionPair, TLAPS

(* Neither what s has written nor what it will number is below b.          *)
Above(s, b) ==
    /\ b <= s.outgoing
    /\ \A i \in 1..Len(s.out) : Numbered(s.out[i]) => b <= s.out[i].seq

(* From s to t the session stays well typed, keeps its options and the     *)
(* number it expects, keeps its stream in order and goes below no number   *)
(* it was above.                                                           *)
Grows(s, t) ==
    /\ t \in SessionRecord
    /\ t.incoming = s.incoming /\ t.useNext = s.useNext
    /\ SentInOrder(s) => SentInOrder(t)
    /\ \A b \in Nat : Above(s, b) => Above(t, b)

-----------------------------------------------------------------------------
(* Messages.                                                               *)

(* A message as the session builds it is well typed and resets nothing.    *)
LEMMA MessageType ==
    ASSUME NEW type \in MessageTypes
    PROVE  /\ message(type) \in Message
           /\ ~message(type).resetSeqNum
           /\ message(type).type = type
BY DEF message, Message, NumericField, Missing

-----------------------------------------------------------------------------
(* Updates of the record.                                                  *)

(* The fields of a session that the functions compute with.                *)
LEMMA FieldTypes ==
    ASSUME NEW s \in SessionRecord
    PROVE  /\ s.heartbeat \in Nat /\ s.nextTestReq \in Nat
           /\ s.incoming \in Nat /\ s.outgoing \in Nat
           /\ s.resent \in Nat /\ s.target \in Nat
           /\ s.orphans \in Nat /\ s.posted \in Nat
           /\ s.out \in Seq(Message)
           /\ s.behaviour \in Behaviours
BY DEF SessionRecord

(* An update that leaves the stream and both numbers alone.                *)
LEMMA SameStream ==
    ASSUME NEW s \in SessionRecord, NEW t \in SessionRecord,
           t.incoming = s.incoming, t.useNext = s.useNext,
           t.outgoing = s.outgoing, t.out = s.out
    PROVE  Grows(s, t)
BY DEF Grows, SentInOrder, Above

(* The updates of the record that the functions of the session make.       *)
LEMMA Updates ==
    ASSUME NEW s \in SessionRecord
    PROVE  /\ \A st \in SessionStates : [s EXCEPT !.state = st] \in SessionRecord
           /\ \A b \in BOOLEAN : [s EXCEPT !.readerOpen = b] \in SessionRecord
           /\ \A ms \in Seq(Message) : [s EXCEPT !.out = ms] \in SessionRecord
           /\ \A n \in Nat : [s EXCEPT !.outgoing = n] \in SessionRecord
           /\ \A n \in Nat : [s EXCEPT !.incoming = n] \in SessionRecord
           /\ \A n \in Nat : [s EXCEPT !.resent = n] \in SessionRecord
           /\ \A n \in Nat : [s EXCEPT !.target = n] \in SessionRecord
           /\ \A b \in BOOLEAN : [s EXCEPT !.heartbeatTimer = b] \in SessionRecord
           /\ \A tt \in TestTimerStates : [s EXCEPT !.testTimer = tt] \in SessionRecord
BY DEF SessionRecord

(* Grows is reflexive and transitive.                                      *)
LEMMA GrowsReflexive ==
    ASSUME NEW s \in SessionRecord
    PROVE  Grows(s, s)
BY DEF Grows

LEMMA GrowsTransitive ==
    ASSUME NEW s, NEW t, NEW u, Grows(s, t), Grows(t, u)
    PROVE  Grows(s, u)
BY DEF Grows

-----------------------------------------------------------------------------
(* The stream.                                                             *)

(* A message that begins where the stream reaches and reaches no further   *)
(* than the next number may be appended.                                   *)
LEMMA AppendInOrder ==
    ASSUME NEW s \in SessionRecord, NEW t \in SessionRecord, NEW m \in Message,
           t.out = Append(s.out, m),
           s.outgoing <= t.outgoing, Reaches(m) <= t.outgoing,
           ~m.resetSeqNum,
           Numbered(m) => s.outgoing <= m.seq,
           SentInOrder(s)
    PROVE  SentInOrder(t)
<1> SUFFICES ASSUME NEW i \in 1..Len(t.out)
             PROVE  /\ Reaches(t.out[i]) <= t.outgoing
                    /\ ~t.out[i].resetSeqNum
                    /\ \A j \in (i + 1)..Len(t.out) :
                         Numbered(t.out[j]) => Reaches(t.out[i]) <= t.out[j].seq
  BY DEF SentInOrder
<1>1. /\ s.out \in Seq(Message) /\ s.outgoing \in Nat /\ t.outgoing \in Nat
      /\ Len(s.out) \in Nat
      /\ Len(t.out) = Len(s.out) + 1
      /\ t.out[Len(t.out)] = m
      /\ \A k \in 1..Len(s.out) : t.out[k] = s.out[k] /\ s.out[k] \in Message
  BY FieldTypes
<1>2. \A k \in Message : Reaches(k) \in Int /\ k.seq \in Nat
  BY DEF Reaches, Message, NumericField, Missing, NotANumber
<1>3. CASE i = Len(t.out)
  BY <1>1, <1>3
<1>4. CASE i # Len(t.out)
  <2>1. i \in 1..Len(s.out) /\ t.out[i] = s.out[i]
    BY <1>1, <1>4
  <2>2. /\ Reaches(s.out[i]) <= s.outgoing
        /\ ~s.out[i].resetSeqNum
        /\ \A j \in (i + 1)..Len(s.out) :
             Numbered(s.out[j]) => Reaches(s.out[i]) <= s.out[j].seq
    BY <2>1 DEF SentInOrder
  <2>3. Reaches(t.out[i]) <= t.outgoing
    BY <1>1, <1>2, <2>1, <2>2
  <2>4. ASSUME NEW j \in (i + 1)..Len(t.out), Numbered(t.out[j])
        PROVE  Reaches(t.out[i]) <= t.out[j].seq
    <3>1. CASE j = Len(t.out)
      <4>1. t.out[j] = m /\ s.outgoing <= m.seq
        BY <1>1, <2>4, <3>1
      <4>2. Reaches(s.out[i]) \in Int /\ m.seq \in Nat
        BY <1>1, <1>2, <2>1
      <4> QED
        BY <1>1, <2>1, <2>2, <4>1, <4>2
    <3>2. CASE j # Len(t.out)
      <4>1. j \in (i + 1)..Len(s.out) /\ j \in 1..Len(s.out)
        BY <1>1, <2>1, <3>2
      <4>2. t.out[j] = s.out[j]
        BY <1>1, <4>1
      <4> QED
        BY <2>1, <2>2, <2>4, <4>1, <4>2
    <3> QED
      BY <3>1, <3>2
  <2> QED
    BY <2>1, <2>2, <2>3, <2>4
<1> QED
  BY <1>3, <1>4

(* The same message leaves the stream above what it was above.             *)
LEMMA AppendAbove ==
    ASSUME NEW s \in SessionRecord, NEW t \in SessionRecord, NEW m \in Message,
           t.out = Append(s.out, m),
           s.outgoing <= t.outgoing,
           Numbered(m) => s.outgoing <= m.seq
    PROVE  \A b \in Nat : Above(s, b) => Above(t, b)
<1> SUFFICES ASSUME NEW b \in Nat, Above(s, b)
             PROVE  Above(t, b)
  OBVIOUS
<1>1. /\ s.out \in Seq(Message) /\ s.outgoing \in Nat /\ t.outgoing \in Nat
      /\ m.seq \in Nat
  BY FieldTypes DEF Message
<1>2. b <= t.outgoing
  BY <1>1 DEF Above
<1>3. ASSUME NEW i \in 1..Len(t.out), Numbered(t.out[i])
      PROVE  b <= t.out[i].seq
  <2>1. CASE i = Len(s.out) + 1
    <3>1. t.out[i] = m
      BY <1>1, <2>1
    <3> QED
      BY <1>1, <1>3, <3>1 DEF Above
  <2>2. CASE i # Len(s.out) + 1
    <3>1. i \in 1..Len(s.out) /\ t.out[i] = s.out[i]
      BY <1>1, <2>2
    <3> QED
      BY <1>3, <3>1 DEF Above
  <2> QED
    BY <2>1, <2>2
<1> QED
  BY <1>2, <1>3 DEF Above

(* Reading the first item leaves the rest in order.                        *)
LEMMA TailInOrder ==
    ASSUME NEW s \in SessionRecord, s.out # <<>>
    PROVE  LET t == [s EXCEPT !.out = Tail(s.out)]
           IN  /\ t \in SessionRecord
               /\ t.incoming = s.incoming /\ t.outgoing = s.outgoing
               /\ Head(s.out) = s.out[1] /\ s.out[1] \in Message
               /\ Len(t.out) \in Nat /\ Len(s.out) = Len(t.out) + 1
               /\ \A i \in 1..Len(t.out) : t.out[i] = s.out[i + 1]
               /\ SentInOrder(s) => SentInOrder(t)
<1> DEFINE t == [s EXCEPT !.out = Tail(s.out)]
<1>1. s.out \in Seq(Message) /\ Tail(s.out) \in Seq(Message)
  BY FieldTypes
<1>2. t \in SessionRecord /\ t.out = Tail(s.out)
      /\ t.incoming = s.incoming /\ t.outgoing = s.outgoing
  BY <1>1, Updates DEF SessionRecord
<1>3. /\ Head(s.out) = s.out[1] /\ s.out[1] \in Message
      /\ Len(t.out) \in Nat /\ Len(s.out) = Len(t.out) + 1
      /\ \A i \in 1..Len(t.out) : t.out[i] = s.out[i + 1]
  BY <1>1, <1>2
<1>4. ASSUME SentInOrder(s) PROVE SentInOrder(t)
  <2> SUFFICES ASSUME NEW i \in 1..Len(t.out)
               PROVE  /\ Reaches(t.out[i]) <= t.outgoing
                      /\ ~t.out[i].resetSeqNum
                      /\ \A j \in (i + 1)..Len(t.out) :
                           Numbered(t.out[j]) => Reaches(t.out[i]) <= t.out[j].seq
    BY DEF SentInOrder
  <2> HIDE DEF t
  <2>1. i + 1 \in 1..Len(s.out) /\ t.out[i] = s.out[i + 1]
    BY <1>3
  <2>2. /\ Reaches(s.out[i + 1]) <= s.outgoing
        /\ ~s.out[i + 1].resetSeqNum
        /\ \A j \in ((i + 1) + 1)..Len(s.out) :
             Numbered(s.out[j]) => Reaches(s.out[i + 1]) <= s.out[j].seq
    BY <1>4, <2>1 DEF SentInOrder
  <2>3. ASSUME NEW j \in (i + 1)..Len(t.out)
        PROVE  j + 1 \in ((i + 1) + 1)..Len(s.out) /\ t.out[j] = s.out[j + 1]
    BY <1>3
  <2> QED
    BY <1>2, <2>1, <2>2, <2>3
<1> QED
  BY <1>2, <1>3, <1>4

-----------------------------------------------------------------------------
(* Sending.                                                                *)

(* writer::write of a message that fits.                                   *)
LEMMA WriteType ==
    ASSUME NEW s \in SessionRecord, NEW m \in Message
    PROVE  write(s, m) \in SessionRecord /\ write(s, m).useNext = s.useNext
<1>1. Append(s.out, m) \in Seq(Message)
  BY FieldTypes
<1> QED
  BY <1>1 DEF write, SessionRecord

(* session::send is well typed, whatever is sent.                          *)
LEMMA SendType ==
    ASSUME NEW s \in SessionRecord, NEW m \in Message
    PROVE  /\ reset_for_logon(s, m) \in SessionRecord
           /\ send_unnumbered(s, m) \in SessionRecord
           /\ send(s, m) \in SessionRecord /\ send(s, m).useNext = s.useNext
<1>1. /\ reset_for_logon(s, m) \in SessionRecord
      /\ reset_for_logon(s, m).useNext = s.useNext
  <2> DEFINE z == [s EXCEPT !.state = "resetting", !.outgoing = 1, !.incoming = 1]
  <2>1. z \in SessionRecord /\ z.useNext = s.useNext
    BY DEF SessionRecord, SessionStates
  <2> QED
    BY <2>1 DEF reset_for_logon
<1> DEFINE r == reset_for_logon(s, m)
<1>2. r.outgoing + 1 \in Nat /\ r.outgoing \in Nat
  BY <1>1, FieldTypes
<1> HIDE DEF r
<1>3. /\ [r EXCEPT !.outgoing = r.outgoing + 1] \in SessionRecord
      /\ [r EXCEPT !.outgoing = r.outgoing + 1].useNext = s.useNext
  <2>1. r \in SessionRecord /\ r.useNext = s.useNext
    BY <1>1 DEF r
  <2> QED
    BY <1>2, <2>1 DEF SessionRecord
<1>4. [m EXCEPT !.seq = r.outgoing] \in Message
  BY <1>2 DEF Message
<1> QED
  BY <1>1, <1>3, <1>4, WriteType DEF send, send_unnumbered, r

(* session::send of anything but a Logon that resets takes the next number *)
(* and keeps the stream in order.                                          *)
LEMMA SendGrows ==
    ASSUME NEW s \in SessionRecord, NEW m \in Message,
           ~m.resetSeqNum, Numbered(m)
    PROVE  Grows(s, send(s, m))
<1> DEFINE t == [s EXCEPT !.outgoing = s.outgoing + 1]
           n == [m EXCEPT !.seq = s.outgoing]
           u == [t EXCEPT !.out = Append(t.out, n)]
<1>1. s.outgoing \in Nat /\ s.out \in Seq(Message)
  BY FieldTypes
<1>2. /\ t \in SessionRecord /\ t.outgoing = s.outgoing + 1
      /\ t.out = s.out /\ t.incoming = s.incoming /\ t.useNext = s.useNext
  BY <1>1, Updates DEF SessionRecord
<1>3. /\ n \in Message /\ n.seq = s.outgoing /\ n.type = m.type
      /\ n.resetSeqNum = m.resetSeqNum
  BY <1>1 DEF Message
<1>4. send(s, m) = IF t.writerOpen THEN u ELSE t
  BY DEF send, write, reset_for_logon
<1>5. Grows(s, t)
  <2>1. ASSUME SentInOrder(s) PROVE SentInOrder(t)
    <3> SUFFICES ASSUME NEW i \in 1..Len(t.out)
                 PROVE  Reaches(s.out[i]) <= t.outgoing
      BY <1>2, <2>1 DEF SentInOrder
    <3>1. Reaches(s.out[i]) <= s.outgoing /\ s.out[i] \in Message
      BY <1>1, <1>2, <2>1 DEF SentInOrder
    <3>2. Reaches(s.out[i]) \in Int
      BY <3>1 DEF Reaches, Message, NumericField, Missing, NotANumber
    <3> QED
      BY <1>1, <1>2, <3>1, <3>2
  <2>2. \A b \in Nat : Above(s, b) => Above(t, b)
    BY <1>1, <1>2 DEF Above
  <2> QED
    BY <1>2, <2>1, <2>2 DEF Grows
<1>6. Grows(s, u)
  <2>1. Append(t.out, n) \in Seq(Message)
    BY <1>1, <1>2, <1>3
  <2>2. /\ u \in SessionRecord /\ u.outgoing = t.outgoing
        /\ u.out = Append(s.out, n) /\ u.incoming = s.incoming
        /\ u.useNext = s.useNext
    <3> HIDE DEF t, n
    <3> QED
      BY <1>2, <2>1 DEF SessionRecord
  <2>3. Numbered(n) /\ Reaches(n) = s.outgoing + 1
    BY <1>3 DEF Numbered, Reaches
  <2> HIDE DEF t, n, u
  <2>4. SentInOrder(s) => SentInOrder(u)
    BY <1>1, <1>2, <1>3, <2>2, <2>3, AppendInOrder
  <2>5. \A b \in Nat : Above(s, b) => Above(u, b)
    BY <1>1, <1>2, <1>3, <2>2, AppendAbove
  <2> QED
    BY <2>2, <2>4, <2>5 DEF Grows
<1> QED
  <2> HIDE DEF t, u
  <2> QED
    BY <1>4, <1>5, <1>6

(* writer::write of something that takes no number: a gap fill or the end. *)
LEMMA WriteGrows ==
    ASSUME NEW s \in SessionRecord, NEW m \in Message,
           ~m.resetSeqNum, ~Numbered(m), m.newSeqNo <= s.outgoing
    PROVE  /\ Grows(s, write(s, m))
           /\ write(s, m).outgoing = s.outgoing
<1> DEFINE u == [s EXCEPT !.out = Append(s.out, m)]
<1>1. Append(s.out, m) \in Seq(Message) /\ s.outgoing \in Nat
  BY FieldTypes
<1>2. /\ u \in SessionRecord /\ u.out = Append(s.out, m)
      /\ u.outgoing = s.outgoing /\ u.incoming = s.incoming /\ u.useNext = s.useNext
  BY <1>1 DEF SessionRecord
<1>3. Reaches(m) = m.newSeqNo
  BY DEF Reaches
<1> HIDE DEF u
<1>4. SentInOrder(s) => SentInOrder(u)
  BY <1>1, <1>2, <1>3, AppendInOrder
<1>5. Grows(s, u)
  <2>1. \A b \in Nat : Above(s, b) => Above(u, b)
    BY <1>1, <1>2, AppendAbove
  <2> QED
    BY <1>2, <1>4, <2>1 DEF Grows
<1>6. write(s, m) = IF s.writerOpen THEN u ELSE s
  BY DEF write, u
<1> QED
  BY <1>2, <1>5, <1>6, GrowsReflexive

(* reader::close, writer::close and session::close.                        *)
LEMMA CloseGrows ==
    ASSUME NEW s \in SessionRecord
    PROVE  Grows(s, close_reader(s)) /\ Grows(s, close(s))
<1>1. ASSUME NEW r \in SessionRecord PROVE Grows(r, close_reader(r))
  <2> DEFINE c == [r EXCEPT !.readerOpen = FALSE, !.state = "disconnected"]
  <2>1. c \in SessionRecord /\ c.out = r.out
        /\ c.incoming = r.incoming /\ c.useNext = r.useNext /\ c.outgoing = r.outgoing
    BY DEF SessionRecord, SessionStates
  <2>2. close_reader(r) = IF r.readerOpen THEN c ELSE r
    BY DEF close_reader
  <2> HIDE DEF c
  <2> QED
    BY <2>1, <2>2, SameStream, GrowsReflexive
<1>2. ASSUME NEW r \in SessionRecord PROVE Grows(r, close_writer(r))
  <2> DEFINE e == message("Close")
             w == [r EXCEPT !.out = Append(r.out, e)]
             c == [r EXCEPT !.writerOpen = FALSE, !.state = "disconnected",
                            !.out = Append(r.out, e)]
  <2>1. e \in Message /\ ~e.resetSeqNum /\ e.type = "Close"
    BY MessageType DEF MessageTypes
  <2>2. ~Numbered(e) /\ e.newSeqNo <= r.outgoing
    BY <2>1, FieldTypes DEF Numbered, message, Missing
  <2> HIDE DEF e
  <2>3. Append(r.out, e) \in Seq(Message)
    BY <2>1, FieldTypes
  <2>4. /\ c \in SessionRecord /\ c.out = Append(r.out, e)
        /\ c.incoming = r.incoming /\ c.useNext = r.useNext /\ c.outgoing = r.outgoing
    BY <2>3 DEF SessionRecord, SessionStates
  <2>5. Reaches(e) = e.newSeqNo /\ r.outgoing \in Nat
    BY <2>2, FieldTypes DEF Reaches
  <2>6. close_writer(r) = IF r.writerOpen THEN c ELSE r
    BY DEF close_writer, e
  <2> HIDE DEF c
  <2>7. SentInOrder(r) => SentInOrder(c)
    BY <2>1, <2>2, <2>4, <2>5, AppendInOrder
  <2>8. Grows(r, c)
    <3>1. \A b \in Nat : Above(r, b) => Above(c, b)
      BY <2>1, <2>2, <2>4, <2>5, AppendAbove
    <3> QED
      BY <2>4, <2>7, <3>1 DEF Grows
  <2> QED
    BY <2>6, <2>8, GrowsReflexive
<1>3. ASSUME NEW r \in SessionRecord
      PROVE  Grows(r, [r EXCEPT !.state = "disconnected"])
  <2> DEFINE c == [r EXCEPT !.state = "disconnected"]
  <2>1. c \in SessionRecord /\ c.out = r.out
        /\ c.incoming = r.incoming /\ c.useNext = r.useNext /\ c.outgoing = r.outgoing
    BY DEF SessionRecord, SessionStates
  <2> QED
    BY <2>1, SameStream
<1>4. close_reader(s) \in SessionRecord /\ Grows(s, close_reader(s))
  BY <1>1 DEF Grows
<1>5. /\ close_writer(close_reader(s)) \in SessionRecord
      /\ Grows(s, close_writer(close_reader(s)))
  BY <1>2, <1>4, GrowsTransitive DEF Grows
<1>6. Grows(s, close(s))
  BY <1>3, <1>5, GrowsTransitive DEF close
<1> QED
  BY <1>4, <1>6

(* The messages the session sends on its own.                              *)
LEMMA RepliesGrow ==
    ASSUME NEW s \in SessionRecord
    PROVE  /\ Grows(s, send_reject(s))
           /\ Grows(s, send_logout(s))
           /\ Grows(s, send_logon(s, FALSE))
           /\ Grows(s, send_test_request(s))
<1>1. ASSUME NEW r \in SessionRecord,
             NEW type \in {"Reject", "Logout", "Heartbeat", "App"}
      PROVE  Grows(r, send(r, message(type)))
  <2>1. message(type) \in Message /\ ~message(type).resetSeqNum
        /\ Numbered(message(type))
    BY MessageType DEF MessageTypes, AdminTypes, Numbered
  <2> QED
    BY <2>1, SendGrows
<1>2. Grows(s, send_reject(s))
  BY <1>1 DEF send_reject
<1>3. Grows(s, send_logout(s))
  <2> DEFINE t == send(s, message("Logout"))
             u == [stop_defibrillator(t) EXCEPT !.state = "connected"]
  <2>1. Grows(s, t) /\ t \in SessionRecord
    BY <1>1 DEF Grows
  <2> HIDE DEF t
  <2>2. u \in SessionRecord /\ u.out = t.out
        /\ u.incoming = t.incoming /\ u.useNext = t.useNext /\ u.outgoing = t.outgoing
    BY <2>1 DEF stop_defibrillator, SessionRecord, SessionStates
  <2>3. Grows(t, u)
    BY <2>1, <2>2, SameStream
  <2>4. send_logout(s) = IF t.state = "logged_on" THEN close(u) ELSE close(t)
    BY DEF send_logout, t
  <2> HIDE DEF u
  <2> QED
    BY <2>1, <2>2, <2>3, <2>4, CloseGrows, GrowsTransitive
<1>4. Grows(s, send_logon(s, FALSE))
  <2> DEFINE next == IF s.useNext THEN s.incoming ELSE Missing
             m == [message("Logon") EXCEPT !.heartBtInt = s.heartbeat,
                                           !.resetSeqNum = FALSE,
                                           !.nextExpected = next]
  <2>1. next \in NumericField /\ s.heartbeat \in NumericField
    BY FieldTypes DEF NumericField
  <2> HIDE DEF next
  <2>2. m \in Message /\ ~m.resetSeqNum /\ m.type = "Logon"
    BY <2>1 DEF message, Message, MessageTypes, AdminTypes, NumericField
  <2>3. Numbered(m)
    BY <2>2 DEF Numbered
  <2>4. send_logon(s, FALSE) = send(s, m)
    BY DEF send_logon, next
  <2> HIDE DEF m
  <2> QED
    BY <2>2, <2>3, <2>4, SendGrows
<1>5. Grows(s, send_test_request(s))
  <2> DEFINE t == [s EXCEPT !.expectedTestReq = s.nextTestReq,
                            !.nextTestReq = s.nextTestReq + 1]
             m == [message("TestRequest") EXCEPT !.testReqID = s.nextTestReq]
  <2>1. s.nextTestReq \in Nat /\ s.nextTestReq + 1 \in Nat
        /\ s.nextTestReq \in NumericField
    BY FieldTypes DEF NumericField
  <2>2. t \in SessionRecord /\ t.out = s.out
        /\ t.incoming = s.incoming /\ t.useNext = s.useNext /\ t.outgoing = s.outgoing
    BY <2>1 DEF SessionRecord
  <2>3. m \in Message /\ ~m.resetSeqNum /\ m.type = "TestRequest"
    BY <2>1 DEF message, Message, MessageTypes, AdminTypes, NumericField
  <2>4. Numbered(m) /\ Grows(s, t)
    BY <2>2, <2>3, SameStream DEF Numbered
  <2>5. send_test_request(s) = send(t, m)
    BY DEF send_test_request
  <2> HIDE DEF t, m
  <2> QED
    BY <2>2, <2>3, <2>4, <2>5, SendGrows, GrowsTransitive
<1> QED
  BY <1>2, <1>3, <1>4, <1>5

(* The timers of the session.                                              *)
LEMMA TimersGrow ==
    ASSUME NEW s \in SessionRecord
    PROVE  /\ Grows(s, stop_defibrillator(s))
           /\ Grows(s, start_defibrillator(s))
           /\ Grows(s, stop_test_request_timer(s))
           /\ Grows(s, send_post_logon_test_request(s))
           /\ Grows(s, expire_test_timer(s))
           /\ s.orphans > 0 => Grows(s, expire_orphan_timer(s))
           /\ s.posted > 0 => Grows(s, test_request_callback(s))
           /\ Grows(s, defibrillate(s))
<1>1. Grows(s, stop_defibrillator(s))
  <2> DEFINE t == stop_defibrillator(s)
  <2>1. t \in SessionRecord /\ t.out = s.out
        /\ t.incoming = s.incoming /\ t.useNext = s.useNext /\ t.outgoing = s.outgoing
    BY DEF stop_defibrillator, SessionRecord
  <2> QED
    BY <2>1, SameStream
<1>2. Grows(s, start_defibrillator(s))
  <2> DEFINE b == s.heartbeat # 0
  <2> HIDE DEF b
  <2>2. start_defibrillator(s) = [s EXCEPT !.heartbeatTimer = b]
    BY DEF start_defibrillator, b
  <2>3. b \in BOOLEAN
    BY DEF b
  <2> DEFINE t == [s EXCEPT !.heartbeatTimer = b]
  <2>4. t \in SessionRecord /\ t.out = s.out
        /\ t.incoming = s.incoming /\ t.useNext = s.useNext /\ t.outgoing = s.outgoing
    BY <2>3 DEF SessionRecord
  <2> QED
    BY <2>2, <2>4, SameStream
<1>3. Grows(s, stop_test_request_timer(s))
  <2> DEFINE t == stop_test_request_timer(s)
  <2>1. t \in SessionRecord /\ t.out = s.out
        /\ t.incoming = s.incoming /\ t.useNext = s.useNext /\ t.outgoing = s.outgoing
    BY DEF stop_test_request_timer, SessionRecord, TestTimerStates
  <2> QED
    BY <2>1, SameStream
<1>4. Grows(s, send_post_logon_test_request(s))
  <2> DEFINE n == IF s.testTimer = "armed" THEN s.orphans + 1 ELSE s.orphans
             t == [s EXCEPT !.testTimer = "armed", !.orphans = n]
  <2>1. n \in Nat
    BY FieldTypes
  <2> HIDE DEF n
  <2>2. t \in SessionRecord /\ t.out = s.out
        /\ t.incoming = s.incoming /\ t.useNext = s.useNext /\ t.outgoing = s.outgoing
    BY <2>1 DEF SessionRecord, TestTimerStates
  <2>3. send_post_logon_test_request(s) = IF s.delay = 0 THEN send_test_request(s) ELSE t
    BY DEF send_post_logon_test_request, n
  <2> HIDE DEF t
  <2> QED
    BY <2>2, <2>3, SameStream, RepliesGrow
<1>5. Grows(s, expire_test_timer(s))
  <2> DEFINE k == s.posted + 1
             t == [s EXCEPT !.testTimer = "expired", !.posted = k]
  <2>1. k \in Nat
    BY FieldTypes
  <2>2. expire_test_timer(s) = t
    BY DEF expire_test_timer
  <2> HIDE DEF k
  <2>3. t \in SessionRecord /\ t.out = s.out
        /\ t.incoming = s.incoming /\ t.useNext = s.useNext /\ t.outgoing = s.outgoing
    BY <2>1 DEF SessionRecord, TestTimerStates
  <2> HIDE DEF t
  <2> QED
    BY <2>2, <2>3, SameStream
<1>6. ASSUME s.orphans > 0 PROVE Grows(s, expire_orphan_timer(s))
  <2> DEFINE n == s.orphans - 1
             k == s.posted + 1
  <2>1. n \in Nat /\ k \in Nat
    BY <1>6, FieldTypes
  <2>2. expire_orphan_timer(s) = [s EXCEPT !.orphans = n, !.posted = k]
    BY DEF expire_orphan_timer
  <2> HIDE DEF n, k
  <2> DEFINE t == [s EXCEPT !.orphans = n, !.posted = k]
  <2>3. t \in SessionRecord /\ t.out = s.out
        /\ t.incoming = s.incoming /\ t.useNext = s.useNext /\ t.outgoing = s.outgoing
    BY <2>1 DEF SessionRecord
  <2> QED
    BY <2>2, <2>3, SameStream
<1>7. ASSUME s.posted > 0 PROVE Grows(s, test_request_callback(s))
  <2> DEFINE k == s.posted - 1
             n == IF s.testTimer = "armed" THEN s.orphans + 1 ELSE s.orphans
             t == [s EXCEPT !.posted = k, !.orphans = n, !.testTimer = "none"]
  <2>1. n \in Nat /\ k \in Nat
    BY <1>7, FieldTypes
  <2>2. test_request_callback(s) = send_test_request(t)
    BY DEF test_request_callback
  <2> HIDE DEF n, k
  <2>3. t \in SessionRecord /\ t.out = s.out
        /\ t.incoming = s.incoming /\ t.useNext = s.useNext /\ t.outgoing = s.outgoing
    BY <2>1 DEF SessionRecord, TestTimerStates
  <2> HIDE DEF t
  <2>4. Grows(s, t) /\ Grows(t, send_test_request(t))
    BY <2>3, SameStream, RepliesGrow
  <2> QED
    BY <2>2, <2>4, GrowsTransitive
<1>8. Grows(s, defibrillate(s))
  <2>1. message("Heartbeat") \in Message /\ ~message("Heartbeat").resetSeqNum
        /\ Numbered(message("Heartbeat"))
    BY MessageType DEF MessageTypes, AdminTypes, Numbered
  <2> QED
    BY <2>1, SendGrows, GrowsReflexive DEF defibrillate
<1> QED
  BY <1>1, <1>2, <1>3, <1>4, <1>5, <1>6, <1>7, <1>8

-----------------------------------------------------------------------------
(* Recovery.                                                               *)

(* A gap fill up to the next number.                                       *)
LEMMA ResendGrows ==
    ASSUME NEW s \in SessionRecord, NEW begin \in Nat
    PROVE  Grows(s, perform_resend(s, begin))
<1> DEFINE m == [message("SequenceReset") EXCEPT
                    !.seq = begin, !.gapFill = TRUE, !.possDup = TRUE,
                    !.newSeqNo = s.outgoing]
<1>1. s.outgoing \in NumericField /\ s.outgoing \in Nat
  BY FieldTypes DEF NumericField
<1>2. m \in Message /\ ~m.resetSeqNum /\ m.type = "SequenceReset"
      /\ m.newSeqNo = s.outgoing
  BY <1>1 DEF message, Message, MessageTypes, AdminTypes, NumericField
<1>3. perform_resend(s, begin) = write(s, m)
  BY DEF perform_resend, send_gap_fill, send_unnumbered, reset_for_logon, message
<1>4. ~Numbered(m)
  BY <1>2 DEF Numbered
<1> HIDE DEF m
<1> QED
  BY <1>1, <1>2, <1>3, <1>4, WriteGrows

(* A message beyond the expected number starts or extends a recovery.      *)
LEMMA HighGrows ==
    ASSUME NEW s \in SessionRecord, NEW m \in Message
    PROVE  Grows(s, on_high_sequence_number(s, m))
<1>1. m.seq \in Nat /\ m.seq \in NumericField
  BY DEF Message, NumericField
<1>2. Grows(s, request_resend(s, m.seq))
  <2> DEFINE t == [s EXCEPT !.state = "resending", !.resent = s.incoming,
                            !.target = m.seq]
             r == [message("ResendRequest") EXCEPT !.beginSeqNo = s.incoming,
                                                   !.endSeqNo = m.seq]
  <2>1. s.incoming \in Nat /\ s.incoming \in NumericField
    BY FieldTypes DEF NumericField
  <2>2. t \in SessionRecord /\ t.out = s.out
        /\ t.incoming = s.incoming /\ t.useNext = s.useNext /\ t.outgoing = s.outgoing
    BY <1>1, <2>1 DEF SessionRecord, SessionStates
  <2>3. r \in Message /\ ~r.resetSeqNum /\ r.type = "ResendRequest"
    BY <1>1, <2>1 DEF message, Message, MessageTypes, AdminTypes, NumericField
  <2>4. Numbered(r)
    BY <2>3 DEF Numbered
  <2>5. request_resend(s, m.seq) = send(t, r)
    BY DEF request_resend
  <2> HIDE DEF t, r
  <2>6. Grows(s, t) /\ Grows(t, send(t, r))
    BY <2>2, <2>3, <2>4, SameStream, SendGrows
  <2> QED
    BY <2>5, <2>6, GrowsTransitive
<1>3. Grows(s, [s EXCEPT !.target = m.seq])
  <2> DEFINE n == m.seq
             t == [s EXCEPT !.target = n]
  <2> HIDE DEF n
  <2>1. n \in Nat
    BY <1>1 DEF n
  <2>2. t \in SessionRecord /\ t.out = s.out
        /\ t.incoming = s.incoming /\ t.useNext = s.useNext /\ t.outgoing = s.outgoing
    BY <2>1 DEF SessionRecord
  <2> HIDE DEF t
  <2>3. Grows(s, t)
    BY <2>2, SameStream
  <2> QED
    BY <2>3 DEF t, n
<1> QED
  BY <1>2, <1>3, GrowsReflexive DEF on_high_sequence_number

(* The end of a recovery.                                                  *)
LEMMA CompleteGrows ==
    ASSUME NEW s \in SessionRecord
    PROVE  Grows(s, complete_resend(s))
<1>1. Grows(s, send_test_request(s)) /\ send_test_request(s) \in SessionRecord
  BY RepliesGrow DEF Grows
<1>2. Grows(s, start_defibrillator(send_test_request(s)))
  BY <1>1, TimersGrow, GrowsTransitive
<1> QED
  BY <1>2, GrowsReflexive DEF complete_resend

-----------------------------------------------------------------------------
(* Reading a message.                                                      *)

(* What a session s may become by reading m: well typed in any case; and   *)
(* unless m resets the numbering, the stream stays in order and the        *)
(* expected number stays or becomes the one m reaches.                     *)
Reads(s, m, t) ==
    /\ t \in SessionRecord /\ t.useNext = s.useNext
    /\ ~m.resetSeqNum =>
          /\ SentInOrder(s) => SentInOrder(t)
          /\ \A b \in Nat : Above(s, b) => Above(t, b)
          /\ t.incoming \in {s.incoming, Reaches(m)}

(* Growing before or after reading is reading.                             *)
LEMMA ReadsCompose ==
    ASSUME NEW s, NEW m, NEW t, NEW u
    PROVE  /\ Grows(s, t) => Reads(s, m, t)
           /\ Grows(s, t) /\ Reads(t, m, u) => Reads(s, m, u)
           /\ Reads(s, m, t) /\ Grows(t, u) => Reads(s, m, u)
BY DEF Grows, Reads

(* incoming_msg_seq_num(message.MsgSeqNum() + 1).                          *)
LEMMA AcceptedReads ==
    ASSUME NEW s \in SessionRecord, NEW m \in Message, Numbered(m)
    PROVE  Reads(s, m, Accepted(s, m))
<1> DEFINE n == m.seq + 1
           t == [s EXCEPT !.incoming = n]
<1>1. n \in Nat /\ Reaches(m) = n
  BY DEF Message, Reaches
<1>2. Accepted(s, m) = t
  BY DEF Accepted
<1> HIDE DEF n
<1>3. t \in SessionRecord /\ t.out = s.out /\ t.outgoing = s.outgoing /\ t.incoming = n
      /\ t.useNext = s.useNext
  BY <1>1 DEF SessionRecord
<1> HIDE DEF t
<1> QED
  BY <1>1, <1>2, <1>3 DEF Reads, SentInOrder, Above

(* The handlers dispatch chooses from.                                     *)
LEMMA DispatchGrows ==
    ASSUME NEW s \in SessionRecord, NEW m \in Message
    PROVE  Grows(s, dispatch(s, m))
<1>1. Grows(s, process_heartbeat(s, m))
  <2> DEFINE t == [s EXCEPT !.state = "logged_on"]
  <2>1. t \in SessionRecord /\ t.out = s.out
        /\ t.incoming = s.incoming /\ t.useNext = s.useNext /\ t.outgoing = s.outgoing
    BY DEF SessionRecord, SessionStates
  <2>2. Grows(s, start_defibrillator(t))
    <3> HIDE DEF t
    <3>1. Grows(s, t) /\ Grows(t, start_defibrillator(t))
      BY <2>1, SameStream, TimersGrow
    <3> QED
      BY <3>1, GrowsTransitive
  <2>3. process_heartbeat(s, m) \in {s, close(s), start_defibrillator(t)}
    BY DEF process_heartbeat
  <2> QED
    BY <2>2, <2>3, CloseGrows, GrowsReflexive
<1>2. Grows(s, process_test_request(s, m))
  <2> DEFINE h == [message("Heartbeat") EXCEPT !.testReqID = m.testReqID]
  <2>1. h \in Message /\ ~h.resetSeqNum /\ h.type = "Heartbeat"
    BY DEF message, Message, MessageTypes, AdminTypes, NumericField
  <2>2. Numbered(h)
    BY <2>1 DEF Numbered
  <2>3. process_test_request(s, m) \in {send_reject(s), send(s, h)}
    BY DEF process_test_request
  <2> HIDE DEF h
  <2> QED
    BY <2>1, <2>2, <2>3, SendGrows, RepliesGrow
<1>3. Grows(s, process_resend_request(s, m))
  <2> DEFINE t == stop_test_request_timer(s)
             u == perform_resend(t, m.beginSeqNo)
  <2>1. Grows(s, t) /\ t \in SessionRecord
    BY TimersGrow DEF Grows
  <2> HIDE DEF t
  <2>2. Grows(s, send_reject(t))
    BY <2>1, RepliesGrow, GrowsTransitive
  <2>3. CASE m.beginSeqNo \in Nat
    <3>1. Grows(t, u) /\ u \in SessionRecord
      BY <2>1, <2>3, ResendGrows DEF Grows
    <3> HIDE DEF u
    <3>2. Grows(s, u) /\ Grows(u, send_post_logon_test_request(u))
      BY <2>1, <3>1, TimersGrow, GrowsTransitive
    <3>3. Grows(s, send_post_logon_test_request(u))
      BY <3>2, GrowsTransitive
    <3>4. process_resend_request(s, m) \in
              {send_reject(t), t, send_post_logon_test_request(u)}
      BY DEF process_resend_request, t, u
    <3> QED
      BY <2>1, <2>2, <3>3, <3>4
  <2>4. CASE m.beginSeqNo \notin Nat
    <3>1. m.beginSeqNo \in {Missing, NotANumber}
      BY <2>4 DEF Message, NumericField
    <3>2. process_resend_request(s, m) \in {send_reject(t), t}
      BY <3>1 DEF process_resend_request, t, Missing, NotANumber
    <3> QED
      BY <2>1, <2>2, <3>2
  <2> QED
    BY <2>3, <2>4
<1>4. Grows(s, process_logout(s))
  BY CloseGrows DEF process_logout
<1> QED
  BY <1>1, <1>2, <1>3, <1>4, GrowsReflexive DEF dispatch

(* Messages other than Logon and SequenceReset.                            *)
LEMMA NumberedReads ==
    ASSUME NEW s \in SessionRecord, NEW m \in Message, Numbered(m)
    PROVE  Reads(s, m, process_numbered(s, m))
<1> DEFINE a == Accepted(s, m)
<1>1. Reads(s, m, a) /\ a \in SessionRecord
  BY AcceptedReads DEF Reads
<1> HIDE DEF a
<1>2. Reads(s, m, dispatch(a, m))
  BY <1>1, DispatchGrows, ReadsCompose
<1>3. Reads(s, m, on_high_sequence_number(s, m)) /\ Reads(s, m, send_logout(s))
  BY HighGrows, RepliesGrow, ReadsCompose
<1> QED
  BY <1>2, <1>3 DEF process_numbered, on_low_sequence_number, a

(* SequenceReset.                                                          *)
LEMMA SequenceResetReads ==
    ASSUME NEW s \in SessionRecord, NEW m \in Message, m.type = "SequenceReset"
    PROVE  Reads(s, m, process_sequence_reset(s, m))
<1>1. Reads(s, m, send_reject(s)) /\ Reads(s, m, send_logout(s))
      /\ Reads(s, m, on_high_sequence_number(s, m))
  BY HighGrows, RepliesGrow, ReadsCompose
<1>2. CASE m.newSeqNo <= s.incoming
  <2>1. m.newSeqNo \in Int /\ s.incoming \in Int
    BY FieldTypes DEF Message, NumericField, Missing, NotANumber
  <2>2. process_sequence_reset(s, m) = send_reject(s)
    BY <1>2, <2>1 DEF process_sequence_reset
  <2> QED
    BY <1>1, <2>2
<1>3. CASE ~(m.newSeqNo <= s.incoming)
  <2> DEFINE n == m.newSeqNo
             t == [s EXCEPT !.resent = n, !.incoming = n]
             u == [s EXCEPT !.resent = n]
  <2>1. n \in Nat /\ Reaches(m) = n /\ m.newSeqNo > s.incoming
    BY <1>3, FieldTypes DEF Message, NumericField, Missing, NotANumber, Reaches, Numbered
  <2> HIDE DEF n
  <2>2. /\ t \in SessionRecord /\ t.out = s.out /\ t.outgoing = s.outgoing
        /\ t.incoming = n /\ t.useNext = s.useNext
        /\ u \in SessionRecord /\ u.out = s.out /\ u.outgoing = s.outgoing
        /\ u.incoming = s.incoming /\ u.useNext = s.useNext
    BY <2>1 DEF SessionRecord
  <2>3. process_sequence_reset(s, m) \in
            {complete_resend(t), complete_resend(u), send_reject(s),
             send_logout(s), on_high_sequence_number(s, m)}
    BY <1>3 DEF process_sequence_reset, process_gap_fill, on_low_sequence_number, n
  <2> HIDE DEF t, u
  <2>4. Reads(s, m, t) /\ Reads(s, m, u)
    BY <2>1, <2>2 DEF Reads, SentInOrder, Above
  <2>5. Reads(s, m, complete_resend(t)) /\ Reads(s, m, complete_resend(u))
    BY <2>2, <2>4, CompleteGrows, ReadsCompose
  <2> QED
    BY <1>1, <2>3, <2>5
<1> QED
  BY <1>2, <1>3

(* Logon.                                                                  *)
LEMMA LogonReads ==
    ASSUME NEW s \in SessionRecord, NEW m \in Message, m.type = "Logon"
    PROVE  Reads(s, m, process_logon(s, m))
<1> DEFINE r == [s EXCEPT !.heartbeat = m.heartBtInt, !.logonReceived = TRUE]
<1>1. Numbered(m) /\ m.heartBtInt \in Int /\ m.nextExpected \in Int /\ m.seq \in Nat
  BY DEF Numbered, Message, NumericField, Missing, NotANumber
<1>2. Reads(s, m, send_logout(send_reject(s)))
  <2>1. Grows(s, send_reject(s)) /\ send_reject(s) \in SessionRecord
    BY RepliesGrow DEF Grows
  <2> QED
    BY <2>1, RepliesGrow, GrowsTransitive, ReadsCompose
<1>3. CASE m.heartBtInt < 0
  <2>1. process_logon(s, m) = send_logout(send_reject(s))
    BY <1>1, <1>3 DEF process_logon
  <2> QED
    BY <1>2, <2>1
<1>4. CASE m.heartBtInt >= 0
  <2>1. /\ r \in SessionRecord /\ r.out = s.out /\ r.outgoing = s.outgoing
        /\ r.incoming = s.incoming /\ r.useNext = s.useNext
    <3>1. m.heartBtInt \in Nat
      BY <1>1, <1>4
    <3> QED
      BY <3>1 DEF SessionRecord
  <2>2. \/ process_logon(s, m) \in {process_next_expected_logon(r, m),
                                     process_numbered_logon(r, m)}
        \/ (m.resetSeqNum /\ process_logon(s, m) = process_reset_logon(r, m))
    <3> DEFINE l == process_logon(s, m)
    <3>1. ~(m.heartBtInt < 0)
      BY <1>1, <1>4
    <3>2. s.useNext \in BOOLEAN /\ m.resetSeqNum \in BOOLEAN
      BY DEF SessionRecord, Message
    <3>3. CASE s.useNext
      <4>1. l = process_next_expected_logon(r, m)
        BY <1>4, <3>1, <3>3 DEF process_logon
      <4> QED
        BY <4>1
    <3>4. CASE ~s.useNext /\ m.resetSeqNum
      <4>1. l = process_reset_logon(r, m)
        BY <1>4, <3>1, <3>4 DEF process_logon
      <4> QED
        BY <3>4, <4>1
    <3>5. CASE ~s.useNext /\ ~m.resetSeqNum
      <4>1. l = process_numbered_logon(r, m)
        BY <1>4, <3>1, <3>5 DEF process_logon
      <4> QED
        BY <4>1
    <3> QED
      BY <3>3, <3>4, <3>5
  <2> HIDE DEF r
  <2>3. Grows(s, r)
    BY <2>1, SameStream
  <2>4. ASSUME NEW x \in SessionRecord
        PROVE  Reads(x, m, Accepted(send_post_logon_test_request(x), m))
    <3>1. /\ Grows(x, send_post_logon_test_request(x))
          /\ send_post_logon_test_request(x) \in SessionRecord
      BY TimersGrow DEF Grows
    <3> QED
      BY <1>1, <3>1, AcceptedReads, ReadsCompose
  <2>5. ASSUME NEW x \in SessionRecord
        PROVE  Grows(x, acceptor_send_logon(x, FALSE))
    BY RepliesGrow, GrowsReflexive DEF acceptor_send_logon
  <2>6. Reads(r, m, process_next_expected_logon(r, m))
    <3> DEFINE g == [r EXCEPT !.state = "resending"]
               d == IF m.nextExpected + 1 < r.outgoing
                    THEN perform_resend(g, m.nextExpected) ELSE r
    <3>1. CASE m.nextExpected < 0 \/ m.nextExpected > r.outgoing
      <4>1. process_next_expected_logon(r, m) = send_logout(r)
        BY <3>1 DEF process_next_expected_logon
      <4> QED
        BY <2>1, <4>1, RepliesGrow, ReadsCompose
    <3>2. CASE ~(m.nextExpected < 0 \/ m.nextExpected > r.outgoing)
      <4>1. g \in SessionRecord /\ g.out = r.out /\ g.incoming = r.incoming
        /\ g.useNext = r.useNext
            /\ g.outgoing = r.outgoing
        BY <2>1 DEF SessionRecord, SessionStates
      <4>2. m.nextExpected \in Nat
        BY <1>1, <3>2
      <4>3. Grows(r, g) /\ Grows(g, perform_resend(g, m.nextExpected))
        <5> HIDE DEF g
        <5> QED
          BY <2>1, <4>1, <4>2, SameStream, ResendGrows
      <4>4. Grows(r, d) /\ d \in SessionRecord
        <5> HIDE DEF g
        <5>1. Grows(r, perform_resend(g, m.nextExpected))
          BY <4>3, GrowsTransitive
        <5> QED
          BY <2>1, <5>1, GrowsReflexive DEF Grows
      <4>5. process_next_expected_logon(r, m) =
              Accepted(send_post_logon_test_request(acceptor_send_logon(d, FALSE)), m)
        BY <3>2 DEF process_next_expected_logon
      <4> DEFINE e == acceptor_send_logon(d, FALSE)
      <4> HIDE DEF d
      <4>6. Grows(r, e) /\ e \in SessionRecord
        BY <2>5, <4>4, GrowsTransitive DEF Grows
      <4> HIDE DEF e
      <4> QED
        BY <2>4, <4>5, <4>6, ReadsCompose DEF e
    <3> QED
      BY <3>1, <3>2
  <2>7. Reads(r, m, process_numbered_logon(r, m))
    <3> DEFINE e == acceptor_send_logon(r, FALSE)
    <3>1. Grows(r, e) /\ e \in SessionRecord
      BY <2>1, <2>5 DEF Grows
    <3>2. process_numbered_logon(r, m) \in
             {send_logout(r), on_high_sequence_number(e, m),
              Accepted(send_post_logon_test_request(e), m)}
      BY DEF process_numbered_logon, on_low_sequence_number
    <3> HIDE DEF e
    <3>3. Reads(r, m, send_logout(r))
      BY <2>1, RepliesGrow, ReadsCompose
    <3>4. Reads(r, m, on_high_sequence_number(e, m))
      BY <3>1, HighGrows, GrowsTransitive, ReadsCompose
    <3>5. Reads(r, m, Accepted(send_post_logon_test_request(e), m))
      BY <2>4, <3>1, ReadsCompose
    <3> QED
      BY <3>2, <3>3, <3>4, <3>5
  <2>8. ASSUME m.resetSeqNum
        PROVE  /\ process_reset_logon(r, m) \in SessionRecord
               /\ process_reset_logon(r, m).useNext = s.useNext
    <3> DEFINE z == reset(r)
               l == [message("Logon") EXCEPT
                       !.heartBtInt = z.heartbeat, !.resetSeqNum = TRUE,
                       !.nextExpected = IF z.useNext THEN z.incoming ELSE Missing]
    <3>1. z \in SessionRecord /\ z.useNext = s.useNext
      BY <2>1 DEF reset, stop_defibrillator, SessionRecord, SessionStates
    <3> HIDE DEF z
    <3>2. l \in Message
      <4> DEFINE next == IF z.useNext THEN z.incoming ELSE Missing
      <4>1. next \in NumericField /\ z.heartbeat \in NumericField
        BY <3>1, FieldTypes DEF NumericField
      <4> HIDE DEF next
      <4>2. [message("Logon") EXCEPT !.heartBtInt = z.heartbeat,
                                     !.resetSeqNum = TRUE,
                                     !.nextExpected = next] \in Message
        BY <4>1 DEF message, Message, MessageTypes, AdminTypes, NumericField
      <4> QED
        BY <4>2 DEF next
    <3>3. send_logon(z, TRUE) \in SessionRecord /\ send_logon(z, TRUE).useNext = s.useNext
      <4>1. send_logon(z, TRUE) = send(z, l)
        BY DEF send_logon
      <4> HIDE DEF l
      <4> QED
        BY <3>1, <3>2, <4>1, SendType
    <3>4. /\ send_post_logon_test_request(send_logon(z, TRUE)) \in SessionRecord
          /\ send_post_logon_test_request(send_logon(z, TRUE)).useNext = s.useNext
          /\ send_test_request(r) \in SessionRecord
          /\ send_test_request(r).useNext = s.useNext
      BY <2>1, <3>3, TimersGrow, RepliesGrow DEF Grows
    <3>5. process_reset_logon(r, m) \in
             {r, Accepted(send_test_request(r), m),
              Accepted(send_post_logon_test_request(send_logon(z, TRUE)), m)}
      BY DEF process_reset_logon, z
    <3> QED
      BY <1>1, <2>1, <3>4, <3>5, AcceptedReads DEF Reads
  <2> QED
    BY <2>2, <2>3, <2>6, <2>7, <2>8, ReadsCompose DEF Reads
<1> QED
  BY <1>1, <1>3, <1>4

(* session::on_message_read, whatever the peer sent.                       *)
LEMMA MessageReads ==
    ASSUME NEW s \in SessionRecord, NEW m \in Message, m.type # "Close"
    PROVE  Reads(s, m, on_message_read(s, m))
<1>1. Grows(s, send_reject(s)) /\ send_reject(s) \in SessionRecord
  BY RepliesGrow DEF Grows
<1>2. Reads(s, m, close(send_reject(s))) /\ Reads(s, m, send_logout(send_reject(s)))
  BY <1>1, CloseGrows, RepliesGrow, GrowsTransitive, ReadsCompose
<1>3. Reads(s, m, s)
  BY GrowsReflexive, ReadsCompose
<1>4. m.type = "SequenceReset" => Reads(s, m, process_sequence_reset(s, m))
  BY SequenceResetReads
<1>5. m.type = "Logon" => Reads(s, m, process_logon(s, m))
  BY LogonReads
<1>6. m.type # "SequenceReset" => Reads(s, m, process_numbered(s, m))
  BY NumberedReads DEF Numbered
<1>7. \/ on_message_read(s, m) \in {close(send_reject(s)), send_logout(send_reject(s)), s}
      \/ m.type = "SequenceReset" /\ on_message_read(s, m) = process_sequence_reset(s, m)
      \/ m.type = "Logon" /\ on_message_read(s, m) = process_logon(s, m)
      \/ m.type # "SequenceReset" /\ on_message_read(s, m) = process_numbered(s, m)
  BY DEF on_message_read, is_admin, AdminTypes
<1> QED
  BY <1>2, <1>3, <1>4, <1>5, <1>6, <1>7

-----------------------------------------------------------------------------
(* The application's calls.                                                *)

(* session::open.                                                          *)
LEMMA OpenGrows ==
    ASSUME NEW s \in SessionRecord
    PROVE  Grows(s, open(s))
<1> DEFINE r == [s EXCEPT !.readerOpen = TRUE]
           l == [r EXCEPT !.state = "logging_on"]
<1>1. /\ r \in SessionRecord /\ r.out = s.out
      /\ r.incoming = s.incoming /\ r.useNext = s.useNext /\ r.outgoing = s.outgoing
  BY DEF SessionRecord
<1>2. /\ l \in SessionRecord /\ l.out = r.out
      /\ l.incoming = r.incoming /\ l.useNext = r.useNext /\ l.outgoing = r.outgoing
  <2> HIDE DEF r
  <2> QED
    BY <1>1 DEF SessionRecord, SessionStates
<1>3. open(s) \in {send_logon(l, FALSE), l, r}
  BY DEF open, logon
<1> HIDE DEF r, l
<1>4. Grows(s, r) /\ Grows(r, l)
  BY <1>1, <1>2, SameStream
<1>5. Grows(s, l) /\ Grows(l, send_logon(l, FALSE))
  BY <1>2, <1>4, GrowsTransitive, RepliesGrow
<1> QED
  BY <1>3, <1>4, <1>5, GrowsTransitive

(* session::send of an application message, and one that cannot be encoded. *)
LEMMA SendsGrow ==
    ASSUME NEW s \in SessionRecord
    PROVE  /\ Grows(s, send(s, message("App")))
           /\ Grows(s, send_fails(s))
<1>1. Grows(s, send(s, message("App")))
  <2>1. message("App") \in Message /\ ~message("App").resetSeqNum
        /\ Numbered(message("App"))
    BY MessageType DEF MessageTypes, Numbered
  <2> QED
    BY <2>1, SendGrows
<1>2. Grows(s, send_fails(s))
  <2> DEFINE n == s.outgoing + 1
             t == [s EXCEPT !.outgoing = n]
  <2>1. n \in Nat /\ s.outgoing \in Nat /\ s.outgoing <= n
        /\ s.out \in Seq(Message)
    BY FieldTypes
  <2>2. send_fails(s) = t
    BY DEF send_fails
  <2> HIDE DEF n
  <2>3. /\ t \in SessionRecord /\ t.out = s.out
        /\ t.incoming = s.incoming /\ t.useNext = s.useNext /\ t.outgoing = n
    BY <2>1, Updates DEF SessionRecord
  <2> HIDE DEF t
  <2>4. \A b \in Nat : Above(s, b) => Above(t, b)
    BY <2>1, <2>3 DEF Above
  <2>5. ASSUME SentInOrder(s) PROVE SentInOrder(t)
    <3>1. ASSUME NEW i \in 1..Len(s.out) PROVE Reaches(s.out[i]) \in Int
      <4>1. s.out[i] \in Message
        BY <2>1
      <4> QED
        BY <4>1 DEF Reaches, Message, NumericField, Missing, NotANumber
    <3>2. \A i \in 1..Len(s.out) : Reaches(s.out[i]) <= n
      BY <2>1, <2>5, <3>1 DEF SentInOrder
    <3> QED
      BY <2>3, <2>5, <3>2 DEF SentInOrder
  <2> QED
    BY <2>2, <2>3, <2>4, <2>5 DEF Grows
<1> QED
  BY <1>1, <1>2

(* session::send of a Logon that resets the numbering.                     *)
LEMMA ResetLogonType ==
    ASSUME NEW s \in SessionRecord
    PROVE  LET u == send(s, [message("Logon") EXCEPT !.heartBtInt = Heartbeat,
                                                     !.resetSeqNum = TRUE])
           IN  u \in SessionRecord /\ u.useNext = s.useNext /\ u.incoming = 1
<1> DEFINE l == [message("Logon") EXCEPT !.heartBtInt = Heartbeat,
                                         !.resetSeqNum = TRUE]
<1>1. l \in Message
  BY PairAssumption DEF message, Message, MessageTypes, AdminTypes, NumericField
<1>2. send(s, l).incoming = 1
  <2>1. l.type = "Logon" /\ l.resetSeqNum
    BY DEF message
  <2> HIDE DEF l
  <2> QED
    BY <2>1 DEF send, reset_for_logon, write, SessionRecord
<1> HIDE DEF l
<1>3. send(s, l) \in SessionRecord /\ send(s, l).useNext = s.useNext
  BY <1>1, SendType
<1> QED
  BY <1>2, <1>3 DEF l

-----------------------------------------------------------------------------
(* The steps of the pair.                                                  *)

(* A step in which only p moves, and grows.                                *)
Alone(p) ==
    /\ Step(p, sessions'[p])
    /\ Grows(sessions[p], sessions'[p])

(* A step in which p reads the first item of its stream, and handles it or *)
(* only grows.                                                             *)
Reading(p) ==
    /\ Stream(p) # <<>>
    /\ StepAndRead(p, sessions'[p])
    /\ Reads(sessions[p], Head(Stream(p)), sessions'[p])
    /\ \/ Grows(sessions[p], sessions'[p])
       \/ /\ Head(Stream(p)).type # "Close"
          /\ sessions'[p] = on_message_read(sessions[p], Head(Stream(p)))

(* A step in which the application of p restarts the numbering.            *)
Resetting(p) ==
    /\ resets < scenario.resets
    /\ Step(p, sessions'[p])
    /\ sessions'[p] \in SessionRecord
    /\ sessions'[p].useNext = sessions[p].useNext
    /\ sessions'[p].incoming = 1

(* Every step of the pair is one of these, or stutters.                    *)
LEMMA Steps ==
    ASSUME TypeOK, [Next]_vars
    PROVE  /\ \/ \E p \in Peers : Alone(p) \/ Reading(p) \/ Resetting(p)
              \/ UNCHANGED sessions
           /\ resets' \in Nat /\ failures' \in Nat /\ scenario' = scenario
<1> DEFINE Goal == /\ \/ \E p \in Peers : Alone(p) \/ Reading(p) \/ Resetting(p)
                      \/ UNCHANGED sessions
                   /\ resets' \in Nat /\ failures' \in Nat /\ scenario' = scenario
<1>1. resets \in Nat /\ failures \in Nat
  BY DEF TypeOK
<1>2. CASE Idle \/ UNCHANGED vars
  BY <1>1, <1>2 DEF Idle, vars
<1>3. ASSUME NEW p \in Peers,
             \/ Open(p) \/ Close(p) \/ SendApplicationMessage(p) \/ SendResetLogon(p)
             \/ FailToSend(p)
             \/ Receive(p) \/ ReceiveClose(p) \/ Drop(p)
             \/ HeartbeatTimer(p)
             \/ TestTimerExpires(p) \/ OrphanTimerExpires(p) \/ TestRequestCallback(p)
      PROVE  Goal
  <2>1. sessions \in [Peers -> SessionRecord] /\ sessions[p] \in SessionRecord
        /\ Other(p) \in Peers /\ Other(p) # p /\ sessions[Other(p)] \in SessionRecord
    BY DEF TypeOK, Other, Peers, Behaviours
  <2>2. ASSUME NEW t, Step(p, t)
        PROVE  sessions'[p] = t /\ Step(p, sessions'[p])
    BY <2>1, <2>2 DEF Step
  <2>3. ASSUME NEW t, StepAndRead(p, t)
        PROVE  sessions'[p] = t /\ StepAndRead(p, sessions'[p])
    BY <2>1, <2>3 DEF StepAndRead
  <2>4. ASSUME NEW t, Step(p, t), Grows(sessions[p], t)
        PROVE  Alone(p)
    BY <2>2, <2>4 DEF Alone
  <2>5. Stream(p) # <<>> => Head(Stream(p)) \in Message
    BY <2>1, FieldTypes DEF Stream
  <2>6. CASE Open(p)
    BY <1>1, <2>1, <2>4, <2>6, OpenGrows DEF Open
  <2>7. CASE Close(p)
    BY <1>1, <2>1, <2>4, <2>7, CloseGrows DEF Close
  <2>8. CASE SendApplicationMessage(p)
    BY <1>1, <2>1, <2>4, <2>8, SendsGrow DEF SendApplicationMessage
  <2>9. CASE FailToSend(p)
    BY <1>1, <2>1, <2>4, <2>9, SendsGrow DEF FailToSend
  <2>10. CASE SendResetLogon(p)
    <3>1. Resetting(p)
      BY <2>1, <2>2, <2>10, ResetLogonType DEF SendResetLogon, Resetting
    <3> QED
      BY <1>1, <2>10, <3>1 DEF SendResetLogon
  <2>11. CASE Receive(p)
    <3>1. Reading(p)
      BY <2>1, <2>3, <2>5, <2>11, MessageReads DEF Receive, Reading
    <3> QED
      BY <1>1, <2>11, <3>1 DEF Receive
  <2>12. CASE ReceiveClose(p)
    <3>1. Reading(p)
      BY <2>1, <2>3, <2>5, <2>12, CloseGrows, ReadsCompose DEF ReceiveClose, Reading
    <3> QED
      BY <1>1, <2>12, <3>1 DEF ReceiveClose
  <2>13. CASE Drop(p)
    <3>1. Reading(p)
      BY <2>1, <2>3, <2>5, <2>13, GrowsReflexive, ReadsCompose DEF Drop, Reading
    <3> QED
      BY <1>1, <2>13, <3>1 DEF Drop
  <2>14. CASE HeartbeatTimer(p)
    BY <1>1, <2>1, <2>4, <2>14, TimersGrow DEF HeartbeatTimer
  <2>15. CASE TestTimerExpires(p)
    BY <1>1, <2>1, <2>4, <2>15, TimersGrow DEF TestTimerExpires
  <2>16. CASE OrphanTimerExpires(p)
    BY <1>1, <2>1, <2>4, <2>16, TimersGrow DEF OrphanTimerExpires
  <2>17. CASE TestRequestCallback(p)
    BY <1>1, <2>1, <2>4, <2>17, TimersGrow DEF TestRequestCallback
  <2> QED
    BY <1>3, <2>6, <2>7, <2>8, <2>9, <2>10, <2>11, <2>12, <2>13, <2>14, <2>15,
       <2>16, <2>17
<1> QED
  BY <1>2, <1>3 DEF Next

-----------------------------------------------------------------------------
(* Type correctness: whatever the two sessions do to each other, every     *)
(* record of a session stays well typed; in particular no counter of       *)
(* timers goes below zero and every message in a stream is a message.      *)
THEOREM TypeCorrect == Spec => []TypeOK
<1>1. Init => TypeOK
  <2> SUFFICES ASSUME Init PROVE TypeOK
    OBVIOUS
  <2> DEFINE set == scenario.settings
  <2>1. /\ scenario \in Scenario
        /\ sessions = [p \in Peers |->
                          session(p, Heartbeat, set[p].delay, set[p].useNext,
                                  set[p].incoming, set[p].outgoing)]
    BY PairAssumption DEF Init
  <2>2. ASSUME NEW p \in Peers
        PROVE  session(p, Heartbeat, set[p].delay, set[p].useNext,
                       set[p].incoming, set[p].outgoing) \in SessionRecord
    <3>1. set[p] \in Settings
      BY <2>1 DEF Scenario
    <3>2. set[p].incoming \in Nat /\ set[p].outgoing \in Nat
          /\ set[p].delay \in Nat /\ set[p].useNext \in BOOLEAN
      BY <3>1 DEF Settings
    <3>3. <<>> \in Seq(Message)
      OBVIOUS
    <3> QED
      BY <2>2, <3>2, <3>3, PairAssumption
      DEF session, SessionRecord, Peers, SessionStates, NumericField, Missing,
          TestTimerStates
  <2> QED
    BY <2>1, <2>2 DEF TypeOK, Init
<1>2. TypeOK /\ [Next]_vars => TypeOK'
  <2> SUFFICES ASSUME TypeOK, [Next]_vars PROVE TypeOK'
    OBVIOUS
  <2>1. sessions \in [Peers -> SessionRecord]
    BY DEF TypeOK
  <2>2. ASSUME NEW p \in Peers, Alone(p) \/ Reading(p) \/ Resetting(p)
        PROVE  sessions' \in [Peers -> SessionRecord]
    <3>1. sessions'[p] \in SessionRecord /\ Other(p) \in Peers
      BY <2>2 DEF Alone, Reading, Resetting, Grows, Reads, Other, Peers, Behaviours
    <3>2. CASE Step(p, sessions'[p])
      BY <2>1, <3>1, <3>2 DEF Step
    <3>3. CASE Reading(p)
      <4>1. [sessions[Other(p)] EXCEPT !.out = Tail(Stream(p))] \in SessionRecord
        BY <2>1, <3>1, <3>3, TailInOrder DEF Reading, Stream
      <4> QED
        BY <2>1, <3>1, <3>3, <4>1 DEF Reading, StepAndRead
    <3> QED
      BY <2>2, <3>2, <3>3 DEF Alone, Resetting
  <2> QED
    BY <2>1, <2>2, Steps DEF TypeOK
<1> QED
  BY <1>1, <1>2, PTL DEF Spec

-----------------------------------------------------------------------------
(* The parts of StreamsInOrder, by session.                                *)
LEMMA StreamsInOrderParts ==
    StreamsInOrder <=>
        (scenario.resets = 0 =>
            \A p \in Peers : /\ SentInOrder(sessions[p])
                             /\ Above(sessions[Other(p)], sessions[p].incoming))
BY DEF StreamsInOrder, Above, Stream

(* What p expects after reading the first item of its stream is not above  *)
(* the rest of the stream.                                                 *)
LEMMA TailAbove ==
    ASSUME NEW s \in SessionRecord, s.out # <<>>, SentInOrder(s),
           NEW b \in Nat, Above(s, b)
    PROVE  LET t == [s EXCEPT !.out = Tail(s.out)]
           IN  Above(t, b) /\ Above(t, Reaches(Head(s.out)))
<1> DEFINE t == [s EXCEPT !.out = Tail(s.out)]
<1>1. /\ t.outgoing = s.outgoing
      /\ Head(s.out) = s.out[1]
      /\ Len(t.out) \in Nat /\ Len(s.out) = Len(t.out) + 1
      /\ \A i \in 1..Len(t.out) : t.out[i] = s.out[i + 1]
  BY TailInOrder
<1> HIDE DEF t
<1>2. \A i \in 1..Len(t.out) :
         t.out[i] = s.out[i + 1] /\ i + 1 \in 1..Len(s.out) /\ i + 1 \in 2..Len(s.out)
  BY <1>1
<1>3. Above(t, b)
  BY <1>1, <1>2 DEF Above
<1>4. 1 \in 1..Len(s.out)
  BY <1>1
<1>5. /\ Reaches(s.out[1]) <= s.outgoing
      /\ \A j \in (1 + 1)..Len(s.out) :
            Numbered(s.out[j]) => Reaches(s.out[1]) <= s.out[j].seq
  BY <1>4 DEF SentInOrder
<1>6. Above(t, Reaches(s.out[1]))
  BY <1>1, <1>2, <1>5 DEF Above
<1> QED
  BY <1>1, <1>3, <1>6 DEF t

(* As long as nobody resets, and if neither side starts ahead of the       *)
(* other, the streams stay in order: sequence_number_is_low, and the       *)
(* Logout it sends, is never reached by a numbered message, for every      *)
(* delay, number of failed writes, closing and interleaving.               *)
THEOREM StreamsStayInOrder ==
    ASSUME StartsBehind
    PROVE  Spec => []StreamsInOrder
<1>1. Init => StreamsInOrder
  <2> SUFFICES ASSUME Init, NEW p \in Peers
               PROVE  /\ SentInOrder(sessions[p])
                      /\ Above(sessions[Other(p)], sessions[p].incoming)
    BY StreamsInOrderParts
  <2> DEFINE set == scenario.settings
  <2>1. /\ scenario \in Scenarios
        /\ sessions = [q \in Peers |->
                          session(q, Heartbeat, set[q].delay, set[q].useNext,
                                  set[q].incoming, set[q].outgoing)]
    BY DEF Init
  <2>2. ASSUME NEW q \in Peers
        PROVE  /\ sessions[q].out = <<>>
               /\ sessions[q].incoming = set[q].incoming
               /\ sessions[q].outgoing = set[q].outgoing
    BY <2>1 DEF session
  <2>3. Other(p) \in Peers /\ set[p].incoming <= set[Other(p)].outgoing
    BY <2>1 DEF Other, Peers, Behaviours, StartsBehind
  <2> QED
    BY <2>2, <2>3 DEF SentInOrder, Above
<1>2. TypeOK /\ StreamsInOrder /\ [Next]_vars => StreamsInOrder'
  <2> SUFFICES ASSUME TypeOK, StreamsInOrder, [Next]_vars, scenario'.resets = 0
               PROVE  StreamsInOrder'
    BY DEF StreamsInOrder
  <2>0. scenario' = scenario /\ scenario.resets = 0
    BY Steps
  <2>1. \A p \in Peers : /\ SentInOrder(sessions[p])
                         /\ Above(sessions[Other(p)], sessions[p].incoming)
    BY <2>0, StreamsInOrderParts
  <2>2. sessions \in [Peers -> SessionRecord] /\ resets \in Nat
    BY DEF TypeOK
  <2>3. StreamsInOrder' <=> \A p \in Peers :
                               /\ SentInOrder(sessions'[p])
                               /\ Above(sessions'[Other(p)], sessions'[p].incoming)
    BY <2>0 DEF StreamsInOrder, Above, Stream, SentInOrder, Reaches, Numbered
  <2>4. CASE UNCHANGED sessions
    BY <2>1, <2>3, <2>4
  <2>5. ASSUME NEW p \in Peers, Alone(p) \/ Reading(p) \/ Resetting(p)
        PROVE  StreamsInOrder'
    <3> DEFINE q == Other(p)
    <3>1. /\ q \in Peers /\ q # p /\ Other(q) = p /\ Peers = {p, q}
          /\ sessions[p] \in SessionRecord /\ sessions[q] \in SessionRecord
      BY <2>2 DEF Other, Peers, Behaviours
    <3>2. sessions[p].incoming \in Nat /\ sessions[q].incoming \in Nat
      BY <3>1, FieldTypes
    <3>3. SUFFICES /\ SentInOrder(sessions'[p]) /\ SentInOrder(sessions'[q])
                   /\ Above(sessions'[q], sessions'[p].incoming)
                   /\ Above(sessions'[p], sessions'[q].incoming)
      BY <2>3, <3>1, <3>3
    <3>4. CASE Alone(p)
      <4>1. sessions'[q] = sessions[q] /\ Grows(sessions[p], sessions'[p])
        BY <2>2, <3>1, <3>4 DEF Alone, Step
      <4> QED
        BY <2>1, <3>1, <3>2, <4>1 DEF Grows
    <3>5. CASE Reading(p)
      <4> DEFINE m == Head(sessions[q].out)
                 r == [sessions[q] EXCEPT !.out = Tail(sessions[q].out)]
      <4>1. /\ sessions[q].out # <<>>
            /\ sessions'[q] = r
            /\ Reads(sessions[p], m, sessions'[p])
        BY <2>2, <3>1, <3>5 DEF Reading, StepAndRead, Stream
      <4>2. ~m.resetSeqNum
        BY <2>1, <3>1, <4>1, TailInOrder DEF SentInOrder
      <4>3. SentInOrder(r) /\ r.incoming = sessions[q].incoming
        BY <2>1, <3>1, <4>1, TailInOrder
      <4>4. Above(r, sessions[p].incoming) /\ Above(r, Reaches(m))
        BY <2>1, <3>1, <3>2, <4>1, TailAbove
      <4> HIDE DEF m, r
      <4>5. /\ SentInOrder(sessions'[p])
            /\ Above(sessions'[p], sessions[q].incoming)
            /\ sessions'[p].incoming \in {sessions[p].incoming, Reaches(m)}
        BY <2>1, <3>1, <3>2, <4>1, <4>2 DEF Reads
      <4> QED
        BY <4>1, <4>3, <4>4, <4>5
    <3>6. CASE Resetting(p)
      BY <2>0, <2>2, <3>6 DEF Resetting
    <3> QED
      BY <2>5, <3>4, <3>5, <3>6
  <2> QED
    BY <2>4, <2>5, Steps
<1> QED
  BY <1>1, <1>2, TypeCorrect, PTL DEF Spec
=============================================================================
