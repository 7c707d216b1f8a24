------------------------------ MODULE Session ------------------------------
(***************************************************************************)
(* The FIX session of libcrocofix (session.cpp): its state as one record   *)
(* and every member function that changes it as an operator from records   *)
(* to records.  The modules that put sessions into an environment          *)
(* (SessionEndpoint, SessionPair) keep these records in variables and make  *)
(* one action of every entry point: open, close, send, the reader's        *)
(* message_read callback and the two timer callbacks.                      *)
(*                                                                         *)
(* The record's field out is the stream the session has written and its    *)
(* peer has not read yet, in order.  The wording of errors, the log        *)
(* signals, timestamps and the fields no handler reads are left out.       *)
(***************************************************************************)
EXTENDS Integers, Sequences

(* A numeric field of a message that is absent, and one std::stoi refuses. *)
Missing == -1
NotANumber == -2

NumericField == Nat \cup {Missing, NotANumber}

SessionStates == {"disconnected", "connected", "logging_on", "resending",
                  "logged_on", "resetting"}

Behaviours == {"initiator", "acceptor"}

AdminTypes == {"Logon", "Logout", "Heartbeat", "TestRequest", "ResendRequest",
               "SequenceReset", "Reject", "XMLnonFIX"}

(* "App" stands for every message type that is not an admin one; "Close"   *)
(* is no message: it is the end of the stream that the peer's reader sees  *)
(* once this side has closed its writer.                                   *)
MessageTypes == AdminTypes \cup {"App", "Close"}

(* wellFormed: CheckSum, BodyLength, BeginString and the CompIDs are the   *)
(* expected ones.  seq: MsgSeqNum.                                         *)
Message == [type : MessageTypes, seq : Nat, wellFormed : BOOLEAN,
            possDup : BOOLEAN, gapFill : BOOLEAN, resetSeqNum : BOOLEAN,
            testReqID : NumericField, beginSeqNo : NumericField,
            endSeqNo : NumericField, newSeqNo : NumericField,
            nextExpected : NumericField, heartBtInt : NumericField]

message(type) ==
    [type |-> type, seq |-> 0, wellFormed |-> TRUE,
     possDup |-> FALSE, gapFill |-> FALSE, resetSeqNum |-> FALSE,
     testReqID |-> Missing, beginSeqNo |-> Missing, endSeqNo |-> Missing,
     newSeqNo |-> Missing, nextExpected |-> Missing, heartBtInt |-> Missing]

is_admin(m) == m.type \in AdminTypes

(***************************************************************************)
(* The one-shot test request timer.  testTimer is what the session's       *)
(* m_test_request_timer_token refers to: "none" (no token), "armed" (a     *)
(* timer that is still running) or "expired" (a timer whose callback is    *)
(* posted).  orphans counts the running timers no token refers to any      *)
(* more, posted the callbacks the scheduler has queued and not run yet.    *)
(***************************************************************************)
TestTimerStates == {"none", "armed", "expired"}

SessionRecord ==
    [behaviour : Behaviours, heartbeat : Nat, delay : Nat, useNext : BOOLEAN,
     state : SessionStates, logonReceived : BOOLEAN,
     expectedTestReq : NumericField, nextTestReq : Nat,
     incoming : Nat, outgoing : Nat, resent : Nat, target : Nat,
     testTimer : TestTimerStates, orphans : Nat, posted : Nat,
     heartbeatTimer : BOOLEAN,
     readerOpen : BOOLEAN, writerOpen : BOOLEAN, out : Seq(Message)]

(* A session as constructed, its options and sequence numbers set.         *)
session(behaviour, heartbeat, delay, useNext, incoming, outgoing) ==
    [behaviour |-> behaviour, heartbeat |-> heartbeat, delay |-> delay,
     useNext |-> useNext,
     state |-> "connected", logonReceived |-> FALSE,
     expectedTestReq |-> Missing, nextTestReq |-> 0,
     incoming |-> incoming, outgoing |-> outgoing, resent |-> 0, target |-> 0,
     testTimer |-> "none", orphans |-> 0, posted |-> 0,
     heartbeatTimer |-> FALSE,
     readerOpen |-> FALSE, writerOpen |-> TRUE, out |-> <<>>]

-----------------------------------------------------------------------------
(* Transport: what the session calls on its reader and its writer.         *)

(* writer::write; a closed writer drops the message.                       *)
write(s, m) ==
    IF s.writerOpen THEN [s EXCEPT !.out = Append(s.out, m)] ELSE s

(* reader::close and writer::close each signal closed once, on which the   *)
(* session becomes disconnected; the writer also ends the peer's stream.   *)
close_reader(s) ==
    IF s.readerOpen
    THEN [s EXCEPT !.readerOpen = FALSE, !.state = "disconnected"]
    ELSE s

(* Mutant: the peer is not told that the writer closed.                    *)
CloseWriterQuietly(s) == [s EXCEPT !.writerOpen = FALSE, !.state = "disconnected"]

close_writer(s) ==
    IF s.writerOpen
    THEN [s EXCEPT !.writerOpen = FALSE, !.state = "disconnected",
                   !.out = Append(s.out, message("Close"))]
    ELSE s

close(s) == [close_writer(close_reader(s)) EXCEPT !.state = "disconnected"]

-----------------------------------------------------------------------------
(* Sending.                                                                *)

(* What send does to a session before it writes a Logon that resets.       *)
reset_for_logon(s, m) ==
    IF m.type = "Logon" /\ m.resetSeqNum
    THEN [s EXCEPT !.state = "resetting", !.outgoing = 1, !.incoming = 1]
    ELSE s

(* send without encode_options::set_msg_seq_num: MsgSeqNum is the caller's. *)
send_unnumbered(s, m) == write(reset_for_logon(s, m), m)

(* Mutant: the number is used and not counted.                             *)
SendReusesNumber(s, m) == write(s, [m EXCEPT !.seq = s.outgoing])

send(s, m) ==
    LET r == reset_for_logon(s, m)
    IN  write([r EXCEPT !.outgoing = r.outgoing + 1],
              [m EXCEPT !.seq = r.outgoing])

(* send of a message the writer cannot encode: the writer throws, after    *)
(* the number was allocated.                                               *)
send_fails(s) == [s EXCEPT !.outgoing = s.outgoing + 1]

send_reject(s) == send(s, message("Reject"))

stop_defibrillator(s) == [s EXCEPT !.heartbeatTimer = FALSE]

start_defibrillator(s) == [s EXCEPT !.heartbeatTimer = s.heartbeat # 0]

send_logout(s) ==
    LET sent == send(s, message("Logout"))
    IN  close(IF sent.state = "logged_on"
              THEN [stop_defibrillator(sent) EXCEPT !.state = "connected"]
              ELSE sent)

send_logon(s, reset) ==
    send(s, [message("Logon") EXCEPT
                !.heartBtInt = s.heartbeat,
                !.resetSeqNum = reset,
                !.nextExpected = IF s.useNext THEN s.incoming ELSE Missing])

(* Mutant: the id is allocated again for the message.                      *)
TestRequestAllocatesTwice(s) ==
    send([s EXCEPT !.expectedTestReq = s.nextTestReq,
                   !.nextTestReq = s.nextTestReq + 2],
         [message("TestRequest") EXCEPT !.testReqID = s.nextTestReq + 1])

send_test_request(s) ==
    send([s EXCEPT !.expectedTestReq = s.nextTestReq,
                   !.nextTestReq = s.nextTestReq + 1],
         [message("TestRequest") EXCEPT !.testReqID = s.nextTestReq])

(* A new timer replaces the token of an earlier one without cancelling it. *)
send_post_logon_test_request(s) ==
    IF s.delay = 0
    THEN send_test_request(s)
    ELSE [s EXCEPT !.testTimer = "armed",
                   !.orphans = IF s.testTimer = "armed" THEN s.orphans + 1
                                                        ELSE s.orphans]

(* Mutant: a callback is taken off the queue whether or not it is there.   *)
StopUnqueuesCallback(s) == [s EXCEPT !.testTimer = "none", !.posted = s.posted - 1]

stop_test_request_timer(s) == [s EXCEPT !.testTimer = "none"]

(* Mutant: the gap fill is sent with the standard options and so takes a   *)
(* number of its own.                                                      *)
GapFillTakesNumber(s, begin, newSeqNo) ==
    send(s, [message("SequenceReset") EXCEPT
                !.gapFill = TRUE, !.possDup = TRUE, !.newSeqNo = newSeqNo])

send_gap_fill(s, begin, newSeqNo) ==
    send_unnumbered(s, [message("SequenceReset") EXCEPT
                          !.seq = begin, !.gapFill = TRUE, !.possDup = TRUE,
                          !.newSeqNo = newSeqNo])

(* Mutant: the gap fill ends at the last number used.                      *)
ResendStopsShort(s, begin) == send_gap_fill(s, begin, s.outgoing - 1)

perform_resend(s, begin) == send_gap_fill(s, begin, s.outgoing)

-----------------------------------------------------------------------------
(* Sequence numbers.                                                       *)

request_resend(s, received) ==
    send([s EXCEPT !.state = "resending",
                   !.resent = s.incoming,
                   !.target = received],
         [message("ResendRequest") EXCEPT !.beginSeqNo = s.incoming,
                                          !.endSeqNo = received])

(* Mutant: a gap of one message is not one.                                *)
HighByMoreThanOne(s, m) == m.seq > s.incoming + 1

SequenceNumberIsHigh(s, m) == m.seq > s.incoming
SequenceNumberIsLow(s, m)  == m.seq < s.incoming

(* Mutant: every high number asks for a resend of its own.                 *)
AlwaysRequestResend(s, m) == request_resend(s, m.seq)

(* While a recovery is in flight a high number only moves its target.      *)
on_high_sequence_number(s, m) ==
    CASE s.state # "resending" -> request_resend(s, m.seq)
      [] s.state = "resending" /\ m.seq > s.target -> [s EXCEPT !.target = m.seq]
      [] OTHER -> s

on_low_sequence_number(s) == send_logout(s)

Accepted(s, m) == [s EXCEPT !.incoming = m.seq + 1]

reset(s) == [stop_defibrillator(s) EXCEPT !.state = "resetting",
                                          !.outgoing = 1, !.incoming = 1]

-----------------------------------------------------------------------------
(* Logon.                                                                  *)

logon(s) ==
    LET logging_on == [s EXCEPT !.state = "logging_on"]
    IN  IF s.behaviour = "initiator" THEN send_logon(logging_on, FALSE)
                                     ELSE logging_on

(* open reads from now on; logon throws in any state but connected, after  *)
(* the reader was opened.                                                  *)
open(s) ==
    LET reading == [s EXCEPT !.readerOpen = TRUE]
    IN  IF s.state = "connected" THEN logon(reading) ELSE reading

acceptor_send_logon(s, reset_flag) ==
    IF s.behaviour = "acceptor" THEN send_logon(s, reset_flag) ELSE s

(* process_logon with use_next_expected_msg_seq_num: the Logon's own        *)
(* MsgSeqNum is not compared with the expected one.                        *)
process_next_expected_logon(s, m) ==
    LET resend == IF m.nextExpected + 1 < s.outgoing
                  THEN perform_resend([s EXCEPT !.state = "resending"],
                                      m.nextExpected)
                  ELSE s
    IN  IF m.nextExpected < 0 \/ m.nextExpected > s.outgoing
        THEN send_logout(s)
        ELSE Accepted(send_post_logon_test_request(
                          acceptor_send_logon(resend, FALSE)), m)

process_reset_logon(s, m) ==
    CASE m.seq # 1 -> s
      [] m.seq = 1 /\ s.state = "resetting" -> Accepted(send_test_request(s), m)
      [] OTHER -> Accepted(send_post_logon_test_request(
                               send_logon(reset(s), TRUE)), m)

process_numbered_logon(s, m) ==
    LET answered == acceptor_send_logon(s, FALSE)
    IN  CASE SequenceNumberIsLow(s, m) -> on_low_sequence_number(s)
          [] SequenceNumberIsHigh(s, m) -> on_high_sequence_number(answered, m)
          [] OTHER -> Accepted(send_post_logon_test_request(answered), m)

(* Mutant: a Logon without a usable HeartBtInt is taken as it is.          *)
AcceptAnyHeartBtInt(s, m) ==
    process_numbered_logon([s EXCEPT !.heartbeat = m.heartBtInt,
                                     !.logonReceived = TRUE], m)

process_logon(s, m) ==
    LET received == [s EXCEPT !.heartbeat = m.heartBtInt,
                              !.logonReceived = TRUE]
    IN  CASE m.heartBtInt < 0 -> send_logout(send_reject(s))
          [] m.heartBtInt >= 0 /\ s.useNext ->
                process_next_expected_logon(received, m)
          [] m.heartBtInt >= 0 /\ ~s.useNext /\ m.resetSeqNum ->
                process_reset_logon(received, m)
          [] OTHER -> process_numbered_logon(received, m)

-----------------------------------------------------------------------------
(* The other admin messages.                                               *)

process_heartbeat(s, m) ==
    CASE s.state \notin {"logging_on", "resetting", "resending"} -> s
      [] s.state \in {"logging_on", "resetting", "resending"}
         /\ m.testReqID # Missing /\ s.expectedTestReq = Missing -> s
      [] s.state \in {"logging_on", "resetting", "resending"}
         /\ m.testReqID # Missing /\ s.expectedTestReq # Missing
         /\ m.testReqID # s.expectedTestReq -> close(s)
      [] OTHER -> start_defibrillator([s EXCEPT !.state = "logged_on"])

process_test_request(s, m) ==
    IF m.testReqID = Missing
    THEN send_reject(s)
    ELSE send(s, [message("Heartbeat") EXCEPT !.testReqID = m.testReqID])

(* EndSeqNo is read but not used; a number std::stoi refuses throws out of *)
(* the handler (see Throws).                                               *)
process_resend_request(s, m) ==
    LET stopped == stop_test_request_timer(s)
    IN  CASE m.beginSeqNo = Missing \/ m.endSeqNo = Missing -> send_reject(stopped)
          [] m.beginSeqNo # Missing /\ m.endSeqNo # Missing
             /\ NotANumber \in {m.beginSeqNo, m.endSeqNo} -> stopped
          [] OTHER -> send_post_logon_test_request(
                          perform_resend(stopped, m.beginSeqNo))

process_logout(s) == close(s)

complete_resend(s) ==
    IF s.state = "resending" /\ s.resent >= s.target
    THEN start_defibrillator(send_test_request(s))
    ELSE s

(* Mutant: a gap fill is accepted in the state the other mode wants.       *)
GapFillInWrongState(s, m) ==
    CASE SequenceNumberIsHigh(s, m) -> on_high_sequence_number(s, m)
      [] SequenceNumberIsLow(s, m) -> on_low_sequence_number(s)
      [] m.seq = s.incoming
         /\ s.state # (IF s.useNext THEN "resending" ELSE "logging_on") ->
            send_reject(s)
      [] OTHER -> complete_resend([s EXCEPT !.resent = m.newSeqNo,
                                            !.incoming = m.newSeqNo])

process_gap_fill(s, m) ==
    CASE SequenceNumberIsHigh(s, m) -> on_high_sequence_number(s, m)
      [] SequenceNumberIsLow(s, m) -> on_low_sequence_number(s)
      [] m.seq = s.incoming
         /\ s.state # (IF s.useNext THEN "logging_on" ELSE "resending") ->
            send_reject(s)
      [] OTHER -> complete_resend([s EXCEPT !.resent = m.newSeqNo,
                                            !.incoming = m.newSeqNo])

(* Mutant: a SequenceReset without GapFillFlag moves the expected number.  *)
ResetMovesExpected(s, m) ==
    CASE m.newSeqNo <= s.incoming -> send_reject(s)
      [] m.newSeqNo > s.incoming /\ m.gapFill -> process_gap_fill(s, m)
      [] OTHER -> complete_resend([s EXCEPT !.resent = m.newSeqNo,
                                            !.incoming = m.newSeqNo])

process_sequence_reset(s, m) ==
    CASE m.newSeqNo <= s.incoming -> send_reject(s)
      [] m.newSeqNo > s.incoming /\ m.gapFill -> process_gap_fill(s, m)
      [] OTHER -> complete_resend([s EXCEPT !.resent = m.newSeqNo])

-----------------------------------------------------------------------------
(* The reader's message_read callback.                                     *)

(* Mutant: every admin message is let through before the Logon.            *)
AnyAdminMessageFirst(s, m) ==
    s.behaviour = "initiator" \/ s.logonReceived \/ is_admin(m)

FirstMessageIsValid(s, m) ==
    \/ s.behaviour = "initiator"
    \/ s.logonReceived
    \/ m.type \in {"Logon", "Reject", "Logout"}

dispatch(s, m) ==
    CASE m.type = "Heartbeat"     -> process_heartbeat(s, m)
      [] m.type = "TestRequest"   -> process_test_request(s, m)
      [] m.type = "ResendRequest" -> process_resend_request(s, m)
      [] m.type = "Logout"        -> process_logout(s)
      [] OTHER                    -> s

(* Mutant: the number of a Heartbeat is not counted.                       *)
HeartbeatsNotCounted(s, m) ==
    CASE SequenceNumberIsHigh(s, m) -> on_high_sequence_number(s, m)
      [] SequenceNumberIsLow(s, m) -> on_low_sequence_number(s)
      [] m.seq = s.incoming /\ m.type = "Heartbeat" -> process_heartbeat(s, m)
      [] OTHER -> dispatch(Accepted(s, m), m)

process_numbered(s, m) ==
    CASE SequenceNumberIsHigh(s, m) -> on_high_sequence_number(s, m)
      [] SequenceNumberIsLow(s, m) -> on_low_sequence_number(s)
      [] OTHER -> dispatch(Accepted(s, m), m)

on_message_read(s, m) ==
    CASE ~m.wellFormed -> close(send_reject(s))
      [] m.wellFormed /\ ~FirstMessageIsValid(s, m) -> send_logout(send_reject(s))
      [] m.wellFormed /\ FirstMessageIsValid(s, m) ->
           CASE m.type = "SequenceReset" -> process_sequence_reset(s, m)
             [] m.type # "SequenceReset" /\ m.possDup /\ is_admin(m) -> s
             [] m.type = "Logon" /\ ~m.possDup -> process_logon(s, m)
             [] OTHER -> process_numbered(s, m)

(* on_message_read lets an exception escape: std::stoi on BeginSeqNo or     *)
(* EndSeqNo of a ResendRequest that is otherwise accepted.  (The accessors  *)
(* of MsgType and MsgSeqNum throw as well when the field is missing; every  *)
(* Message has both.)                                                       *)
Throws(s, m) ==
    /\ m.wellFormed /\ FirstMessageIsValid(s, m)
    /\ m.type = "ResendRequest" /\ ~m.possDup /\ m.seq = s.incoming
    /\ Missing \notin {m.beginSeqNo, m.endSeqNo}
    /\ NotANumber \in {m.beginSeqNo, m.endSeqNo}

-----------------------------------------------------------------------------
(* Timers.                                                                 *)

(* Mutant: the callback beats in any state.                                *)
DefibrillateAlways(s) == send(s, message("Heartbeat"))

(* The callback, which stop_defibrillator alone cancels: a session that is *)
(* disconnected without it goes on being called.                           *)
defibrillate(s) ==
    IF s.state = "logged_on" THEN send(s, message("Heartbeat")) ELSE s

(* The scheduler posts the callback of a timer that expired: the one the   *)
(* token refers to, or an orphan.                                          *)
expire_test_timer(s) ==
    [s EXCEPT !.testTimer = "expired", !.posted = s.posted + 1]

expire_orphan_timer(s) ==
    [s EXCEPT !.orphans = s.orphans - 1, !.posted = s.posted + 1]

(* The callback drops the token, whichever timer it refers to by now.      *)
test_request_callback(s) ==
    send_test_request(
        [s EXCEPT !.posted = s.posted - 1,
                  !.orphans = IF s.testTimer = "armed" THEN s.orphans + 1
                                                       ELSE s.orphans,
                  !.testTimer = "none"])

=============================================================================
