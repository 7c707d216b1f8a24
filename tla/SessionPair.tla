---------------------------- MODULE SessionPair ----------------------------
(***************************************************************************)
(* Two sessions, an initiator and an acceptor, joined by one FIFO channel  *)
(* per direction: the system the session tests build from test_reader and  *)
(* test_writer, and the one two processes build from a TCP connection.     *)
(*                                                                         *)
(* sessions[p].out is what p has written and its peer has not read yet.    *)
(* Every step is one call into one session from the application or from    *)
(* the scheduler, which runs the callbacks of a session one at a time.     *)
(***************************************************************************)
EXTENDS Session, FiniteSets

CONSTANTS
    Heartbeat,    \* heartbeat_interval of both sessions
    Scenarios     \* the scenarios a behaviour may start from

Peers == Behaviours

(* What an application sets before it opens its session: the sequence      *)
(* numbers and two options.                                                *)
Settings == [incoming : Nat, outgoing : Nat, delay : Nat, useNext : BOOLEAN]

(* The settings of the two sessions, and the bounds of a scenario: no      *)
(* heartbeat or application message beyond maxMsgSeqNum, so many resets    *)
(* and failed writes, and the peers whose application may close.           *)
Scenario == [settings : [Peers -> Settings], maxMsgSeqNum : Nat,
             resets : Nat, failures : Nat, closers : SUBSET Peers]

ASSUME PairAssumption ==
    /\ Heartbeat \in Nat
    /\ Scenarios \subseteq Scenario

(* Neither session expects a number the other has not reached.             *)
StartsBehind ==
    \A c \in Scenarios :
        /\ c.settings["initiator"].incoming <= c.settings["acceptor"].outgoing
        /\ c.settings["acceptor"].incoming <= c.settings["initiator"].outgoing

VARIABLES
    scenario,   \* the one chosen at the start
    sessions,   \* the two sessions
    resets,     \* the resets the applications have asked for
    failures    \* the messages the writers have failed to encode

vars == <<scenario, sessions, resets, failures>>

Other(p) == IF p = "initiator" THEN "acceptor" ELSE "initiator"

Init ==
    /\ scenario \in Scenarios
    /\ sessions = [p \in Peers |->
                      LET set == scenario.settings[p]
                      IN  session(p, Heartbeat, set.delay, set.useNext,
                                  set.incoming, set.outgoing)]
    /\ resets = 0
    /\ failures = 0

Step(p, s) == sessions' = [sessions EXCEPT ![p] = s]

(* The stream p reads from, and a step in which it takes the first item.   *)
Stream(p) == sessions[Other(p)].out

StepAndRead(p, s) ==
    sessions' = [sessions EXCEPT ![p] = s,
                                 ![Other(p)] = [sessions[Other(p)] EXCEPT
                                                   !.out = Tail(Stream(p))]]

-----------------------------------------------------------------------------
(* The application.                                                        *)

Open(p) ==
    /\ sessions[p].state = "connected"
    /\ Step(p, open(sessions[p]))
    /\ UNCHANGED <<scenario, resets, failures>>

Close(p) ==
    /\ p \in scenario.closers
    /\ sessions[p].state \notin {"connected", "disconnected"}
    /\ Step(p, close(sessions[p]))
    /\ UNCHANGED <<scenario, resets, failures>>

SendApplicationMessage(p) ==
    /\ sessions[p].state = "logged_on"
    /\ sessions[p].outgoing < scenario.maxMsgSeqNum
    /\ Step(p, send(sessions[p], message("App")))
    /\ UNCHANGED <<scenario, resets, failures>>

(* The application's message cannot be encoded; it catches the exception.  *)
FailToSend(p) ==
    /\ sessions[p].state = "logged_on" /\ sessions[p].writerOpen
    /\ sessions[p].outgoing < scenario.maxMsgSeqNum
    /\ failures < scenario.failures
    /\ Step(p, send_fails(sessions[p]))
    /\ failures' = failures + 1
    /\ UNCHANGED <<scenario, resets>>

(* The application restarts the numbering by sending a Logon of its own    *)
(* with ResetSeqNumFlag.                                                   *)
SendResetLogon(p) ==
    /\ sessions[p].state = "logged_on"
    /\ resets < scenario.resets
    /\ Step(p, send(sessions[p], [message("Logon") EXCEPT
                                     !.heartBtInt = Heartbeat,
                                     !.resetSeqNum = TRUE]))
    /\ resets' = resets + 1
    /\ UNCHANGED <<scenario, failures>>

-----------------------------------------------------------------------------
(* The transport.                                                          *)

Receive(p) ==
    /\ sessions[p].readerOpen
    /\ Stream(p) # <<>>
    /\ Head(Stream(p)).type # "Close"
    /\ StepAndRead(p, on_message_read(sessions[p], Head(Stream(p))))
    /\ UNCHANGED <<scenario, resets, failures>>

(* The peer closed: the reader closes, and signals closed.                 *)
ReceiveClose(p) ==
    /\ sessions[p].readerOpen
    /\ Stream(p) # <<>>
    /\ Head(Stream(p)).type = "Close"
    /\ StepAndRead(p, close_reader(sessions[p]))
    /\ UNCHANGED <<scenario, resets, failures>>

(* A closed reader drops what still arrives.                               *)
Drop(p) ==
    /\ ~sessions[p].readerOpen /\ sessions[p].state = "disconnected"
    /\ Stream(p) # <<>>
    /\ StepAndRead(p, sessions[p])
    /\ UNCHANGED <<scenario, resets, failures>>

-----------------------------------------------------------------------------
(* The scheduler.                                                          *)

HeartbeatTimer(p) ==
    /\ sessions[p].heartbeatTimer
    /\ sessions[p].state = "logged_on"
    /\ sessions[p].outgoing < scenario.maxMsgSeqNum
    /\ Step(p, defibrillate(sessions[p]))
    /\ UNCHANGED <<scenario, resets, failures>>

TestTimerExpires(p) ==
    /\ sessions[p].testTimer = "armed"
    /\ Step(p, expire_test_timer(sessions[p]))
    /\ UNCHANGED <<scenario, resets, failures>>

OrphanTimerExpires(p) ==
    /\ sessions[p].orphans > 0
    /\ Step(p, expire_orphan_timer(sessions[p]))
    /\ UNCHANGED <<scenario, resets, failures>>

TestRequestCallback(p) ==
    /\ sessions[p].posted > 0
    /\ Step(p, test_request_callback(sessions[p]))
    /\ UNCHANGED <<scenario, resets, failures>>

-----------------------------------------------------------------------------
Transport(p) == Receive(p) \/ ReceiveClose(p) \/ Drop(p)

Timers(p) == TestTimerExpires(p) \/ OrphanTimerExpires(p) \/ TestRequestCallback(p)

(* Nothing is left to happen unless an application acts.                   *)
Idle ==
    /\ \A p \in Peers :
          /\ sessions[p].state \in {"logged_on", "disconnected"}
          /\ sessions[p].out = <<>>
    /\ UNCHANGED vars

Next ==
    \/ \E p \in Peers :
          \/ Open(p) \/ Close(p) \/ SendApplicationMessage(p) \/ SendResetLogon(p)
          \/ FailToSend(p)
          \/ Receive(p) \/ ReceiveClose(p) \/ Drop(p)
          \/ HeartbeatTimer(p)
          \/ TestTimerExpires(p) \/ OrphanTimerExpires(p) \/ TestRequestCallback(p)
    \/ Idle

(* Both applications open their session, written messages arrive and       *)
(* timers run out: what a live connection and a running scheduler do.      *)
Fairness ==
    \A p \in Peers : WF_vars(Open(p)) /\ WF_vars(Transport(p)) /\ WF_vars(Timers(p))

Spec == Init /\ [][Next]_vars /\ Fairness

-----------------------------------------------------------------------------
(* Every session's record is well typed and the budgets are counters.      *)
TypeOK ==
    /\ scenario \in Scenario
    /\ sessions \in [Peers -> SessionRecord]
    /\ resets \in Nat
    /\ failures \in Nat

(* Messages that carry a number of their own: all but gap fills and the    *)
(* end of the stream.                                                      *)
Numbered(m) == m.type \notin {"SequenceReset", "Close"}
GapFill(m) == m.type = "SequenceReset" /\ m.gapFill

(* The number a receiver that accepts m expects afterwards.                *)
Reaches(m) == IF Numbered(m) THEN m.seq + 1 ELSE m.newSeqNo

(* What s has written and its peer not read yet reaches no further than    *)
(* the number s allocates next, and every message begins where the ones    *)
(* before it reach, or later.                                              *)
SentInOrder(s) ==
    \A i \in 1..Len(s.out) :
        /\ Reaches(s.out[i]) <= s.outgoing
        /\ ~s.out[i].resetSeqNum
        /\ \A j \in (i + 1)..Len(s.out) :
              Numbered(s.out[j]) => Reaches(s.out[i]) <= s.out[j].seq

(* As long as nobody resets, and the two sides start with no number that   *)
(* the other has not reached, the streams are in order and hold no number  *)
(* below the one the receiver expects: sequence_number_is_low never fires  *)
(* on a numbered message, however recoveries, dropped messages, failed     *)
(* writes, disconnects and timers interleave.                              *)
StreamsInOrder ==
    scenario.resets = 0 =>
        \A p \in Peers :
            /\ SentInOrder(sessions[p])
            /\ sessions[p].incoming <= sessions[Other(p)].outgoing
            /\ \A i \in 1..Len(Stream(p)) :
                  Numbered(Stream(p)[i]) => sessions[p].incoming <= Stream(p)[i].seq

(* Once a session is logged on and has read all its peer wrote, it expects *)
(* the number the peer allocates next, whatever gaps, recoveries and       *)
(* resets came before; a write that failed since is the one exception.     *)
SequencesAgree ==
    \A p \in Peers :
        /\ sessions[p].state = "logged_on"
        /\ Stream(p) = <<>>
        => /\ sessions[p].incoming <= sessions[Other(p)].outgoing
           /\ sessions[Other(p)].outgoing <= sessions[p].incoming + failures

(* The comment in sequence_number_is_high: extending the target of the     *)
(* recovery in flight lets it catch up and complete.  A gap fill on its    *)
(* way to a resending session reaches beyond its target and beyond every   *)
(* message that can still extend the target before the gap fill is read.   *)
RecoveryCatchesUp ==
    scenario.resets = 0 => \A p \in Peers : \A i \in DOMAIN Stream(p) :
        sessions[p].state = "resending" /\ GapFill(Stream(p)[i]) =>
            /\ Stream(p)[i].newSeqNo > sessions[p].target
            /\ Stream(p)[i].seq = sessions[p].incoming
            /\ \A j \in 1..(i - 1) : Numbered(Stream(p)[j]) =>
                    Stream(p)[j].seq \in
                        (sessions[p].incoming + 1) .. (Stream(p)[i].newSeqNo - 1)

(* The number of recoveries p has under way in the streams.                *)
Recoveries(p) ==
    Cardinality({i \in DOMAIN sessions[p].out :
                    sessions[p].out[i].type = "ResendRequest"})
    + Cardinality({i \in DOMAIN Stream(p) : GapFill(Stream(p)[i])})

(* A session that still waits for messages up to its target has exactly    *)
(* one ResendRequest or one answer under way, and no other session has     *)
(* one: requests never overlap, and none is lost.  (With                   *)
(* NextExpectedMsgSeqNum the peer fills the gap without being asked.)      *)
OneRecovery ==
    /\ scenario.resets = 0
    /\ \A p \in Peers : sessions[p].state # "disconnected" /\ ~sessions[p].useNext
    => \A p \in Peers :
            Recoveries(p) = IF /\ sessions[p].state = "resending"
                               /\ sessions[p].incoming <= sessions[p].target
                            THEN 1 ELSE 0

(* p reads the Logon of an initiator and uses NextExpectedMsgSeqNum, with  *)
(* which the Logon's own number is not compared with the expected one.     *)
AnswersLogon(p) ==
    p = "acceptor" /\ sessions[p].useNext /\ Head(Stream(p)).type = "Logon"

(* A session reads on from an unexpected number only because a gap fill    *)
(* told it to: no message of the peer is skipped silently.  The exception  *)
(* is an acceptor with NextExpectedMsgSeqNum, which goes on from whatever  *)
(* number the initiator's Logon has; its own Logon tells the initiator     *)
(* what it has missed.                                                     *)
NoSilentGap ==
    [][\A p \in Peers :
          sessions'[p].incoming > sessions[p].incoming + 1 =>
             \/ AnswersLogon(p)
             \/ /\ GapFill(Head(Stream(p)))
                /\ Head(Stream(p)).newSeqNo = sessions'[p].incoming]_vars

(* Nobody restarts the numbering, and where NextExpectedMsgSeqNum is used  *)
(* no write fails and the acceptor has missed nothing.                     *)
GapFillsAreDue ==
    /\ scenario.resets = 0
    /\ (\E p \in Peers : scenario.settings[p].useNext) =>
          /\ scenario.failures = 0
          /\ scenario.settings["acceptor"].incoming = scenario.settings["initiator"].outgoing

(* Two sessions of this code never reject each other's messages, but in    *)
(* three cases: an application restarts the numbering; a write fails in    *)
(* mid session with NextExpectedMsgSeqNum, where the gap fill that is      *)
(* asked for comes in the wrong state; and with NextExpectedMsgSeqNum the  *)
(* acceptor has missed messages, where the initiator's Logon has carried   *)
(* it beyond the gap and it rejects the gap fill that follows.             *)
NoReject ==
    GapFillsAreDue => \A p \in Peers : \A i \in DOMAIN sessions[p].out :
        sessions[p].out[i].type # "Reject"

(* No session disconnects unless an application closes one.                *)
SessionsSurvive == \A p \in Peers : sessions[p].state # "disconnected"

(* A recovery that was started ends.                                       *)
RecoveryCompletes ==
    \A p \in Peers :
        sessions[p].state = "resending" ~> sessions[p].state # "resending"

(* A scenario in which nobody closes or restarts the numbering, and no     *)
(* session that delays its TestRequest has missed messages, or its peer.   *)
Undisturbed ==
    /\ scenario.closers = {}
    /\ scenario.resets = 0
    /\ (\E p \in Peers : scenario.settings[p].delay > 0) =>
          \A p \in Peers :
              scenario.settings[p].incoming = scenario.settings[Other(p)].outgoing

(* Left alone, both sessions log on, for good: also with a gap on one      *)
(* side, a write that fails, or NextExpectedMsgSeqNum.                     *)
BothLogOn ==
    Undisturbed => <>[](\A p \in Peers : sessions[p].state = "logged_on")

(* Whatever happens, both sessions end up logged on or both disconnected.  *)
Settles ==
    \/ <>[](\A p \in Peers : sessions[p].state = "logged_on")
    \/ <>[](\A p \in Peers : sessions[p].state = "disconnected")

=============================================================================
