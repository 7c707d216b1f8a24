-------------------------- MODULE SessionEndpoint --------------------------
(***************************************************************************)
(* One session facing a peer that may send it anything: messages out of    *)
(* sequence, malformed ones, ones with fields missing or not numeric, in   *)
(* any state and any order.  The peer reads at once, so s.out holds what   *)
(* the last step wrote.                                                    *)
(***************************************************************************)
EXTENDS Session, FiniteSets

CONSTANTS
    Heartbeat,    \* heartbeat_interval of the session
    Options,      \* its other session_options, any of these
    Inputs,       \* the messages the peer may send
    MaxMsgSeqNum, \* bound: the session allocates no number beyond it by itself
    MaxTestReqs,  \* bound: TestRequests sent
    MaxTimers     \* bound: test request timers and callbacks outstanding

ASSUME EndpointAssumption ==
    /\ Heartbeat \in Nat
    /\ Options \subseteq [behaviour : Behaviours, delay : Nat, useNext : BOOLEAN]
    /\ Inputs \subseteq Message
    /\ MaxMsgSeqNum \in Nat /\ MaxTestReqs \in Nat /\ MaxTimers \in Nat

(* threw: an exception escaped from a handler, which ends scheduler::run.  *)
VARIABLES s, threw

vars == <<s, threw>>

(* The session before a step, what it wrote earlier having been read.      *)
Read == [s EXCEPT !.out = <<>>]

Init ==
    /\ \E o \in Options : s = session(o.behaviour, Heartbeat, o.delay, o.useNext, 1, 1)
    /\ threw = FALSE

(* The application may call open in any state; see Session!open.           *)
Open ==
    /\ s' = open(Read)
    /\ UNCHANGED threw

Close ==
    /\ s' = close(Read)
    /\ UNCHANGED threw

SendApplicationMessage ==
    /\ s.state = "logged_on"
    /\ s.outgoing < MaxMsgSeqNum
    /\ s' = send(Read, message("App"))
    /\ UNCHANGED threw

SendResetLogon ==
    /\ s.state = "logged_on"
    /\ s' = send(Read, [message("Logon") EXCEPT !.heartBtInt = Heartbeat,
                                                !.resetSeqNum = TRUE])
    /\ UNCHANGED threw

Deliver(m) ==
    /\ ~threw /\ s.readerOpen
    /\ s.outgoing < MaxMsgSeqNum
    /\ s.nextTestReq < MaxTestReqs
    /\ s.posted + s.orphans < MaxTimers
    /\ s' = on_message_read(Read, m)
    /\ threw' = Throws(s, m)

PeerCloses ==
    /\ ~threw /\ s.readerOpen
    /\ s' = close_reader(Read)
    /\ UNCHANGED threw

HeartbeatTimer ==
    /\ ~threw /\ s.heartbeatTimer
    /\ s.outgoing < MaxMsgSeqNum
    /\ s' = defibrillate(Read)
    /\ UNCHANGED threw

TestTimerExpires ==
    /\ ~threw /\ s.testTimer = "armed"
    /\ s' = expire_test_timer(Read)
    /\ UNCHANGED threw

OrphanTimerExpires ==
    /\ ~threw /\ s.orphans > 0
    /\ s' = expire_orphan_timer(Read)
    /\ UNCHANGED threw

TestRequestCallback ==
    /\ ~threw /\ s.posted > 0
    /\ s.outgoing < MaxMsgSeqNum
    /\ s.nextTestReq < MaxTestReqs
    /\ s' = test_request_callback(Read)
    /\ UNCHANGED threw

Next ==
    \/ Open \/ Close \/ SendApplicationMessage \/ SendResetLogon
    \/ \E m \in Inputs : Deliver(m)
    \/ PeerCloses
    \/ HeartbeatTimer
    \/ TestTimerExpires \/ OrphanTimerExpires \/ TestRequestCallback

Spec == Init /\ [][Next]_vars

-----------------------------------------------------------------------------
(* The session's record stays well typed whatever the peer sends.          *)
TypeOK ==
    /\ s \in SessionRecord
    /\ threw \in BOOLEAN

(* An acceptor is logged on, or beats, only for a peer whose Logon it has  *)
(* processed, although a Reject or a Logout may come before the Logon and  *)
(* may even start a recovery (validate_first_message).                     *)
AcceptorNeedsLogon ==
    s.behaviour = "acceptor" /\ (s.state = "logged_on" \/ s.heartbeatTimer) =>
        s.logonReceived

Numbered(m) == m.type \notin {"SequenceReset", "Close"}
ResetLogon(m) == m.type = "Logon" /\ m.resetSeqNum

(* n is the number to give after the first i messages of w were written,   *)
(* where first was the one to give before them.                            *)
ComesAfter(n, first, w, i) ==
    \/ n = first /\ \A j \in 1..i : ~Numbered(w[j])
    \/ \E j \in 1..i : /\ Numbered(w[j]) /\ n = w[j].seq + 1
                       /\ \A k \in (j + 1)..i : ~Numbered(w[k])

Consecutive(first, w, next) ==
    /\ \A i \in 1..Len(w) :
          Numbered(w[i]) => IF ResetLogon(w[i])
                            THEN w[i].seq = 1
                            ELSE ComesAfter(w[i].seq, first, w, i - 1)
    /\ ComesAfter(next, first, w, Len(w))

(* The numbers a session writes: each message of a step takes the number   *)
(* after the one before it, or 1 if it is a Logon that resets, beginning   *)
(* with the number the session had and ending below the one it has now.    *)
(* Nothing is numbered twice or skipped while the writer is open.          *)
NumbersAreConsecutive ==
    [][s.writerOpen => Consecutive(s.outgoing, s'.out, s'.outgoing)]_vars

(* A Logon whose own number is followed without being compared.            *)
NextExpectedLogon(m) == m.type = "Logon" /\ s.useNext /\ s'.incoming = m.seq + 1

(* The expected number goes back only when the numbering is reset, and     *)
(* jumps ahead only by the NewSeqNo of a gap fill that was in sequence;    *)
(* with NextExpectedMsgSeqNum, any Logon may move it as well.              *)
ExpectedNumberMoves ==
    [][/\ s'.incoming < s.incoming =>
             \/ SendResetLogon
             \/ \E m \in Inputs : /\ (ResetLogon(m) /\ m.seq = 1) \/ NextExpectedLogon(m)
                                  /\ Deliver(m)
       /\ s'.incoming > s.incoming + 1 =>
             \E m \in Inputs : /\ \/ m.gapFill /\ m.seq = s.incoming
                                     /\ m.newSeqNo = s'.incoming
                                  \/ NextExpectedLogon(m)
                               /\ Deliver(m)]_vars

Ended(x) == x.state = "disconnected" /\ ~x.readerOpen

Types(w) == {w[i].type : i \in DOMAIN w}

(* A session that has ended stays so unless the application opens it, and  *)
(* its timers, which nobody stops, do no harm: the defibrillator goes on   *)
(* firing and writes nothing, and a TestRequest that was put off is the    *)
(* only message that may still go out, if it was the peer that closed.     *)
(* The writer closes only where the session ends, in the same step,        *)
(* whatever the handler does after the close; and after a Logout nothing   *)
(* is written but the end of the stream.                                   *)
EndIsFinal ==
    [][/\ s.writerOpen /\ ~s'.writerOpen => Ended(s')
       /\ Ended(s) => \/ Open
                      \/ Ended(s') /\ Types(s'.out) \subseteq {"TestRequest", "Close"}
       /\ \A i \in DOMAIN s'.out : s'.out[i].type = "Logout" =>
             i + 1 = Len(s'.out) /\ s'.out[i + 1].type = "Close"]_vars

=============================================================================
