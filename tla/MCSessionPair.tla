--------------------------- MODULE MCSessionPair ---------------------------
(* Scenarios of SessionPair for TLC.                                       *)
EXTENDS SessionPair

(* The initiator starts with number i, the acceptor with a, and both       *)
(* expect 1; the test request delay of both, and the room for numbers      *)
(* beyond those the messages that were missed have used.                   *)
Start(i, a, delay, room) ==
    [settings |-> [p \in Peers |->
                      [incoming |-> 1, outgoing |-> IF p = "initiator" THEN i ELSE a,
                       delay |-> delay[p], useNext |-> FALSE]],
     maxMsgSeqNum |-> (IF i > a THEN i ELSE a) + room,
     resets |-> 0, failures |-> 0, closers |-> {}]

NoDelay == [p \in Peers |-> 0]
Delayed == [p \in Peers |-> 1]

Fresh == Start(1, 1, NoDelay, 6)

(* Both sessions with use_next_expected_msg_seq_num.                       *)
NextExpected(c) ==
    [c EXCEPT !.settings = [p \in Peers |-> [c.settings[p] EXCEPT !.useNext = TRUE]]]

(* One side has missed up to MaxGap messages of the other.                 *)
MaxGap == 2
GapWith(delay, room) ==
    {Start(1, n, delay, room) : n \in 2..(1 + MaxGap)} \cup
    {Start(n, 1, delay, room) : n \in 2..(1 + MaxGap)}

(* A gap; a logon in which either side delays its TestRequest; one write   *)
(* that fails in mid session; and, with NextExpectedMsgSeqNum, an          *)
(* initiator that has missed nothing, or more than one message, or an      *)
(* acceptor that has missed up to MaxGap.                                  *)
LeftAlone ==
    GapWith(NoDelay, 5)
    \cup {Start(1, 1, delay, 6) : delay \in [Peers -> 0..1]}
    \cup {[Fresh EXCEPT !.failures = 1]}
    \cup {NextExpected(Start(1, n, NoDelay, 5)) : n \in {1} \cup 3..(2 + MaxGap)}
    \cup {NextExpected(Start(n, 1, NoDelay, 5)) : n \in 2..(1 + MaxGap)}

(* A gap together with delays, while both applications may close; and two  *)
(* resets of the numbering, also at the same time.                         *)
ClosedOrReset ==
    {[c EXCEPT !.closers = Peers] : c \in GapWith(Delayed, 4)}
    \cup {[Fresh EXCEPT !.resets = 2]}

AllScenarios == LeftAlone \cup ClosedOrReset

(* The settings of the test "Logon with MsgSeqNum too high".               *)
MsgSeqNumTooHigh ==
    {Start(3, 1, [p \in Peers |-> IF p = "initiator" THEN 1 ELSE 0], 6)}

(* Both have missed a message.                                             *)
TwoGaps == {Start(2, 2, NoDelay, 2)}

(* With NextExpectedMsgSeqNum, an initiator that has missed exactly one    *)
(* message, and a write that fails in mid session.                         *)
GapOfOne == {NextExpected(Start(1, 2, NoDelay, 6))}
NextExpectedFailure == {NextExpected([Fresh EXCEPT !.failures = 1])}
=============================================================================
