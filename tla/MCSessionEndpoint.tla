------------------------- MODULE MCSessionEndpoint -------------------------
(* SessionEndpoint for TLC: a peer with every kind of message, in and out  *)
(* of sequence, well formed and not, facing an acceptor that delays its    *)
(* TestRequest or an initiator that uses NextExpectedMsgSeqNum.            *)
EXTENDS SessionEndpoint

MCOptions == {[behaviour |-> "acceptor", delay |-> 1, useNext |-> FALSE],
              [behaviour |-> "initiator", delay |-> 0, useNext |-> TRUE]}

MaxSeq == 3
Seqs == 1..MaxSeq

With(type, seq) == [message(type) EXCEPT !.seq = seq]

MCInputs ==
    UNION {
      {With(type, n) : type \in {"App", "Reject", "Logout", "Heartbeat"}, n \in Seqs},
      {[With(type, n) EXCEPT !.possDup = TRUE] : type \in {"App", "XMLnonFIX"}, n \in Seqs},
      {[With("Heartbeat", n) EXCEPT !.testReqID = id] : n \in Seqs, id \in 0..1},
      {[With("TestRequest", n) EXCEPT !.testReqID = id] : n \in Seqs, id \in {Missing, 0}},
      {[With("ResendRequest", n) EXCEPT !.beginSeqNo = b, !.endSeqNo = e] :
          n \in 1..2, b \in {Missing, NotANumber, 1}, e \in {Missing, NotANumber, 0}},
      {[With("Logon", n) EXCEPT !.heartBtInt = h, !.resetSeqNum = r, !.nextExpected = x] :
          n \in 1..2, h \in {Missing, 0, 30}, r \in BOOLEAN,
          x \in {Missing, NotANumber, 1, 3}},
      {[With("SequenceReset", n) EXCEPT !.newSeqNo = v, !.gapFill = g, !.possDup = TRUE] :
          n \in Seqs, v \in {Missing, NotANumber, 2, 4}, g \in BOOLEAN},
      {[With("Logon", 1) EXCEPT !.heartBtInt = 30, !.possDup = TRUE],
       [With("App", 1) EXCEPT !.wellFormed = FALSE]}}
=============================================================================
