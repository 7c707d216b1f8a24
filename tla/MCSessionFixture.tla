-------------------------- MODULE MCSessionFixture --------------------------
(* Tests of session_tests.cpp for TLC.                                     *)
EXTENDS SessionFixture

Fresh(p) == session(p, Heartbeat, 0, FALSE, 1, 1)
Both == [p \in Peers |-> Fresh(p)]

(* "logon" *)
Logon == [sessions |-> Both, script |-> perform_default_logon_sequence]

(* "TestRequest", with 7 for the id the test makes up.                     *)
TestID == 7
TestRequest ==
    [sessions |-> Both,
     script |-> perform_default_logon_sequence \o
        << Send("initiator", [message("TestRequest") EXCEPT !.testReqID = TestID]),
           received_at("acceptor", [type |-> "TestRequest", testReqID |-> TestID]),
           received_at("initiator", [type |-> "Heartbeat", testReqID |-> TestID]) >>]

(* "Logon with no HeartBtInt": both behave as acceptors.                   *)
NoHeartBtInt ==
    [sessions |-> [Both EXCEPT !["initiator"].behaviour = "acceptor"],
     script |->
        << Open("acceptor"), Open("initiator"),
           state_change("acceptor", "logging_on"), state_change("initiator", "logging_on"),
           Send("initiator", message("Logon")),
           received_at("acceptor", Type("Logon")),
           received_at("initiator", Type("Reject")),
           received_at("initiator", Type("Logout")),
           state_change("acceptor", "disconnected"),
           state_change("initiator", "disconnected") >>]

(* "Logon with MsgSeqNum too low" *)
MsgSeqNumTooLow ==
    [sessions |-> [Both EXCEPT !["acceptor"].incoming = 10],
     script |->
        << Open("acceptor"), Open("initiator"),
           state_change("acceptor", "logging_on"), state_change("initiator", "logging_on"),
           received_at("acceptor", [type |-> "Logon", seq |-> 1]),
           received_at("initiator", Type("Logout")),
           state_change("acceptor", "disconnected"),
           state_change("initiator", "disconnected") >>]

MCTests == {Logon, TestRequest, NoHeartBtInt, MsgSeqNumTooLow}
=============================================================================
