--------------------------- MODULE SessionFixture ---------------------------
(***************************************************************************)
(* session_fixture: two threads.  The scheduler's thread runs what is      *)
(* posted to the io_context, in order: the deliveries of test_writer into  *)
(* the two sessions, each of which runs a handler of the session.  The     *)
(* test's thread opens the sessions, sends, and checks what the blocking   *)
(* queues hand over: every message a session has written or read, and      *)
(* every change of its state.  A handler tells the queues one by one, so   *)
(* that the test may go on, and call into a session, while it is under     *)
(* way.                                                                    *)
(*                                                                         *)
(* A dequeue looks at its queue with the mutex locked and sleeps if it is  *)
(* empty; it looks again when it is notified, and gives up when its time   *)
(* is over and the queue still empty.                                      *)
(***************************************************************************)
EXTENDS Session, SequencesExt

CONSTANTS
    Heartbeat,   \* heartbeat_interval of both sessions, too long to run out
    Tests        \* the tests: the sessions at the start and a script

Peers == Behaviours
Other(p) == IF p = "initiator" THEN "acceptor" ELSE "initiator"

(* The queues of a session, and the steps of a script.                     *)
Queues == Peers \X {"incoming", "outgoing", "states"}

Open(p) == [op |-> "open", peer |-> p]
Send(p, m) == [op |-> "send", peer |-> p, message |-> m]
Expect(p, queue, fields) == [op |-> "expect", queue |-> <<p, queue>>, fields |-> fields]

sent_from(p, fields) == Expect(p, "outgoing", fields)
received_at(p, fields) == Expect(p, "incoming", fields)
state_change(p, state) == Expect(p, "states", [state |-> state])

Type(type) == [type |-> type]
FirstTestRequest == [type |-> "TestRequest", testReqID |-> 0]

(* Mutant: the session that answers is opened last.                        *)
OpensInitiatorFirst ==
    << Open("initiator"), Open("acceptor"), sent_from("initiator", Type("Logon")),
       received_at("acceptor", Type("Logon")), sent_from("acceptor", Type("Logon")),
       received_at("initiator", Type("Logon")) >>

perform_default_logon_sequence ==
    LET i == "initiator"
        a == "acceptor"
    IN  << Open(a), Open(i),
           sent_from(i, Type("Logon")), received_at(a, Type("Logon")),
           sent_from(a, Type("Logon")), received_at(i, Type("Logon")),
           state_change(a, "logging_on"), state_change(i, "logging_on"),
           sent_from(i, FirstTestRequest), received_at(a, FirstTestRequest),
           sent_from(a, FirstTestRequest), sent_from(a, Type("Heartbeat")),
           received_at(i, FirstTestRequest), received_at(i, Type("Heartbeat")),
           sent_from(i, Type("Heartbeat")), received_at(a, Type("Heartbeat")),
           state_change(a, "logged_on"), state_change(i, "logged_on") >>

VARIABLES
    script,      \* the steps of the test
    step,        \* the next one
    test,        \* the test's thread: "running", "asleep", or its verdict
    notified,    \* the condition variable it sleeps on has been notified
    queues,      \* the contents of the blocking queues, the oldest first
    sessions,
    posts,       \* what the scheduler has to deliver
    handler      \* the handler it runs: its session, and what that has still
                 \* to write and to tell of its state

vars == <<script, step, test, notified, queues, sessions, posts, handler>>

Idle == [peer |-> "none", out |-> <<>>, states |-> <<>>]

Init ==
    /\ \E t \in Tests : sessions = t.sessions /\ script = t.script
    /\ step = 1
    /\ test = "running"
    /\ notified = FALSE
    /\ queues = [q \in Queues |-> <<>>]
    /\ posts = <<>>
    /\ handler = Idle

Current == script[step]
Waits(op) == test \in {"running", "asleep"} /\ step <= Len(script) /\ Current.op = op

(* Mutant: nobody is notified.                                             *)
EnqueueQuietly(values) ==
    /\ queues' = [q \in Queues |-> queues[q] \o values[q]]
    /\ UNCHANGED notified

(* blocking_queue::enqueue of the values a step has for the queues: it     *)
(* notifies a thread that sleeps on the queue, and is lost on others.      *)
enqueue(values) ==
    /\ queues' = [q \in Queues |-> queues[q] \o values[q]]
    /\ notified' = (notified \/ (test = "asleep" /\ values[Current.queue] # <<>>))

(* What the queues of messages and of states are told when session p       *)
(* writes m, and when it becomes s.                                        *)
Written(m) == IF m.type = "Close" THEN <<>> ELSE <<m>>
Changes(p, s) == IF s.state = sessions[p].state THEN <<>> ELSE <<[state |-> s.state]>>

To(queue, values) == [q \in Queues |-> IF q = queue THEN values ELSE <<>>]
Post(p, m) == [to |-> Other(p), message |-> m]

-----------------------------------------------------------------------------
(* The scheduler's thread.                                                 *)

(* The handler that leaves session p as s begins.                          *)
Begin(p, s) ==
    /\ sessions' = [sessions EXCEPT ![p] = [s EXCEPT !.out = <<>>]]
    /\ handler' = [peer |-> p, out |-> s.out, states |-> Changes(p, s)]

(* test_reader::deliver, or close when the peer's writer has closed.       *)
Deliver ==
    /\ handler = Idle
    /\ posts # <<>>
    /\ posts' = Tail(posts)
    /\ LET p == Head(posts).to
           m == Head(posts).message
           s == sessions[p]
       IN  \/ /\ m.type = "Close"
              /\ Begin(p, close_reader(s))
              /\ UNCHANGED <<queues, notified>>
           \/ /\ m.type # "Close" /\ s.readerOpen
              /\ enqueue(To(<<p, "incoming">>, <<m>>))
              /\ Begin(p, on_message_read(s, m))
           \/ /\ m.type # "Close" /\ ~s.readerOpen
              /\ UNCHANGED <<sessions, handler, queues, notified>>
    /\ UNCHANGED <<script, step, test>>

(* The handler writes: test_writer tells its queue and posts the delivery. *)
Write ==
    /\ handler.out # <<>>
    /\ LET m == Head(handler.out)
       IN  /\ enqueue(To(<<handler.peer, "outgoing">>, Written(m)))
           /\ posts' = Append(posts, Post(handler.peer, m))
    /\ handler' = [handler EXCEPT !.out = Tail(@)]
    /\ UNCHANGED <<script, step, test, sessions>>

(* state_changed, at any time before, between or after the writes.         *)
ChangeState ==
    /\ handler.states # <<>>
    /\ enqueue(To(<<handler.peer, "states">>, handler.states))
    /\ handler' = [handler EXCEPT !.states = <<>>]
    /\ UNCHANGED <<script, step, test, sessions, posts>>

(* What a handler does after the last thing it tells, and its return.      *)
Return ==
    /\ handler # Idle
    /\ handler.out = <<>> /\ handler.states = <<>>
    /\ handler' = Idle
    /\ UNCHANGED <<script, step, test, notified, queues, sessions, posts>>

SchedulerThread == Deliver \/ Write \/ ChangeState \/ Return

-----------------------------------------------------------------------------
(* The test's thread.                                                      *)

(* A call leaves session p as s.  It writes its message last, so that what *)
(* the scheduler's thread does with it finds the session as it is then.    *)
Becomes(p, s) ==
    /\ sessions' = [sessions EXCEPT ![p] = [s EXCEPT !.out = <<>>]]
    /\ posts' = posts \o [i \in DOMAIN s.out |-> Post(p, s.out[i])]
    /\ enqueue([q \in Queues |->
           CASE q = <<p, "outgoing">> -> FlattenSeq([i \in DOMAIN s.out |-> Written(s.out[i])])
             [] q = <<p, "states">> -> Changes(p, s)
             [] OTHER -> <<>>])

CallOpen ==
    /\ Waits("open")
    /\ Becomes(Current.peer, open(sessions[Current.peer]))
    /\ step' = step + 1
    /\ UNCHANGED <<script, test, handler>>

CallSend ==
    /\ Waits("send")
    /\ Becomes(Current.peer, send(sessions[Current.peer], Current.message))
    /\ step' = step + 1
    /\ UNCHANGED <<script, test, handler>>

(* Mutant: the newest value is taken.                                      *)
NewestFirst(queue) == [value |-> Last(queue), rest |-> Front(queue)]

(* try_dequeue of a queue that is not empty.                               *)
try_dequeue(queue) == [value |-> Head(queue), rest |-> Tail(queue)]

(* expect and expect_state_change: all the fields that are expected have   *)
(* to be there, and others do not matter.                                  *)
Expected ==
    /\ Waits("expect") /\ test = "running"
    /\ queues[Current.queue] # <<>>
    /\ LET taken == try_dequeue(queues[Current.queue])
           matches == \A f \in DOMAIN Current.fields : taken.value[f] = Current.fields[f]
       IN  /\ queues' = [queues EXCEPT ![Current.queue] = taken.rest]
           /\ test' = IF matches THEN "running" ELSE "mismatch"
    /\ step' = step + 1
    /\ UNCHANGED <<script, notified, sessions, posts, handler>>

Sleep ==
    /\ Waits("expect") /\ test = "running"
    /\ queues[Current.queue] = <<>>
    /\ test' = "asleep"
    /\ notified' = FALSE
    /\ UNCHANGED <<script, step, queues, sessions, posts, handler>>

WakeUp ==
    /\ test = "asleep" /\ notified
    /\ test' = "running"
    /\ UNCHANGED <<script, step, notified, queues, sessions, posts, handler>>

(* The time is over, and the queue is looked at once more.                 *)
TimeOut ==
    /\ test = "asleep"
    /\ test' = IF queues[Current.queue] = <<>> THEN "timed out" ELSE "running"
    /\ UNCHANGED <<script, step, notified, queues, sessions, posts, handler>>

Pass ==
    /\ test = "running" /\ step > Len(script)
    /\ test' = "passed"
    /\ UNCHANGED <<script, step, notified, queues, sessions, posts, handler>>

TestThread == CallOpen \/ CallSend \/ Expected \/ Sleep \/ WakeUp \/ Pass

Next ==
    \/ Deliver \/ Write \/ ChangeState \/ Return
    \/ CallOpen \/ CallSend \/ Expected \/ Sleep \/ WakeUp \/ Pass \/ TimeOut

(* Both threads run.  Nothing is said of a timeout: it ends a wait that    *)
(* is not over in five seconds.                                            *)
Spec == Init /\ [][Next]_vars /\ WF_vars(SchedulerThread) /\ WF_vars(TestThread)

-----------------------------------------------------------------------------
(* The script has come to the end of perform_default_logon_sequence.       *)
LoggedOn ==
    /\ IsPrefix(perform_default_logon_sequence, script)
    /\ step = Len(perform_default_logon_sequence) + 1
    /\ test = "running"

(* However the two threads interleave, no test gets to see a message or a  *)
(* state it does not expect; and perform_default_logon_sequence returns    *)
(* with both sessions logged on, nothing in a queue and nothing posted,    *)
(* which is what the tests that go on from there count on.                 *)
AsExpected ==
    /\ test # "mismatch"
    /\ LoggedOn => /\ \A p \in Peers : sessions[p].state = "logged_on"
                   /\ \A q \in Queues : queues[q] = <<>>
                   /\ posts = <<>>

(* Sessions have no lock.  When the test's thread calls into one, nothing  *)
(* is posted for it, and a handler of it that is still under way has no    *)
(* message to write and no change of state to tell.  There is such a       *)
(* handler: process_heartbeat tells that the session is logged on, upon    *)
(* which the test "TestRequest" calls send, before start_defibrillator.    *)
(* That function touches the token and the map of the timers, which send   *)
(* does not.                                                               *)
CallsFindSessionAtRest ==
    Waits("open") \/ Waits("send") =>
        /\ \A i \in DOMAIN posts : posts[i].to # Current.peer
        /\ handler.peer = Current.peer => handler.out = <<>> /\ handler.states = <<>>

(* No notification is lost: a test ends, and passes unless a wait has run  *)
(* out of time.                                                            *)
TestEnds == <>(test \in {"passed", "timed out"})
=============================================================================
