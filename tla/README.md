# Verification of crocofix

TLA+ models of crocofix, a C++ implementation of the FIX protocol, the TLC
configurations that check them on small instances, and theorems about them that
TLAPS proves for every value of the constants. `PROJECT.json` maps every
definition to the lines it models.

## 1. The system

| part | state | operations | interacts with |
|------|-------|------------|----------------|
| session (`session.cpp`) | `m_state`, incoming and outgoing sequence number, resent and target number of a recovery, expected and next test request id, two timer tokens, options | `open`, `close`, `send`; on every message read: validation, sequence numbers, one handler per admin message; two timer callbacks | reader (`message_read`, `closed`), writer (`write`, `closed`), scheduler (timers), application (calls, `state_changed`) |
| reader / writer (`socket_reader.cpp`, `socket_writer.cpp`, and the in-memory pair of the tests) | read buffer with two offsets, the message under construction; two write buffers, active and pending | `open`, `close`, asynchronous read, decode and dispatch; `write`, flush | session, `io_context`, codec |
| scheduler (`boost_asio_scheduler.cpp`) | map from tokens to timers, queue of callbacks | `schedule`, single shot and repeating timers, `cancel_callback` | session |
| message and fields (`message.cpp`, `field_collection.cpp`) | fields, decode state that survives fragments | `decode`, `encode`, checksum, body length, field access | reader, writer, session |
| order book (`order.cpp`, `order_book.cpp`) | orders by key, pending fields, previous status, new id | `process` of five message types, `commit`, `rollback`, `replace` | application |
| session fixture (`session_fixture.cpp`, `blocking_queue.cppm`) | six queues between the test's thread and the scheduler's, each with a mutex and a condition | opening, sending, the default logon sequence, expectations; `enqueue`, `try_dequeue` with timeout | two sessions, the in-memory transport |
| fixsed (`pipeline.cpp`) | two connections, a Lua state | read, run the script, write, in both directions on one thread | reader, writer, Lua |
| dictionary, lexicographer, fixorchestra, fixcat, bindings, reports | constant tables, generators, formatting | | |

What is hard about it: two sessions run the same state machine against each
other over two streams, with messages in flight in both directions while one or
both recover from a gap, reset the numbering, or close; timers that cannot be
cancelled any more once their callback is queued; numbers that are allocated
before the write that may fail; a write that runs other handlers while it waits;
a decoder that is called with fragments.

What makes each part correct:

* session: no message of the peer is lost or skipped without a gap fill; the two
  numberings agree whenever nothing is under way; a recovery is requested once
  and completes; logon completes; nobody is disconnected without a reason; both
  sides end in the same condition; the end of a session is final.
* writer: bytes leave in the order of the calls, none twice, none lost.
* scheduler: a callback runs once per expiry; a timer that was cancelled in time
  is silent; no timer is lost.
* reader and codec: decoding what was encoded, in any fragmentation, gives the
  same fields; the checksum and the length are those of the protocol; closing
  stops the reader.
* fixsed: each direction forwards in order and drops nothing but what its script
  fails on, whatever the other one does meanwhile.
* fixture: no interleaving of the two threads makes a test fail or hang.
* order book: a rejected request restores the order, a replacement chain keeps
  its ids and ends, no order is overwritten, also when a message is refused.

## 2. The modules

| module | models |
|--------|--------|
| `Session` | `session.cpp`: the session as a record and every member function that changes it as an operator from records to records, under its name in the source |
| `SessionPair` | an initiator and an acceptor joined by two FIFO streams, with their applications, transports and timers |
| `MCSessionPair` | starting numbers and delays for TLC |
| `SessionEndpoint` | one session against a peer that may send anything |
| `MCSessionEndpoint` | the messages of that peer |
| `SessionFixture`, `MCSessionFixture` | `session_fixture.cpp`: the two threads of a session test, its blocking queues, and four of the tests as scripts |
| `Scheduler` | `boost_asio_scheduler.cpp` and the `io_context` below it |
| `OrderedStream` | what a writer promises: accepted messages leave in the order of the calls, each once |
| `SocketWriter`, `MCSocketWriter` | `socket_writer.cpp` and the thread of the `io_context` that runs it; implements `OrderedStream` |
| `MessageCodec` | `message.cpp` and the part of `field_collection.cpp` it needs: encode, decode, checksum, body length, on bytes |
| `SocketReader`, `MCSocketReader` | `socket_reader.cpp`, fed by an encoder, read in pieces |
| `Pipeline`, `MCPipeline` | `pipeline.cpp` of fixsed: two readers and two writers on one thread; implements `OrderedStream` twice |
| `OrderBook`, `MCOrderBook` | `order.cpp` and `order_book.cpp` |
| `SessionProofs`, `RecoveryProofs`, `EndpointProofs`, `SchedulerProofs`, `SocketWriterProofs`, `PipelineProofs`, `OrderBookProofs` | the theorems about each; the first two are both about `SessionPair` |
| `QueueLemmas` | lemmas about a queue in two buffers and about the mark, used by the writer's and the pipeline's proofs |

`Session` has no variables. A handler in the code is a sequence of assignments
and calls; the operator is their composition, so one step of a model is one
whole call into the session, every message it writes and every timer it starts
included. The correspondence of the record's fields:

| field | code |
|-------|------|
| `state`, `logonReceived`, `incoming`, `outgoing`, `resent`, `target`, `nextTestReq`, `expectedTestReq` | the members of the same names (`m_incoming_resent_msg_seq_num` is `resent`, and so on); `Missing` is an empty `std::optional` |
| `heartbeat`, `delay`, `useNext`, `behaviour` | `session_options` |
| `heartbeatTimer` | `m_heartbeat_timer_token` has a value |
| `testTimer`, `orphans`, `posted` | `m_test_request_timer_token` and what has become of the timers: running under the token, running under no token, expired with the callback queued |
| `readerOpen`, `writerOpen` | whether the reader delivers and the writer writes |
| `out` | what the session wrote and its peer has not read |

Actions: `Open`, `Close`, `SendApplicationMessage`, `FailToSend`,
`SendResetLogon` are the application's calls (`FailToSend`: the writer throws
after the number was allocated); `Receive` is `on_message_read` for the next
message; `ReceiveClose` and `Drop` are the end of the stream and what a closed
reader ignores; `HeartbeatTimer`, `TestTimerExpires`, `OrphanTimerExpires` and
`TestRequestCallback` are the scheduler's. `Idle` stutters where both sessions
are logged on or disconnected and nothing is in flight, so that TLC's deadlock
check reports every other state in which nothing can happen.

`SessionPair` begins by choosing a `scenario`: the sequence numbers and options
the two applications have set, and how many resets and failed writes happen, who
may close, and up to which number the sessions go on talking. What a run claims
may then depend on the scenario: `BothLogOn`, for instance, is about those in
which nobody closes and nothing is reset.

Abstractions. CheckSum, BodyLength, BeginString and the CompIDs are one flag,
`wellFormed`: the four checks have the same consequence. A numeric field is a
natural number, absent (`Missing`) or refused by `std::stoi` (`NotANumber`);
negative numbers and 32 bit overflow are left out. Every message has a MsgType
and a MsgSeqNum. All application message types are one. Time is left out: a
timer that runs may expire at any moment. The transport is that of the session
tests (`test_reader.hpp`, `test_writer.hpp`), except that a reader delivers
nothing before it was opened, as `socket_reader` does: in order, nothing lost,
the end of the stream signalled. Calls into one session do not overlap, as in the examples, where the
application, the reader and the timers share one `io_context` and one thread;
the tests call `open` and `send` from a second thread, without a lock, and
`SessionFixture` shows that they do so when nothing is posted for the session and
a handler of it that has not returned yet has nothing left to tell.

`SocketWriter`. The buffers are `pending` and `active`, each an offset and the
messages in it that the socket has not taken; `operation` is what has become of
the `async_write`. A write whose wait runs other handlers is not one step: it
appends, flushes, and leaves `depth` one higher; the thread is then in the loop
of that write (`thread = "loop"`), where the `io_context` may run a handler
(`RunHandler`, which may write again), the handler of the completed write
(`WriteCompleted`) or of the failed one (`WriteFailed`), until `WriteReturns`
finds the active buffer empty. An exception ends some or all of the waits,
depending on where the application catches it (`Throw`). `SocketTakes`,
`SocketDone` and `SocketFails` are the socket, message by message instead of
byte by byte. The refinement: the queue of `OrderedStream` is the active
followed by the pending messages. This is the stream that `SessionPair` takes
for granted, and `WriteThrows` its `FailToSend`.

`Scheduler`. `timers` is the map's keys, `wait` the state of each timer's
asynchronous wait, `posted` the callbacks in the queue. Expiry, the handler of
the wait and the callback are three steps, and a cancellation may come between
any two of them: before the first it aborts the wait, later it does nothing.
The handler of a single shot timer erases by a token it captured by reference
and which no longer exists; that is a choice among all tokens and none. What
follows from it, and only from it, is kept in `stray`; a repeating timer that is
erased this way makes `handler` throw out of `io_context::run` (`running`).

`MessageCodec` and `SocketReader`. Values are sequences of bytes, and tags are
numbers that are written in decimal. The peer encodes the messages of a script
(`Send`); the reader reads any number of the bytes that are there (`Read`), and
each round of its loop is a `Decode`, so that the session can close in between.
`char` is signed, as on the usual platforms, so that the checksum of bytes above
127 can be negative, which `encode` cannot format. `std::from_chars` and
`std::stoi` read digits without a sign and without overflow; the running sum is
kept modulo 256, which is all that is used of it. `number_of_digits` is the
overload for `int`. The fields of a message other than the ones that encode,
decode and the session's checks treat specially are one text field.

`Pipeline`. A read handler is on a `stack`: a write that waits runs other
handlers, which can be the read handler of the other direction, which can wait
as well; the first write then returns only after the second. A read brings a
batch of whole messages; how bytes become messages is `SocketReader`. The script
may fail on any message, which is then dropped (`ScriptFails`; `failed` is a
history of these). A direction's writer is that of
`SocketWriter` without its failures (`offset` is that of the pending buffer, which
`write` advances and the swap resets), so that what is new is the nesting of two
of them. Each direction implements `OrderedStream`.

`SessionFixture`. `posts` is the queue of the `io_context`, which the scheduler's
thread works off; the test's thread performs a script of calls and expectations.
A delivery is several steps: `Deliver` tells the queue of incoming messages and
begins a handler, which tells what it writes (`Write`) and its change of state
(`ChangeState`) one by one, in any order between the two kinds, and ends (`Return`).
The test's thread may take what it is told, and call into a session, between any
two of them. The record of the session is the one the handler leaves from its
beginning on; nobody looks at it before the handler has told everything, which
is what `CallsFindSessionAtRest` says. Of several state changes in one handler
only the last is recorded. A dequeue of an empty queue sleeps, is notified or
gives up (`TimeOut`). `enqueue` and `try_dequeue` each hold the mutex throughout,
so each is one step; so are the two statements of `test_writer::write` that tell
the queue and post the delivery, and a call of the test's thread, which writes
last. Timers of the sessions do not run out in these tests.

`OrderBook`. One action per message type of `process`, over any combination of
a few ids; the functions of `order` are operators from orders to orders under
their names in the source. `set_status` keeps what `field_collection::set` does
by default: a field that is not there is not set. `replace` is two operators,
the `replacement` and what becomes of the original (`replaced`). A message
without the ids it needs makes `process` throw (`result = "throws"`), in the
middle of `update` for a replace request (`update_cut_short`). A NewOrderSingle
may carry any OrigClOrdID, and an execution report (`Reports`) may lack any of its
fields; whether it replaces the order is decided by its ExecType alone, as in the
code. `story` is a history variable: whether the order came by a replacement,
whether a request is open and whether anything has crossed it.

## 3. The runs

| run | instance | shows |
|-----|----------|-------|
| `session_pair` | 19 scenarios: one side has missed 1 or 2 messages; either side delays its TestRequest; one write fails; NextExpectedMsgSeqNum with an initiator that has missed 0, 2 or 3 messages or an acceptor that has missed 1 or 2; a gap with delays while both applications may close; two resets, also at the same time | `TypeOK`, `StreamsInOrder`, `SequencesAgree`, `RecoveryCatchesUp`, `OneRecovery`, `NoReject`, `NoSilentGap`, `BothLogOn`, `Settles` |
| `endpoint` | an acceptor with a delay, or an initiator with NextExpectedMsgSeqNum, and a peer that may send anything | `TypeOK`, `AcceptorNeedsLogon`, `NumbersAreConsecutive`, `ExpectedNumberMoves`, `EndIsFinal` |
| `session_fixture` | the tests "logon", "TestRequest", "Logon with no HeartBtInt" and "Logon with MsgSeqNum too low" | `AsExpected`, `CallsFindSessionAtRest`, `TestEnds` |
| `scheduler` | three timers, repeating ones expire twice | `TypeOK`, `TimersAccounted`, `CallbacksCounted`, `CancellationIsFinal`, `CallbacksRun` |
| `socket_writer` | buffers of 4 with the mark at 2, messages of 1 and 3, six calls; the network may fail, handlers may close and stop | `TypeOK`, `NothingStranded`, `SmallMessagesFit`, `OrderedWrites` (refinement), `WritesReturn` |
| `socket_reader` | a read buffer of 11 bytes, two messages: any of twelve kinds, then any of five | `DispatchedAsSent`, `RemainderIsOneField`, `AsciiIsSent`, `AllDispatched`, `ClosedStops` |
| `pipeline` | buffers of 3 with the mark at 1, four messages in each direction, the third of size 1 to 3; each side may or may not read | `NeverOverflows`, `OrderedForwarding` (two refinements), `AllForwarded` |
| `order_book` | three ids, two terms, four messages out of all the malformed ones as well, up to symmetry | `TypeOK`, `BookIsKeyed`, `ReplacementChainsEnd`, `RejectionLeavesNoTrace`, `NothingOverwritten` |

Runs that end in a violation show where the code departs from what a comment, a
message or a test of the repository says (details under `findings`):

| run | what happens |
|-----|--------------|
| `two_gaps` | both sides have missed a message; each drops the other's ResendRequest because it is itself resending; neither recovery completes |
| `stale_test_request` | the settings of the test "Logon with MsgSeqNum too high": a test request timer that expires while the ResendRequest arrives leads to two TestRequests, and the answer to the first disconnects |
| `next_expected_gap_of_one` | the acceptor does not tell an initiator that it has missed exactly one message |
| `next_expected_recovery` | with NextExpectedMsgSeqNum a gap in mid session is never filled: the gap fill is rejected in state resending |

`session_pair` keeps out of these situations by its scenarios alone: one gap at a
time, no delay together with a gap unless somebody may close, and with
NextExpectedMsgSeqNum no failing write and no initiator that has missed exactly
one message.

Four more findings belong to runs that pass, whose properties say what the code
does where a comment, a message or a document says something else:

* `session_pair`: with NextExpectedMsgSeqNum, an acceptor that has missed messages
  is carried past the gap by the initiator's Logon and then rejects the gap fill
  the initiator sends, "performing resend". `NoSilentGap` excepts that Logon
  (`AnswersLogon`), and `NoReject` these scenarios (`GapFillsAreDue`).
* `order_book`: `mPreviousOrdStatus` survives a successful reply, contrary to its
  comment, so `RejectionLeavesNoTrace` excepts what follows a cancellation.
* `scheduler`: it is the single shot timers that may stay in the map and the
  repeaters that go, the reverse of the TODO in `cancel_callback`; so says the third
  conjunct of `TimersAccounted`.
* `pipeline`: a message whose script fails is dropped, although the README of
  fixsed says that there is no mechanism to drop messages; `AllForwarded` excepts
  these, and no others.

Bounds. A scenario's `maxMsgSeqNum` stops heartbeats and application messages,
not the protocol's own messages; it is 4 to 6 above the number a side starts
with, which leaves room for two or three of them from each side in the middle of
a recovery that itself takes about five numbers. `MaxGap` is 2: gaps of one and
of more than one differ in the code's comparisons, larger ones do not. Two
resets can cross; one write fails. In `SessionEndpoint` the bounds stop the
session's own counters (`MaxMsgSeqNum`, `MaxTestReqs`) and the number of timers
under way; the peer uses numbers 1 to 3 around the expected one.

With three timers a handler can erase a timer that is neither its own nor the
one that is being cancelled; two expiries of a repeater are one that is
cancelled in time and one that is not. The read buffer holds the longest field of
an ordinary message exactly, so that it fills up, is compacted and, by one byte
more, overflows; two messages are needed for what is left of the first to be in
front of the second. The kinds are those that encode and decode treat
differently: data with separators in it, bytes above 127, fields that fit
exactly or not, checksums and lengths of the caller's own, unknown tags. In the
pipeline, four messages fill a pending buffer behind an active one with the read
handlers of both directions nested.

The writer's mark leaves room for one small message and not for the large one,
as in the code (8192 and 7500); six calls fill both buffers, nest two waits and
still leave calls to refuse. Four messages are a new order, a report, a request
and its answer, or a new order and a chain of two replacements, the first with its
request; `MCReports` has one status of each kind that matters; three ids are a chain of three, and the symmetry of ids and terms is
sound because no definition tells them apart and the properties are safety.

What the runs leave out is said by the properties: `WritesReturn`
does not promise that a write returns after a failure (the offset of the active
buffer stays) or once the `io_context` is stopped (`run_one` returns at once,
the loop does not end); `RejectionLeavesNoTrace` speaks of requests that nothing
has crossed, because a rejection restores the status at the time of the request,
also when a fill has been reported since; `ReplacementChainsEnd` of orders that
came by a replacement, because a NewOrderSingle may carry an OrigClOrdID that
names nothing, or itself; `EndIsFinal` allows the TestRequest that was put off
before the peer closed, which the code does write. `CallbacksRun` makes no promise for a
timer that another handler has erased, nor once the exception has ended `run`;
`CancellationIsFinal` none for a cancellation that comes after the expiry, which
the code loses. `AllDispatched` and `ClosedStops` except messages with a field
that does not fit into the read buffer: the reader then spins, reading nothing
into no room, also after it was closed. `AsciiIsSent` excepts bytes above 127.
`TestEnds` allows a test to time out, which it does only if the scheduler's
thread is not run for five seconds. Except for `session_pair`, all runs may
stop: a bound is reached, the script has ended, or the program has.

Fairness. Applications open their session, a written message is eventually
read (`Transport`), and a timer eventually expires and its callback runs
(`Timers`): what TCP and a running `io_context` do. Nothing is assumed of
heartbeats, application messages, resets, failures or closing. In
`SocketWriter`, handlers return, the socket makes progress (the peer reads), and
the handler of a finished write runs even if others keep being ready (strong
fairness: the `io_context` runs ready handlers in order). In `Scheduler`, timers
expire and handlers and callbacks in the queue run. In `SocketReader`, the peer
sends its script, a read that can complete does, and the loop goes on; weak
fairness is spelled out there (infinitely often disabled or infinitely often
taken) because `ENABLED` of an action that decodes is slow to evaluate. In
`Pipeline`, the thread runs, what was sent arrives, and the sockets of sides that
read make progress. In `SessionFixture`, both threads are scheduled; nothing is
assumed of timeouts.

## 4. What is proved

`SessionProofs`, from `PairAssumption` (the constants are of their types):

* `TypeCorrect`: `Spec => []TypeOK`.
* `StreamsStayInOrder`: if `StartsBehind` (neither side expects a number the other
  has not reached), `StreamsInOrder` holds in every scenario without resets. So a
  numbered message is never below the number its receiver expects, and the
  Logout of `sequence_number_is_low` is never sent because of one, for every
  delay, number of failed writes, mode, closing and interleaving.

The argument. `StreamsInOrder` is inductive together with `TypeOK`: it speaks
about all the messages in flight (each begins where the ones before it reach,
and none reaches beyond the sender's next number), which is what its
consequence, that the next message is not below the expected number, needs as a
strengthening. Two relations carry the proof. `Grows(s, t)` says that `t` is
well typed, expects the same number as `s`, keeps the stream in order and does
not go below any number `s` was above; it is reflexive and transitive, holds
for every update of the record that leaves numbers and stream alone
(`SameStream`) and for sending (`SendGrows`, `WriteGrows`), and so for every
function of the session that is composed of them. `Reads(s, m, t)` says that
reading `m` leaves the expected number or makes it the one `m` reaches; it
composes with `Grows` and ends in `MessageReads`, about `on_message_read`.
`Steps` says that every step of the pair is of one of three kinds, and each
theorem is then three cases.

`RecoveryProofs`, about the same specification. Its hypotheses are about the
scenarios a configuration lists, and each is named: `StartsBehind`;
`WithoutNextExpected`, because with NextExpectedMsgSeqNum the code fills gaps
unasked and most of the statements are false (runs `next_expected_gap_of_one` and
`next_expected_recovery`, and the acceptor that has missed messages); `WithoutResets`, for the one statement that does not
itself except resets; `StartsAtOne` (no session expects number 0);
`AtMostOneGap`, for `OneRecovery` only. Gaps on both sides at once, any delay,
any number of failed writes and closing at any time are included in the others;
so is the situation of `two_gaps`, in which a recovery does not complete, but
nothing is rejected either.

* `NothingIsRejected` (`NoReject`) and `RecoveriesCatchUp` (`RecoveryCatchesUp`),
  under `StartsBehind` and `WithoutNextExpected`.
* `SequencesDoAgree` (`SequencesAgree`), under `WithoutResets` as well.
* `NoGapIsSilent` (`NoSilentGap`), under `WithoutNextExpected` and `StartsAtOne`,
  whatever the numbers a side starts with otherwise, and with resets.
* `RecoveryIsUnderWay` (`OneRecovery`), under `StartsBehind`,
  `WithoutNextExpected` and `AtMostOneGap`: either no write fails and one side
  starts in step, the other having missed any number of messages, or both start
  in step and at most one write fails. Every scenario of `session_pair` without
  NextExpectedMsgSeqNum is one of these. The hypothesis is needed: with gaps on
  both sides each drops the other's ResendRequest (run `two_gaps`), and a session
  that is resending does not ask again for what a write that fails then loses.

The argument. None of the first three is inductive. The invariant is `PairInv`,
which says of each session, in the role `s` of the reader and `t` of the writer:

* `Proper`: which states go with an open reader and writer, and that all in the
  stream is as this code builds it (a Logon has its HeartBtInt, a SequenceReset is
  a gap fill with a number, and so on);
* `LogonFirst`: an acceptor that waits for a Logon reads one first;
* `Recovers`: at most one ResendRequest of `s` or answer of `t` is under way, and
  only while `s` is behind its target; it begins with the number `s` expects; and
  whatever else `t` has to send is beyond the target. This is what makes an
  extended target harmless: the answer is written after everything the target
  can be extended to, and the number in it is `t`'s next one;
* `Tracks`: the last message in the stream reaches the writer's next number, but
  for failed writes, and so does the number a session expects that is logged on
  and has read everything;
* `Ends`: the stream of a closed writer ends with the end of the stream.

`StreamsInOrder` and `TypeOK` are used as lemmas. The functions of a session are
described by two relations, `Appends` (only plain messages are added to the
stream, numbered from the session's next number on) and `Quiet` (and the peer
cannot tell the session from what it was), which compose; `on_message_read` by
the six cases of `Outcome`. What a step does to the pair is then split into what
it means to the reader of the stream it appends to and to the writer of the
stream it reads from. `PairInv` was checked by TLC on 72 scenarios before it was
proved.

`PairInv` has that at most one request or answer is under way; that there is one
whenever there should be takes `GapOnOneSide` on top. One of the two streams has no
gap at all (`InStep`: it is a run of consecutive numbers from the one its reader
expects to the writer's next one), so its reader never starts a recovery; and in
the other direction, a session that is behind has its request in the stream or
an answer in the peer's with nothing missing behind the answer, and one that has
caught up but is still in state resending is in step again (`UnderWay`). Until
the write fails that a scenario allows, this holds of both sides; it is what says
on which side the gap opens. `Appends` carries that what a call adds to a stream
continues its run (`RunsFrom`). `GapOnOneSide` too was checked by TLC first, on
more scenarios than the run's.

For `NoGapIsSilent` the invariant is only that no session expects 0: a
Logon that resets is accepted with number 1 and makes it expect 2. `Moves`
describes `on_message_read`, `Grows` of `SessionProofs` everything else.

`SocketWriterProofs`, from `WriterAssumption` (sizes are positive, the rest are
naturals and Booleans; the mark need not be below the size):

* `WriterTypeCorrect`, `NothingIsStranded`, `SmallMessagesAreAccepted`: the three
  invariants of the run. The inductive invariant `Inv` adds that a completed
  write has nothing left in the active buffer, that an offset of zero means no
  messages, and that the pending buffer is above the mark only while a write
  waits or after an exception has ended a wait.
* `WriterIsOrderedStream`: `Spec => OrderedWrites`. A write is `Accept` or
  `Refuse`, `SocketTakes` is `Emit`, and every other step, the swap of the
  buffers in `WriteCompleted` included, leaves the concatenation of the buffers
  alone; the invariant is needed for the two swaps, which are only invisible
  because one of the buffers is empty. Two lemmas about concatenation carry it.

`PipelineProofs`, from `PipelineAssumption`: `DirectionsAreOrdered`, both
refinements. The invariant says that a batch is the last messages taken from its
side, in order; that only a side whose read handler is on the stack has a batch,
which is why no second handler can get in between; and that a direction without
a write under way has nothing in its buffers, which makes the swap invisible.
`QueueLemmas` has what both this proof and the writer's need of concatenation.

`WaitsSuffice` (`NeverOverflows`) adds `WaitInv`: the offset of a direction is above
the mark only while its read handler is on the stack, and waiting if it is on
top; and without a write under way it is zero. A handler that forwards is on top
and does not wait, so it finds the offset at or below the mark, and the message
overflows only if it is larger than what is above the mark. That no other
handler of the same direction can run during the wait is the part of the
invariant above about the stack.

`SchedulerProofs`, from `SchedulerAssumption`: `SchedulerTypeCorrect`,
`TimersAreAccountedFor`, `CallbacksAreCounted`, `CancellationStaysFinal`, the
invariants and the action property of the run. The inductive invariant adds that
tokens not yet returned are unused, that an aborted wait was aborted by a
cancellation or by a stray erasure, and that a single shot timer that waits has
not expired before.

`EndpointProofs`, from `EndpointAssumption`, for any set of messages the peer may
send: `EndpointTypeCorrect`, `AcceptorWaitsForLogon`, `EndsAreFinal`,
`NumbersStayConsecutive`, `ExpectedNumberMovesByRule`: all that the run checks. One
reflexive and transitive relation, `Follows(x, y)`, says of a session before and
after a call that it stays well typed, that an acceptor that is logged on or
beats afterwards has processed a Logon if this was so before, and that a closed
writer stays closed and writes nothing. There is a lemma for each function of
the session; the ones on the way into `logged_on` assume what
`FirstMessageIsValid` has checked (`Known`).

The two theorems about numbers have relations of their own: `Keeps(x, y)` (the
expected number stays, the writer stays open or closed, and what `y` has written
continues the numbers of what `x` had) and `Leaves(x, y)` (the same, except that
the writer may have been closed, after which the session writes nothing more in
the same call). `Consecutive` relates a stream to the number before its first
message and the one after its last; it is kept by appending a gap fill, a message
with the next number, or a Logon that resets with number 1 whatever number was
next, which is how a `reset` that is followed by its Logon is covered.
`Closes(x, y)`, which goes with them, says that a call that closes the writer
leaves the session ended, and that nothing but the end of the stream follows a
Logout it has written, whatever the handler does after `send_logout`.
`EndsAreFinal` takes it from every step of a session that runs, and for one that
has ended goes through the few steps that remain: the defibrillator, which finds
that it is not logged on, the timers, the callback of the test request, `close`
and `open`. `Handles(x, m, y)` lists what reading a message may do to the expected number;
the theorem needs in addition that it is never 0.

`OrderBookProofs`, from `BookAssumption`:

* `BookStaysKeyed`: from `Keyed`, which every function of `order` preserves, under
  the new id for a replacement.
* `BookTypeCorrect` and `RejectionsLeaveNoTrace`: the second needs to know what
  the order looks like while a request is open, `Traced`: `PreviousOrdStatus` is
  the status to go back to, and the order has a status that can be set, as
  `rollback` sets none that is not there.
* `NothingIsOverwritten`: an action property, from a relation between an order
  before and after a step (`Kept`) that every function of `order` satisfies, and
  from the one case in which terms change, `update` with a report that has some.
  `Reports` is a parameter: any set of reports, whatever their ExecType and
  OrdStatus.
* `ReplacementChainsDoEnd`: that chains of replacements end is said without
  following them, so that no induction over their length is needed: no set of
  replacements has replaced only one another. A step keeps every `OrigClOrdID`
  (`Kept`) and adds at most one order, which is a new one, whose `OrigClOrdID`
  does not count, or a replacement, whose `OrigClOrdID` was in the book before
  it, so that it is the way out of any set it belongs to.

Only model-checked. All liveness: fairness and leads-to are beyond the prover.
`DispatchedAsSent`, `RemainderIsOneField` and `AsciiIsSent` of `SocketReader`: they
are about `MessageCodec`, which is recursive, and what it computes needs induction
over the bytes. `AsExpected` and `CallsFindSessionAtRest` of `SessionFixture`, whose
scripts are particular tests. Where `NumbersAreConsecutive` and `ReplacementChainsEnd` could
have been said with a filtered sequence or a recursion, they are said with
quantifiers instead, which is what makes them provable.

## 5. Not modelled

* fixcat, the order report, `report`, `pretty_print`, logging and the options of
  the programs: they format, parse a command line or print.
* The dictionary, the lexicographer and fixorchestra: constant tables and the
  generators that write them.
* The Lua and Python bindings: they register types. What a script does to the
  fields of a message is whatever the script does.
* `read_file`; `dequeue` without a timeout, which has no caller; `field_collection`
  beyond `set`, `remove` of the first field and `find`, which nothing modelled uses.
* Connecting and accepting, and the destruction of the fixture, which stops the
  `io_context` and joins its thread.
* Time: how long a timer runs, and so that a HeartBtInt that changes in mid session
  does not restart the heartbeat.
* Numbers beyond 32 bits, and negative sequence numbers, which `std::stoi` accepts.
