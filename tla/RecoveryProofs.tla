--------------------------- MODULE RecoveryProofs ---------------------------
(***************************************************************************)
(* Proofs about recoveries, agreement and gaps in SessionPair, for every   *)
(* value of its constants, as long as neither session uses                 *)
(* NextExpectedMsgSeqNum; all but NoGapIsSilent speak of scenarios in      *)
(* which no application resets the numbering.                              *)
(***************************************************************************)
EXTENDS SessionProofs, FiniteSetTheorems

WithoutNextExpected ==
    \A c \in Scenarios : \A p \in Peers : ~c.settings[p].useNext

WithoutResets == \A c \in Scenarios : c.resets = 0

-----------------------------------------------------------------------------
(* The invariant.                                                          *)

IsRequest(m) == m.type = "ResendRequest"
IsFill(m) == m.type = "SequenceReset"

(* A message as a session of this code builds it.                          *)
Sane(m) ==
    /\ m \in Message
    /\ m.wellFormed /\ ~m.resetSeqNum
    /\ m.type \notin {"Reject", "XMLnonFIX"}
    /\ m.possDup => IsFill(m)
    /\ IsFill(m) => m.gapFill /\ m.newSeqNo \in Nat
    /\ IsRequest(m) => m.beginSeqNo \in Nat /\ m.endSeqNo \in Nat
    /\ m.type = "Logon" => m.heartBtInt \in Nat
    /\ m.type = "TestRequest" => m.testReqID \in Nat

OpenStates == {"logging_on", "resending", "logged_on"}

(* What can be said of a session alone: which states go with an open       *)
(* reader and an open writer, and that it has done nothing before it was   *)
(* opened.                                                                 *)
Proper(s, p) ==
    /\ s.behaviour = p /\ ~s.useNext
    /\ s.state # "resetting"
    /\ s.readerOpen <=> s.state \in OpenStates
    /\ s.state # "disconnected" => s.writerOpen
    /\ s.state = "connected" =>
          s.out = <<>> /\ s.posted = 0 /\ s.orphans = 0 /\ s.testTimer = "none"
    /\ \A i \in 1..Len(s.out) : Sane(s.out[i])

(* An acceptor s that waits for a Logon will read one first from t.        *)
LogonFirst(s, t) ==
    s.behaviour = "acceptor" /\ s.state # "disconnected" /\ ~s.logonReceived =>
        t.state = "connected" \/ (Len(t.out) > 0 /\ t.out[1].type = "Logon")

(* s still waits for messages up to its target.                            *)
Behind(s) == s.state = "resending" /\ s.incoming <= s.target

(* The recovery of s from t.  At most one request or answer is under way,  *)
(* and only while s is behind; it asks for, or fills, what s expects; and  *)
(* all t has to send otherwise is beyond the target.                       *)
OneAtMost(s, t) ==
    /\ \A i, j \in 1..Len(s.out) : IsRequest(s.out[i]) /\ IsRequest(s.out[j]) => i = j
    /\ \A i, j \in 1..Len(t.out) : IsFill(t.out[i]) /\ IsFill(t.out[j]) => i = j
    /\ \A i \in 1..Len(s.out), j \in 1..Len(t.out) :
          ~(IsRequest(s.out[i]) /\ IsFill(t.out[j]))

BeyondTarget(s, t) ==
    Behind(s) =>
        /\ s.target < t.outgoing
        /\ \A i \in 1..Len(t.out) : Numbered(t.out[i]) => s.target < t.out[i].seq

RequestsMatch(s) ==
    \A i \in 1..Len(s.out) :
        IsRequest(s.out[i]) => Behind(s) /\ s.out[i].beginSeqNo = s.incoming

FillsMatch(s, t) ==
    \A i \in 1..Len(t.out) :
        IsFill(t.out[i]) =>
            /\ Behind(s)
            /\ t.out[i].seq = s.incoming
            /\ s.target < t.out[i].newSeqNo
            /\ \A j \in 1..Len(t.out) :
                  j < i /\ Numbered(t.out[j]) => t.out[j].seq < t.out[i].newSeqNo

Recovers(s, t) ==
    s.state # "disconnected" =>
        OneAtMost(s, t) /\ BeyondTarget(s, t) /\ RequestsMatch(s) /\ FillsMatch(s, t)

(* What t has written last reaches the number it allocates next, but for   *)
(* n failed writes; and a session s that is logged on and has read it all  *)
(* expects that number.                                                    *)
WithinFailures(reached, t, n) == reached <= t.outgoing /\ t.outgoing <= reached + n

Tracks(s, t, n) ==
    t.writerOpen =>
        /\ Len(t.out) > 0 => WithinFailures(Reaches(t.out[Len(t.out)]), t, n)
        /\ Len(t.out) = 0 /\ s.state = "logged_on" => WithinFailures(s.incoming, t, n)

(* The stream of a writer that was closed ends.                            *)
Ends(s, t) ==
    ~t.writerOpen => \/ s.state = "disconnected"
                     \/ Len(t.out) > 0 /\ t.out[Len(t.out)].type = "Close"

Paired(s, t, n) ==
    LogonFirst(s, t) /\ Recovers(s, t) /\ Tracks(s, t, n) /\ Ends(s, t)

(* What the two sessions promise, each in both roles.                      *)
Pair(s, t, n) ==
    /\ s \in SessionRecord /\ t \in SessionRecord
    /\ \E p \in Peers : Proper(s, p) /\ Proper(t, Other(p))
    /\ Paired(s, t, n) /\ Paired(t, s, n)

PairInv ==
    scenario.resets = 0 =>
        \A p \in Peers : Pair(sessions[p], sessions[Other(p)], failures)

-----------------------------------------------------------------------------
(* What the functions of a session do to its stream.                       *)

(* A message that asks for no resend and answers none.                     *)
Plain(m) == Sane(m) /\ ~IsRequest(m) /\ ~IsFill(m)

(* After the first k items the stream of s is a run: it holds one message  *)
(* for every number from the given one up to the one s allocates next.     *)
RunsFrom(s, k, number) ==
    /\ s.outgoing = number + (Len(s.out) - k)
    /\ \A i \in (k + 1)..Len(s.out) :
          Numbered(s.out[i]) /\ s.out[i].seq = number + (i - k - 1)

(* From s to u the session appends plain messages to its stream, beyond    *)
(* all it numbered before, and as a run as long as the writer is open; a   *)
(* writer that closes ends the stream, and one that is closed appends      *)
(* nothing.                                                                *)
Appends(s, u) ==
    /\ u \in SessionRecord
    /\ u.behaviour = s.behaviour /\ u.useNext = s.useNext
    /\ s.outgoing <= u.outgoing
    /\ Len(s.out) <= Len(u.out)
    /\ \A i \in 1..Len(s.out) : u.out[i] = s.out[i]
    /\ \A i \in (Len(s.out) + 1)..Len(u.out) :
          Plain(u.out[i]) /\ (Numbered(u.out[i]) => s.outgoing <= u.out[i].seq)
    /\ u.writerOpen => RunsFrom(u, Len(s.out), s.outgoing)
    /\ s.writerOpen /\ ~u.writerOpen =>
          Len(s.out) < Len(u.out) /\ u.out[Len(u.out)].type = "Close"
    /\ ~s.writerOpen => ~u.writerOpen /\ Len(u.out) = Len(s.out)

(* It does nothing else that its peer or the next message can tell.        *)
Same(s, u) ==
    /\ u.state = s.state /\ u.logonReceived = s.logonReceived
    /\ u.incoming = s.incoming /\ u.target = s.target
    /\ u.readerOpen = s.readerOpen /\ u.writerOpen = s.writerOpen

Quiet(s, u) == Appends(s, u) /\ Same(s, u)

(* An update that leaves the stream and the writer alone.                  *)
LEMMA SameOut ==
    ASSUME NEW s \in SessionRecord, NEW u \in SessionRecord,
           u.behaviour = s.behaviour, u.useNext = s.useNext,
           u.outgoing = s.outgoing, u.out = s.out, u.writerOpen = s.writerOpen
    PROVE  Appends(s, u)
<1>1. s.outgoing \in Nat /\ Len(s.out) \in Nat
  BY FieldTypes
<1> QED
  BY <1>1 DEF Appends, RunsFrom

(* Appends and Quiet are reflexive and transitive.                         *)
LEMMA AppendsReflexive ==
    ASSUME NEW s \in SessionRecord
    PROVE  Appends(s, s) /\ Quiet(s, s)
BY SameOut DEF Quiet, Same

(* A run that goes on.                                                     *)
LEMMA RunsOn ==
    ASSUME NEW t \in SessionRecord, NEW u \in SessionRecord,
           NEW k \in 0..Len(t.out), NEW number \in Int,
           Len(t.out) <= Len(u.out), \A i \in 1..Len(t.out) : u.out[i] = t.out[i],
           RunsFrom(t, k, number), RunsFrom(u, Len(t.out), t.outgoing)
    PROVE  RunsFrom(u, k, number)
<1> DEFINE b == t.outgoing
           c == u.outgoing
           l == Len(t.out)
           m == Len(u.out)
<1>1. /\ b \in Nat /\ c \in Nat /\ l \in Nat /\ m \in Nat /\ k \in 0..l /\ l <= m
      /\ b = number + (l - k) /\ c = b + (m - l)
  <2>1. b \in Nat /\ c \in Nat /\ l \in Nat /\ m \in Nat
    BY FieldTypes
  <2>2. b = number + (l - k) /\ c = b + (m - l)
    BY DEF RunsFrom
  <2> QED
    BY <2>1, <2>2
<1>2. /\ \A i \in (k + 1)..l : Numbered(t.out[i]) /\ t.out[i].seq = number + (i - k - 1)
      /\ \A i \in (l + 1)..m : Numbered(u.out[i]) /\ u.out[i].seq = b + (i - l - 1)
      /\ \A i \in 1..l : u.out[i] = t.out[i]
  BY DEF RunsFrom
<1>3. SUFFICES /\ c = number + (m - k)
               /\ \A i \in (k + 1)..m :
                     Numbered(u.out[i]) /\ u.out[i].seq = number + (i - k - 1)
  BY DEF RunsFrom
<1> HIDE DEF b, c, l, m
<1>4. c = number + (m - k)
  BY <1>1
<1>5. ASSUME NEW i \in (k + 1)..m
      PROVE  Numbered(u.out[i]) /\ u.out[i].seq = number + (i - k - 1)
  <2>1. CASE i <= l
    <3>1. i \in (k + 1)..l /\ i \in 1..l
      BY <1>1, <2>1
    <3> QED
      BY <1>2, <3>1
  <2>2. CASE ~(i <= l)
    <3>1. i \in (l + 1)..m /\ b + (i - l - 1) = number + (i - k - 1)
      BY <1>1, <2>2
    <3> QED
      BY <1>2, <3>1
  <2> QED
    BY <2>1, <2>2
<1> QED
  BY <1>4, <1>5

LEMMA AppendsTransitive ==
    ASSUME NEW s \in SessionRecord, NEW t \in SessionRecord, NEW u \in SessionRecord,
           Appends(s, t), Appends(t, u)
    PROVE  Appends(s, u)
<1>1. /\ Len(s.out) \in Nat /\ Len(t.out) \in Nat /\ Len(u.out) \in Nat
      /\ s.outgoing \in Nat /\ t.outgoing \in Nat /\ u.outgoing \in Nat
      /\ u.out \in Seq(Message)
  BY FieldTypes
<1>2. /\ s.outgoing <= t.outgoing /\ t.outgoing <= u.outgoing
      /\ Len(s.out) <= Len(t.out) /\ Len(t.out) <= Len(u.out)
      /\ \A i \in 1..Len(s.out) : t.out[i] = s.out[i]
      /\ \A i \in 1..Len(t.out) : u.out[i] = t.out[i]
  BY DEF Appends
<1>3. /\ s.outgoing <= u.outgoing /\ Len(s.out) <= Len(u.out)
      /\ \A i \in 1..Len(s.out) : u.out[i] = s.out[i]
  BY <1>1, <1>2
<1>4. ASSUME NEW i \in (Len(s.out) + 1)..Len(u.out)
      PROVE  Plain(u.out[i]) /\ (Numbered(u.out[i]) => s.outgoing <= u.out[i].seq)
  <2>1. CASE i <= Len(t.out)
    <3>1. i \in (Len(s.out) + 1)..Len(t.out) /\ i \in 1..Len(t.out)
      BY <1>1, <2>1
    <3> QED
      BY <1>2, <3>1 DEF Appends
  <2>2. CASE ~(i <= Len(t.out))
    <3>1. i \in (Len(t.out) + 1)..Len(u.out) /\ i \in 1..Len(u.out)
      BY <1>1, <2>2
    <3>2. Plain(u.out[i]) /\ (Numbered(u.out[i]) => t.outgoing <= u.out[i].seq)
      BY <3>1 DEF Appends
    <3>3. u.out[i] \in Message
      BY <1>1, <3>1
    <3>4. u.out[i].seq \in Nat
      BY <3>3 DEF Message
    <3> QED
      BY <1>1, <1>2, <3>2, <3>4
  <2> QED
    BY <2>1, <2>2
<1>5. ASSUME u.writerOpen PROVE RunsFrom(u, Len(s.out), s.outgoing)
  <2>1. RunsFrom(t, Len(s.out), s.outgoing) /\ RunsFrom(u, Len(t.out), t.outgoing)
    BY <1>5 DEF Appends
  <2>2. Len(s.out) \in 0..Len(t.out)
    BY <1>1, <1>2
  <2> QED
    BY <1>1, <1>2, <2>1, <2>2, RunsOn
<1>6. ASSUME s.writerOpen, ~u.writerOpen
      PROVE  Len(s.out) < Len(u.out) /\ u.out[Len(u.out)].type = "Close"
  <2>1. CASE t.writerOpen
    BY <1>1, <1>2, <1>6, <2>1 DEF Appends
  <2>2. CASE ~t.writerOpen
    <3>1. /\ Len(s.out) < Len(t.out) /\ t.out[Len(t.out)].type = "Close"
          /\ Len(u.out) = Len(t.out)
      BY <1>6, <2>2 DEF Appends
    <3>2. Len(t.out) \in 1..Len(t.out)
      BY <1>1, <3>1
    <3> QED
      BY <1>2, <3>1, <3>2
  <2> QED
    BY <2>1, <2>2
<1>7. ASSUME ~s.writerOpen PROVE ~u.writerOpen /\ Len(u.out) = Len(s.out)
  BY <1>7 DEF Appends
<1>8. u.behaviour = s.behaviour /\ u.useNext = s.useNext
  BY DEF Appends
<1> QED
  BY <1>3, <1>4, <1>5, <1>6, <1>7, <1>8 DEF Appends

(* What the writer, if it is open, has written last takes the last number. *)
LEMMA AppendsLast ==
    ASSUME NEW s \in SessionRecord, NEW u, Appends(s, u), u.writerOpen
    PROVE  /\ Len(u.out) = Len(s.out) => u.outgoing = s.outgoing
           /\ Len(s.out) < Len(u.out) =>
                 /\ Numbered(u.out[Len(u.out)])
                 /\ u.out[Len(u.out)].seq + 1 = u.outgoing
<1>1. /\ Len(s.out) \in Nat /\ Len(u.out) \in Nat /\ s.outgoing \in Nat
      /\ RunsFrom(u, Len(s.out), s.outgoing)
  BY FieldTypes DEF Appends
<1>2. ASSUME Len(s.out) < Len(u.out)
      PROVE  Len(u.out) \in (Len(s.out) + 1)..Len(u.out)
  BY <1>1, <1>2
<1> DEFINE a == s.outgoing
           b == u.outgoing
           k == Len(s.out)
           l == Len(u.out)
           e == u.out[l]
<1>3. /\ a \in Nat /\ k \in Nat /\ l \in Nat /\ b = a + (l - k)
      /\ k < l => Numbered(e) /\ e.seq = a + (l - k - 1)
  BY <1>1, <1>2 DEF RunsFrom
<1> HIDE DEF a, b, k, l, e
<1>4. (l = k => b = a) /\ (k < l => Numbered(e) /\ e.seq + 1 = b)
  BY <1>3
<1> QED
  BY <1>4 DEF a, b, k, l, e

LEMMA QuietTransitive ==
    ASSUME NEW s \in SessionRecord, NEW t, NEW u, Quiet(s, t), Quiet(t, u)
    PROVE  Quiet(s, u)
<1>1. t \in SessionRecord /\ u \in SessionRecord
  BY DEF Quiet, Appends
<1> QED
  BY <1>1, AppendsTransitive DEF Quiet, Same

(* Appending one message.                                                  *)
LEMMA AppendsMessage ==
    ASSUME NEW s \in SessionRecord, NEW u \in SessionRecord, NEW m,
           Plain(m), s.writerOpen,
           u.behaviour = s.behaviour, u.useNext = s.useNext,
           s.outgoing <= u.outgoing, u.out = Append(s.out, m),
           Numbered(m) => s.outgoing <= m.seq,
           u.writerOpen => Numbered(m) /\ m.seq = s.outgoing /\ m.seq + 1 = u.outgoing,
           ~u.writerOpen => m.type = "Close"
    PROVE  Appends(s, u)
<1>1. m \in Message /\ s.out \in Seq(Message)
  BY FieldTypes DEF Plain, Sane
<1>2. /\ Len(s.out) \in Nat /\ Len(u.out) = Len(s.out) + 1
      /\ u.out[Len(u.out)] = m
      /\ \A i \in 1..Len(s.out) : u.out[i] = s.out[i]
  BY <1>1
<1>3. ASSUME NEW i \in (Len(s.out) + 1)..Len(u.out)
      PROVE  u.out[i] = m /\ i = Len(s.out) + 1
  BY <1>2
<1>4. ASSUME u.writerOpen PROVE RunsFrom(u, Len(s.out), s.outgoing)
  BY <1>2, <1>3, <1>4, FieldTypes DEF RunsFrom
<1> QED
  BY <1>2, <1>3, <1>4 DEF Appends

(* session::send of a plain message.                                       *)
LEMMA SendQuiet ==
    ASSUME NEW s \in SessionRecord, NEW m, Plain(m), Numbered(m)
    PROVE  Quiet(s, send(s, m))
<1> DEFINE k == s.outgoing + 1
           t == [s EXCEPT !.outgoing = k]
           n == [m EXCEPT !.seq = s.outgoing]
           u == [t EXCEPT !.out = Append(t.out, n)]
<1>1. s.outgoing \in Nat /\ k \in Nat /\ s.out \in Seq(Message) /\ s.outgoing <= k
      /\ Len(s.out) \in Nat
  BY FieldTypes
<1>2. Plain(n) /\ n.seq = s.outgoing /\ Numbered(n) /\ n \in Message
  BY <1>1 DEF Plain, Sane, IsFill, IsRequest, Numbered, Message
<1>3. send(s, m) = IF t.writerOpen THEN u ELSE t
  BY DEF send, write, reset_for_logon, Plain, Sane
<1> HIDE DEF k
<1>4. /\ t \in SessionRecord /\ t.outgoing = k /\ t.out = s.out
      /\ t.behaviour = s.behaviour /\ t.useNext = s.useNext /\ Same(s, t)
  BY <1>1 DEF SessionRecord, Same
<1> HIDE DEF t, n
<1>5. Append(t.out, n) \in Seq(Message)
  BY <1>1, <1>2, <1>4
<1>6. /\ u \in SessionRecord /\ u.outgoing = k /\ u.out = Append(s.out, n)
      /\ u.behaviour = s.behaviour /\ u.useNext = s.useNext /\ Same(s, u)
  BY <1>4, <1>5 DEF SessionRecord, Same
<1> HIDE DEF u
<1>7. CASE s.writerOpen
  <2>1. u.writerOpen /\ n.seq + 1 = u.outgoing /\ s.outgoing <= n.seq
    BY <1>1, <1>2, <1>6, <1>7 DEF Same, k
  <2>2. Appends(s, u)
    BY <1>1, <1>2, <1>6, <1>7, <2>1, AppendsMessage
  <2> QED
    BY <1>3, <1>4, <1>6, <1>7, <2>2 DEF Quiet, Same
<1>8. CASE ~s.writerOpen
  <2>1. Appends(s, t)
    BY <1>1, <1>4, <1>8 DEF Appends, Same
  <2> QED
    BY <1>3, <1>4, <1>8, <2>1 DEF Quiet, Same
<1> QED
  BY <1>7, <1>8

(* An update of the fields that only the session itself looks at.          *)
LEMMA QuietUpdate ==
    ASSUME NEW s \in SessionRecord, NEW u \in SessionRecord, Same(s, u),
           u.behaviour = s.behaviour, u.useNext = s.useNext,
           u.outgoing = s.outgoing, u.out = s.out
    PROVE  Quiet(s, u)
BY SameOut DEF Quiet, Same

(* The messages the session sends on its own, and the application's.       *)
LEMMA SendsQuiet ==
    ASSUME NEW s \in SessionRecord
    PROVE  /\ \A type \in {"Logout", "Heartbeat", "App"} : Quiet(s, send(s, message(type)))
           /\ \A id \in Nat :
                 Quiet(s, send(s, [message("Heartbeat") EXCEPT !.testReqID = id]))
           /\ ~s.useNext => Quiet(s, send_logon(s, FALSE))
           /\ ~s.useNext => Quiet(s, acceptor_send_logon(s, FALSE))
           /\ Quiet(s, send_test_request(s))
<1>1. ASSUME NEW type \in {"Logout", "Heartbeat", "App"}
      PROVE  Quiet(s, send(s, message(type)))
  <2>1. message(type) \in Message
    BY MessageType DEF MessageTypes, AdminTypes
  <2>2. Plain(message(type)) /\ Numbered(message(type))
    BY <2>1 DEF Plain, Sane, IsRequest, IsFill, Numbered, message
  <2> QED
    BY <2>2, SendQuiet
<1>2. ASSUME NEW id \in Nat
      PROVE  Quiet(s, send(s, [message("Heartbeat") EXCEPT !.testReqID = id]))
  <2> DEFINE m == [message("Heartbeat") EXCEPT !.testReqID = id]
  <2>1. m \in Message
    BY DEF message, Message, MessageTypes, AdminTypes, NumericField
  <2>2. Plain(m) /\ Numbered(m)
    BY <2>1 DEF Plain, Sane, IsRequest, IsFill, Numbered, message
  <2> QED
    BY <2>2, SendQuiet
<1>3. ASSUME ~s.useNext PROVE Quiet(s, send_logon(s, FALSE))
  <2> DEFINE m == [message("Logon") EXCEPT !.heartBtInt = s.heartbeat,
                                           !.resetSeqNum = FALSE,
                                           !.nextExpected = Missing]
  <2>1. s.heartbeat \in Nat
    BY FieldTypes
  <2>2. m \in Message
    BY <2>1 DEF message, Message, MessageTypes, AdminTypes, NumericField
  <2>3. Plain(m) /\ Numbered(m)
    BY <2>1, <2>2 DEF Plain, Sane, IsRequest, IsFill, Numbered, message
  <2>4. send_logon(s, FALSE) = send(s, m)
    BY <1>3 DEF send_logon
  <2> HIDE DEF m
  <2> QED
    BY <2>3, <2>4, SendQuiet
<1>4. ASSUME ~s.useNext PROVE Quiet(s, acceptor_send_logon(s, FALSE))
  BY <1>3, <1>4, AppendsReflexive DEF acceptor_send_logon
<1>5. Quiet(s, send_test_request(s))
  <2> DEFINE k == s.nextTestReq + 1
             t == [s EXCEPT !.expectedTestReq = s.nextTestReq, !.nextTestReq = k]
             m == [message("TestRequest") EXCEPT !.testReqID = s.nextTestReq]
  <2>1. s.nextTestReq \in Nat /\ k \in Nat /\ s.nextTestReq \in NumericField
    BY FieldTypes DEF NumericField
  <2>2. m \in Message
    BY <2>1 DEF message, Message, MessageTypes, AdminTypes, NumericField
  <2>3. Plain(m) /\ Numbered(m)
    BY <2>1, <2>2 DEF Plain, Sane, IsRequest, IsFill, Numbered, message
  <2>4. send_test_request(s) = send(t, m)
    BY DEF send_test_request
  <2> HIDE DEF k, m
  <2>5. /\ t \in SessionRecord /\ Same(s, t) /\ t.outgoing = s.outgoing /\ t.out = s.out
        /\ t.behaviour = s.behaviour /\ t.useNext = s.useNext
    BY <2>1 DEF SessionRecord, Same
  <2> HIDE DEF t
  <2>6. Quiet(s, t) /\ Quiet(t, send(t, m))
    BY <2>3, <2>5, QuietUpdate, SendQuiet
  <2> QED
    BY <2>4, <2>6, QuietTransitive
<1> QED
  BY <1>1, <1>2, <1>3, <1>4, <1>5

(* The timers of the session.                                              *)
LEMMA TimersQuiet ==
    ASSUME NEW s \in SessionRecord
    PROVE  /\ Quiet(s, stop_defibrillator(s))
           /\ Quiet(s, start_defibrillator(s))
           /\ Quiet(s, stop_test_request_timer(s))
           /\ Quiet(s, send_post_logon_test_request(s))
           /\ Quiet(s, expire_test_timer(s))
           /\ s.orphans > 0 => Quiet(s, expire_orphan_timer(s))
           /\ s.posted > 0 => Quiet(s, test_request_callback(s))
           /\ Quiet(s, defibrillate(s))
           /\ Quiet(s, complete_resend(s))
<1>0. ASSUME NEW b \in BOOLEAN, NEW tt \in TestTimerStates, NEW n \in Nat, NEW k \in Nat
      PROVE  /\ Quiet(s, [s EXCEPT !.heartbeatTimer = b])
             /\ Quiet(s, [s EXCEPT !.testTimer = tt])
             /\ Quiet(s, [s EXCEPT !.testTimer = tt, !.orphans = n])
             /\ Quiet(s, [s EXCEPT !.testTimer = tt, !.posted = k])
             /\ Quiet(s, [s EXCEPT !.orphans = n, !.posted = k])
             /\ Quiet(s, [s EXCEPT !.posted = k, !.orphans = n, !.testTimer = tt])
  <2> DEFINE Right(u) == /\ u \in SessionRecord /\ Same(s, u)
                         /\ u.outgoing = s.outgoing /\ u.out = s.out
                         /\ u.behaviour = s.behaviour /\ u.useNext = s.useNext
  <2>1. ASSUME NEW u, Right(u) PROVE Quiet(s, u)
    BY <2>1, QuietUpdate
  <2>2. Right([s EXCEPT !.heartbeatTimer = b])
    BY DEF SessionRecord, Same
  <2>3. Right([s EXCEPT !.testTimer = tt])
    BY DEF SessionRecord, Same
  <2>4. Right([s EXCEPT !.testTimer = tt, !.orphans = n])
    BY DEF SessionRecord, Same
  <2>5. Right([s EXCEPT !.testTimer = tt, !.posted = k])
    BY DEF SessionRecord, Same
  <2>6. Right([s EXCEPT !.orphans = n, !.posted = k])
    BY DEF SessionRecord, Same
  <2>7. Right([s EXCEPT !.posted = k, !.orphans = n, !.testTimer = tt])
    BY DEF SessionRecord, Same
  <2> HIDE DEF Right
  <2> QED
    BY <2>1, <2>2, <2>3, <2>4, <2>5, <2>6, <2>7
<1>1. Quiet(s, stop_defibrillator(s)) /\ Quiet(s, start_defibrillator(s))
  <2>1. (s.heartbeat # 0) \in BOOLEAN /\ FALSE \in BOOLEAN
    OBVIOUS
  <2>2. \A b \in BOOLEAN : Quiet(s, [s EXCEPT !.heartbeatTimer = b])
    BY <1>0 DEF TestTimerStates
  <2> QED
    BY <2>1, <2>2, Zenon DEF stop_defibrillator, start_defibrillator
<1>2. Quiet(s, stop_test_request_timer(s))
  BY <1>0 DEF stop_test_request_timer, TestTimerStates
<1>3. Quiet(s, send_post_logon_test_request(s))
  <2> DEFINE n == IF s.testTimer = "armed" THEN s.orphans + 1 ELSE s.orphans
  <2>1. n \in Nat /\ "armed" \in TestTimerStates
    BY FieldTypes DEF TestTimerStates
  <2>2. Quiet(s, [s EXCEPT !.testTimer = "armed", !.orphans = n])
    <3> HIDE DEF n
    <3> QED
      BY <1>0, <2>1
  <2> QED
    BY <2>2, SendsQuiet DEF send_post_logon_test_request
<1>4. Quiet(s, expire_test_timer(s))
  <2> DEFINE k == s.posted + 1
  <2>1. k \in Nat /\ "expired" \in TestTimerStates
    BY FieldTypes DEF TestTimerStates
  <2>2. Quiet(s, [s EXCEPT !.testTimer = "expired", !.posted = k])
    <3> HIDE DEF k
    <3> QED
      BY <1>0, <2>1
  <2> QED
    BY <2>2 DEF expire_test_timer
<1>5. ASSUME s.orphans > 0 PROVE Quiet(s, expire_orphan_timer(s))
  <2> DEFINE n == s.orphans - 1
             k == s.posted + 1
  <2>1. n \in Nat /\ k \in Nat /\ "none" \in TestTimerStates
    BY <1>5, FieldTypes DEF TestTimerStates
  <2>2. Quiet(s, [s EXCEPT !.orphans = n, !.posted = k])
    <3> HIDE DEF n, k
    <3> QED
      BY <1>0, <2>1
  <2> QED
    BY <2>2 DEF expire_orphan_timer
<1>6. ASSUME s.posted > 0 PROVE Quiet(s, test_request_callback(s))
  <2> DEFINE k == s.posted - 1
             n == IF s.testTimer = "armed" THEN s.orphans + 1 ELSE s.orphans
             t == [s EXCEPT !.posted = k, !.orphans = n, !.testTimer = "none"]
  <2>1. n \in Nat /\ k \in Nat /\ "none" \in TestTimerStates
    BY <1>6, FieldTypes DEF TestTimerStates
  <2>2. test_request_callback(s) = send_test_request(t)
    BY DEF test_request_callback
  <2> HIDE DEF n, k
  <2>3. Quiet(s, t)
    BY <1>0, <2>1
  <2> HIDE DEF t
  <2>4. Quiet(t, send_test_request(t))
    BY <2>3, SendsQuiet DEF Quiet, Appends
  <2> QED
    BY <2>2, <2>3, <2>4, QuietTransitive
<1>7. Quiet(s, defibrillate(s))
  BY SendsQuiet, AppendsReflexive DEF defibrillate
<1>8. Quiet(s, complete_resend(s))
  <2> DEFINE t == send_test_request(s)
             b == t.heartbeat # 0
  <2>1. Quiet(s, t) /\ t \in SessionRecord
    BY SendsQuiet DEF Quiet, Appends
  <2> HIDE DEF t
  <2>2. b \in BOOLEAN
    OBVIOUS
  <2>3. start_defibrillator(t) = [t EXCEPT !.heartbeatTimer = b]
    BY DEF start_defibrillator
  <2> HIDE DEF b
  <2> DEFINE u == [t EXCEPT !.heartbeatTimer = b]
  <2>4. /\ u \in SessionRecord /\ Same(t, u)
        /\ u.outgoing = t.outgoing /\ u.out = t.out
        /\ u.behaviour = t.behaviour /\ u.useNext = t.useNext
    BY <2>1, <2>2 DEF SessionRecord, Same
  <2> HIDE DEF u
  <2>5. Quiet(s, u)
    BY <2>1, <2>4, QuietUpdate, QuietTransitive
  <2> QED
    BY <2>3, <2>5, AppendsReflexive DEF complete_resend, t, u
<1> QED
  BY <1>1, <1>2, <1>3, <1>4, <1>5, <1>6, <1>7, <1>8

(* The session is disconnected.                                            *)
Ended(s, u) == Appends(s, u) /\ u.state = "disconnected" /\ ~u.readerOpen

(* reader::close, session::close and send_logout.                          *)
LEMMA ClosesEnd ==
    ASSUME NEW s \in SessionRecord
    PROVE  /\ s.readerOpen => Ended(s, close_reader(s))
           /\ Ended(s, close(s))
           /\ Ended(s, send_logout(s))
<1>1. ASSUME NEW r \in SessionRecord
      PROVE  /\ Appends(r, close_reader(r)) /\ ~close_reader(r).readerOpen
             /\ r.readerOpen => close_reader(r).state = "disconnected"
  <2> DEFINE c == [r EXCEPT !.readerOpen = FALSE, !.state = "disconnected"]
  <2>1. /\ c \in SessionRecord /\ c.behaviour = r.behaviour /\ c.useNext = r.useNext
        /\ c.outgoing = r.outgoing /\ c.out = r.out /\ c.writerOpen = r.writerOpen
        /\ ~c.readerOpen /\ c.state = "disconnected"
    BY DEF SessionRecord, SessionStates
  <2>2. close_reader(r) = IF r.readerOpen THEN c ELSE r
    BY DEF close_reader
  <2> HIDE DEF c
  <2>3. Appends(r, c) /\ Appends(r, r)
    BY <2>1, SameOut, AppendsReflexive
  <2> QED
    BY <2>1, <2>2, <2>3
<1>2. ASSUME NEW r \in SessionRecord
      PROVE  Appends(r, close_writer(r)) /\ close_writer(r).readerOpen = r.readerOpen
  <2> DEFINE e == message("Close")
             c == [r EXCEPT !.writerOpen = FALSE, !.state = "disconnected",
                            !.out = Append(r.out, e)]
  <2>1. e \in Message
    BY MessageType DEF MessageTypes
  <2>2. Plain(e) /\ ~Numbered(e) /\ e.type = "Close"
    BY <2>1 DEF Plain, Sane, IsRequest, IsFill, Numbered, message
  <2>3. close_writer(r) = IF r.writerOpen THEN c ELSE r
    BY DEF close_writer
  <2> HIDE DEF e
  <2>4. Append(r.out, e) \in Seq(Message) /\ r.outgoing \in Nat
    BY <2>1, FieldTypes
  <2>5. /\ c \in SessionRecord /\ c.behaviour = r.behaviour /\ c.useNext = r.useNext
        /\ c.outgoing = r.outgoing /\ c.out = Append(r.out, e) /\ ~c.writerOpen
        /\ c.readerOpen = r.readerOpen
    BY <2>4 DEF SessionRecord, SessionStates
  <2> HIDE DEF c
  <2>6. ASSUME r.writerOpen PROVE Appends(r, c)
    BY <2>2, <2>4, <2>5, <2>6, AppendsMessage
  <2> QED
    BY <2>3, <2>5, <2>6, AppendsReflexive
<1>3. ASSUME NEW r \in SessionRecord PROVE Ended(r, close(r))
  <2> DEFINE c == close_reader(r)
             w == close_writer(c)
             d == [w EXCEPT !.state = "disconnected"]
  <2>1. c \in SessionRecord /\ Appends(r, c) /\ ~c.readerOpen
    BY <1>1 DEF Appends
  <2> HIDE DEF c
  <2>2. w \in SessionRecord /\ Appends(c, w) /\ ~w.readerOpen
    BY <1>2, <2>1 DEF Appends
  <2> HIDE DEF w
  <2>3. /\ d \in SessionRecord /\ d.behaviour = w.behaviour /\ d.useNext = w.useNext
        /\ d.outgoing = w.outgoing /\ d.out = w.out /\ d.writerOpen = w.writerOpen
        /\ ~d.readerOpen /\ d.state = "disconnected"
    BY <2>2 DEF SessionRecord, SessionStates
  <2>4. close(r) = d
    BY DEF close, c, w
  <2> HIDE DEF d
  <2>5. Appends(w, d)
    BY <2>2, <2>3, SameOut
  <2>6. Appends(r, d)
    BY <2>1, <2>2, <2>3, <2>5, AppendsTransitive
  <2> QED
    BY <2>3, <2>4, <2>6 DEF Ended
<1>4. Ended(s, send_logout(s))
  <2> DEFINE t == send(s, message("Logout"))
             u == [stop_defibrillator(t) EXCEPT !.state = "connected"]
  <2>1. Appends(s, t) /\ t \in SessionRecord
    BY SendsQuiet DEF Quiet, Appends
  <2>2. send_logout(s) = IF t.state = "logged_on" THEN close(u) ELSE close(t)
    BY DEF send_logout
  <2> HIDE DEF t
  <2>3. /\ u \in SessionRecord /\ u.behaviour = t.behaviour /\ u.useNext = t.useNext
        /\ u.outgoing = t.outgoing /\ u.out = t.out /\ u.writerOpen = t.writerOpen
    BY <2>1 DEF stop_defibrillator, SessionRecord, SessionStates
  <2> HIDE DEF u
  <2>4. Appends(t, u)
    BY <2>1, <2>3, SameOut
  <2>5. Appends(s, u)
    BY <2>1, <2>3, <2>4, AppendsTransitive
  <2>6. ASSUME NEW r \in SessionRecord, Appends(s, r)
        PROVE  Ended(s, close(r))
    <3>1. Ended(r, close(r)) /\ close(r) \in SessionRecord
      BY <1>3 DEF Ended, Appends
    <3> QED
      BY <2>6, <3>1, AppendsTransitive DEF Ended
  <2> QED
    BY <2>1, <2>2, <2>3, <2>5, <2>6
<1> QED
  BY <1>1, <1>3, <1>4 DEF Ended

-----------------------------------------------------------------------------
(* Requests and answers.                                                   *)

(* s answers a request for the messages from begin on.                     *)
Fills(s, begin, v) ==
    /\ v \in SessionRecord
    /\ v.behaviour = s.behaviour /\ v.useNext = s.useNext
    /\ v.outgoing = s.outgoing /\ v.writerOpen = s.writerOpen /\ v.state = s.state
    /\ \E f \in Message : /\ Sane(f) /\ IsFill(f)
                          /\ f.seq = begin /\ f.newSeqNo = s.outgoing
                          /\ v.out = Append(s.out, f)

(* perform_resend.                                                         *)
LEMMA ResendFills ==
    ASSUME NEW s \in SessionRecord, NEW begin \in Nat, s.writerOpen
    PROVE  /\ Fills(s, begin, perform_resend(s, begin))
           /\ Same(s, perform_resend(s, begin))
<1> DEFINE f == [message("SequenceReset") EXCEPT
                    !.seq = begin, !.gapFill = TRUE, !.possDup = TRUE,
                    !.newSeqNo = s.outgoing]
           v == [s EXCEPT !.out = Append(s.out, f)]
<1>1. s.outgoing \in Nat /\ s.out \in Seq(Message)
  BY FieldTypes
<1>2. f \in Message
  BY <1>1 DEF message, Message, MessageTypes, AdminTypes, NumericField
<1>3. Sane(f) /\ IsFill(f) /\ f.seq = begin /\ f.newSeqNo = s.outgoing
  BY <1>1, <1>2 DEF Sane, IsFill, IsRequest, message
<1>4. perform_resend(s, begin) = v
  BY DEF perform_resend, send_gap_fill, send_unnumbered, reset_for_logon, message, write
<1> HIDE DEF f
<1>5. Append(s.out, f) \in Seq(Message)
  BY <1>1, <1>2
<1>6. /\ v \in SessionRecord /\ Same(s, v) /\ v.outgoing = s.outgoing
      /\ v.behaviour = s.behaviour /\ v.useNext = s.useNext
      /\ v.out = Append(s.out, f)
  BY <1>5 DEF SessionRecord, Same
<1> HIDE DEF v
<1> QED
  BY <1>2, <1>3, <1>4, <1>6 DEF Fills, Same

(* s asks for the messages it has missed up to received.                   *)
Requests(s, received, u) ==
    /\ u \in SessionRecord
    /\ u.behaviour = s.behaviour /\ u.useNext = s.useNext
    /\ u.logonReceived = s.logonReceived /\ u.incoming = s.incoming
    /\ u.readerOpen = s.readerOpen /\ u.writerOpen = s.writerOpen
    /\ u.state = "resending" /\ u.target = received
    /\ u.outgoing = s.outgoing + 1
    /\ \E r \in Message : /\ Sane(r) /\ IsRequest(r)
                          /\ r.seq = s.outgoing /\ r.beginSeqNo = s.incoming
                          /\ u.out = Append(s.out, r)

(* request_resend.                                                         *)
LEMMA ResendRequests ==
    ASSUME NEW s \in SessionRecord, NEW received \in Nat, s.writerOpen
    PROVE  Requests(s, received, request_resend(s, received))
<1> DEFINE t == [s EXCEPT !.state = "resending", !.resent = s.incoming,
                          !.target = received]
           m == [message("ResendRequest") EXCEPT !.beginSeqNo = s.incoming,
                                                 !.endSeqNo = received]
           k == s.outgoing + 1
           r == [m EXCEPT !.seq = s.outgoing]
           u == [t EXCEPT !.outgoing = k, !.out = Append(s.out, r)]
<1>1. s.outgoing \in Nat /\ k \in Nat /\ s.out \in Seq(Message) /\ s.incoming \in Nat
  BY FieldTypes
<1>2. m \in Message
  BY <1>1 DEF message, Message, MessageTypes, AdminTypes, NumericField
<1>3. r \in Message
  BY <1>1 DEF message, Message, MessageTypes, AdminTypes, NumericField
<1>4. Sane(r) /\ IsRequest(r) /\ r.seq = s.outgoing /\ r.beginSeqNo = s.incoming
  BY <1>1, <1>3 DEF Sane, IsFill, IsRequest, message
<1>5. request_resend(s, received) = u
  BY DEF request_resend, send, reset_for_logon, message, write, SessionRecord
<1> HIDE DEF k, m, r
<1>6. Append(s.out, r) \in Seq(Message)
  BY <1>1, <1>3
<1>7. /\ t \in SessionRecord /\ t.behaviour = s.behaviour /\ t.useNext = s.useNext
      /\ t.logonReceived = s.logonReceived /\ t.incoming = s.incoming
      /\ t.readerOpen = s.readerOpen /\ t.writerOpen = s.writerOpen
      /\ t.state = "resending" /\ t.target = received
  BY <1>1 DEF SessionRecord, SessionStates
<1> HIDE DEF t
<1>8. /\ u \in SessionRecord /\ u.behaviour = s.behaviour /\ u.useNext = s.useNext
      /\ u.logonReceived = s.logonReceived /\ u.incoming = s.incoming
      /\ u.readerOpen = s.readerOpen /\ u.writerOpen = s.writerOpen
      /\ u.state = "resending" /\ u.target = received
      /\ u.outgoing = k /\ u.out = Append(s.out, r)
  BY <1>1, <1>6, <1>7 DEF SessionRecord
<1> HIDE DEF u
<1> QED
  BY <1>3, <1>4, <1>5, <1>8 DEF Requests, k

-----------------------------------------------------------------------------
(* What reading a message comes to.                                        *)

(* The session reads on.                                                   *)
Continues(s, m, u) ==
    /\ u.readerOpen /\ u.writerOpen
    /\ s.logonReceived \/ m.type = "Logon" => u.logonReceived

(* It has not taken m into account yet, but for answering a Logon.         *)
Carries(s, m, v) ==
    /\ Appends(s, v) /\ Continues(s, m, v)
    /\ v.state = s.state /\ v.incoming = s.incoming /\ v.target = s.target

(* It accepts m, which has the number it expects;                          *)
Counts(s, m, u) ==
    /\ Numbered(m) /\ m.seq = s.incoming
    /\ u.incoming = m.seq + 1 /\ u.target = s.target
    /\ u.state \in {s.state, "logged_on"}
    /\ Continues(s, m, u)

Takes(s, m, u) == Counts(s, m, u) /\ ~IsRequest(m) /\ Appends(s, u)

(* and if m is a request it answers with a gap fill.                       *)
Answers(s, m, u) ==
    /\ Counts(s, m, u) /\ IsRequest(m)
    /\ \E v : Fills(s, m.beginSeqNo, v) /\ Appends(v, u)

(* m is beyond the number it expects, and starts a recovery                *)
Recovering(s, m, u) ==
    /\ Numbered(m) /\ m.seq > s.incoming /\ s.state # "resending"
    /\ Continues(s, m, u)
    /\ \E v : /\ Appends(s, v) /\ v.incoming = s.incoming /\ v.state = s.state
              /\ v.writerOpen /\ Requests(v, m.seq, u)

(* or moves the target of the one under way.                               *)
Extends(s, m, u) ==
    /\ Numbered(m) /\ m.seq > s.incoming /\ s.state = "resending"
    /\ Appends(s, u) /\ Continues(s, m, u)
    /\ u.state = "resending" /\ u.incoming = s.incoming
    /\ u.target = IF m.seq > s.target THEN m.seq ELSE s.target

(* m is the gap fill it waits for.                                         *)
Filled(s, m, u) ==
    /\ IsFill(m) /\ Appends(s, u) /\ Continues(s, m, u)
    /\ u.state = "resending" /\ u.incoming = m.newSeqNo /\ u.target = s.target

Outcome(s, m, u) ==
    \/ Ended(s, u) \/ Takes(s, m, u) \/ Answers(s, m, u)
    \/ Recovering(s, m, u) \/ Extends(s, m, u) \/ Filled(s, m, u)

(* What is known of s and m when s reads m.                                *)
Readable(s, m) ==
    /\ s \in SessionRecord /\ s.state \in OpenStates
    /\ s.readerOpen /\ s.writerOpen /\ ~s.useNext
    /\ Sane(m) /\ m.type # "Close"
    /\ FirstMessageIsValid(s, m)
    /\ Numbered(m) => s.incoming <= m.seq
    /\ IsFill(m) => /\ s.state = "resending" /\ m.seq = s.incoming
                    /\ s.incoming < m.newSeqNo

(* A number beyond the expected one.                                       *)
LEMMA HighOutcome ==
    ASSUME NEW s, NEW m, NEW v, Readable(s, m), Carries(s, m, v),
           Numbered(m), m.seq > s.incoming
    PROVE  LET u == on_high_sequence_number(v, m)
           IN  Recovering(s, m, u) \/ Extends(s, m, u)
<1> DEFINE u == on_high_sequence_number(v, m)
           n == m.seq
<1>1. v \in SessionRecord /\ m \in Message /\ n \in Nat /\ v.target \in Nat /\ s.target \in Nat
      /\ s \in SessionRecord
  BY FieldTypes DEF Readable, Sane, Message, Carries, Appends
<1>2. CASE s.state # "resending"
  <2>1. u = request_resend(v, m.seq)
    BY <1>2 DEF on_high_sequence_number, Carries
  <2>2. Requests(v, m.seq, u)
    BY <1>1, <2>1, ResendRequests DEF Carries, Continues
  <2>3. Recovering(s, m, u)
    BY <1>2, <2>2 DEF Recovering, Carries, Continues, Requests
  <2> QED
    BY <2>3
<1>3. CASE s.state = "resending" /\ m.seq > s.target
  <2> DEFINE w == [v EXCEPT !.target = n]
  <2>1. u = w
    BY <1>3 DEF on_high_sequence_number, Carries
  <2> HIDE DEF n, u
  <2>2. /\ w \in SessionRecord /\ w.behaviour = v.behaviour /\ w.useNext = v.useNext
        /\ w.outgoing = v.outgoing /\ w.out = v.out /\ w.writerOpen = v.writerOpen
        /\ w.readerOpen = v.readerOpen /\ w.logonReceived = v.logonReceived
        /\ w.state = v.state /\ w.incoming = v.incoming /\ w.target = n
    BY <1>1 DEF SessionRecord
  <2> HIDE DEF w
  <2>3. Appends(v, w)
    BY <1>1, <2>2, SameOut
  <2>4. Appends(s, w)
    BY <1>1, <2>2, <2>3, AppendsTransitive DEF Carries
  <2>5. Extends(s, m, u)
    BY <1>3, <2>1, <2>2, <2>4 DEF Extends, Carries, Continues, n
  <2> QED
    BY <2>5 DEF u
<1>4. CASE s.state = "resending" /\ ~(m.seq > s.target)
  <2>1. u = v
    BY <1>4 DEF on_high_sequence_number, Carries
  <2>2. Extends(s, m, u)
    BY <1>4, <2>1 DEF Extends, Carries
  <2> QED
    BY <2>2
<1> QED
  BY <1>2, <1>3, <1>4

(* incoming_msg_seq_num(message.MsgSeqNum() + 1).                          *)
LEMMA AcceptOutcome ==
    ASSUME NEW s \in SessionRecord, NEW m \in Message, NEW v \in SessionRecord,
           Carries(s, m, v), Numbered(m), m.seq = s.incoming
    PROVE  LET a == Accepted(v, m)
           IN  /\ a \in SessionRecord /\ Counts(s, m, a) /\ Appends(s, a)
               /\ a.state = s.state /\ a.useNext = s.useNext
               /\ a.outgoing = v.outgoing /\ a.out = v.out
<1> DEFINE n == m.seq + 1
           a == [v EXCEPT !.incoming = n]
<1>1. n \in Nat
  BY DEF Message
<1>2. Accepted(v, m) = a
  BY DEF Accepted
<1> HIDE DEF n
<1>3. /\ a \in SessionRecord /\ a.behaviour = v.behaviour /\ a.useNext = v.useNext
      /\ a.outgoing = v.outgoing /\ a.out = v.out /\ a.writerOpen = v.writerOpen
      /\ a.readerOpen = v.readerOpen /\ a.logonReceived = v.logonReceived
      /\ a.state = v.state /\ a.incoming = n /\ a.target = v.target
  BY <1>1 DEF SessionRecord
<1> HIDE DEF a
<1>4. Appends(v, a)
  BY <1>3, SameOut
<1>5. Appends(s, a)
  BY <1>3, <1>4, AppendsTransitive DEF Carries
<1>6. Counts(s, m, a)
  BY <1>3 DEF Counts, Carries, Continues, n
<1> QED
  BY <1>2, <1>3, <1>5, <1>6 DEF Carries, Appends

(* What follows quietly does not change the outcome.                       *)
LEMMA TakesQuietly ==
    ASSUME NEW s \in SessionRecord, NEW m, NEW a, NEW u,
           Counts(s, m, a), ~IsRequest(m), Appends(s, a), Quiet(a, u)
    PROVE  Takes(s, m, u)
<1>1. a \in SessionRecord /\ u \in SessionRecord /\ Appends(a, u)
  BY DEF Appends, Quiet
<1>2. Appends(s, u)
  BY <1>1, AppendsTransitive
<1> QED
  BY <1>2 DEF Takes, Counts, Continues, Quiet, Same

(* The handlers dispatch chooses from.                                     *)
LEMMA DispatchOutcome ==
    ASSUME NEW s, NEW m, Readable(s, m), Numbered(m), m.type # "Logon",
           m.seq = s.incoming
    PROVE  Outcome(s, m, dispatch(Accepted(s, m), m))
<1> DEFINE a == Accepted(s, m)
<1>1. /\ s \in SessionRecord /\ m \in Message /\ Sane(m) /\ Carries(s, m, s)
      /\ s.writerOpen
  BY AppendsReflexive DEF Readable, Sane, Carries, Continues
<1>2. /\ a \in SessionRecord /\ Counts(s, m, a) /\ Appends(s, a)
      /\ a.state = s.state /\ a.outgoing = s.outgoing /\ a.out = s.out
      /\ a.writerOpen /\ a.behaviour = s.behaviour /\ a.useNext = s.useNext
  <2>1. /\ a \in SessionRecord /\ Counts(s, m, a) /\ Appends(s, a)
        /\ a.state = s.state /\ a.outgoing = s.outgoing /\ a.out = s.out
        /\ a.useNext = s.useNext
    BY <1>1, AcceptOutcome
  <2> HIDE DEF a
  <2> QED
    BY <2>1 DEF Counts, Continues, Appends
<1> SUFFICES Outcome(s, m, dispatch(a, m))
  OBVIOUS
<1> HIDE DEF a
<1>3. ASSUME NEW u, Quiet(a, u), ~IsRequest(m) PROVE Outcome(s, m, u)
  BY <1>1, <1>2, <1>3, TakesQuietly DEF Outcome
<1>4. Outcome(s, m, close(a))
  <2>1. Ended(a, close(a)) /\ close(a) \in SessionRecord
    BY <1>2, ClosesEnd DEF Ended, Appends
  <2>2. Ended(s, close(a))
    BY <1>1, <1>2, <2>1, AppendsTransitive DEF Ended
  <2> QED
    BY <2>2 DEF Outcome
<1>5. CASE m.type = "Heartbeat"
  <2> DEFINE l == [a EXCEPT !.state = "logged_on"]
  <2>1. /\ l \in SessionRecord /\ l.behaviour = a.behaviour /\ l.useNext = a.useNext
        /\ l.outgoing = a.outgoing /\ l.out = a.out /\ l.writerOpen = a.writerOpen
        /\ l.readerOpen = a.readerOpen /\ l.logonReceived = a.logonReceived
        /\ l.state = "logged_on" /\ l.incoming = a.incoming /\ l.target = a.target
    BY <1>2 DEF SessionRecord, SessionStates
  <2>2. process_heartbeat(a, m) \in {a, close(a), start_defibrillator(l)}
    BY DEF process_heartbeat
  <2>3. dispatch(a, m) = process_heartbeat(a, m)
    BY <1>5 DEF dispatch
  <2> HIDE DEF l
  <2>4. Appends(s, l) /\ Counts(s, m, l)
    <3>1. Appends(a, l)
      BY <1>2, <2>1, SameOut
    <3> QED
      BY <1>1, <1>2, <2>1, <3>1, AppendsTransitive DEF Counts, Continues
  <2>5. ~IsRequest(m)
    BY <1>5 DEF IsRequest
  <2>6. Outcome(s, m, start_defibrillator(l))
    BY <1>1, <2>1, <2>4, <2>5, TimersQuiet, TakesQuietly DEF Outcome
  <2>7. Outcome(s, m, a)
    BY <1>2, <1>3, <2>5, AppendsReflexive
  <2> QED
    BY <1>4, <2>2, <2>3, <2>6, <2>7
<1>6. CASE m.type = "TestRequest"
  <2>1. m.testReqID \in Nat
    BY <1>1, <1>6 DEF Sane
  <2>2. dispatch(a, m) = send(a, [message("Heartbeat") EXCEPT !.testReqID = m.testReqID])
    BY <1>6, <2>1 DEF dispatch, process_test_request, Missing
  <2>3. ~IsRequest(m)
    BY <1>6 DEF IsRequest
  <2> QED
    BY <1>2, <1>3, <2>1, <2>2, <2>3, SendsQuiet
<1>7. CASE m.type = "ResendRequest"
  <2> DEFINE t == stop_test_request_timer(a)
             v == perform_resend(t, m.beginSeqNo)
             u == send_post_logon_test_request(v)
  <2>1. m.beginSeqNo \in Nat /\ m.endSeqNo \in Nat
    BY <1>1, <1>7 DEF Sane, IsRequest
  <2>2. dispatch(a, m) = u
    BY <1>7, <2>1 DEF dispatch, process_resend_request, Missing, NotANumber
  <2>3. /\ t \in SessionRecord /\ Same(a, t) /\ t.out = a.out /\ t.outgoing = a.outgoing
        /\ t.behaviour = a.behaviour /\ t.useNext = a.useNext
    BY <1>2 DEF stop_test_request_timer, SessionRecord, TestTimerStates, Same
  <2> HIDE DEF t
  <2>4. t.writerOpen
    BY <1>2, <2>3 DEF Same
  <2>5. Fills(t, m.beginSeqNo, v) /\ Same(t, v)
    BY <2>1, <2>3, <2>4, ResendFills
  <2> HIDE DEF v
  <2>6. Fills(s, m.beginSeqNo, v) /\ v \in SessionRecord
    BY <1>1, <1>2, <2>3, <2>4, <2>5 DEF Fills, Same
  <2>7. Quiet(v, u)
    BY <2>6, TimersQuiet
  <2> HIDE DEF u
  <2>8. Counts(s, m, u)
    BY <1>2, <2>3, <2>5, <2>7 DEF Counts, Continues, Same, Quiet
  <2>9. Answers(s, m, u)
    BY <1>7, <2>6, <2>7, <2>8 DEF Answers, Quiet, IsRequest
  <2> QED
    BY <2>2, <2>9 DEF Outcome
<1>8. CASE m.type = "Logout"
  BY <1>4, <1>8 DEF dispatch, process_logout
<1>9. CASE m.type \notin {"Heartbeat", "TestRequest", "ResendRequest", "Logout"}
  <2>1. dispatch(a, m) = a /\ ~IsRequest(m)
    BY <1>9 DEF dispatch, IsRequest
  <2> QED
    BY <1>2, <1>3, <2>1, AppendsReflexive
<1> QED
  BY <1>5, <1>6, <1>7, <1>8, <1>9

(* Logon.                                                                  *)
LEMMA LogonOutcome ==
    ASSUME NEW s, NEW m, Readable(s, m), m.type = "Logon"
    PROVE  Outcome(s, m, process_logon(s, m))
<1> DEFINE h == m.heartBtInt
           r == [s EXCEPT !.heartbeat = h, !.logonReceived = TRUE]
           w == acceptor_send_logon(r, FALSE)
           v == send_post_logon_test_request(w)
<1>1. /\ s \in SessionRecord /\ m \in Message /\ h \in Nat /\ Numbered(m)
      /\ ~m.resetSeqNum /\ ~s.useNext /\ m.seq \in Nat /\ s.incoming \in Nat
      /\ s.incoming <= m.seq /\ s.readerOpen /\ s.writerOpen /\ ~IsRequest(m)
  BY FieldTypes DEF Readable, Sane, Numbered, Message, IsRequest
<1>2. process_logon(s, m) = process_numbered_logon(r, m)
  BY <1>1 DEF process_logon
<1> HIDE DEF h
<1>3. /\ r \in SessionRecord /\ r.behaviour = s.behaviour /\ r.useNext = s.useNext
      /\ r.outgoing = s.outgoing /\ r.out = s.out /\ r.writerOpen = s.writerOpen
      /\ r.readerOpen = s.readerOpen /\ r.logonReceived
      /\ r.state = s.state /\ r.incoming = s.incoming /\ r.target = s.target
  BY <1>1 DEF SessionRecord
<1> HIDE DEF r
<1>4. Appends(s, r)
  BY <1>1, <1>3, SameOut
<1>5. Quiet(r, w) /\ w \in SessionRecord
  BY <1>1, <1>3, SendsQuiet DEF Quiet, Appends
<1>6. process_numbered_logon(r, m) =
          IF m.seq > s.incoming THEN on_high_sequence_number(w, m) ELSE Accepted(v, m)
  <2>1. m.seq > r.incoming <=> m.seq > s.incoming
    BY <1>3
  <2>2. ~(m.seq < r.incoming)
    BY <1>1, <1>3
  <2> QED
    BY <2>1, <2>2 DEF process_numbered_logon, SequenceNumberIsLow, SequenceNumberIsHigh
<1> HIDE DEF w
<1>7. Quiet(w, v) /\ v \in SessionRecord
  BY <1>5, TimersQuiet DEF Quiet, Appends
<1> HIDE DEF v
<1>8. Carries(s, m, w) /\ Carries(s, m, v)
  <2>1. Appends(s, w)
    BY <1>1, <1>3, <1>4, <1>5, AppendsTransitive DEF Quiet
  <2>2. Appends(s, v)
    BY <1>1, <1>5, <1>7, <2>1, AppendsTransitive DEF Quiet
  <2> QED
    BY <1>1, <1>3, <1>5, <1>7, <2>1, <2>2 DEF Carries, Continues, Quiet, Same
<1>9. CASE m.seq > s.incoming
  BY <1>1, <1>2, <1>6, <1>8, <1>9, HighOutcome DEF Outcome
<1>10. CASE ~(m.seq > s.incoming)
  <2>1. m.seq = s.incoming
    BY <1>1, <1>10
  <2>2. Takes(s, m, Accepted(v, m))
    BY <1>1, <1>7, <1>8, <2>1, AcceptOutcome DEF Takes
  <2> QED
    BY <1>2, <1>6, <1>10, <2>2 DEF Outcome
<1> QED
  BY <1>9, <1>10

(* The gap fill the session waits for.                                     *)
LEMMA FillOutcome ==
    ASSUME NEW s, NEW m, Readable(s, m), IsFill(m)
    PROVE  Outcome(s, m, process_sequence_reset(s, m))
<1> DEFINE n == m.newSeqNo
           t == [s EXCEPT !.resent = n, !.incoming = n]
           u == complete_resend(t)
<1>1. /\ s \in SessionRecord /\ m \in Message /\ n \in Nat /\ m.gapFill
      /\ s.incoming \in Nat /\ m.seq = s.incoming /\ s.incoming < n
      /\ s.readerOpen /\ s.writerOpen /\ s.state = "resending" /\ ~s.useNext
      /\ m.type = "SequenceReset"
  BY FieldTypes DEF Readable, Sane, IsFill
<1>2. process_sequence_reset(s, m) = u
  BY <1>1 DEF process_sequence_reset, process_gap_fill, SequenceNumberIsHigh,
              SequenceNumberIsLow
<1> HIDE DEF n
<1>3. /\ t \in SessionRecord /\ t.behaviour = s.behaviour /\ t.useNext = s.useNext
      /\ t.outgoing = s.outgoing /\ t.out = s.out /\ t.writerOpen = s.writerOpen
      /\ t.readerOpen = s.readerOpen /\ t.logonReceived = s.logonReceived
      /\ t.state = s.state /\ t.incoming = n /\ t.target = s.target
  BY <1>1 DEF SessionRecord
<1> HIDE DEF t
<1>4. Appends(s, t) /\ Quiet(t, u) /\ u \in SessionRecord
  BY <1>1, <1>3, SameOut, TimersQuiet DEF Quiet, Appends
<1> HIDE DEF u
<1>5. Appends(s, u)
  BY <1>1, <1>3, <1>4, AppendsTransitive DEF Quiet
<1>6. Filled(s, m, u)
  BY <1>1, <1>3, <1>4, <1>5 DEF Filled, Continues, Quiet, Same, n
<1> QED
  BY <1>2, <1>6 DEF Outcome

(* session::on_message_read.                                               *)
LEMMA ReadOutcome ==
    ASSUME NEW s, NEW m, Readable(s, m)
    PROVE  Outcome(s, m, on_message_read(s, m))
<1>1. /\ m.wellFormed /\ FirstMessageIsValid(s, m) /\ s \in SessionRecord
      /\ m \in Message /\ m.type # "Close" /\ (m.possDup => IsFill(m))
      /\ m.seq \in Nat /\ s.incoming \in Nat
  BY FieldTypes DEF Readable, Sane, Message
<1>2. CASE IsFill(m)
  <2>1. on_message_read(s, m) = process_sequence_reset(s, m)
    BY <1>1, <1>2 DEF on_message_read, IsFill
  <2> QED
    BY <1>2, <2>1, FillOutcome
<1>3. CASE m.type = "Logon"
  <2>1. on_message_read(s, m) = process_logon(s, m)
    BY <1>1, <1>3 DEF on_message_read, IsFill
  <2> QED
    BY <1>3, <2>1, LogonOutcome
<1>4. CASE ~IsFill(m) /\ m.type # "Logon"
  <2>1. on_message_read(s, m) = process_numbered(s, m) /\ Numbered(m)
    BY <1>1, <1>4 DEF on_message_read, IsFill, Numbered
  <2>2. s.incoming <= m.seq
    BY <2>1 DEF Readable
  <2>3. CASE m.seq > s.incoming
    <3>1. Carries(s, m, s)
      BY <1>1, <1>4, AppendsReflexive DEF Carries, Continues, Readable
    <3>2. process_numbered(s, m) = on_high_sequence_number(s, m)
      BY <1>1, <2>3 DEF process_numbered, SequenceNumberIsHigh, SequenceNumberIsLow
    <3> QED
      BY <2>1, <2>3, <3>1, <3>2, HighOutcome DEF Outcome
  <2>4. CASE ~(m.seq > s.incoming)
    <3>1. m.seq = s.incoming
      BY <1>1, <2>2, <2>4
    <3>2. process_numbered(s, m) = dispatch(Accepted(s, m), m)
      BY <1>1, <3>1 DEF process_numbered, SequenceNumberIsHigh, SequenceNumberIsLow
    <3> QED
      BY <1>4, <2>1, <3>1, <3>2, DispatchOutcome
  <2> QED
    BY <2>3, <2>4
<1> QED
  BY <1>2, <1>3, <1>4

-----------------------------------------------------------------------------
(* The writer's side: what the peer t of s is paired with when s writes.   *)

(* Plain messages disturb nothing, once the session was opened.            *)
LEMMA WriterAppends ==
    ASSUME NEW s \in SessionRecord, NEW u, NEW t \in SessionRecord, NEW n \in Nat,
           Appends(s, u), Paired(t, s, n),
           s.state = "connected" => LogonFirst(t, u)
    PROVE  Paired(t, u, n)
<1>1. /\ u \in SessionRecord
      /\ Len(s.out) \in Nat /\ Len(u.out) \in Nat /\ Len(t.out) \in Nat
      /\ s.outgoing \in Nat /\ u.outgoing \in Nat /\ t.target \in Nat /\ t.incoming \in Nat
      /\ u.out \in Seq(Message)
  BY FieldTypes DEF Appends
<1>2. /\ s.outgoing <= u.outgoing /\ Len(s.out) <= Len(u.out)
      /\ \A i \in 1..Len(s.out) : u.out[i] = s.out[i]
      /\ \A i \in 1..Len(s.out) : i \in 1..Len(u.out)
  BY <1>1 DEF Appends
<1>3. ASSUME NEW i \in 1..Len(u.out)
      PROVE  \/ i \in 1..Len(s.out) /\ u.out[i] = s.out[i]
             \/ /\ i > Len(s.out) /\ ~IsFill(u.out[i])
                /\ u.out[i].seq \in Nat /\ (Numbered(u.out[i]) => s.outgoing <= u.out[i].seq)
  <2>1. u.out[i] \in Message
    BY <1>1
  <2>2. u.out[i].seq \in Nat
    BY <2>1 DEF Message
  <2>3. CASE i <= Len(s.out)
    BY <1>1, <1>2, <2>3
  <2>4. CASE ~(i <= Len(s.out))
    <3>1. i \in (Len(s.out) + 1)..Len(u.out)
      BY <1>1, <2>4
    <3> QED
      BY <1>1, <2>2, <2>4, <3>1 DEF Appends, Plain
  <2> QED
    BY <2>3, <2>4
<1>4. LogonFirst(t, u)
  BY <1>1, <1>2 DEF Paired, LogonFirst
<1>5. ASSUME t.state # "disconnected"
      PROVE  OneAtMost(t, u) /\ BeyondTarget(t, u) /\ RequestsMatch(t) /\ FillsMatch(t, u)
  <2>1. OneAtMost(t, s) /\ BeyondTarget(t, s) /\ RequestsMatch(t) /\ FillsMatch(t, s)
    BY <1>5 DEF Paired, Recovers
  <2>2. OneAtMost(t, u)
    BY <1>3, <2>1 DEF OneAtMost
  <2>3. BeyondTarget(t, u)
    <3> SUFFICES ASSUME Behind(t)
                 PROVE  /\ t.target < u.outgoing
                        /\ \A i \in 1..Len(u.out) : Numbered(u.out[i]) => t.target < u.out[i].seq
      BY DEF BeyondTarget
    <3>1. /\ t.target < s.outgoing
          /\ \A i \in 1..Len(s.out) : Numbered(s.out[i]) => t.target < s.out[i].seq
      BY <2>1 DEF BeyondTarget
    <3> QED
      BY <1>1, <1>2, <1>3, <3>1
  <2>4. FillsMatch(t, u)
    <3> SUFFICES ASSUME NEW i \in 1..Len(u.out), IsFill(u.out[i])
                 PROVE  /\ Behind(t) /\ u.out[i].seq = t.incoming
                        /\ t.target < u.out[i].newSeqNo
                        /\ \A j \in 1..Len(u.out) :
                              j < i /\ Numbered(u.out[j]) => u.out[j].seq < u.out[i].newSeqNo
      BY DEF FillsMatch
    <3>1. i \in 1..Len(s.out) /\ u.out[i] = s.out[i]
      BY <1>3
    <3>2. ASSUME NEW j \in 1..Len(u.out), j < i PROVE j \in 1..Len(s.out) /\ u.out[j] = s.out[j]
      BY <1>1, <1>2, <3>1, <3>2
    <3> QED
      BY <2>1, <3>1, <3>2 DEF FillsMatch
  <2> QED
    BY <2>1, <2>2, <2>3, <2>4
<1>6. Tracks(t, u, n)
  <2> SUFFICES ASSUME u.writerOpen
               PROVE  /\ Len(u.out) > 0 => WithinFailures(Reaches(u.out[Len(u.out)]), u, n)
                      /\ Len(u.out) = 0 /\ t.state = "logged_on" =>
                            WithinFailures(t.incoming, u, n)
    BY DEF Tracks
  <2>1. CASE Len(u.out) = Len(s.out)
    <3>1. s.writerOpen /\ u.outgoing = s.outgoing
      BY <2>1, AppendsLast DEF Appends
    <3>2. Len(u.out) > 0 => u.out[Len(u.out)] = s.out[Len(s.out)]
      BY <1>1, <1>2, <2>1
    <3> QED
      BY <2>1, <3>1, <3>2 DEF Paired, Tracks, WithinFailures
  <2>2. CASE Len(s.out) < Len(u.out)
    <3>1. Numbered(u.out[Len(u.out)]) /\ u.out[Len(u.out)].seq + 1 = u.outgoing
      BY <2>2, AppendsLast
    <3>2. Reaches(u.out[Len(u.out)]) = u.outgoing
      BY <3>1 DEF Reaches
    <3> QED
      BY <1>1, <2>2, <3>2 DEF WithinFailures
  <2> QED
    BY <1>1, <1>2, <2>1, <2>2
<1>7. Ends(t, u)
  <2> SUFFICES ASSUME ~u.writerOpen, t.state # "disconnected"
               PROVE  Len(u.out) > 0 /\ u.out[Len(u.out)].type = "Close"
    BY DEF Ends
  <2>1. CASE s.writerOpen
    BY <1>1, <2>1 DEF Appends
  <2>2. CASE ~s.writerOpen
    <3>1. Len(u.out) = Len(s.out) /\ Len(s.out) > 0 /\ s.out[Len(s.out)].type = "Close"
      BY <2>2 DEF Appends, Paired, Ends
    <3> QED
      BY <1>1, <1>2, <3>1
  <2> QED
    BY <2>1, <2>2
<1> QED
  BY <1>4, <1>5, <1>6, <1>7 DEF Paired, Recovers

(* The stream after one message was appended.                              *)
LEMMA AfterAppend ==
    ASSUME NEW s \in SessionRecord, NEW u \in SessionRecord, NEW m \in Message,
           u.out = Append(s.out, m)
    PROVE  /\ Len(s.out) \in Nat /\ Len(u.out) = Len(s.out) + 1
           /\ u.out[Len(u.out)] = m
           /\ \A i \in 1..Len(s.out) : u.out[i] = s.out[i] /\ i \in 1..Len(u.out)
           /\ \A i \in 1..Len(u.out) :
                 \/ i \in 1..Len(s.out) /\ i < Len(u.out) /\ u.out[i] = s.out[i]
                 \/ i = Len(u.out) /\ u.out[i] = m
<1>1. s.out \in Seq(Message)
  BY FieldTypes
<1>2. /\ Len(s.out) \in Nat /\ Len(u.out) = Len(s.out) + 1
      /\ u.out[Len(u.out)] = m
      /\ \A i \in 1..Len(s.out) : u.out[i] = s.out[i]
  BY <1>1
<1> QED
  BY <1>2

(* A request of s asks nothing of what t waits for.                        *)
LEMMA WriterRequests ==
    ASSUME NEW s \in SessionRecord, NEW u, NEW t \in SessionRecord, NEW n \in Nat,
           NEW received \in Nat,
           Requests(s, received, u), s.state # "connected", s.writerOpen,
           Paired(t, s, n)
    PROVE  Paired(t, u, n)
<1>1. PICK r \in Message : /\ Sane(r) /\ IsRequest(r)
                           /\ r.seq = s.outgoing /\ u.out = Append(s.out, r)
  BY DEF Requests
<1>2. /\ u \in SessionRecord /\ s.outgoing \in Nat /\ u.outgoing = s.outgoing + 1
      /\ t.target \in Nat /\ u.writerOpen
  BY FieldTypes DEF Requests
<1>3. /\ Len(s.out) \in Nat /\ Len(u.out) = Len(s.out) + 1
      /\ u.out[Len(u.out)] = r
      /\ \A i \in 1..Len(s.out) : u.out[i] = s.out[i] /\ i \in 1..Len(u.out)
      /\ \A i \in 1..Len(u.out) :
            \/ i \in 1..Len(s.out) /\ i < Len(u.out) /\ u.out[i] = s.out[i]
            \/ i = Len(u.out) /\ u.out[i] = r
  BY <1>1, <1>2, AfterAppend
<1>4. ~IsFill(r) /\ Numbered(r)
  BY <1>1 DEF IsFill, IsRequest, Numbered
<1>5. LogonFirst(t, u)
  BY <1>3 DEF Paired, LogonFirst
<1>6. ASSUME t.state # "disconnected"
      PROVE  OneAtMost(t, u) /\ BeyondTarget(t, u) /\ RequestsMatch(t) /\ FillsMatch(t, u)
  <2>1. OneAtMost(t, s) /\ BeyondTarget(t, s) /\ RequestsMatch(t) /\ FillsMatch(t, s)
    BY <1>6 DEF Paired, Recovers
  <2>2. OneAtMost(t, u)
    BY <1>3, <1>4, <2>1 DEF OneAtMost
  <2>3. BeyondTarget(t, u)
    BY <1>1, <1>2, <1>3, <2>1 DEF BeyondTarget
  <2>4. FillsMatch(t, u)
    <3> SUFFICES ASSUME NEW i \in 1..Len(u.out), IsFill(u.out[i])
                 PROVE  /\ Behind(t) /\ u.out[i].seq = t.incoming
                        /\ t.target < u.out[i].newSeqNo
                        /\ \A j \in 1..Len(u.out) :
                              j < i /\ Numbered(u.out[j]) => u.out[j].seq < u.out[i].newSeqNo
      BY DEF FillsMatch
    <3>1. i \in 1..Len(s.out) /\ u.out[i] = s.out[i]
      BY <1>3, <1>4
    <3>2. ASSUME NEW j \in 1..Len(u.out), j < i PROVE j \in 1..Len(s.out) /\ u.out[j] = s.out[j]
      BY <1>3, <3>1, <3>2
    <3> QED
      BY <2>1, <3>1, <3>2 DEF FillsMatch
  <2> QED
    BY <2>1, <2>2, <2>3, <2>4
<1>7. Tracks(t, u, n)
  <2>1. Reaches(u.out[Len(u.out)]) = u.outgoing
    BY <1>1, <1>2, <1>3, <1>4 DEF Reaches
  <2> QED
    BY <1>2, <1>3, <2>1 DEF Tracks, WithinFailures
<1>8. Ends(t, u)
  BY <1>2 DEF Ends
<1> QED
  BY <1>5, <1>6, <1>7, <1>8 DEF Paired, Recovers

-----------------------------------------------------------------------------
(* Taking the first item off a stream.                                     *)

ReadFrom(t, r) ==
    /\ r \in SessionRecord /\ Same(t, r) /\ r.outgoing = t.outgoing
    /\ r.behaviour = t.behaviour /\ r.useNext = t.useNext
    /\ r.posted = t.posted /\ r.orphans = t.orphans /\ r.testTimer = t.testTimer
    /\ Len(r.out) \in Nat /\ Len(t.out) = Len(r.out) + 1
    /\ t.out[1] \in Message /\ Head(t.out) = t.out[1]
    /\ \A i \in 1..Len(r.out) : r.out[i] = t.out[i + 1] /\ i + 1 \in 1..Len(t.out)
    /\ Len(r.out) > 0 => r.out[Len(r.out)] = t.out[Len(t.out)]

LEMMA TailReadFrom ==
    ASSUME NEW t \in SessionRecord, t.out # <<>>
    PROVE  ReadFrom(t, [t EXCEPT !.out = Tail(t.out)])
<1> DEFINE r == [t EXCEPT !.out = Tail(t.out)]
<1>1. /\ r \in SessionRecord /\ r.outgoing = t.outgoing
      /\ Head(t.out) = t.out[1] /\ t.out[1] \in Message
      /\ Len(r.out) \in Nat /\ Len(t.out) = Len(r.out) + 1
      /\ \A i \in 1..Len(r.out) : r.out[i] = t.out[i + 1]
  BY TailInOrder
<1>2. /\ Same(t, r) /\ r.behaviour = t.behaviour /\ r.useNext = t.useNext
      /\ r.posted = t.posted /\ r.orphans = t.orphans /\ r.testTimer = t.testTimer
  BY DEF SessionRecord, Same
<1> HIDE DEF r
<1>3. \A i \in 1..Len(r.out) : i + 1 \in 1..Len(t.out)
  BY <1>1
<1>4. Len(r.out) > 0 => r.out[Len(r.out)] = t.out[Len(t.out)]
  BY <1>1
<1>5. ReadFrom(t, r)
  BY <1>1, <1>2, <1>3, <1>4 DEF ReadFrom
<1> QED
  BY <1>5 DEF r

(* t waits for the same when its peer has read from its stream.            *)
LEMMA ReadFromReader ==
    ASSUME NEW t \in SessionRecord, NEW r, NEW s \in SessionRecord, NEW n \in Nat,
           ReadFrom(t, r), Paired(t, s, n)
    PROVE  Paired(r, s, n)
<1>1. /\ r.state = t.state /\ r.behaviour = t.behaviour
      /\ r.logonReceived = t.logonReceived /\ r.incoming = t.incoming
      /\ r.target = t.target /\ Len(r.out) \in Nat
      /\ \A i \in 1..Len(r.out) : r.out[i] = t.out[i + 1] /\ i + 1 \in 1..Len(t.out)
  BY DEF ReadFrom, Same
<1>2. LogonFirst(r, s) /\ Tracks(r, s, n) /\ Ends(r, s)
  BY <1>1 DEF Paired, LogonFirst, Tracks, WithinFailures, Ends
<1>3. ASSUME r.state # "disconnected"
      PROVE  OneAtMost(r, s) /\ BeyondTarget(r, s) /\ RequestsMatch(r) /\ FillsMatch(r, s)
  <2>1. OneAtMost(t, s) /\ BeyondTarget(t, s) /\ RequestsMatch(t) /\ FillsMatch(t, s)
    BY <1>1, <1>3 DEF Paired, Recovers
  <2>2. Behind(r) <=> Behind(t)
    BY <1>1 DEF Behind
  <2>3. OneAtMost(r, s)
    <3>1. ASSUME NEW i \in 1..Len(r.out), NEW j \in 1..Len(r.out),
                 IsRequest(r.out[i]), IsRequest(r.out[j])
          PROVE  i = j
      <4>1. i + 1 = j + 1
        BY <1>1, <2>1, <3>1 DEF OneAtMost
      <4> QED
        BY <4>1
    <3> QED
      BY <1>1, <2>1, <3>1 DEF OneAtMost
  <2>4. BeyondTarget(r, s)
    BY <1>1, <2>1, <2>2 DEF BeyondTarget
  <2>5. RequestsMatch(r)
    BY <1>1, <2>1, <2>2 DEF RequestsMatch
  <2>6. FillsMatch(r, s)
    BY <1>1, <2>1, <2>2 DEF FillsMatch
  <2> QED
    BY <2>3, <2>4, <2>5, <2>6
<1> QED
  BY <1>2, <1>3 DEF Paired, Recovers

(* s answers the request it reads from t, which waits for the answer.      *)
LEMMA WriterFills ==
    ASSUME NEW s \in SessionRecord, NEW v, NEW t \in SessionRecord, NEW r, NEW n \in Nat,
           ReadFrom(t, r), IsRequest(t.out[1]), Fills(s, t.out[1].beginSeqNo, v),
           s.state # "connected", s.writerOpen, SentInOrder(s), Paired(t, s, n)
    PROVE  Paired(r, v, n)
<1>1. PICK f \in Message : /\ Sane(f) /\ IsFill(f) /\ f.seq = t.out[1].beginSeqNo
                           /\ f.newSeqNo = s.outgoing /\ v.out = Append(s.out, f)
  BY DEF Fills
<1>2. /\ v \in SessionRecord /\ s.outgoing \in Nat /\ v.outgoing = s.outgoing
      /\ v.writerOpen /\ v.state = s.state
  BY FieldTypes DEF Fills
<1>3. /\ Len(s.out) \in Nat /\ Len(v.out) = Len(s.out) + 1
      /\ v.out[Len(v.out)] = f
      /\ \A i \in 1..Len(s.out) : v.out[i] = s.out[i] /\ i \in 1..Len(v.out)
      /\ \A i \in 1..Len(v.out) :
            \/ i \in 1..Len(s.out) /\ i < Len(v.out) /\ v.out[i] = s.out[i]
            \/ i = Len(v.out) /\ v.out[i] = f
  BY <1>1, <1>2, AfterAppend
<1>4. ~IsRequest(f) /\ ~Numbered(f) /\ Reaches(f) = s.outgoing
  BY <1>1 DEF IsFill, IsRequest, Numbered, Reaches
<1>5. Paired(r, s, n)
  BY ReadFromReader
<1>6. LogonFirst(r, v)
  BY <1>2, <1>3, <1>5 DEF Paired, LogonFirst
<1>7. ASSUME r.state # "disconnected"
      PROVE  OneAtMost(r, v) /\ BeyondTarget(r, v) /\ RequestsMatch(r) /\ FillsMatch(r, v)
  <2>1. /\ r.state = t.state /\ r.incoming = t.incoming /\ r.target = t.target
        /\ Len(r.out) \in Nat /\ Len(t.out) = Len(r.out) + 1
        /\ \A i \in 1..Len(r.out) : r.out[i] = t.out[i + 1] /\ i + 1 \in 1..Len(t.out)
    BY DEF ReadFrom, Same
  <2>2. /\ OneAtMost(t, s) /\ BeyondTarget(t, s) /\ RequestsMatch(t)
        /\ BeyondTarget(r, s) /\ RequestsMatch(r)
    BY <1>5, <1>7, <2>1 DEF Paired, Recovers
  <2>3. 1 \in 1..Len(t.out)
    BY <2>1
  <2>4. Behind(t) /\ t.out[1].beginSeqNo = t.incoming
    BY <2>2, <2>3 DEF RequestsMatch
  <2>5. Behind(r) /\ f.seq = r.incoming /\ r.target < s.outgoing
    BY <1>1, <2>1, <2>2, <2>4 DEF Behind, BeyondTarget
  <2>6. \A i \in 1..Len(s.out) : ~IsFill(s.out[i])
    BY <2>2, <2>3 DEF OneAtMost
  <2>7. ASSUME NEW i \in 1..Len(r.out) PROVE ~IsRequest(r.out[i])
    <3>1. IsRequest(t.out[i + 1]) => i + 1 = 1
      BY <2>1, <2>2, <2>3, <2>7 DEF OneAtMost
    <3> QED
      BY <2>1, <3>1
  <2>8. OneAtMost(r, v)
    BY <1>3, <2>6, <2>7 DEF OneAtMost
  <2>9. BeyondTarget(r, v)
    BY <1>2, <1>3, <1>4, <2>2 DEF BeyondTarget
  <2>10. FillsMatch(r, v)
    <3> SUFFICES ASSUME NEW i \in 1..Len(v.out), IsFill(v.out[i])
                 PROVE  /\ Behind(r) /\ v.out[i].seq = r.incoming
                        /\ r.target < v.out[i].newSeqNo
                        /\ \A j \in 1..Len(v.out) :
                              j < i /\ Numbered(v.out[j]) => v.out[j].seq < v.out[i].newSeqNo
      BY DEF FillsMatch
    <3>1. i = Len(v.out) /\ v.out[i] = f
      BY <1>3, <2>6
    <3>2. ASSUME NEW j \in 1..Len(v.out), j < i, Numbered(v.out[j])
          PROVE  v.out[j].seq < s.outgoing
      <4>1. j \in 1..Len(s.out) /\ v.out[j] = s.out[j]
        BY <1>3, <3>1, <3>2
      <4>2. Reaches(s.out[j]) <= s.outgoing /\ s.out[j] \in Message
        BY <4>1, FieldTypes DEF SentInOrder
      <4>3. Reaches(s.out[j]) = s.out[j].seq + 1 /\ s.out[j].seq \in Nat
        BY <3>2, <4>1, <4>2 DEF Reaches, Message
      <4> QED
        BY <1>2, <4>1, <4>2, <4>3
    <3> QED
      BY <1>1, <2>5, <3>1, <3>2
  <2> QED
    BY <2>2, <2>8, <2>9, <2>10
<1>8. Tracks(r, v, n)
  BY <1>2, <1>3, <1>4 DEF Tracks, WithinFailures
<1>9. Ends(r, v)
  BY <1>2 DEF Ends
<1> QED
  BY <1>6, <1>7, <1>8, <1>9 DEF Paired, Recovers

-----------------------------------------------------------------------------
(* The reader's side: what s is paired with when it has read from t.       *)

(* Every request u has under way is one of s.                              *)
AsksNothing(s, u) ==
    \A i \in 1..Len(u.out) :
        IsRequest(u.out[i]) => i \in 1..Len(s.out) /\ u.out[i] = s.out[i]

LEMMA AppendsAskNothing ==
    ASSUME NEW s \in SessionRecord, NEW u, Appends(s, u)
    PROVE  AsksNothing(s, u)
<1> SUFFICES ASSUME NEW i \in 1..Len(u.out), IsRequest(u.out[i])
             PROVE  i \in 1..Len(s.out) /\ u.out[i] = s.out[i]
  BY DEF AsksNothing
<1>1. Len(s.out) \in Nat /\ Len(u.out) \in Nat
  BY FieldTypes DEF Appends
<1>2. i \in (Len(s.out) + 1)..Len(u.out) => ~IsRequest(u.out[i])
  BY DEF Appends, Plain
<1>3. i \in 1..Len(s.out)
  BY <1>1, <1>2
<1> QED
  BY <1>3 DEF Appends

LEMMA AnswersAskNothing ==
    ASSUME NEW s \in SessionRecord, NEW begin, NEW v, NEW u, Fills(s, begin, v), Appends(v, u)
    PROVE  AsksNothing(s, u)
<1>1. PICK f \in Message : IsFill(f) /\ v.out = Append(s.out, f)
  BY DEF Fills
<1>2. v \in SessionRecord /\ ~IsRequest(f)
  BY <1>1 DEF Fills, IsFill, IsRequest
<1>3. AsksNothing(v, u)
  BY <1>2, AppendsAskNothing
<1>4. AsksNothing(s, v)
  BY <1>1, <1>2, AfterAppend DEF AsksNothing
<1> QED
  BY <1>3, <1>4 DEF AsksNothing

(* A session that writes but does not read.                                *)
LEMMA ReaderQuiet ==
    ASSUME NEW s \in SessionRecord, NEW u, NEW t \in SessionRecord, NEW n \in Nat,
           Quiet(s, u), Paired(s, t, n)
    PROVE  Paired(u, t, n)
<1>1. /\ u.state = s.state /\ u.behaviour = s.behaviour
      /\ u.logonReceived = s.logonReceived /\ u.incoming = s.incoming
      /\ u.target = s.target
  BY DEF Quiet, Same, Appends
<1>2. AsksNothing(s, u)
  BY AppendsAskNothing DEF Quiet
<1>3. LogonFirst(u, t) /\ Tracks(u, t, n) /\ Ends(u, t)
  BY <1>1 DEF Paired, LogonFirst, Tracks, WithinFailures, Ends
<1>4. ASSUME u.state # "disconnected"
      PROVE  OneAtMost(u, t) /\ BeyondTarget(u, t) /\ RequestsMatch(u) /\ FillsMatch(u, t)
  <2>1. OneAtMost(s, t) /\ BeyondTarget(s, t) /\ RequestsMatch(s) /\ FillsMatch(s, t)
    BY <1>1, <1>4 DEF Paired, Recovers
  <2>2. Behind(u) <=> Behind(s)
    BY <1>1 DEF Behind
  <2>3. OneAtMost(u, t)
    BY <1>2, <2>1 DEF OneAtMost, AsksNothing
  <2>4. BeyondTarget(u, t) /\ FillsMatch(u, t)
    BY <1>1, <2>1, <2>2 DEF BeyondTarget, FillsMatch
  <2>5. RequestsMatch(u)
    BY <1>1, <1>2, <2>1, <2>2 DEF RequestsMatch, AsksNothing
  <2> QED
    BY <2>3, <2>4, <2>5
<1> QED
  BY <1>3, <1>4 DEF Paired, Recovers

(* A session that is disconnected waits for nothing.                       *)
LEMMA ReaderDisconnected ==
    ASSUME NEW s, NEW u, NEW t \in SessionRecord, NEW n \in Nat,
           u.state = "disconnected", Paired(s, t, n)
    PROVE  Paired(u, t, n) /\ \A r : ReadFrom(t, r) => Paired(u, r, n)
<1>1. Paired(u, t, n)
  BY DEF Paired, LogonFirst, Recovers, Tracks, Ends
<1>2. ASSUME NEW r, ReadFrom(t, r)
      PROVE  Paired(u, r, n)
  <2>1. /\ Len(r.out) \in Nat /\ Len(t.out) = Len(r.out) + 1 /\ r.outgoing = t.outgoing
        /\ r.writerOpen = t.writerOpen
        /\ Len(r.out) > 0 => r.out[Len(r.out)] = t.out[Len(t.out)]
    BY <1>2 DEF ReadFrom, Same
  <2>2. Tracks(u, r, n)
    BY <2>1 DEF Paired, Tracks, WithinFailures
  <2> QED
    BY <2>2 DEF Paired, LogonFirst, Recovers, Ends
<1> QED
  BY <1>1, <1>2

(* What holds of every session that has read a message and reads on.       *)
LEMMA ReaderContinues ==
    ASSUME NEW s, NEW u, NEW t \in SessionRecord, NEW r, NEW n \in Nat,
           ReadFrom(t, r), Paired(s, t, n), Continues(s, t.out[1], u),
           u.behaviour = s.behaviour, s.state # "disconnected",
           t.state # "connected", t.out[1].type # "Close",
           u.state = "logged_on" => u.incoming = Reaches(t.out[1])
    PROVE  LogonFirst(u, r) /\ Tracks(u, r, n) /\ Ends(u, r)
<1>1. /\ Len(r.out) \in Nat /\ Len(t.out) = Len(r.out) + 1 /\ r.outgoing = t.outgoing
      /\ r.writerOpen = t.writerOpen
      /\ Len(r.out) > 0 => r.out[Len(r.out)] = t.out[Len(t.out)]
  BY DEF ReadFrom, Same
<1>2. LogonFirst(u, r)
  BY DEF Paired, LogonFirst, Continues
<1>3. Tracks(u, r, n)
  BY <1>1 DEF Paired, Tracks, WithinFailures
<1>4. Ends(u, r)
  BY <1>1 DEF Paired, Ends
<1> QED
  BY <1>2, <1>3, <1>4

(* A session that accepts the number it expects had no recovery under way  *)
(* that it waits for.                                                      *)
LEMMA ReaderCounts ==
    ASSUME NEW s \in SessionRecord, NEW u \in SessionRecord, NEW t \in SessionRecord,
           NEW r, NEW n \in Nat,
           ReadFrom(t, r), Paired(s, t, n), Counts(s, t.out[1], u), AsksNothing(s, u),
           u.behaviour = s.behaviour, s.state # "disconnected", t.state # "connected"
    PROVE  Paired(u, r, n)
<1> DEFINE m == t.out[1]
<1>1. /\ Len(r.out) \in Nat /\ Len(t.out) = Len(r.out) + 1 /\ m \in Message
      /\ \A i \in 1..Len(r.out) : r.out[i] = t.out[i + 1] /\ i + 1 \in 1..Len(t.out)
      /\ 1 \in 1..Len(t.out)
  BY DEF ReadFrom
<1>2. /\ Numbered(m) /\ m.seq = s.incoming /\ s.incoming \in Nat /\ s.target \in Nat
      /\ u.incoming = s.incoming + 1 /\ u.target = s.target
      /\ u.state \in {s.state, "logged_on"} /\ Continues(s, m, u)
  BY FieldTypes DEF Counts
<1>3. m.type # "Close" /\ Reaches(m) = u.incoming
  BY <1>2 DEF Numbered, Reaches
<1>4. LogonFirst(u, r) /\ Tracks(u, r, n) /\ Ends(u, r)
  BY <1>2, <1>3, ReaderContinues
<1>5. OneAtMost(s, t) /\ BeyondTarget(s, t) /\ RequestsMatch(s) /\ FillsMatch(s, t)
  BY DEF Paired, Recovers
<1>6. ~Behind(s)
  BY <1>1, <1>2, <1>5 DEF BeyondTarget, Behind
<1>7. ~Behind(u)
  BY <1>2, <1>6 DEF Behind
<1>8. \A i \in 1..Len(u.out) : ~IsRequest(u.out[i])
  BY <1>5, <1>6 DEF RequestsMatch, AsksNothing
<1>9. \A i \in 1..Len(r.out) : ~IsFill(r.out[i])
  BY <1>1, <1>5, <1>6 DEF FillsMatch
<1>10. OneAtMost(u, r) /\ BeyondTarget(u, r) /\ RequestsMatch(u) /\ FillsMatch(u, r)
  BY <1>7, <1>8, <1>9 DEF OneAtMost, BeyondTarget, RequestsMatch, FillsMatch
<1> QED
  BY <1>4, <1>10 DEF Paired, Recovers

(* A message beyond the expected number is below the rest of the stream.   *)
LEMMA RestIsBeyond ==
    ASSUME NEW t \in SessionRecord, NEW r, ReadFrom(t, r), SentInOrder(t), Numbered(t.out[1])
    PROVE  /\ t.out[1].seq < r.outgoing
           /\ \A i \in 1..Len(r.out) : Numbered(r.out[i]) => t.out[1].seq < r.out[i].seq
<1>1. /\ Len(r.out) \in Nat /\ Len(t.out) = Len(r.out) + 1 /\ t.out[1] \in Message
      /\ \A i \in 1..Len(r.out) : r.out[i] = t.out[i + 1] /\ i + 1 \in 1..Len(t.out)
      /\ 1 \in 1..Len(t.out) /\ r.outgoing = t.outgoing /\ t.outgoing \in Nat
  BY FieldTypes DEF ReadFrom
<1>2. /\ Reaches(t.out[1]) <= t.outgoing
      /\ \A j \in (1 + 1)..Len(t.out) :
            Numbered(t.out[j]) => Reaches(t.out[1]) <= t.out[j].seq
  BY <1>1 DEF SentInOrder
<1>3. Reaches(t.out[1]) = t.out[1].seq + 1 /\ t.out[1].seq \in Nat
  BY <1>1 DEF Reaches, Message
<1>4. ASSUME NEW i \in 1..Len(r.out), Numbered(r.out[i])
      PROVE  t.out[1].seq < r.out[i].seq
  <2>1. i + 1 \in (1 + 1)..Len(t.out) /\ r.out[i] = t.out[i + 1]
    BY <1>1
  <2>2. Reaches(t.out[1]) <= r.out[i].seq
    BY <1>2, <1>4, <2>1
  <2>3. r.out[i] \in Message
    BY <2>1, FieldTypes DEF ReadFrom
  <2>4. r.out[i].seq \in Nat
    BY <2>3 DEF Message
  <2> QED
    BY <1>3, <2>2, <2>4
<1> QED
  BY <1>1, <1>2, <1>3, <1>4

(* A recovery starts: nothing of an earlier one is under way.              *)
LEMMA ReaderRecovering ==
    ASSUME NEW s \in SessionRecord, NEW u, NEW t \in SessionRecord,
           NEW r, NEW n \in Nat,
           ReadFrom(t, r), Paired(s, t, n), Recovering(s, t.out[1], u), SentInOrder(t),
           s.state # "disconnected", t.state # "connected"
    PROVE  Paired(u, r, n)
<1> DEFINE m == t.out[1]
<1>1. /\ Len(r.out) \in Nat /\ Len(t.out) = Len(r.out) + 1 /\ m \in Message
      /\ \A i \in 1..Len(r.out) : r.out[i] = t.out[i + 1] /\ i + 1 \in 1..Len(t.out)
  BY DEF ReadFrom
<1>2. PICK v : /\ Appends(s, v) /\ v.incoming = s.incoming /\ v.writerOpen
               /\ Requests(v, m.seq, u)
  BY DEF Recovering
<1>3. PICK q \in Message : /\ Sane(q) /\ IsRequest(q)
                           /\ q.beginSeqNo = v.incoming /\ u.out = Append(v.out, q)
  BY <1>2 DEF Requests
<1>4. /\ Numbered(m) /\ m.seq > s.incoming /\ s.state # "resending"
      /\ Continues(s, m, u) /\ u.behaviour = s.behaviour
      /\ u.state = "resending" /\ u.target = m.seq /\ u.incoming = s.incoming
      /\ v \in SessionRecord /\ u \in SessionRecord
  BY <1>2 DEF Recovering, Requests, Appends
<1>5. LogonFirst(u, r) /\ Tracks(u, r, n) /\ Ends(u, r)
  <2>1. m.type # "Close" /\ u.state # "logged_on"
    BY <1>4 DEF Numbered
  <2> QED
    BY <1>4, <2>1, ReaderContinues
<1>6. OneAtMost(s, t) /\ BeyondTarget(s, t) /\ RequestsMatch(s) /\ FillsMatch(s, t)
  BY DEF Paired, Recovers
<1>7. m.seq \in Nat /\ s.incoming \in Nat
  BY <1>1, FieldTypes DEF Message
<1>8. ~Behind(s) /\ Behind(u)
  BY <1>4, <1>7 DEF Behind
<1>9. AsksNothing(s, v)
  BY <1>2, AppendsAskNothing
<1>10. \A i \in 1..Len(v.out) : ~IsRequest(v.out[i])
  BY <1>6, <1>8, <1>9 DEF RequestsMatch, AsksNothing
<1>11. \A i \in 1..Len(r.out) : ~IsFill(r.out[i])
  BY <1>1, <1>6, <1>8 DEF FillsMatch
<1>12. \A i \in 1..Len(u.out) : IsRequest(u.out[i]) => i = Len(u.out) /\ u.out[i] = q
  BY <1>3, <1>4, <1>10, AfterAppend
<1>13. OneAtMost(u, r)
  BY <1>11, <1>12 DEF OneAtMost
<1>14. RequestsMatch(u)
  BY <1>2, <1>3, <1>4, <1>8, <1>12 DEF RequestsMatch
<1>15. BeyondTarget(u, r)
  BY <1>4, RestIsBeyond DEF BeyondTarget
<1>16. FillsMatch(u, r)
  BY <1>11 DEF FillsMatch
<1> QED
  BY <1>5, <1>13, <1>14, <1>15, <1>16 DEF Paired, Recovers

(* The target moves: an answer under way reaches beyond the new one.       *)
LEMMA ReaderExtends ==
    ASSUME NEW s \in SessionRecord, NEW u, NEW t \in SessionRecord,
           NEW r, NEW n \in Nat,
           ReadFrom(t, r), Paired(s, t, n), Extends(s, t.out[1], u), SentInOrder(t),
           t.state # "connected"
    PROVE  Paired(u, r, n)
<1> DEFINE m == t.out[1]
<1>1. /\ Len(r.out) \in Nat /\ Len(t.out) = Len(r.out) + 1 /\ m \in Message
      /\ \A i \in 1..Len(r.out) : r.out[i] = t.out[i + 1] /\ i + 1 \in 1..Len(t.out)
      /\ 1 \in 1..Len(t.out)
  BY DEF ReadFrom
<1>2. /\ Numbered(m) /\ m.seq > s.incoming /\ s.state = "resending"
      /\ Continues(s, m, u) /\ u.behaviour = s.behaviour
      /\ u.state = "resending" /\ u.incoming = s.incoming
      /\ u.target = IF m.seq > s.target THEN m.seq ELSE s.target
      /\ AsksNothing(s, u)
  BY AppendsAskNothing DEF Extends, Appends
<1>3. LogonFirst(u, r) /\ Tracks(u, r, n) /\ Ends(u, r)
  <2>1. m.type # "Close" /\ u.state # "logged_on" /\ s.state # "disconnected"
    BY <1>2 DEF Numbered
  <2> QED
    BY <1>2, <2>1, ReaderContinues
<1>4. OneAtMost(s, t) /\ BeyondTarget(s, t) /\ RequestsMatch(s) /\ FillsMatch(s, t)
  BY <1>2 DEF Paired, Recovers
<1>5. m.seq \in Nat /\ s.incoming \in Nat /\ s.target \in Nat
  BY <1>1, FieldTypes DEF Message
<1>6. u.target = m.seq /\ Behind(u)
  BY <1>1, <1>2, <1>4, <1>5 DEF Behind, BeyondTarget
<1>7. OneAtMost(u, r)
  <2>1. ASSUME NEW i \in 1..Len(r.out), NEW j \in 1..Len(r.out),
               IsFill(r.out[i]), IsFill(r.out[j])
        PROVE  i = j
    <3>1. i + 1 = j + 1
      BY <1>1, <1>4, <2>1 DEF OneAtMost
    <3> QED
      BY <3>1
  <2>2. \A i, j \in 1..Len(u.out) : IsRequest(u.out[i]) /\ IsRequest(u.out[j]) => i = j
    BY <1>2, <1>4 DEF OneAtMost, AsksNothing
  <2>3. \A i \in 1..Len(u.out), j \in 1..Len(r.out) :
           ~(IsRequest(u.out[i]) /\ IsFill(r.out[j]))
    BY <1>1, <1>2, <1>4 DEF OneAtMost, AsksNothing
  <2> QED
    BY <2>1, <2>2, <2>3 DEF OneAtMost
<1>8. BeyondTarget(u, r)
  BY <1>2, <1>6, RestIsBeyond DEF BeyondTarget
<1>9. RequestsMatch(u)
  BY <1>2, <1>4, <1>6 DEF RequestsMatch, AsksNothing
<1>10. FillsMatch(u, r)
  <2> SUFFICES ASSUME NEW i \in 1..Len(r.out), IsFill(r.out[i])
               PROVE  /\ Behind(u) /\ r.out[i].seq = u.incoming
                      /\ u.target < r.out[i].newSeqNo
                      /\ \A j \in 1..Len(r.out) :
                            j < i /\ Numbered(r.out[j]) => r.out[j].seq < r.out[i].newSeqNo
    BY DEF FillsMatch
  <2>1. i + 1 \in 1..Len(t.out) /\ r.out[i] = t.out[i + 1] /\ 1 < i + 1
    BY <1>1
  <2>2. /\ t.out[i + 1].seq = s.incoming
        /\ \A j \in 1..Len(t.out) : j < i + 1 /\ Numbered(t.out[j]) =>
                                        t.out[j].seq < t.out[i + 1].newSeqNo
    BY <1>4, <2>1 DEF FillsMatch
  <2>3. m.seq < r.out[i].newSeqNo
    BY <1>1, <1>2, <2>1, <2>2
  <2>4. ASSUME NEW j \in 1..Len(r.out), j < i, Numbered(r.out[j])
        PROVE  r.out[j].seq < r.out[i].newSeqNo
    <3>1. j + 1 \in 1..Len(t.out) /\ r.out[j] = t.out[j + 1] /\ j + 1 < i + 1
      BY <1>1, <2>4
    <3> QED
      BY <2>1, <2>2, <2>4, <3>1
  <2> QED
    BY <1>2, <1>6, <2>1, <2>2, <2>3, <2>4
<1> QED
  BY <1>3, <1>7, <1>8, <1>9, <1>10 DEF Paired, Recovers

(* The answer arrives: the session has caught up.                          *)
LEMMA ReaderFilled ==
    ASSUME NEW s \in SessionRecord, NEW u, NEW t \in SessionRecord,
           NEW r, NEW n \in Nat,
           ReadFrom(t, r), Paired(s, t, n), Filled(s, t.out[1], u),
           s.state # "disconnected", t.state # "connected", Sane(t.out[1])
    PROVE  Paired(u, r, n)
<1> DEFINE m == t.out[1]
<1>1. /\ Len(r.out) \in Nat /\ Len(t.out) = Len(r.out) + 1 /\ m \in Message
      /\ \A i \in 1..Len(r.out) : r.out[i] = t.out[i + 1] /\ i + 1 \in 1..Len(t.out)
      /\ 1 \in 1..Len(t.out)
  BY DEF ReadFrom
<1>2. /\ IsFill(m) /\ Continues(s, m, u) /\ u.behaviour = s.behaviour
      /\ u.state = "resending" /\ u.incoming = m.newSeqNo /\ u.target = s.target
      /\ AsksNothing(s, u)
  BY AppendsAskNothing DEF Filled, Appends
<1>3. LogonFirst(u, r) /\ Tracks(u, r, n) /\ Ends(u, r)
  <2>1. m.type # "Close" /\ u.state # "logged_on"
    BY <1>2 DEF IsFill
  <2> QED
    BY <1>2, <2>1, ReaderContinues
<1>4. OneAtMost(s, t) /\ FillsMatch(s, t)
  BY DEF Paired, Recovers
<1>5. m.newSeqNo \in Nat /\ s.target \in Nat
  BY <1>2, FieldTypes DEF Sane
<1>6. s.target < m.newSeqNo
  BY <1>1, <1>2, <1>4 DEF FillsMatch
<1>7. ~Behind(u)
  BY <1>2, <1>5, <1>6 DEF Behind
<1>8. \A i \in 1..Len(u.out) : ~IsRequest(u.out[i])
  BY <1>1, <1>2, <1>4 DEF OneAtMost, AsksNothing
<1>9. ASSUME NEW i \in 1..Len(r.out) PROVE ~IsFill(r.out[i])
  <2>1. IsFill(t.out[i + 1]) => i + 1 = 1
    BY <1>1, <1>2, <1>4 DEF OneAtMost
  <2> QED
    BY <1>1, <2>1
<1>10. OneAtMost(u, r) /\ BeyondTarget(u, r) /\ RequestsMatch(u) /\ FillsMatch(u, r)
  BY <1>7, <1>8, <1>9 DEF OneAtMost, BeyondTarget, RequestsMatch, FillsMatch
<1> QED
  BY <1>3, <1>10 DEF Paired, Recovers

-----------------------------------------------------------------------------
(* The steps of the pair: s moves, t is its peer.                          *)

(* A session stays proper when it appends plain messages.                  *)
LEMMA ProperAppends ==
    ASSUME NEW s \in SessionRecord, NEW u, NEW p, Proper(s, p), Appends(s, u),
           u.state \notin {"connected", "resetting"},
           u.readerOpen <=> u.state \in OpenStates,
           u.state # "disconnected" => u.writerOpen
    PROVE  Proper(u, p)
<1>1. Len(s.out) \in Nat /\ Len(u.out) \in Nat
  BY FieldTypes DEF Appends
<1>2. ASSUME NEW i \in 1..Len(u.out) PROVE Sane(u.out[i])
  <2>1. CASE i <= Len(s.out)
    <3>1. i \in 1..Len(s.out)
      BY <1>1, <2>1
    <3> QED
      BY <3>1 DEF Proper, Appends
  <2>2. CASE ~(i <= Len(s.out))
    <3>1. i \in (Len(s.out) + 1)..Len(u.out)
      BY <1>1, <2>2
    <3> QED
      BY <3>1 DEF Appends, Plain
  <2> QED
    BY <2>1, <2>2
<1> QED
  BY <1>2 DEF Proper, Appends

(* The peer stays proper when its stream is read.                          *)
LEMMA ProperReadFrom ==
    ASSUME NEW t \in SessionRecord, NEW r, NEW q, Proper(t, q), ReadFrom(t, r)
    PROVE  Proper(r, q) /\ t.state # "connected" /\ Sane(t.out[1])
<1>1. t.state # "connected" /\ 1 \in 1..Len(t.out)
  <2>1. Len(t.out) > 0 /\ Len(t.out) \in Nat
    BY DEF ReadFrom
  <2>2. t.out # <<>>
    BY <2>1
  <2> QED
    BY <2>1, <2>2 DEF Proper
<1> QED
  BY <1>1 DEF Proper, ReadFrom, Same

(* A timer, or a message of the application.                               *)
LEMMA QuietStep ==
    ASSUME NEW s, NEW t, NEW n \in Nat, NEW u, Pair(s, t, n), Quiet(s, u),
           s.state # "connected"
    PROVE  Pair(u, t, n)
<1>1. /\ s \in SessionRecord /\ t \in SessionRecord /\ u \in SessionRecord
      /\ Appends(s, u) /\ Paired(s, t, n) /\ Paired(t, s, n)
  BY DEF Pair, Quiet, Appends
<1>2. PICK p \in Peers : Proper(s, p) /\ Proper(t, Other(p))
  BY DEF Pair
<1>3. Proper(u, p)
  <2>1. /\ u.state \notin {"connected", "resetting"}
        /\ u.readerOpen <=> u.state \in OpenStates
        /\ u.state # "disconnected" => u.writerOpen
    BY <1>2 DEF Proper, Quiet, Same
  <2> QED
    BY <1>1, <1>2, <2>1, ProperAppends
<1>4. Paired(u, t, n) /\ Paired(t, u, n)
  BY <1>1, ReaderQuiet, WriterAppends
<1> QED
  BY <1>1, <1>2, <1>3, <1>4 DEF Pair

(* A session is closed.                                                    *)
LEMMA EndedStep ==
    ASSUME NEW s, NEW t, NEW n \in Nat, NEW u, Pair(s, t, n), Ended(s, u),
           s.state # "connected"
    PROVE  Pair(u, t, n) /\ \A r : ReadFrom(t, r) => Pair(u, r, n)
<1>1. /\ s \in SessionRecord /\ t \in SessionRecord /\ u \in SessionRecord
      /\ Appends(s, u) /\ u.state = "disconnected" /\ ~u.readerOpen
      /\ Paired(s, t, n) /\ Paired(t, s, n)
  BY DEF Pair, Ended, Appends
<1>2. PICK p \in Peers : Proper(s, p) /\ Proper(t, Other(p))
  BY DEF Pair
<1>3. Proper(u, p)
  <2>1. "disconnected" \notin OpenStates
    BY DEF OpenStates
  <2> QED
    BY <1>1, <1>2, <2>1, ProperAppends
<1>4. Paired(u, t, n) /\ Paired(t, u, n)
  BY <1>1, ReaderDisconnected, WriterAppends
<1>5. ASSUME NEW r, ReadFrom(t, r) PROVE Pair(u, r, n)
  <2>1. Paired(u, r, n) /\ Paired(r, u, n)
    BY <1>1, <1>4, <1>5, ReaderDisconnected, ReadFromReader
  <2>2. Proper(r, Other(p)) /\ r \in SessionRecord
    BY <1>1, <1>2, <1>5, ProperReadFrom DEF ReadFrom
  <2> QED
    BY <1>1, <1>2, <1>3, <2>1, <2>2 DEF Pair
<1> QED
  BY <1>1, <1>2, <1>3, <1>4, <1>5 DEF Pair

(* A closed reader drops what arrives.                                     *)
LEMMA DropStep ==
    ASSUME NEW s, NEW t, NEW n \in Nat, NEW r, Pair(s, t, n), ReadFrom(t, r),
           s.state = "disconnected"
    PROVE  Pair(s, r, n)
<1>1. /\ s \in SessionRecord /\ t \in SessionRecord /\ r \in SessionRecord
      /\ Paired(s, t, n) /\ Paired(t, s, n)
  BY DEF Pair, ReadFrom
<1>2. PICK p \in Peers : Proper(s, p) /\ Proper(t, Other(p))
  BY DEF Pair
<1>3. Paired(s, r, n) /\ Paired(r, s, n) /\ Proper(r, Other(p))
  BY <1>1, <1>2, ReaderDisconnected, ReadFromReader, ProperReadFrom
<1> QED
  BY <1>1, <1>2, <1>3 DEF Pair

(* A session is opened; an initiator sends its Logon.                      *)
LEMMA OpenStep ==
    ASSUME NEW s, NEW t, NEW n \in Nat, Pair(s, t, n), s.state = "connected"
    PROVE  Pair(open(s), t, n)
<1> DEFINE l == [s EXCEPT !.readerOpen = TRUE, !.state = "logging_on"]
           u == open(s)
<1>1. /\ s \in SessionRecord /\ t \in SessionRecord
      /\ Paired(s, t, n) /\ Paired(t, s, n)
  BY DEF Pair
<1>2. PICK p \in Peers : Proper(s, p) /\ Proper(t, Other(p))
  BY DEF Pair
<1>3. s.writerOpen /\ s.out = <<>> /\ ~s.useNext /\ s.behaviour = p
  BY <1>2 DEF Proper
<1>4. /\ l \in SessionRecord /\ l.behaviour = s.behaviour /\ l.useNext = s.useNext
      /\ l.outgoing = s.outgoing /\ l.out = s.out /\ l.writerOpen = s.writerOpen
      /\ l.readerOpen /\ l.logonReceived = s.logonReceived
      /\ l.state = "logging_on" /\ l.incoming = s.incoming /\ l.target = s.target
  BY <1>1 DEF SessionRecord, SessionStates
<1>5. u = IF s.behaviour = "initiator" THEN send_logon(l, FALSE) ELSE l
  BY <1>1 DEF open, logon, SessionRecord
<1> HIDE DEF l, u
<1>6. Quiet(l, u) /\ u \in SessionRecord
  <2>1. Quiet(l, send_logon(l, FALSE))
    BY <1>3, <1>4, SendsQuiet
  <2>2. Quiet(l, l)
    BY <1>4, AppendsReflexive
  <2>3. Quiet(l, u)
    BY <1>5, <2>1, <2>2, Zenon
  <2>4. u \in SessionRecord
    BY <2>3 DEF Quiet, Appends
  <2> QED
    BY <2>3, <2>4
<1>7. Appends(s, u)
  <2>1. Appends(s, l)
    BY <1>1, <1>4, SameOut
  <2> QED
    BY <1>1, <1>4, <1>6, <2>1, AppendsTransitive DEF Quiet
<1>8. Proper(u, p)
  <2>1. u.state = "logging_on" /\ u.readerOpen /\ u.writerOpen
    BY <1>3, <1>4, <1>6 DEF Quiet, Same
  <2>2. "logging_on" \in OpenStates
    BY DEF OpenStates
  <2> QED
    BY <1>1, <1>2, <1>7, <2>1, <2>2, ProperAppends
<1>9. Paired(u, t, n)
  <2>1. LogonFirst(l, t) /\ Tracks(l, t, n) /\ Ends(l, t)
    BY <1>1, <1>4 DEF Paired, LogonFirst, Tracks, Ends
  <2>2. OneAtMost(s, t) /\ BeyondTarget(s, t) /\ RequestsMatch(s) /\ FillsMatch(s, t)
    BY <1>1 DEF Paired, Recovers
  <2>3. ~Behind(s) /\ ~Behind(l)
    BY <1>4 DEF Behind
  <2>4. OneAtMost(l, t) /\ BeyondTarget(l, t) /\ RequestsMatch(l) /\ FillsMatch(l, t)
    BY <1>4, <2>2, <2>3 DEF OneAtMost, BeyondTarget, RequestsMatch, FillsMatch
  <2>5. Paired(l, t, n)
    BY <2>1, <2>4 DEF Paired, Recovers
  <2> QED
    BY <1>1, <1>4, <1>6, <2>5, ReaderQuiet
<1>10. LogonFirst(t, u)
  <2>1. CASE p = "acceptor"
    <3>1. t.behaviour = "initiator"
      BY <1>2, <2>1 DEF Proper, Other
    <3> QED
      BY <3>1 DEF LogonFirst
  <2>2. CASE p = "initiator"
    <3> DEFINE m == [message("Logon") EXCEPT !.heartBtInt = l.heartbeat,
                                             !.resetSeqNum = FALSE,
                                             !.nextExpected = Missing,
                                             !.seq = l.outgoing]
    <3>1. u.out = Append(l.out, m)
      BY <1>3, <1>4, <1>5, <2>2
      DEF send_logon, send, write, reset_for_logon, message, SessionRecord
    <3>2. m.type = "Logon"
      BY DEF message
    <3> HIDE DEF m
    <3>3. Len(u.out) = 1 /\ u.out[1] = m
      BY <1>3, <1>4, <3>1
    <3> QED
      BY <3>2, <3>3 DEF LogonFirst
  <2> QED
    BY <2>1, <2>2 DEF Peers, Behaviours
<1>11. Paired(t, u, n)
  BY <1>1, <1>7, <1>10, WriterAppends
<1>12. Pair(u, t, n)
  BY <1>1, <1>2, <1>6, <1>8, <1>9, <1>11 DEF Pair
<1> QED
  BY <1>12 DEF u

(* A message that cannot be encoded uses up a number.                      *)
LEMMA FailStep ==
    ASSUME NEW s, NEW t, NEW n \in Nat, Pair(s, t, n), s.state = "logged_on"
    PROVE  Pair(send_fails(s), t, n + 1)
<1> DEFINE k == s.outgoing + 1
           u == [s EXCEPT !.outgoing = k]
<1>1. /\ s \in SessionRecord /\ t \in SessionRecord
      /\ Paired(s, t, n) /\ Paired(t, s, n)
      /\ s.outgoing \in Nat /\ k \in Nat /\ t.outgoing \in Nat /\ t.target \in Nat
      /\ s.incoming \in Nat /\ t.incoming \in Nat
      /\ s.out \in Seq(Message) /\ t.out \in Seq(Message)
  BY FieldTypes DEF Pair
<1>2. PICK p \in Peers : Proper(s, p) /\ Proper(t, Other(p))
  BY DEF Pair
<1>3. send_fails(s) = u
  BY DEF send_fails
<1> HIDE DEF k
<1>4. /\ u \in SessionRecord /\ Same(s, u) /\ u.out = s.out /\ u.outgoing = k
      /\ u.behaviour = s.behaviour /\ u.useNext = s.useNext
  BY <1>1 DEF SessionRecord, Same
<1> HIDE DEF u
<1>5. /\ u.state = s.state /\ u.logonReceived = s.logonReceived /\ u.incoming = s.incoming
      /\ u.target = s.target /\ u.readerOpen = s.readerOpen /\ u.writerOpen = s.writerOpen
  BY <1>4 DEF Same
<1>6. Proper(u, p)
  BY <1>2, <1>4, <1>5 DEF Proper
<1>7. ASSUME NEW r \in SessionRecord, r.out # <<>>
      PROVE  Reaches(r.out[Len(r.out)]) \in Int
  <2>1. r.out \in Seq(Message)
    BY FieldTypes
  <2>2. r.out[Len(r.out)] \in Message
    BY <1>7, <2>1
  <2> QED
    BY <2>2 DEF Reaches, Message, NumericField, Missing, NotANumber
<1>8. Paired(u, t, n + 1)
  <2>1. LogonFirst(u, t) /\ Ends(u, t)
    BY <1>1, <1>4, <1>5 DEF Paired, LogonFirst, Ends
  <2>2. Tracks(u, t, n + 1)
    <3> SUFFICES ASSUME t.writerOpen
                 PROVE  /\ Len(t.out) > 0 => WithinFailures(Reaches(t.out[Len(t.out)]), t, n + 1)
                        /\ Len(t.out) = 0 => WithinFailures(s.incoming, t, n + 1)
      BY <1>5 DEF Tracks
    <3>1. Len(t.out) > 0 => WithinFailures(Reaches(t.out[Len(t.out)]), t, n)
      BY <1>1 DEF Paired, Tracks
    <3>2. Len(t.out) = 0 => WithinFailures(s.incoming, t, n)
      BY <1>1 DEF Paired, Tracks
    <3>3. Len(t.out) > 0 => t.out # <<>>
      BY <1>1
    <3> QED
      BY <1>1, <1>7, <3>1, <3>2, <3>3 DEF WithinFailures
  <2>3. OneAtMost(s, t) /\ BeyondTarget(s, t) /\ RequestsMatch(s) /\ FillsMatch(s, t)
    BY <1>1 DEF Paired, Recovers
  <2>4. OneAtMost(u, t) /\ BeyondTarget(u, t) /\ RequestsMatch(u) /\ FillsMatch(u, t)
    BY <1>4, <1>5, <2>3 DEF OneAtMost, BeyondTarget, RequestsMatch, FillsMatch, Behind
  <2> QED
    BY <2>1, <2>2, <2>4 DEF Paired, Recovers
<1>9. Paired(t, u, n + 1)
  <2>1. LogonFirst(t, u) /\ Ends(t, u)
    BY <1>1, <1>4, <1>5 DEF Paired, LogonFirst, Ends
  <2>2. Tracks(t, u, n + 1)
    <3> SUFFICES ASSUME u.writerOpen
                 PROVE  /\ Len(s.out) > 0 => WithinFailures(Reaches(s.out[Len(s.out)]), u, n + 1)
                        /\ Len(s.out) = 0 /\ t.state = "logged_on" =>
                               WithinFailures(t.incoming, u, n + 1)
      BY <1>4 DEF Tracks
    <3>1. /\ Len(s.out) > 0 => WithinFailures(Reaches(s.out[Len(s.out)]), s, n)
          /\ Len(s.out) = 0 /\ t.state = "logged_on" => WithinFailures(t.incoming, s, n)
      BY <1>1, <1>5 DEF Paired, Tracks
    <3>2. Len(s.out) > 0 => s.out # <<>>
      BY <1>1
    <3> QED
      BY <1>1, <1>4, <1>7, <3>1, <3>2 DEF WithinFailures, k
  <2>3. ASSUME t.state # "disconnected"
        PROVE  OneAtMost(t, u) /\ BeyondTarget(t, u) /\ RequestsMatch(t) /\ FillsMatch(t, u)
    <3>1. OneAtMost(t, s) /\ BeyondTarget(t, s) /\ RequestsMatch(t) /\ FillsMatch(t, s)
      BY <1>1, <2>3 DEF Paired, Recovers
    <3>2. t.target < s.outgoing => t.target < k
      BY <1>1 DEF k
    <3> QED
      BY <1>4, <3>1, <3>2 DEF OneAtMost, BeyondTarget, FillsMatch
  <2> QED
    BY <2>1, <2>2, <2>3 DEF Paired, Recovers
<1> QED
  BY <1>1, <1>2, <1>3, <1>4, <1>6, <1>8, <1>9 DEF Pair

(* A session that writes stays proper, whatever it has written.            *)
LEMMA ProperWrites ==
    ASSUME NEW s \in SessionRecord, NEW u \in SessionRecord, NEW m \in Message, NEW p,
           Proper(s, p), Sane(m), u.out = Append(s.out, m),
           u.behaviour = s.behaviour, u.useNext = s.useNext, s.state # "connected"
    PROVE  \A i \in 1..Len(u.out) : Sane(u.out[i])
BY AfterAppend DEF Proper

(* A message is read.                                                      *)
LEMMA ReadStep ==
    ASSUME NEW s, NEW t, NEW r, NEW n \in Nat, NEW u,
           Pair(s, t, n), ReadFrom(t, r), s.state \in OpenStates,
           SentInOrder(s), SentInOrder(t), Outcome(s, t.out[1], u)
    PROVE  Pair(u, r, n)
<1> DEFINE m == t.out[1]
<1>1. /\ s \in SessionRecord /\ t \in SessionRecord /\ r \in SessionRecord
      /\ Paired(s, t, n) /\ Paired(t, s, n)
      /\ s.state \notin {"connected", "disconnected", "resetting"}
  BY DEF Pair, ReadFrom, OpenStates
<1>2. PICK p \in Peers : Proper(s, p) /\ Proper(t, Other(p))
  BY DEF Pair
<1>3. t.state # "connected" /\ Proper(r, Other(p)) /\ Sane(m) /\ s.writerOpen
  BY <1>1, <1>2, ProperReadFrom DEF Proper
<1>4. Paired(r, s, n)
  BY <1>1, ReadFromReader
<1>5. ASSUME NEW v \in SessionRecord, Proper(v, p), Paired(v, r, n), Paired(r, v, n)
      PROVE  Pair(v, r, n)
  BY <1>1, <1>2, <1>3, <1>5 DEF Pair
<1>6. ASSUME Appends(s, u), u.readerOpen, u.writerOpen, u.state \in OpenStates
      PROVE  u \in SessionRecord /\ Proper(u, p) /\ Paired(r, u, n)
             /\ u.behaviour = s.behaviour
  <2>1. u.state \notin {"connected", "resetting"}
    BY <1>6 DEF OpenStates
  <2>2. u \in SessionRecord /\ u.behaviour = s.behaviour
    BY <1>6 DEF Appends
  <2>3. Proper(u, p)
    BY <1>1, <1>2, <1>6, <2>1, ProperAppends
  <2>4. Paired(r, u, n)
    BY <1>1, <1>4, <1>6, WriterAppends
  <2> QED
    BY <2>2, <2>3, <2>4
<1>7. CASE Ended(s, u)
  BY <1>1, <1>7, EndedStep
<1>8. CASE Takes(s, m, u)
  <2>1. Counts(s, m, u) /\ Appends(s, u) /\ AsksNothing(s, u)
    BY <1>1, <1>8, AppendsAskNothing DEF Takes
  <2>2. u.state \in OpenStates /\ u.readerOpen /\ u.writerOpen
    BY <2>1 DEF Counts, Continues, OpenStates
  <2>3. u \in SessionRecord /\ Proper(u, p) /\ Paired(r, u, n) /\ u.behaviour = s.behaviour
    BY <1>6, <2>1, <2>2
  <2>4. Paired(u, r, n)
    BY <1>1, <1>3, <2>1, <2>3, ReaderCounts
  <2> QED
    BY <1>5, <2>3, <2>4
<1>9. CASE Answers(s, m, u)
  <2>1. Counts(s, m, u) /\ IsRequest(m)
    BY <1>9 DEF Answers
  <2>2. PICK v : Fills(s, m.beginSeqNo, v) /\ Appends(v, u)
    BY <1>9 DEF Answers
  <2>3. /\ v \in SessionRecord /\ u \in SessionRecord /\ v.state = s.state
        /\ u.behaviour = s.behaviour /\ v.behaviour = s.behaviour
        /\ u.useNext = s.useNext /\ v.useNext = s.useNext
    BY <2>2 DEF Fills, Appends
  <2>4. AsksNothing(s, u)
    BY <1>1, <2>2, AnswersAskNothing
  <2>5. Paired(u, r, n)
    BY <1>1, <1>3, <2>1, <2>3, <2>4, ReaderCounts
  <2>6. Paired(r, v, n)
    BY <1>1, <1>3, <2>1, <2>2, WriterFills
  <2>7. Paired(r, u, n)
    BY <1>1, <2>2, <2>3, <2>6, WriterAppends
  <2>8. Proper(u, p)
    <3>1. PICK f \in Message : Sane(f) /\ v.out = Append(s.out, f)
      BY <2>2 DEF Fills
    <3>2. \A i \in 1..Len(v.out) : Sane(v.out[i])
      BY <1>1, <1>2, <2>3, <3>1, ProperWrites
    <3> DEFINE b == s.readerOpen
               w == [v EXCEPT !.readerOpen = b]
    <3>3. b \in BOOLEAN
      BY <1>1 DEF SessionRecord
    <3> HIDE DEF b
    <3>4. /\ w \in SessionRecord /\ w.out = v.out /\ w.outgoing = v.outgoing
          /\ w.writerOpen = v.writerOpen /\ w.behaviour = v.behaviour
          /\ w.useNext = v.useNext /\ w.state = v.state /\ w.readerOpen = b
      BY <2>3, <3>3 DEF SessionRecord
    <3> HIDE DEF w
    <3>5. Proper(w, p)
      BY <1>1, <1>2, <1>3, <2>2, <2>3, <3>2, <3>4 DEF Proper, Fills, b
    <3>6. Appends(w, u)
      BY <2>2, <3>4 DEF Appends
    <3>7. u.state \in OpenStates /\ u.readerOpen /\ u.writerOpen
      BY <2>1 DEF Counts, Continues, OpenStates
    <3>8. u.state \notin {"connected", "resetting"}
      BY <3>7 DEF OpenStates
    <3> QED
      BY <3>4, <3>5, <3>6, <3>7, <3>8, ProperAppends
  <2> QED
    BY <1>5, <2>3, <2>5, <2>7, <2>8
<1>10. CASE Recovering(s, m, u)
  <2>1. PICK v : /\ Appends(s, v) /\ v.incoming = s.incoming /\ v.state = s.state
                 /\ v.writerOpen /\ Requests(v, m.seq, u)
    BY <1>10 DEF Recovering
  <2>2. /\ v \in SessionRecord /\ u \in SessionRecord /\ m.seq \in Nat
        /\ u.state = "resending" /\ u.readerOpen /\ u.writerOpen
        /\ u.behaviour = v.behaviour /\ u.useNext = v.useNext
        /\ v.readerOpen
    BY <1>3, <1>10, <2>1 DEF Appends, Requests, Sane, Message, Recovering, Continues
  <2>3. Paired(u, r, n)
    BY <1>1, <1>3, <1>10, ReaderRecovering
  <2>4. Paired(r, v, n)
    BY <1>1, <1>4, <2>1, WriterAppends
  <2>5. Paired(r, u, n)
    BY <1>1, <2>1, <2>2, <2>4, WriterRequests
  <2>6. Proper(v, p)
    BY <1>1, <1>2, <2>1, <2>2, ProperAppends
  <2>7. PICK q \in Message : Sane(q) /\ u.out = Append(v.out, q)
    BY <2>1 DEF Requests
  <2>8. \A i \in 1..Len(u.out) : Sane(u.out[i])
    BY <1>1, <2>1, <2>2, <2>6, <2>7, ProperWrites
  <2>9. Proper(u, p)
    BY <2>2, <2>6, <2>8 DEF Proper, OpenStates
  <2> QED
    BY <1>5, <2>2, <2>3, <2>5, <2>9
<1>11. CASE Extends(s, m, u)
  <2>1. /\ Appends(s, u) /\ u.readerOpen /\ u.writerOpen /\ u.state \in OpenStates
    BY <1>11 DEF Extends, Continues, OpenStates
  <2>2. u \in SessionRecord /\ Proper(u, p) /\ Paired(r, u, n)
    BY <1>6, <2>1
  <2>3. Paired(u, r, n)
    BY <1>1, <1>3, <1>11, ReaderExtends
  <2> QED
    BY <1>5, <2>2, <2>3
<1>12. CASE Filled(s, m, u)
  <2>1. /\ Appends(s, u) /\ u.readerOpen /\ u.writerOpen /\ u.state \in OpenStates
    BY <1>12 DEF Filled, Continues, OpenStates
  <2>2. u \in SessionRecord /\ Proper(u, p) /\ Paired(r, u, n)
    BY <1>6, <2>1
  <2>3. Paired(u, r, n)
    BY <1>1, <1>3, <1>12, ReaderFilled
  <2> QED
    BY <1>5, <2>2, <2>3
<1> QED
  BY <1>7, <1>8, <1>9, <1>10, <1>11, <1>12 DEF Outcome

(* The first message of a stream is one its reader can take.               *)
LEMMA FirstIsReadable ==
    ASSUME NEW s, NEW t, NEW r, NEW n \in Nat, Pair(s, t, n), ReadFrom(t, r),
           s.readerOpen, t.out[1].type # "Close", Above(t, s.incoming)
    PROVE  Readable(s, t.out[1]) /\ s.state \in OpenStates
<1> DEFINE m == t.out[1]
<1>1. /\ s \in SessionRecord /\ t \in SessionRecord /\ Paired(s, t, n)
  BY DEF Pair
<1>2. PICK p \in Peers : Proper(s, p) /\ Proper(t, Other(p))
  BY DEF Pair
<1>3. /\ s.state \in OpenStates /\ s.state # "disconnected" /\ s.writerOpen /\ ~s.useNext
  BY <1>2 DEF Proper, OpenStates
<1>4. t.state # "connected" /\ Sane(m) /\ 1 \in 1..Len(t.out)
  BY <1>1, <1>2, ProperReadFrom DEF ReadFrom
<1>5. FirstMessageIsValid(s, m)
  <2>1. s.behaviour \in {"initiator", "acceptor"}
    BY <1>1, FieldTypes DEF Behaviours
  <2> QED
    BY <1>1, <1>3, <1>4, <2>1 DEF Paired, LogonFirst, FirstMessageIsValid
<1>6. Numbered(m) => s.incoming <= m.seq
  BY <1>4 DEF Above
<1>7. ASSUME IsFill(m)
      PROVE  s.state = "resending" /\ m.seq = s.incoming /\ s.incoming < m.newSeqNo
  <2>1. Behind(s) /\ m.seq = s.incoming /\ s.target < m.newSeqNo
    BY <1>1, <1>3, <1>4, <1>7 DEF Paired, Recovers, FillsMatch
  <2>2. m.newSeqNo \in Nat /\ s.incoming \in Nat /\ s.target \in Nat
    BY <1>1, <1>4, <1>7, FieldTypes DEF Sane
  <2> QED
    BY <2>1, <2>2 DEF Behind
<1> QED
  BY <1>1, <1>3, <1>4, <1>5, <1>6, <1>7 DEF Readable

(* The invariant in the next state.                                        *)
LEMMA PairInvPrimed ==
    PairInv' <=> (scenario'.resets = 0 =>
                     \A p \in Peers : Pair(sessions'[p], sessions'[Other(p)], failures'))
BY DEF PairInv

LEMMA PairSymmetric ==
    ASSUME NEW s, NEW t, NEW n, Pair(s, t, n)
    PROVE  Pair(t, s, n)
<1>1. PICK p \in Peers : Proper(s, p) /\ Proper(t, Other(p))
  BY DEF Pair
<1>2. Other(p) \in Peers /\ Other(Other(p)) = p
  BY DEF Other, Peers, Behaviours
<1> QED
  BY <1>1, <1>2 DEF Pair

(* At the start nothing was written, and nothing is waited for.            *)
LEMMA InitPairInv ==
    ASSUME WithoutNextExpected, Init
    PROVE  PairInv
<1> SUFFICES ASSUME NEW p \in Peers
             PROVE  Pair(sessions[p], sessions[Other(p)], failures)
  BY DEF PairInv
<1> DEFINE set == scenario.settings
<1>1. /\ scenario \in Scenarios /\ scenario \in Scenario /\ failures = 0
      /\ sessions = [q \in Peers |->
                        session(q, Heartbeat, set[q].delay, set[q].useNext,
                                set[q].incoming, set[q].outgoing)]
  BY PairAssumption DEF Init
<1>2. ASSUME NEW q \in Peers
      PROVE  /\ sessions[q] \in SessionRecord /\ Proper(sessions[q], q)
             /\ sessions[q].out = <<>> /\ sessions[q].state = "connected"
             /\ sessions[q].writerOpen
  <2>1. set[q] \in Settings /\ ~set[q].useNext
    BY <1>1 DEF Scenario, WithoutNextExpected
  <2>2. set[q].incoming \in Nat /\ set[q].outgoing \in Nat
        /\ set[q].delay \in Nat /\ set[q].useNext \in BOOLEAN
    BY <2>1 DEF Settings
  <2>3. <<>> \in Seq(Message)
    OBVIOUS
  <2> DEFINE s == session(q, Heartbeat, set[q].delay, set[q].useNext,
                          set[q].incoming, set[q].outgoing)
  <2>4. s \in SessionRecord
    BY <1>2, <2>2, <2>3, PairAssumption
    DEF session, SessionRecord, Peers, SessionStates, NumericField, Missing,
        TestTimerStates
  <2>5. /\ s.behaviour = q /\ s.useNext = set[q].useNext /\ s.state = "connected"
        /\ ~s.readerOpen /\ s.writerOpen /\ s.out = <<>>
        /\ s.posted = 0 /\ s.orphans = 0 /\ s.testTimer = "none"
    BY DEF session
  <2>6. sessions[q] = s
    BY <1>1
  <2> HIDE DEF s
  <2>7. Proper(s, q)
    BY <2>1, <2>5 DEF Proper, OpenStates
  <2> QED
    BY <2>4, <2>5, <2>6, <2>7
<1>3. Other(p) \in Peers
  BY DEF Other, Peers, Behaviours
<1>4. ASSUME NEW s, NEW t, NEW n,
             s.out = <<>>, t.out = <<>>, s.state = "connected", t.state = "connected",
             t.writerOpen
      PROVE  Paired(s, t, n)
  <2>1. LogonFirst(s, t) /\ Tracks(s, t, n) /\ Ends(s, t)
    BY <1>4 DEF LogonFirst, Tracks, Ends
  <2>2. Recovers(s, t)
    BY <1>4 DEF Recovers, OneAtMost, BeyondTarget, RequestsMatch, FillsMatch, Behind
  <2> QED
    BY <2>1, <2>2 DEF Paired
<1> QED
  BY <1>2, <1>3, <1>4 DEF Pair

(* Every step preserves it.                                                *)
LEMMA NextPairInv ==
    ASSUME TypeOK, StreamsInOrder, PairInv, [Next]_vars
    PROVE  PairInv'
<1> SUFFICES ASSUME scenario.resets = 0
             PROVE  \A p \in Peers : Pair(sessions'[p], sessions'[Other(p)], failures')
  BY PairInvPrimed, Steps
<1>1. /\ sessions \in [Peers -> SessionRecord] /\ failures \in Nat /\ resets \in Nat
      /\ \A p \in Peers : Pair(sessions[p], sessions[Other(p)], failures)
      /\ \A p \in Peers : /\ SentInOrder(sessions[p])
                          /\ Above(sessions[Other(p)], sessions[p].incoming)
  BY StreamsInOrderParts DEF PairInv, TypeOK
<1>2. CASE Idle \/ UNCHANGED vars
  BY <1>1, <1>2 DEF Idle, vars
<1>3. ASSUME NEW p \in Peers,
             \/ Open(p) \/ Close(p) \/ SendApplicationMessage(p) \/ SendResetLogon(p)
             \/ FailToSend(p)
             \/ Receive(p) \/ ReceiveClose(p) \/ Drop(p)
             \/ HeartbeatTimer(p)
             \/ TestTimerExpires(p) \/ OrphanTimerExpires(p) \/ TestRequestCallback(p)
      PROVE  \A o \in Peers : Pair(sessions'[o], sessions'[Other(o)], failures')
  <2> DEFINE q == Other(p)
             s == sessions[p]
             t == sessions[q]
             r == [t EXCEPT !.out = Tail(t.out)]
             n == failures
  <2>1. /\ q \in Peers /\ q # p /\ Other(q) = p /\ Peers = {p, q}
        /\ s \in SessionRecord /\ t \in SessionRecord /\ Stream(p) = t.out
    BY <1>1 DEF Other, Peers, Behaviours, Stream
  <2>2. SUFFICES Pair(sessions'[p], sessions'[q], failures')
    BY <2>1, <2>2, PairSymmetric
  <2>3. Pair(s, t, n) /\ SentInOrder(s) /\ SentInOrder(t) /\ Above(t, s.incoming)
    BY <1>1, <2>1
  <2>4. ASSUME NEW u, Step(p, u)
        PROVE  sessions'[p] = u /\ sessions'[q] = t
    BY <1>1, <2>1, <2>4 DEF Step
  <2>5. ASSUME NEW u, StepAndRead(p, u), Stream(p) # <<>>
        PROVE  sessions'[p] = u /\ sessions'[q] = r /\ ReadFrom(t, r)
    <3>1. sessions'[p] = u /\ sessions'[q] = r
      BY <1>1, <2>1, <2>5 DEF StepAndRead, Stream
    <3>2. ReadFrom(t, r)
      BY <2>1, <2>5, TailReadFrom
    <3> QED
      BY <3>1, <3>2
  <2>6. PICK o \in Peers : Proper(s, o)
    BY <2>3 DEF Pair
  <2>7. /\ s.state = "connected" => s.posted = 0 /\ s.orphans = 0 /\ s.testTimer = "none"
        /\ s.readerOpen <=> s.state \in OpenStates
    BY <2>6 DEF Proper
  <2> HIDE DEF q, s, t, r, n
  <2>8. ASSUME NEW u, Step(p, u), Quiet(s, u), s.state # "connected", failures' = failures
        PROVE  Pair(sessions'[p], sessions'[q], failures')
    BY <1>1, <2>3, <2>4, <2>8, QuietStep DEF n
  <2>9. CASE Open(p)
    <3>1. s.state = "connected" /\ Step(p, open(s)) /\ failures' = n
      BY <2>9 DEF Open, s, n
    <3> QED
      BY <1>1, <2>3, <2>4, <3>1, OpenStep DEF n
  <2>10. CASE Close(p)
    <3>1. s.state # "connected" /\ Step(p, close(s)) /\ failures' = n
      BY <2>10 DEF Close, s, n
    <3>2. Ended(s, close(s))
      BY <2>1, ClosesEnd
    <3> QED
      BY <1>1, <2>3, <2>4, <3>1, <3>2, EndedStep DEF n
  <2>11. CASE SendApplicationMessage(p)
    <3>1. s.state # "connected" /\ Step(p, send(s, message("App"))) /\ failures' = failures
      BY <2>11 DEF SendApplicationMessage, s
    <3> QED
      BY <2>1, <2>8, <3>1, SendsQuiet
  <2>12. CASE FailToSend(p)
    <3>1. s.state = "logged_on" /\ Step(p, send_fails(s)) /\ failures' = n + 1
      BY <2>12 DEF FailToSend, s, n
    <3> QED
      BY <1>1, <2>3, <2>4, <3>1, FailStep DEF n
  <2>13. CASE SendResetLogon(p)
    BY <1>1, <2>13 DEF SendResetLogon
  <2>14. CASE Receive(p)
    <3>1. /\ s.readerOpen /\ Stream(p) # <<>> /\ Head(t.out).type # "Close"
          /\ StepAndRead(p, on_message_read(s, Head(t.out))) /\ failures' = n
      BY <2>1, <2>14 DEF Receive, s, n
    <3>2. ReadFrom(t, r) /\ Head(t.out) = t.out[1]
      BY <2>5, <3>1 DEF ReadFrom
    <3>3. Readable(s, t.out[1]) /\ s.state \in OpenStates
      BY <1>1, <2>3, <3>1, <3>2, FirstIsReadable DEF n
    <3>4. Outcome(s, t.out[1], on_message_read(s, t.out[1]))
      BY <3>3, ReadOutcome
    <3>5. Pair(on_message_read(s, t.out[1]), r, n)
      BY <1>1, <2>3, <3>2, <3>3, <3>4, ReadStep DEF n
    <3> QED
      BY <2>5, <3>1, <3>2, <3>5
  <2>15. CASE ReceiveClose(p)
    <3>1. /\ s.readerOpen /\ Stream(p) # <<>>
          /\ StepAndRead(p, close_reader(s)) /\ failures' = n
      BY <2>15 DEF ReceiveClose, s, n
    <3>2. Ended(s, close_reader(s)) /\ s.state # "connected"
      BY <2>1, <2>7, <3>1, ClosesEnd DEF OpenStates
    <3> QED
      BY <1>1, <2>3, <2>5, <3>1, <3>2, EndedStep DEF n
  <2>16. CASE Drop(p)
    <3>1. /\ s.state = "disconnected" /\ Stream(p) # <<>>
          /\ StepAndRead(p, s) /\ failures' = n
      BY <2>16 DEF Drop, s, n
    <3> QED
      BY <1>1, <2>3, <2>5, <3>1, DropStep DEF n
  <2>17. CASE HeartbeatTimer(p)
    <3>1. s.state # "connected" /\ Step(p, defibrillate(s)) /\ failures' = failures
      BY <2>17 DEF HeartbeatTimer, s
    <3> QED
      BY <2>1, <2>8, <3>1, TimersQuiet
  <2>18. CASE TestTimerExpires(p)
    <3>1. s.testTimer = "armed" /\ Step(p, expire_test_timer(s)) /\ failures' = failures
      BY <2>18 DEF TestTimerExpires, s
    <3> QED
      BY <2>1, <2>7, <2>8, <3>1, TimersQuiet
  <2>19. CASE OrphanTimerExpires(p)
    <3>1. s.orphans > 0 /\ Step(p, expire_orphan_timer(s)) /\ failures' = failures
      BY <2>19 DEF OrphanTimerExpires, s
    <3>2. s.state # "connected"
      BY <2>7, <3>1
    <3> QED
      BY <2>1, <2>8, <3>1, <3>2, TimersQuiet
  <2>20. CASE TestRequestCallback(p)
    <3>1. s.posted > 0 /\ Step(p, test_request_callback(s)) /\ failures' = failures
      BY <2>20 DEF TestRequestCallback, s
    <3>2. s.state # "connected"
      BY <2>7, <3>1
    <3> QED
      BY <2>1, <2>8, <3>1, <3>2, TimersQuiet
  <2> QED
    BY <1>3, <2>9, <2>10, <2>11, <2>12, <2>13, <2>14, <2>15, <2>16, <2>17, <2>18,
       <2>19, <2>20
<1> QED
  BY <1>2, <1>3 DEF Next

(* The invariant holds.                                                    *)
LEMMA PairInvariant ==
    ASSUME StartsBehind, WithoutNextExpected
    PROVE  Spec => []PairInv
<1>1. Init => PairInv
  BY InitPairInv
<1>2. TypeOK /\ StreamsInOrder /\ PairInv /\ [Next]_vars => PairInv'
  BY NextPairInv
<1> QED
  BY <1>1, <1>2, TypeCorrect, StreamsStayInOrder, PTL DEF Spec

-----------------------------------------------------------------------------
(* Without NextExpectedMsgSeqNum, and if no application restarts the       *)
(* numbering, two sessions never reject each other's messages, however     *)
(* gaps, recoveries, failed writes, delayed TestRequests and disconnects   *)
(* interleave: no Logon without HeartBtInt, no other message before the    *)
(* Logon, no gap fill to a session that is not resending or that has       *)
(* passed it.                                                              *)
THEOREM NothingIsRejected ==
    ASSUME StartsBehind, WithoutNextExpected
    PROVE  Spec => []NoReject
<1>1. TypeOK /\ PairInv => NoReject
  <2> SUFFICES ASSUME TypeOK, PairInv, scenario.resets = 0, NEW p \in Peers,
                      NEW i \in DOMAIN sessions[p].out
               PROVE  sessions[p].out[i].type # "Reject"
    BY DEF NoReject, GapFillsAreDue
  <2>1. sessions[p] \in SessionRecord
    BY DEF TypeOK
  <2>2. i \in 1..Len(sessions[p].out)
    BY <2>1, FieldTypes
  <2>3. Sane(sessions[p].out[i])
    BY <2>2 DEF PairInv, Pair, Proper
  <2> QED
    BY <2>3 DEF Sane
<1> QED
  BY <1>1, TypeCorrect, PairInvariant, PTL

(* The comment in sequence_number_is_high holds: a gap fill on its way to  *)
(* a resending session begins at the number it expects and reaches beyond  *)
(* its target and beyond every message that can still move the target.     *)
THEOREM RecoveriesCatchUp ==
    ASSUME StartsBehind, WithoutNextExpected
    PROVE  Spec => []RecoveryCatchesUp
<1>1. TypeOK /\ StreamsInOrder /\ PairInv => RecoveryCatchesUp
  <2> SUFFICES ASSUME TypeOK, StreamsInOrder, PairInv, scenario.resets = 0, NEW p \in Peers,
                      NEW i \in DOMAIN Stream(p), sessions[p].state = "resending",
                      GapFill(Stream(p)[i])
               PROVE  /\ Stream(p)[i].newSeqNo > sessions[p].target
                      /\ Stream(p)[i].seq = sessions[p].incoming
                      /\ \A j \in 1..(i - 1) : Numbered(Stream(p)[j]) =>
                            Stream(p)[j].seq \in
                                (sessions[p].incoming + 1) .. (Stream(p)[i].newSeqNo - 1)
    BY DEF RecoveryCatchesUp
  <2> DEFINE s == sessions[p]
             t == sessions[Other(p)]
  <2>1. /\ s \in SessionRecord /\ t \in SessionRecord /\ Stream(p) = t.out
        /\ t.out \in Seq(Message) /\ s.incoming \in Nat /\ s.target \in Nat
    BY FieldTypes DEF TypeOK, Other, Peers, Behaviours, Stream
  <2>2. Pair(s, t, failures)
    BY DEF PairInv
  <2> HIDE DEF s, t
  <2>3. i \in 1..Len(t.out) /\ IsFill(t.out[i])
    BY <2>1 DEF GapFill, IsFill
  <2>4. BeyondTarget(s, t) /\ FillsMatch(s, t)
    BY <2>2 DEF Pair, Paired, Recovers, s
  <2>5. Sane(t.out[i])
    BY <2>2, <2>3 DEF Pair, Proper
  <2>6. t.out[i].newSeqNo \in Nat
    BY <2>3, <2>5 DEF Sane
  <2>7. /\ Behind(s) /\ t.out[i].seq = s.incoming /\ s.target < t.out[i].newSeqNo
        /\ \A j \in 1..Len(t.out) :
              j < i /\ Numbered(t.out[j]) => t.out[j].seq < t.out[i].newSeqNo
    BY <2>3, <2>4 DEF FillsMatch
  <2>8. ASSUME NEW j \in 1..(i - 1), Numbered(t.out[j])
        PROVE  t.out[j].seq \in (s.incoming + 1) .. (t.out[i].newSeqNo - 1)
    <3>1. j \in 1..Len(t.out) /\ j < i
      BY <2>1, <2>3
    <3>2. t.out[j] \in Message
      BY <2>1, <3>1
    <3>3. t.out[j].seq \in Nat
      BY <3>2 DEF Message
    <3>4. t.out[j].seq < t.out[i].newSeqNo /\ s.target < t.out[j].seq
      BY <2>4, <2>7, <2>8, <3>1 DEF BeyondTarget
    <3> QED
      BY <2>1, <2>6, <2>7, <3>3, <3>4 DEF Behind
  <2> QED
    BY <2>1, <2>6, <2>7, <2>8 DEF s
<1> QED
  BY <1>1, TypeCorrect, StreamsStayInOrder, PairInvariant, PTL

(* Once a session is logged on and has read all its peer wrote, the two    *)
(* agree on the next number, but for the writes that failed, if no         *)
(* application may restart the numbering.                                  *)
THEOREM SequencesDoAgree ==
    ASSUME StartsBehind, WithoutNextExpected, WithoutResets
    PROVE  Spec => []SequencesAgree
<1> DEFINE NoResets == scenario.resets = 0
<1>1. Init => NoResets
  BY DEF Init, WithoutResets
<1>2. TypeOK /\ NoResets /\ [Next]_vars => NoResets'
  BY Steps
<1>3. TypeOK /\ PairInv /\ NoResets => SequencesAgree
  <2> SUFFICES ASSUME TypeOK, PairInv, NoResets, NEW p \in Peers,
                      sessions[p].state = "logged_on", Stream(p) = <<>>
               PROVE  /\ sessions[p].incoming <= sessions[Other(p)].outgoing
                      /\ sessions[Other(p)].outgoing <= sessions[p].incoming + failures
    BY DEF SequencesAgree
  <2> DEFINE s == sessions[p]
             t == sessions[Other(p)]
  <2>1. Paired(s, t, failures)
    BY DEF PairInv, Pair
  <2>2. Len(t.out) = 0
    BY DEF Stream
  <2>3. t.writerOpen
    BY <2>1, <2>2 DEF Paired, Ends
  <2> QED
    BY <2>1, <2>2, <2>3 DEF Paired, Tracks, WithinFailures
<1> QED
  BY <1>1, <1>2, <1>3, TypeCorrect, PairInvariant, PTL DEF Spec

-----------------------------------------------------------------------------
(* Gaps.                                                                   *)

(* No session expects number 0.                                            *)
StartsAtOne ==
    \A c \in Scenarios : \A p \in Peers : c.settings[p].incoming >= 1

(* The number the session expects stays, goes back, or moves on by one,    *)
(* unless m is a gap fill that tells it where to.                          *)
Moves(s, m, u) ==
    /\ u.incoming >= 1
    /\ \/ u.incoming <= s.incoming + 1
       \/ GapFill(m) /\ u.incoming = m.newSeqNo

(* Whatever keeps the expected number, before and after.                   *)
LEMMA GrowsMoves ==
    ASSUME NEW s \in SessionRecord, NEW m, NEW t, s.incoming >= 1
    PROVE  /\ Grows(s, t) => Moves(s, m, t)
           /\ \A u : Moves(s, m, t) /\ Grows(t, u) => Moves(s, m, u)
           /\ \A u : Grows(s, t) /\ Moves(t, m, u) => Moves(s, m, u)
<1>1. s.incoming \in Nat
  BY FieldTypes
<1> QED
  BY <1>1 DEF Grows, Moves

(* Accepting the number the session expects.                               *)
LEMMA AcceptedMoves ==
    ASSUME NEW s \in SessionRecord, NEW v \in SessionRecord, NEW m \in Message,
           m.seq <= s.incoming
    PROVE  Moves(s, m, Accepted(v, m))
<1>1. m.seq \in Nat /\ s.incoming \in Nat
  BY FieldTypes DEF Message
<1>2. Accepted(v, m).incoming = m.seq + 1
  BY DEF Accepted, SessionRecord
<1> QED
  BY <1>1, <1>2 DEF Moves

(* Logon.                                                                  *)
LEMMA LogonMoves ==
    ASSUME NEW s \in SessionRecord, NEW m \in Message, m.type = "Logon",
           ~s.useNext, s.incoming >= 1
    PROVE  Moves(s, m, process_logon(s, m))
<1> DEFINE h == m.heartBtInt
           r == [s EXCEPT !.heartbeat = h, !.logonReceived = TRUE]
<1>1. h \in Int /\ m.seq \in Nat /\ m.resetSeqNum \in BOOLEAN /\ s.incoming \in Nat
  BY FieldTypes DEF Message, NumericField, Missing, NotANumber
<1>2. CASE h < 0
  <2>1. process_logon(s, m) = send_logout(send_reject(s))
    BY <1>1, <1>2 DEF process_logon
  <2>2. Grows(s, send_reject(s)) /\ send_reject(s) \in SessionRecord
    BY RepliesGrow DEF Grows
  <2>3. Grows(s, send_logout(send_reject(s)))
    BY <2>2, RepliesGrow, GrowsTransitive
  <2> QED
    BY <2>1, <2>3, GrowsMoves
<1>3. CASE h >= 0
  <2>1. process_logon(s, m) = IF m.resetSeqNum THEN process_reset_logon(r, m)
                                               ELSE process_numbered_logon(r, m)
    <3>1. ~(h < 0)
      BY <1>1, <1>3
    <3> QED
      BY <1>1, <1>3, <3>1 DEF process_logon
  <2>2. h \in Nat
    BY <1>1, <1>3
  <2> HIDE DEF h
  <2>3. /\ r \in SessionRecord /\ r.incoming = s.incoming /\ r.useNext = s.useNext
        /\ r.out = s.out /\ r.outgoing = s.outgoing
    BY <2>2 DEF SessionRecord
  <2> HIDE DEF r
  <2>4. Grows(s, r)
    BY <2>3, SameStream
  <2>5. CASE m.resetSeqNum
    <3> DEFINE z == reset(r)
               v == send_post_logon_test_request(send_logon(z, TRUE))
    <3>1. v \in SessionRecord /\ send_test_request(r) \in SessionRecord
      <4> DEFINE l == [message("Logon") EXCEPT
                         !.heartBtInt = z.heartbeat, !.resetSeqNum = TRUE,
                         !.nextExpected = IF z.useNext THEN z.incoming ELSE Missing]
                 x == IF z.useNext THEN z.incoming ELSE Missing
      <4>1. z \in SessionRecord
        BY <2>3 DEF reset, stop_defibrillator, SessionRecord, SessionStates
      <4>2. x \in NumericField /\ z.heartbeat \in NumericField
        <5> HIDE DEF z
        <5> QED
          BY <4>1, FieldTypes DEF NumericField
      <4>3. send_logon(z, TRUE) = send(z, l)
        BY DEF send_logon
      <4> HIDE DEF z, x
      <4>4. [message("Logon") EXCEPT !.heartBtInt = z.heartbeat,
                                     !.resetSeqNum = TRUE,
                                     !.nextExpected = x] \in Message
        BY <4>2 DEF message, Message, MessageTypes, AdminTypes, NumericField
      <4>5. l \in Message
        BY <4>4 DEF x
      <4> HIDE DEF l
      <4>6. send_logon(z, TRUE) \in SessionRecord
        BY <4>1, <4>3, <4>5, SendType
      <4> QED
        BY <2>3, <4>6, TimersGrow, RepliesGrow DEF Grows
    <3>2. \/ process_reset_logon(r, m) = r
          \/ /\ m.seq = 1
             /\ process_reset_logon(r, m) \in {Accepted(send_test_request(r), m), Accepted(v, m)}
      BY DEF process_reset_logon
    <3> HIDE DEF v
    <3>3. Moves(s, m, r)
      BY <2>4, GrowsMoves
    <3>4. ASSUME m.seq = 1
          PROVE  /\ Moves(s, m, Accepted(send_test_request(r), m))
                 /\ Moves(s, m, Accepted(v, m))
      BY <1>1, <3>1, <3>4, AcceptedMoves
    <3> QED
      BY <2>1, <2>5, <3>2, <3>3, <3>4
  <2>6. CASE ~m.resetSeqNum
    <3> DEFINE e == acceptor_send_logon(r, FALSE)
               v == send_post_logon_test_request(e)
    <3>1. Grows(r, e) /\ e \in SessionRecord
      BY <2>3, RepliesGrow, GrowsReflexive DEF acceptor_send_logon, Grows
    <3>2. \/ process_numbered_logon(r, m) \in {send_logout(r), on_high_sequence_number(e, m)}
          \/ m.seq = r.incoming /\ process_numbered_logon(r, m) = Accepted(v, m)
      <4>1. m.seq \in Nat /\ r.incoming \in Nat
        BY <1>1, <2>3
      <4> HIDE DEF e, v
      <4>2. ASSUME m.seq < r.incoming
            PROVE  process_numbered_logon(r, m) = send_logout(r)
        <5>1. ~(m.seq > r.incoming)
          BY <4>1, <4>2
        <5> QED
          BY <4>2, <5>1 DEF process_numbered_logon, on_low_sequence_number,
                            SequenceNumberIsLow, SequenceNumberIsHigh
      <4>3. ASSUME m.seq > r.incoming
            PROVE  process_numbered_logon(r, m) = on_high_sequence_number(e, m)
        <5>1. ~(m.seq < r.incoming)
          BY <4>1, <4>3
        <5> QED
          BY <4>3, <5>1 DEF process_numbered_logon, e,
                            SequenceNumberIsLow, SequenceNumberIsHigh
      <4>4. ASSUME m.seq = r.incoming
            PROVE  process_numbered_logon(r, m) = Accepted(v, m)
        <5>1. ~(m.seq < r.incoming) /\ ~(m.seq > r.incoming)
          BY <4>1, <4>4
        <5> QED
          BY <5>1 DEF process_numbered_logon, e, v,
                      SequenceNumberIsLow, SequenceNumberIsHigh
      <4> QED
        BY <4>1, <4>2, <4>3, <4>4
    <3> HIDE DEF e
    <3>3. v \in SessionRecord
      BY <3>1, TimersGrow DEF Grows
    <3>4. Grows(s, send_logout(r)) /\ Grows(s, on_high_sequence_number(e, m))
      <4>1. Grows(r, send_logout(r)) /\ Grows(e, on_high_sequence_number(e, m))
        BY <2>3, <3>1, RepliesGrow, HighGrows
      <4> QED
        BY <2>4, <3>1, <4>1, GrowsTransitive
    <3> HIDE DEF v
    <3>5. m.seq = s.incoming => Moves(s, m, Accepted(v, m))
      BY <1>1, <3>3, AcceptedMoves
    <3> QED
      BY <2>1, <2>3, <2>6, <3>2, <3>4, <3>5, GrowsMoves
  <2> QED
    BY <1>1, <2>5, <2>6
<1> QED
  BY <1>1, <1>2, <1>3

(* SequenceReset.                                                          *)
LEMMA SequenceResetMoves ==
    ASSUME NEW s \in SessionRecord, NEW m \in Message, m.type = "SequenceReset",
           s.incoming >= 1
    PROVE  Moves(s, m, process_sequence_reset(s, m))
<1>1. /\ Moves(s, m, send_reject(s)) /\ Moves(s, m, send_logout(s))
      /\ Moves(s, m, on_high_sequence_number(s, m))
  BY HighGrows, RepliesGrow, GrowsMoves
<1>2. m.newSeqNo \in Int /\ s.incoming \in Nat
  BY FieldTypes DEF Message, NumericField, Missing, NotANumber
<1>3. CASE m.newSeqNo <= s.incoming
  <2>1. process_sequence_reset(s, m) = send_reject(s)
    BY <1>2, <1>3 DEF process_sequence_reset
  <2> QED
    BY <1>1, <2>1
<1>4. CASE ~(m.newSeqNo <= s.incoming)
  <2> DEFINE n == m.newSeqNo
             t == [s EXCEPT !.resent = n, !.incoming = n]
             u == [s EXCEPT !.resent = n]
  <2>1. n \in Nat /\ m.newSeqNo > s.incoming /\ n >= 1
    BY <1>2, <1>4
  <2>2. \/ process_sequence_reset(s, m) \in
              {complete_resend(u), send_reject(s), send_logout(s),
               on_high_sequence_number(s, m)}
        \/ m.gapFill /\ process_sequence_reset(s, m) = complete_resend(t)
    BY <1>4 DEF process_sequence_reset, process_gap_fill, on_low_sequence_number
  <2> HIDE DEF n
  <2>3. /\ t \in SessionRecord /\ t.incoming = n
        /\ u \in SessionRecord /\ u.out = s.out /\ u.outgoing = s.outgoing
        /\ u.incoming = s.incoming /\ u.useNext = s.useNext
    BY <2>1 DEF SessionRecord
  <2> HIDE DEF t, u
  <2>4. Moves(s, m, complete_resend(u))
    <3>1. Grows(s, u) /\ Grows(u, complete_resend(u))
      BY <2>3, SameStream, CompleteGrows
    <3> QED
      BY <3>1, GrowsTransitive, GrowsMoves
  <2>5. ASSUME m.gapFill PROVE Moves(s, m, complete_resend(t))
    <3>1. Moves(s, m, t)
      BY <2>1, <2>3, <2>5 DEF Moves, GapFill, n
    <3> QED
      BY <2>3, <3>1, CompleteGrows, GrowsMoves
  <2> QED
    BY <1>1, <2>2, <2>4, <2>5
<1> QED
  BY <1>3, <1>4

(* session::on_message_read, whatever the peer sent.                       *)
LEMMA MessageMoves ==
    ASSUME NEW s \in SessionRecord, NEW m \in Message, m.type # "Close",
           ~s.useNext, s.incoming >= 1
    PROVE  Moves(s, m, on_message_read(s, m))
<1>1. Grows(s, send_reject(s)) /\ send_reject(s) \in SessionRecord
  BY RepliesGrow DEF Grows
<1>2. /\ Moves(s, m, close(send_reject(s))) /\ Moves(s, m, send_logout(send_reject(s)))
      /\ Moves(s, m, s)
  <2>1. Grows(s, close(send_reject(s))) /\ Grows(s, send_logout(send_reject(s)))
    BY <1>1, CloseGrows, RepliesGrow, GrowsTransitive
  <2> QED
    BY <2>1, GrowsReflexive, GrowsMoves
<1>3. ASSUME m.type # "SequenceReset" PROVE Moves(s, m, process_numbered(s, m))
  <2> DEFINE a == Accepted(s, m)
  <2>1. m.seq \in Nat /\ s.incoming \in Nat /\ Numbered(m)
    BY <1>3, FieldTypes DEF Message, Numbered
  <2>2. a \in SessionRecord
    BY <2>1, AcceptedReads DEF Reads
  <2>3. \/ process_numbered(s, m) \in {on_high_sequence_number(s, m), send_logout(s)}
        \/ m.seq = s.incoming /\ process_numbered(s, m) = dispatch(a, m)
    BY <2>1 DEF process_numbered, on_low_sequence_number,
                SequenceNumberIsLow, SequenceNumberIsHigh
  <2>4. m.seq = s.incoming => Moves(s, m, a)
    BY <2>1, AcceptedMoves
  <2> HIDE DEF a
  <2>5. Grows(a, dispatch(a, m))
    BY <2>2, DispatchGrows
  <2>6. /\ Moves(s, m, on_high_sequence_number(s, m)) /\ Moves(s, m, send_logout(s))
    BY HighGrows, RepliesGrow, GrowsMoves
  <2> QED
    BY <2>3, <2>4, <2>5, <2>6, GrowsMoves
<1>4. m.type = "SequenceReset" => Moves(s, m, process_sequence_reset(s, m))
  BY SequenceResetMoves
<1>5. m.type = "Logon" => Moves(s, m, process_logon(s, m))
  BY LogonMoves
<1>6. \/ on_message_read(s, m) \in {close(send_reject(s)), send_logout(send_reject(s)), s}
      \/ m.type = "SequenceReset" /\ on_message_read(s, m) = process_sequence_reset(s, m)
      \/ m.type = "Logon" /\ on_message_read(s, m) = process_logon(s, m)
      \/ m.type # "SequenceReset" /\ on_message_read(s, m) = process_numbered(s, m)
  BY DEF on_message_read, is_admin, AdminTypes
<1> QED
  BY <1>2, <1>3, <1>4, <1>5, <1>6

(* Every session expects at least number 1, and none sends or expects      *)
(* NextExpectedMsgSeqNum.                                                  *)
GapInv ==
    \A p \in Peers : ~sessions[p].useNext /\ sessions[p].incoming >= 1

(* What NoSilentGap says of one step if no session has the option.         *)
GapStep ==
    \A p \in Peers :
        sessions'[p].incoming > sessions[p].incoming + 1 =>
            /\ GapFill(Head(Stream(p)))
            /\ Head(Stream(p)).newSeqNo = sessions'[p].incoming

(* One step: no session of the pair skips a number.                        *)
LEMMA NextGapInv ==
    ASSUME TypeOK, GapInv, [Next]_vars
    PROVE  GapInv' /\ GapStep
<1> SUFFICES ASSUME NEW p \in Peers
             PROVE  /\ ~sessions'[p].useNext /\ sessions'[p].incoming >= 1
                    /\ sessions'[p].incoming > sessions[p].incoming + 1 =>
                          /\ GapFill(Head(Stream(p)))
                          /\ Head(Stream(p)).newSeqNo = sessions'[p].incoming
  BY DEF GapInv, GapStep
<1>1. /\ sessions \in [Peers -> SessionRecord] /\ sessions[p] \in SessionRecord
      /\ ~sessions[p].useNext /\ sessions[p].incoming >= 1
      /\ sessions[p].incoming \in Nat
      /\ Stream(p) # <<>> => Head(Stream(p)) \in Message
  <2>1. sessions[p] \in SessionRecord /\ sessions[Other(p)] \in SessionRecord
    BY DEF TypeOK, Other, Peers, Behaviours
  <2> QED
    BY <2>1, FieldTypes DEF TypeOK, GapInv, Stream
<1>2. ASSUME sessions'[p].useNext = sessions[p].useNext,
             \/ sessions'[p].incoming = sessions[p].incoming
             \/ sessions'[p].incoming = 1
      PROVE  /\ ~sessions'[p].useNext /\ sessions'[p].incoming >= 1
             /\ ~(sessions'[p].incoming > sessions[p].incoming + 1)
  BY <1>1, <1>2
<1>3. CASE UNCHANGED sessions
  BY <1>2, <1>3
<1>4. CASE Alone(p) \/ Resetting(p)
  BY <1>2, <1>4 DEF Alone, Resetting, Grows
<1>5. CASE Reading(p)
  <2>1. CASE Grows(sessions[p], sessions'[p])
    BY <1>2, <2>1 DEF Grows
  <2>2. CASE /\ Head(Stream(p)).type # "Close"
             /\ sessions'[p] = on_message_read(sessions[p], Head(Stream(p)))
    <3>1. Moves(sessions[p], Head(Stream(p)), sessions'[p])
      BY <1>1, <1>5, <2>2, MessageMoves DEF Reading
    <3>2. ~sessions'[p].useNext
      BY <1>1, <1>5 DEF Reading, Reads
    <3>3. sessions'[p].incoming \in Nat
      BY <1>5, FieldTypes DEF Reading, Reads
    <3> QED
      BY <1>1, <3>1, <3>2, <3>3 DEF Moves
  <2> QED
    BY <1>5, <2>1, <2>2 DEF Reading
<1>6. ASSUME NEW q \in Peers, q # p, Alone(q) \/ Reading(q) \/ Resetting(q)
      PROVE  /\ sessions'[p].useNext = sessions[p].useNext
             /\ sessions'[p].incoming = sessions[p].incoming
  <2>1. Other(q) = p
    BY <1>6 DEF Other, Peers, Behaviours
  <2>2. CASE Step(q, sessions'[q])
    BY <1>1, <1>6, <2>2 DEF Step
  <2>3. CASE StepAndRead(q, sessions'[q])
    <3>1. sessions'[p] = [sessions[p] EXCEPT !.out = Tail(Stream(q))]
      BY <1>1, <1>6, <2>1, <2>3 DEF StepAndRead
    <3> QED
      BY <1>1, <3>1 DEF SessionRecord
  <2> QED
    BY <1>6, <2>2, <2>3 DEF Alone, Reading, Resetting
<1> QED
  BY <1>2, <1>3, <1>4, <1>5, <1>6, Steps

(* No message of the peer is skipped silently: whatever the sessions are   *)
(* sent, resets of the numbering, failed writes and overlapping recoveries *)
(* included, the number a session expects moves past another only to the   *)
(* NewSeqNo of the gap fill it is handling.                                *)
THEOREM NoGapIsSilent ==
    ASSUME WithoutNextExpected, StartsAtOne
    PROVE  Spec => NoSilentGap
<1>1. Init => GapInv
  <2> SUFFICES ASSUME Init, NEW p \in Peers
               PROVE  ~sessions[p].useNext /\ sessions[p].incoming >= 1
    BY DEF GapInv
  <2> DEFINE set == scenario.settings
  <2>1. /\ scenario \in Scenarios
        /\ sessions = [q \in Peers |->
                          session(q, Heartbeat, set[q].delay, set[q].useNext,
                                  set[q].incoming, set[q].outgoing)]
    BY DEF Init
  <2>2. ~set[p].useNext /\ set[p].incoming >= 1
    BY <2>1 DEF WithoutNextExpected, StartsAtOne
  <2>3. sessions[p].useNext = set[p].useNext /\ sessions[p].incoming = set[p].incoming
    BY <2>1 DEF session
  <2> QED
    BY <2>2, <2>3
<1>2. TypeOK /\ GapInv /\ [Next]_vars
      => /\ GapInv'
         /\ [\A p \in Peers :
                sessions'[p].incoming > sessions[p].incoming + 1 =>
                    \/ AnswersLogon(p)
                    \/ /\ GapFill(Head(Stream(p)))
                       /\ Head(Stream(p)).newSeqNo = sessions'[p].incoming]_vars
  BY NextGapInv DEF GapStep
<1> QED
  BY <1>1, <1>2, TypeCorrect, PTL DEF Spec, NoSilentGap

-----------------------------------------------------------------------------
(* One gap.                                                                *)

(* In every scenario at most one gap opens: one side has missed nothing at *)
(* the start, and a write fails, once, only if neither has.                *)
AtMostOneGap ==
    \A c \in Scenarios :
        LET InStepAtStart(p) == c.settings[p].incoming = c.settings[Other(p)].outgoing
        IN  \/ c.failures = 0 /\ \E p \in Peers : InStepAtStart(p)
            \/ c.failures = 1 /\ \A p \in Peers : InStepAtStart(p)

(* Nothing is missing from what s reads from t.                            *)
InStep(s, t) == RunsFrom(t, 0, s.incoming)

(* The recovery of s from t is under way: its request, or an answer that   *)
(* nothing is missing behind.                                              *)
Requested(s) == \E i \in 1..Len(s.out) : IsRequest(s.out[i])

Answered(t) ==
    \E k \in 1..Len(t.out) : IsFill(t.out[k]) /\ RunsFrom(t, k, t.out[k].newSeqNo)

UnderWay(s, t) ==
    s.state = "resending" =>
        IF Behind(s) THEN Requested(s) \/ Answered(t) ELSE InStep(s, t)

(* Only t can miss anything, and what it misses is on its way.             *)
OneSided(s, t) == s.state # "resending" /\ InStep(s, t) /\ UnderWay(t, s)

Connected(s) == s.state # "disconnected"

(* Both sessions miss nothing until a write fails; from then on one does.  *)
GapOnOneSide ==
    /\ scenario.failures <= 1
    /\ scenario.resets = 0 /\ (\A p \in Peers : Connected(sessions[p])) =>
          /\ \E p \in Peers : OneSided(sessions[p], sessions[Other(p)])
          /\ failures < scenario.failures =>
                \A p \in Peers : OneSided(sessions[p], sessions[Other(p)])

(* The rest of a run is one.                                               *)
LEMMA RunsReadFrom ==
    ASSUME NEW t \in SessionRecord, NEW r, ReadFrom(t, r), NEW number \in Int
    PROVE  /\ RunsFrom(t, 0, number) =>
                 /\ Numbered(t.out[1]) /\ t.out[1].seq = number
                 /\ RunsFrom(r, 0, number + 1)
           /\ \A k \in 1..Len(t.out) : RunsFrom(t, k, number) => RunsFrom(r, k - 1, number)
<1> DEFINE b == t.outgoing
           l == Len(r.out)
<1>1. /\ b \in Nat /\ l \in Nat /\ r.outgoing = b /\ Len(t.out) = l + 1
      /\ \A i \in 1..l : r.out[i] = t.out[i + 1]
  BY FieldTypes DEF ReadFrom
<1>2. ASSUME NEW k \in 0..(l + 1), NEW x \in Int, RunsFrom(t, k, x)
      PROVE  /\ b = x + ((l + 1) - k)
             /\ \A i \in (k + 1)..(l + 1) : Numbered(t.out[i]) /\ t.out[i].seq = x + (i - k - 1)
  BY <1>1, <1>2 DEF RunsFrom
<1>3. ASSUME NEW j \in 0..l, NEW y \in Int, b = y + (l - j),
             \A i \in (j + 1)..l : Numbered(t.out[i + 1]) /\ t.out[i + 1].seq = y + (i - j - 1)
      PROVE  RunsFrom(r, j, y)
  <2>1. ASSUME NEW i \in (j + 1)..l PROVE r.out[i] = t.out[i + 1]
    BY <1>1
  <2> QED
    BY <1>1, <1>3, <2>1 DEF RunsFrom
<1> HIDE DEF b, l
<1>4. ASSUME RunsFrom(t, 0, number)
      PROVE  /\ Numbered(t.out[1]) /\ t.out[1].seq = number
             /\ RunsFrom(r, 0, number + 1)
  <2>1. /\ b = number + ((l + 1) - 0)
        /\ \A i \in (0 + 1)..(l + 1) : Numbered(t.out[i]) /\ t.out[i].seq = number + (i - 0 - 1)
    <3>1. 0 \in 0..(l + 1)
      BY <1>1
    <3> QED
      BY <1>2, <1>4, <3>1
  <2>2. 1 \in (0 + 1)..(l + 1) /\ number + (1 - 0 - 1) = number
    BY <1>1
  <2>3. Numbered(t.out[1]) /\ t.out[1].seq = number
    BY <2>1, <2>2
  <2>4. ASSUME NEW i \in (0 + 1)..l
        PROVE  Numbered(t.out[i + 1]) /\ t.out[i + 1].seq = (number + 1) + (i - 0 - 1)
    <3>1. i + 1 \in (0 + 1)..(l + 1)
          /\ number + ((i + 1) - 0 - 1) = (number + 1) + (i - 0 - 1)
      BY <1>1
    <3> QED
      BY <2>1, <3>1
  <2>5. b = (number + 1) + (l - 0) /\ 0 \in 0..l /\ number + 1 \in Int
    BY <1>1, <2>1
  <2> QED
    BY <1>3, <2>3, <2>4, <2>5
<1>5. ASSUME NEW k \in 1..Len(t.out), RunsFrom(t, k, number)
      PROVE  RunsFrom(r, k - 1, number)
  <2>1. k \in 0..(l + 1) /\ k - 1 \in 0..l
    BY <1>1
  <2>2. /\ b = number + ((l + 1) - k)
        /\ \A i \in (k + 1)..(l + 1) : Numbered(t.out[i]) /\ t.out[i].seq = number + (i - k - 1)
    BY <1>2, <1>5, <2>1
  <2>3. ASSUME NEW i \in ((k - 1) + 1)..l
        PROVE  Numbered(t.out[i + 1]) /\ t.out[i + 1].seq = number + (i - (k - 1) - 1)
    <3>1. i + 1 \in (k + 1)..(l + 1) /\ number + ((i + 1) - k - 1) = number + (i - (k - 1) - 1)
      BY <1>1, <2>1
    <3> QED
      BY <2>2, <3>1
  <2>4. b = number + (l - (k - 1))
    BY <1>1, <2>1, <2>2
  <2> QED
    BY <1>3, <2>1, <2>3, <2>4
<1> QED
  BY <1>4, <1>5

(* The writer's side: s writes, t waits for what it writes.                *)
LEMMA RunAppends ==
    ASSUME NEW s \in SessionRecord, NEW u, Appends(s, u), u.writerOpen,
           NEW k \in 0..Len(s.out), NEW number \in Int, RunsFrom(s, k, number)
    PROVE  RunsFrom(u, k, number)
<1>1. /\ u \in SessionRecord /\ Len(s.out) <= Len(u.out)
      /\ \A i \in 1..Len(s.out) : u.out[i] = s.out[i]
      /\ RunsFrom(u, Len(s.out), s.outgoing)
  BY DEF Appends
<1> QED
  BY <1>1, RunsOn

LEMMA InStepAppends ==
    ASSUME NEW s \in SessionRecord, NEW u, Appends(s, u), u.writerOpen,
           NEW t \in SessionRecord, InStep(t, s)
    PROVE  InStep(t, u)
<1>1. t.incoming \in Int /\ 0 \in 0..Len(s.out)
  BY FieldTypes
<1> QED
  BY <1>1, RunAppends DEF InStep

LEMMA AnsweredAppends ==
    ASSUME NEW s \in SessionRecord, NEW u, Appends(s, u), u.writerOpen, Answered(s)
    PROVE  Answered(u)
<1>1. PICK k \in 1..Len(s.out) : IsFill(s.out[k]) /\ RunsFrom(s, k, s.out[k].newSeqNo)
  BY DEF Answered
<1>2. s.out[k] \in Message /\ Len(s.out) \in Nat /\ Len(u.out) \in Nat
  BY FieldTypes DEF Appends
<1>3. s.out[k].newSeqNo \in Int
  BY <1>2 DEF Message, NumericField, Missing, NotANumber
<1>4. k \in 1..Len(u.out) /\ u.out[k] = s.out[k] /\ k \in 0..Len(s.out)
  BY <1>2 DEF Appends
<1>5. RunsFrom(u, k, s.out[k].newSeqNo)
  BY <1>1, <1>3, <1>4, RunAppends
<1> QED
  BY <1>1, <1>4, <1>5 DEF Answered

LEMMA UnderWayAppends ==
    ASSUME NEW s \in SessionRecord, NEW u, Appends(s, u), u.writerOpen,
           NEW t \in SessionRecord, UnderWay(t, s)
    PROVE  UnderWay(t, u)
BY InStepAppends, AnsweredAppends DEF UnderWay

(* The reader's side: t waits, and writes or has something read.           *)
LEMMA UnderWayWrites ==
    ASSUME NEW s \in SessionRecord, NEW u, Appends(s, u),
           u.incoming = s.incoming, u.target = s.target,
           u.state = s.state \/ u.state # "resending",
           NEW t, UnderWay(s, t)
    PROVE  UnderWay(u, t)
<1>1. Requested(s) => Requested(u)
  <2>1. Len(s.out) \in Nat /\ Len(u.out) \in Nat
    BY FieldTypes DEF Appends
  <2>2. \A i \in 1..Len(s.out) : i \in 1..Len(u.out) /\ u.out[i] = s.out[i]
    BY <2>1 DEF Appends
  <2> QED
    BY <2>2 DEF Requested
<1> QED
  BY <1>1 DEF UnderWay, Behind, InStep

LEMMA UnderWayReadFrom ==
    ASSUME NEW t \in SessionRecord, NEW r, ReadFrom(t, r), ~IsRequest(t.out[1]),
           NEW s, UnderWay(t, s)
    PROVE  UnderWay(r, s)
<1>1. /\ r.state = t.state /\ r.incoming = t.incoming /\ r.target = t.target
      /\ Len(r.out) \in Nat /\ Len(t.out) = Len(r.out) + 1
      /\ \A i \in 1..Len(r.out) : r.out[i] = t.out[i + 1]
  BY DEF ReadFrom, Same
<1>2. Requested(t) => Requested(r)
  <2> SUFFICES ASSUME NEW i \in 1..Len(t.out), IsRequest(t.out[i])
               PROVE  Requested(r)
    BY DEF Requested
  <2>1. i # 1
    OBVIOUS
  <2>2. i - 1 \in 1..Len(r.out) /\ (i - 1) + 1 = i
    BY <1>1, <2>1
  <2>3. r.out[i - 1] = t.out[i]
    BY <1>1, <2>2
  <2> QED
    BY <2>2, <2>3 DEF Requested
<1> QED
  BY <1>1, <1>2 DEF UnderWay, Behind, InStep

(* A session writes: a timer, a message of the application, or open.       *)
LEMMA OneSidedWrites ==
    ASSUME NEW s \in SessionRecord, NEW u, NEW t \in SessionRecord,
           Appends(s, u), u.writerOpen, u.incoming = s.incoming, u.target = s.target,
           u.state = s.state \/ u.state # "resending"
    PROVE  /\ OneSided(s, t) => OneSided(u, t)
           /\ OneSided(t, s) => OneSided(t, u)
<1>1. ASSUME OneSided(s, t) PROVE OneSided(u, t)
  <2>1. u.state # "resending" /\ InStep(u, t)
    BY <1>1 DEF OneSided, InStep
  <2>2. UnderWay(t, u)
    BY <1>1, UnderWayAppends DEF OneSided
  <2> QED
    BY <2>1, <2>2 DEF OneSided
<1>2. ASSUME OneSided(t, s) PROVE OneSided(t, u)
  BY <1>2, InStepAppends, UnderWayWrites DEF OneSided
<1> QED
  BY <1>1, <1>2

(* A write fails while nothing is missing: s misses nothing yet.           *)
LEMMA OneSidedFails ==
    ASSUME NEW s \in SessionRecord, NEW t \in SessionRecord,
           OneSided(s, t), OneSided(t, s)
    PROVE  OneSided(send_fails(s), t)
<1> DEFINE k == s.outgoing + 1
           u == [s EXCEPT !.outgoing = k]
<1>1. u.state = s.state /\ u.incoming = s.incoming
  BY DEF SessionRecord
<1>2. send_fails(s) = u
  BY DEF send_fails
<1> HIDE DEF u
<1> QED
  BY <1>1, <1>2 DEF OneSided, InStep, UnderWay

(* The session that misses nothing reads a message.                        *)
LEMMA OneSidedReads ==
    ASSUME NEW s, NEW t, NEW r, NEW n \in Nat, NEW u,
           Pair(s, t, n), ReadFrom(t, r), Outcome(s, t.out[1], u),
           s.state # "disconnected", t.state # "disconnected", u.state # "disconnected",
           OneSided(s, t)
    PROVE  OneSided(u, r)
<1> DEFINE m == t.out[1]
<1>1. /\ s \in SessionRecord /\ t \in SessionRecord /\ r \in SessionRecord
      /\ Paired(t, s, n) /\ s.incoming \in Int /\ s.state # "resending"
      /\ InStep(s, t) /\ UnderWay(t, s)
  BY FieldTypes DEF Pair, ReadFrom, OneSided
<1>2. Numbered(m) /\ m.seq = s.incoming /\ RunsFrom(r, 0, s.incoming + 1)
  BY <1>1, RunsReadFrom DEF InStep
<1>3. Takes(s, m, u) \/ Answers(s, m, u)
  <2>1. ~IsFill(m) /\ ~(m.seq > s.incoming)
    BY <1>1, <1>2 DEF IsFill, Numbered
  <2> QED
    BY <2>1 DEF Outcome, Ended, Recovering, Extends, Filled
<1>4. /\ u.incoming = s.incoming + 1 /\ u.state \in {s.state, "logged_on"} /\ u.writerOpen
  BY <1>2, <1>3 DEF Takes, Answers, Counts, Continues
<1>5. u.state # "resending" /\ InStep(u, r)
  BY <1>1, <1>2, <1>4 DEF InStep
<1>6. CASE Takes(s, m, u)
  <2>1. UnderWay(r, s)
    BY <1>1, <1>6, UnderWayReadFrom DEF Takes
  <2>2. UnderWay(r, u)
    BY <1>1, <1>4, <1>6, <2>1, UnderWayAppends DEF Takes
  <2> QED
    BY <1>5, <2>2 DEF OneSided
<1>7. CASE Answers(s, m, u)
  <2>1. PICK v : Fills(s, m.beginSeqNo, v) /\ Appends(v, u)
    BY <1>7 DEF Answers
  <2>2. PICK f \in Message : /\ IsFill(f) /\ f.newSeqNo = s.outgoing
                             /\ v.out = Append(s.out, f)
    BY <2>1 DEF Fills
  <2>3. v \in SessionRecord /\ v.outgoing = s.outgoing /\ s.outgoing \in Nat
    BY <1>1, <2>1, FieldTypes DEF Fills
  <2>4. Len(s.out) \in Nat /\ Len(v.out) = Len(s.out) + 1 /\ v.out[Len(v.out)] = f
    BY <1>1, <2>2, <2>3, AfterAppend
  <2>5. Answered(v)
    <3> DEFINE l == Len(v.out)
               a == s.outgoing
    <3>1. l \in Nat /\ l \in 1..l /\ a \in Nat
      BY <2>3, <2>4
    <3>2. v.outgoing = a /\ v.out[l] = f /\ f.newSeqNo = a
      BY <2>2, <2>3, <2>4
    <3> HIDE DEF l, a
    <3>3. a = a + (l - l) /\ \A i \in (l + 1)..l : FALSE
      BY <3>1
    <3>4. RunsFrom(v, l, a)
      BY <3>2, <3>3 DEF RunsFrom, l
    <3> QED
      BY <2>2, <3>1, <3>2, <3>4 DEF Answered, l
  <2>6. Answered(u)
    BY <1>4, <2>1, <2>3, <2>5, AnsweredAppends
  <2>7. Behind(r)
    <3>1. 1 \in 1..Len(t.out)
      BY DEF ReadFrom
    <3>2. Behind(t)
      BY <1>1, <1>7, <3>1 DEF Paired, Recovers, RequestsMatch, Answers
    <3> QED
      BY <3>2 DEF Behind, ReadFrom, Same
  <2> QED
    BY <1>5, <2>6, <2>7 DEF OneSided, UnderWay
<1> QED
  BY <1>3, <1>6, <1>7

(* Its peer reads a message: what it misses, or what it waits for, is on   *)
(* its way again.                                                          *)
LEMMA UnderWayReads ==
    ASSUME NEW s, NEW t, NEW r, NEW n \in Nat, NEW u,
           Pair(s, t, n), ReadFrom(t, r), Outcome(s, t.out[1], u),
           s.state # "disconnected", u.state # "disconnected", UnderWay(s, t)
    PROVE  UnderWay(u, r)
<1> DEFINE m == t.out[1]
<1>1. /\ s \in SessionRecord /\ t \in SessionRecord /\ r \in SessionRecord
      /\ s.incoming \in Nat /\ s.target \in Nat /\ m \in Message /\ m.seq \in Nat
      /\ OneAtMost(s, t) /\ BeyondTarget(s, t) /\ FillsMatch(s, t)
      /\ Len(t.out) \in Nat /\ 1 \in 1..Len(t.out)
  <2>1. s \in SessionRecord /\ t \in SessionRecord /\ Paired(s, t, n)
    BY DEF Pair
  <2>2. OneAtMost(s, t) /\ BeyondTarget(s, t) /\ FillsMatch(s, t)
    BY <2>1 DEF Paired, Recovers
  <2>3. r \in SessionRecord /\ m \in Message /\ Len(t.out) \in Nat /\ 1 \in 1..Len(t.out)
    BY DEF ReadFrom
  <2>4. s.incoming \in Nat /\ s.target \in Nat /\ m.seq \in Nat
    BY <2>1, <2>3, FieldTypes DEF Message
  <2> QED
    BY <2>1, <2>2, <2>3, <2>4
<1>2. CASE Counts(s, m, u)
  <2>1. /\ Numbered(m) /\ m.seq = s.incoming /\ u.incoming = s.incoming + 1
        /\ u.target = s.target /\ u.state \in {s.state, "logged_on"}
    BY <1>2 DEF Counts
  <2>2. ~Behind(s)
    BY <1>1, <2>1 DEF BeyondTarget, Behind
  <2> SUFFICES ASSUME u.state = "resending"
               PROVE  ~Behind(u) /\ InStep(u, r)
    BY DEF UnderWay
  <2>3. s.state = "resending" /\ InStep(s, t)
    BY <2>1, <2>2 DEF UnderWay
  <2>4. RunsFrom(r, 0, s.incoming + 1)
    BY <1>1, <2>3, RunsReadFrom DEF InStep
  <2> QED
    BY <1>1, <2>1, <2>2, <2>3, <2>4 DEF Behind, InStep
<1>3. CASE Recovering(s, m, u)
  <2>1. PICK v : /\ Appends(s, v) /\ v.incoming = s.incoming /\ Requests(v, m.seq, u)
    BY <1>3 DEF Recovering
  <2>2. /\ v \in SessionRecord /\ u \in SessionRecord
        /\ u.target = m.seq /\ u.incoming = s.incoming /\ u.state = "resending"
        /\ m.seq > s.incoming
    BY <1>3, <2>1 DEF Requests, Appends, Recovering
  <2>3. PICK q \in Message : IsRequest(q) /\ u.out = Append(v.out, q)
    BY <2>1 DEF Requests
  <2>4. Len(u.out) \in 1..Len(u.out) /\ u.out[Len(u.out)] = q
    BY <2>2, <2>3, AfterAppend
  <2>5. Behind(u)
    BY <1>1, <2>2 DEF Behind
  <2> QED
    BY <2>3, <2>4, <2>5 DEF UnderWay, Requested
<1>4. CASE Extends(s, m, u)
  <2>1. /\ Numbered(m) /\ m.seq > s.incoming /\ s.state = "resending" /\ Appends(s, u)
        /\ u.state = "resending" /\ u.incoming = s.incoming
        /\ u.target = IF m.seq > s.target THEN m.seq ELSE s.target
    BY <1>4 DEF Extends
  <2>2. Behind(s)
    <3> SUFFICES ASSUME InStep(s, t) PROVE FALSE
      BY <2>1 DEF UnderWay
    <3>1. m.seq = s.incoming
      BY <1>1, RunsReadFrom DEF InStep
    <3> QED
      BY <1>1, <2>1, <3>1
  <2>3. Behind(u)
    BY <1>1, <2>1 DEF Behind
  <2>4. CASE Requested(s)
    <3>1. \A i \in 1..Len(s.out) : i \in 1..Len(u.out) /\ u.out[i] = s.out[i]
      <4>1. Len(s.out) \in Nat /\ Len(u.out) \in Nat
        BY <1>1, <2>1, FieldTypes DEF Appends
      <4> QED
        BY <2>1, <4>1 DEF Appends
    <3>2. Requested(u)
      BY <2>4, <3>1 DEF Requested
    <3> QED
      BY <2>3, <3>2 DEF UnderWay
  <2>5. CASE Answered(t)
    <3>1. PICK k \in 1..Len(t.out) : IsFill(t.out[k]) /\ RunsFrom(t, k, t.out[k].newSeqNo)
      BY <2>5 DEF Answered
    <3>2. k # 1
      BY <2>1, <3>1 DEF Numbered, IsFill
    <3>3. k - 1 \in 1..Len(r.out) /\ (k - 1) + 1 = k
      BY <1>1, <3>2 DEF ReadFrom
    <3>4. r.out[k - 1] = t.out[k]
      BY <3>3 DEF ReadFrom
    <3>5. t.out[k].newSeqNo \in Int
      <4>1. t.out[k] \in Message
        BY <1>1, FieldTypes
      <4> QED
        BY <4>1 DEF Message, NumericField, Missing, NotANumber
    <3>6. RunsFrom(r, k - 1, t.out[k].newSeqNo)
      BY <1>1, <3>1, <3>5, RunsReadFrom
    <3>7. Answered(r)
      BY <3>1, <3>3, <3>4, <3>6 DEF Answered
    <3> QED
      BY <2>3, <3>7 DEF UnderWay
  <2> QED
    BY <2>1, <2>2, <2>4, <2>5 DEF UnderWay
<1>5. CASE Filled(s, m, u)
  <2>1. IsFill(m) /\ u.state = "resending" /\ u.incoming = m.newSeqNo /\ u.target = s.target
    BY <1>5 DEF Filled
  <2>2. Behind(s) /\ s.target < m.newSeqNo
    BY <1>1, <2>1 DEF FillsMatch
  <2>3. ~Requested(s)
    BY <1>1, <2>1 DEF OneAtMost, Requested
  <2>4. Answered(t)
    BY <2>2, <2>3 DEF UnderWay, Behind
  <2>5. PICK k \in 1..Len(t.out) : IsFill(t.out[k]) /\ RunsFrom(t, k, t.out[k].newSeqNo)
    BY <2>4 DEF Answered
  <2>6. k = 1
    BY <1>1, <2>1, <2>5 DEF OneAtMost
  <2>7. m.newSeqNo \in Int
    BY <1>1 DEF Message, NumericField, Missing, NotANumber
  <2>8. RunsFrom(r, 1 - 1, m.newSeqNo)
    BY <1>1, <2>5, <2>6, <2>7, RunsReadFrom
  <2>9. ~Behind(u)
    BY <1>1, <2>1, <2>2, <2>7 DEF Behind
  <2>10. 1 - 1 = 0
    OBVIOUS
  <2> QED
    BY <2>1, <2>8, <2>9, <2>10 DEF UnderWay, InStep
<1> QED
  BY <1>2, <1>3, <1>4, <1>5 DEF Outcome, Takes, Answers, Ended

LEMMA OneSidedIsRead ==
    ASSUME NEW s, NEW t, NEW r, NEW n \in Nat, NEW u,
           Pair(s, t, n), ReadFrom(t, r), Outcome(s, t.out[1], u),
           s.state # "disconnected", t.state # "disconnected", u.state # "disconnected",
           OneSided(t, s)
    PROVE  OneSided(r, u)
<1> DEFINE m == t.out[1]
<1>1. /\ s \in SessionRecord /\ t \in SessionRecord /\ r \in SessionRecord
      /\ Paired(t, s, n) /\ t.state # "resending" /\ InStep(t, s) /\ UnderWay(s, t)
      /\ r.state = t.state /\ r.incoming = t.incoming
  BY DEF Pair, ReadFrom, Same, OneSided
<1>2. UnderWay(u, r)
  BY <1>1, UnderWayReads
<1>3. ~IsRequest(m)
  <2>1. 1 \in 1..Len(t.out)
    BY DEF ReadFrom
  <2> QED
    BY <1>1, <2>1 DEF Paired, Recovers, RequestsMatch, Behind
<1>4. SUFFICES InStep(t, u)
  BY <1>1, <1>2 DEF OneSided, InStep
<1>5. CASE Recovering(s, m, u)
  <2>1. PICK v : /\ Appends(s, v) /\ v.writerOpen /\ Requests(v, m.seq, u)
    BY <1>5 DEF Recovering
  <2>2. PICK q \in Message : IsRequest(q) /\ q.seq = v.outgoing /\ u.out = Append(v.out, q)
    BY <2>1 DEF Requests
  <2>3. /\ v \in SessionRecord /\ u \in SessionRecord /\ u.outgoing = v.outgoing + 1
        /\ v.outgoing \in Nat
    BY <2>1, FieldTypes DEF Appends, Requests
  <2>4. InStep(t, v)
    BY <1>1, <2>1, InStepAppends
  <2>5. /\ Len(v.out) \in Nat /\ Len(u.out) = Len(v.out) + 1
        /\ u.out[Len(u.out)] = q /\ \A i \in 1..Len(v.out) : u.out[i] = v.out[i]
    BY <2>2, <2>3, AfterAppend
  <2>6. RunsFrom(u, Len(v.out), v.outgoing)
    <3>1. Numbered(q)
      BY <2>2 DEF IsRequest, Numbered
    <3>2. ASSUME NEW i \in (Len(v.out) + 1)..Len(u.out)
          PROVE  u.out[i] = q /\ i = Len(v.out) + 1
      BY <2>5
    <3> QED
      BY <2>2, <2>3, <2>5, <3>1, <3>2 DEF RunsFrom
  <2>7. 0 \in 0..Len(v.out) /\ t.incoming \in Int /\ Len(v.out) <= Len(u.out)
    BY <1>1, <2>5, FieldTypes
  <2> QED
    BY <2>3, <2>4, <2>5, <2>6, <2>7, RunsOn DEF InStep
<1>6. CASE ~Recovering(s, m, u)
  <2>1. Appends(s, u) /\ u.writerOpen
    BY <1>3, <1>6 DEF Outcome, Ended, Takes, Counts, Answers, Extends, Filled, Continues
  <2> QED
    BY <1>1, <2>1, InStepAppends
<1> QED
  BY <1>5, <1>6

(* open, of a session that was just made.                                  *)
LEMMA OpenAppends ==
    ASSUME NEW s \in SessionRecord, s.state = "connected", s.writerOpen, ~s.useNext
    PROVE  LET u == open(s)
           IN  /\ Appends(s, u) /\ u.writerOpen /\ u.state = "logging_on"
               /\ u.incoming = s.incoming /\ u.target = s.target
<1> DEFINE l == [s EXCEPT !.readerOpen = TRUE, !.state = "logging_on"]
           u == open(s)
<1>1. /\ l \in SessionRecord /\ l.behaviour = s.behaviour /\ l.useNext = s.useNext
      /\ l.outgoing = s.outgoing /\ l.out = s.out /\ l.writerOpen = s.writerOpen
      /\ l.state = "logging_on" /\ l.incoming = s.incoming /\ l.target = s.target
  BY DEF SessionRecord, SessionStates
<1>2. u = IF s.behaviour = "initiator" THEN send_logon(l, FALSE) ELSE l
  BY DEF open, logon, SessionRecord
<1> HIDE DEF l, u
<1>3. Quiet(l, send_logon(l, FALSE)) /\ Quiet(l, l)
  BY <1>1, SendsQuiet, AppendsReflexive
<1>4. Quiet(l, u)
  BY <1>2, <1>3, Zenon
<1>5. Appends(s, l)
  BY <1>1, SameOut
<1>6. Appends(s, u)
  <2>1. u \in SessionRecord /\ Appends(l, u)
    BY <1>4 DEF Quiet, Appends
  <2> QED
    BY <1>1, <1>5, <2>1, AppendsTransitive
<1>7. /\ u.writerOpen /\ u.state = "logging_on"
      /\ u.incoming = s.incoming /\ u.target = s.target
  BY <1>1, <1>4 DEF Quiet, Same
<1> QED
  BY <1>6, <1>7 DEF u

(* The invariant in the next state.                                        *)
LEMMA GapOnOneSidePrimed ==
    GapOnOneSide' <=>
        /\ scenario'.failures <= 1
        /\ scenario'.resets = 0 /\ (\A p \in Peers : Connected(sessions'[p])) =>
              /\ \E p \in Peers : OneSided(sessions'[p], sessions'[Other(p)])
              /\ failures' < scenario'.failures =>
                    \A p \in Peers : OneSided(sessions'[p], sessions'[Other(p)])
BY DEF GapOnOneSide

(* Every step preserves it.                                                *)
LEMMA NextGapOnOneSide ==
    ASSUME TypeOK, StreamsInOrder, PairInv, GapOnOneSide, [Next]_vars
    PROVE  GapOnOneSide'
<1> DEFINE Goal == /\ \E p \in Peers : OneSided(sessions'[p], sessions'[Other(p)])
                   /\ failures' < scenario.failures =>
                         \A p \in Peers : OneSided(sessions'[p], sessions'[Other(p)])
<1> SUFFICES ASSUME scenario.resets = 0, \A p \in Peers : Connected(sessions'[p])
             PROVE  Goal
  <2>1. scenario' = scenario /\ scenario.failures <= 1
    BY Steps DEF GapOnOneSide
  <2> QED
    BY <2>1, GapOnOneSidePrimed
<1>1. /\ sessions \in [Peers -> SessionRecord] /\ failures \in Nat
      /\ scenario.failures \in Nat /\ scenario.failures <= 1
      /\ \A p \in Peers : Pair(sessions[p], sessions[Other(p)], failures)
      /\ \A p \in Peers : Above(sessions[Other(p)], sessions[p].incoming)
  BY StreamsInOrderParts DEF PairInv, TypeOK, Scenario, GapOnOneSide
<1>2. CASE Idle \/ UNCHANGED vars
  <2>1. sessions' = sessions /\ failures' = failures
    BY <1>2 DEF Idle, vars
  <2> QED
    BY <2>1 DEF GapOnOneSide
<1>3. ASSUME NEW p \in Peers,
             \/ Open(p) \/ Close(p) \/ SendApplicationMessage(p) \/ SendResetLogon(p)
             \/ FailToSend(p)
             \/ Receive(p) \/ ReceiveClose(p) \/ Drop(p)
             \/ HeartbeatTimer(p)
             \/ TestTimerExpires(p) \/ OrphanTimerExpires(p) \/ TestRequestCallback(p)
      PROVE  Goal
  <2> DEFINE q == Other(p)
             s == sessions[p]
             t == sessions[q]
             r == [t EXCEPT !.out = Tail(t.out)]
             n == failures
  <2>1. /\ q \in Peers /\ q # p /\ Other(q) = p /\ Peers = {p, q}
        /\ s \in SessionRecord /\ t \in SessionRecord /\ Stream(p) = t.out
    BY <1>1 DEF Other, Peers, Behaviours, Stream
  <2>2. Pair(s, t, n) /\ Above(t, s.incoming)
    BY <1>1, <2>1
  <2>3. ASSUME Connected(s), Connected(t)
        PROVE  /\ OneSided(s, t) \/ OneSided(t, s)
               /\ n < scenario.failures => OneSided(s, t) /\ OneSided(t, s)
    <3>1. \A o \in Peers : Connected(sessions[o])
      BY <2>1, <2>3
    <3>2. /\ \E o \in Peers : OneSided(sessions[o], sessions[Other(o)])
          /\ n < scenario.failures =>
                \A o \in Peers : OneSided(sessions[o], sessions[Other(o)])
      BY <3>1 DEF GapOnOneSide
    <3> QED
      BY <2>1, <3>2
  <2>4. ASSUME NEW u, NEW w, sessions'[p] = u, sessions'[q] = w, failures' = n,
               Connected(s), Connected(t),
               OneSided(s, t) => OneSided(u, w), OneSided(t, s) => OneSided(w, u)
        PROVE  Goal
    <3>1. /\ OneSided(u, w) \/ OneSided(w, u)
          /\ failures' < scenario.failures => OneSided(u, w) /\ OneSided(w, u)
      BY <2>3, <2>4
    <3> QED
      BY <2>1, <2>4, <3>1
  <2>5. ASSUME NEW u, Step(p, u)
        PROVE  sessions'[p] = u /\ sessions'[q] = t /\ Connected(u) /\ Connected(t)
    <3>1. sessions'[p] = u /\ sessions'[q] = t
      BY <1>1, <2>1, <2>5 DEF Step
    <3> QED
      BY <2>1, <3>1
  <2>6. ASSUME NEW u, StepAndRead(p, u), Stream(p) # <<>>
        PROVE  /\ sessions'[p] = u /\ sessions'[q] = r /\ ReadFrom(t, r)
               /\ Connected(u) /\ Connected(t)
    <3>1. sessions'[p] = u /\ sessions'[q] = r
      BY <1>1, <2>1, <2>6 DEF StepAndRead, Stream
    <3>2. ReadFrom(t, r)
      BY <2>1, <2>6, TailReadFrom
    <3>3. Connected(u) /\ Connected(r)
      BY <2>1, <3>1
    <3> QED
      BY <3>1, <3>2, <3>3 DEF ReadFrom, Same, Connected
  <2>7. PICK o \in Peers : Proper(s, o)
    BY <2>2 DEF Pair
  <2>8. /\ s.state # "disconnected" => s.writerOpen
        /\ ~s.useNext /\ (s.readerOpen <=> s.state \in OpenStates)
    BY <2>7 DEF Proper
  <2> HIDE DEF Goal, q, s, t, r, n
  <2>9. ASSUME NEW u, Step(p, u), failures' = n, Appends(s, u), u.writerOpen, Connected(s),
               u.incoming = s.incoming, u.target = s.target,
               u.state = s.state \/ u.state # "resending"
        PROVE  Goal
    <3>1. /\ OneSided(s, t) => OneSided(u, t)
          /\ OneSided(t, s) => OneSided(t, u)
      BY <2>1, <2>9, OneSidedWrites
    <3> QED
      BY <2>4, <2>5, <2>9, <3>1
  <2>10. ASSUME NEW u, Step(p, u), failures' = n, Quiet(s, u)
         PROVE  Goal
    <3>1. Connected(u)
      BY <2>5, <2>10
    <3>2. /\ Appends(s, u) /\ u.incoming = s.incoming /\ u.target = s.target
          /\ u.state = s.state /\ Connected(s)
      BY <2>10, <3>1 DEF Quiet, Same, Connected
    <3>3. u.writerOpen
      BY <2>8, <2>10, <3>2 DEF Quiet, Same, Connected
    <3> QED
      BY <2>9, <2>10, <3>2, <3>3
  <2>11. CASE Open(p)
    <3>1. s.state = "connected" /\ Step(p, open(s)) /\ failures' = n
      BY <2>11 DEF Open, s, n
    <3>2. /\ Appends(s, open(s)) /\ open(s).writerOpen /\ open(s).state = "logging_on"
          /\ open(s).incoming = s.incoming /\ open(s).target = s.target
      BY <2>1, <2>8, <3>1, OpenAppends
    <3> QED
      BY <2>9, <3>1, <3>2 DEF Connected
  <2>12. CASE Close(p)
    <3>1. Step(p, close(s))
      BY <2>12 DEF Close, s
    <3>2. Ended(s, close(s))
      BY <2>1, ClosesEnd
    <3> QED
      BY <2>5, <3>1, <3>2 DEF Ended, Connected
  <2>13. CASE SendApplicationMessage(p)
    <3>1. Step(p, send(s, message("App"))) /\ failures' = n
      BY <2>13 DEF SendApplicationMessage, s, n
    <3> QED
      BY <2>1, <2>10, <3>1, SendsQuiet
  <2>14. CASE FailToSend(p)
    <3>1. /\ s.state = "logged_on" /\ Step(p, send_fails(s)) /\ failures' = n + 1
          /\ n < scenario.failures
      BY <2>14 DEF FailToSend, s, n
    <3>2. sessions'[p] = send_fails(s) /\ sessions'[q] = t /\ Connected(t) /\ Connected(s)
      BY <2>5, <3>1 DEF Connected
    <3>3. OneSided(send_fails(s), t)
      BY <2>1, <2>3, <3>1, <3>2, OneSidedFails
    <3>4. ~(failures' < scenario.failures)
      BY <1>1, <3>1 DEF n
    <3> QED
      BY <2>1, <3>2, <3>3, <3>4 DEF Goal, q
  <2>15. CASE SendResetLogon(p)
    <3>1. resets < 0 /\ resets \in Nat
      BY <2>15 DEF SendResetLogon, TypeOK
    <3> QED
      BY <3>1
  <2>16. CASE Receive(p)
    <3> DEFINE u == on_message_read(s, t.out[1])
    <3>1. /\ s.readerOpen /\ Stream(p) # <<>> /\ Head(t.out).type # "Close"
          /\ StepAndRead(p, on_message_read(s, Head(t.out))) /\ failures' = n
      BY <2>1, <2>16 DEF Receive, s, n
    <3>2. /\ sessions'[p] = u /\ sessions'[q] = r /\ ReadFrom(t, r)
          /\ Connected(u) /\ Connected(t) /\ Head(t.out) = t.out[1]
      BY <2>6, <3>1 DEF ReadFrom
    <3>3. Readable(s, t.out[1]) /\ s.state \in OpenStates
      BY <1>1, <2>2, <3>1, <3>2, FirstIsReadable DEF n
    <3>4. Outcome(s, t.out[1], u) /\ Connected(s)
      BY <3>3, ReadOutcome DEF OpenStates, Connected
    <3> HIDE DEF u
    <3>5. /\ OneSided(s, t) => OneSided(u, r)
          /\ OneSided(t, s) => OneSided(r, u)
      BY <1>1, <2>2, <3>2, <3>4, OneSidedReads, OneSidedIsRead DEF Connected, n
    <3> QED
      BY <2>4, <3>1, <3>2, <3>4, <3>5
  <2>17. CASE ReceiveClose(p)
    <3>1. s.readerOpen /\ Stream(p) # <<>> /\ StepAndRead(p, close_reader(s))
      BY <2>17 DEF ReceiveClose, s
    <3>2. Ended(s, close_reader(s))
      BY <2>1, <3>1, ClosesEnd
    <3> QED
      BY <2>6, <3>1, <3>2 DEF Ended, Connected
  <2>18. CASE Drop(p)
    <3>1. s.state = "disconnected" /\ Stream(p) # <<>> /\ StepAndRead(p, s)
      BY <2>18 DEF Drop, s
    <3> QED
      BY <2>6, <3>1 DEF Connected
  <2>19. CASE HeartbeatTimer(p)
    <3>1. Step(p, defibrillate(s)) /\ failures' = n
      BY <2>19 DEF HeartbeatTimer, s, n
    <3> QED
      BY <2>1, <2>10, <3>1, TimersQuiet
  <2>20. CASE TestTimerExpires(p)
    <3>1. Step(p, expire_test_timer(s)) /\ failures' = n
      BY <2>20 DEF TestTimerExpires, s, n
    <3> QED
      BY <2>1, <2>10, <3>1, TimersQuiet
  <2>21. CASE OrphanTimerExpires(p)
    <3>1. s.orphans > 0 /\ Step(p, expire_orphan_timer(s)) /\ failures' = n
      BY <2>21 DEF OrphanTimerExpires, s, n
    <3> QED
      BY <2>1, <2>10, <3>1, TimersQuiet
  <2>22. CASE TestRequestCallback(p)
    <3>1. s.posted > 0 /\ Step(p, test_request_callback(s)) /\ failures' = n
      BY <2>22 DEF TestRequestCallback, s, n
    <3> QED
      BY <2>1, <2>10, <3>1, TimersQuiet
  <2> QED
    BY <1>3, <2>11, <2>12, <2>13, <2>14, <2>15, <2>16, <2>17, <2>18, <2>19, <2>20,
       <2>21, <2>22
<1> QED
  BY <1>2, <1>3 DEF Next

(* At the start nothing was written.                                       *)
LEMMA InitGapOnOneSide ==
    ASSUME AtMostOneGap, Init
    PROVE  GapOnOneSide
<1> DEFINE set == scenario.settings
<1>1. /\ scenario \in Scenarios /\ scenario \in Scenario /\ failures = 0
      /\ sessions = [q \in Peers |->
                        session(q, Heartbeat, set[q].delay, set[q].useNext,
                                set[q].incoming, set[q].outgoing)]
  BY PairAssumption DEF Init
<1>2. \/ scenario.failures = 0 /\ \E p \in Peers : set[p].incoming = set[Other(p)].outgoing
      \/ scenario.failures = 1 /\ \A p \in Peers : set[p].incoming = set[Other(p)].outgoing
  BY <1>1 DEF AtMostOneGap
<1>3. ASSUME NEW p \in Peers, set[p].incoming = set[Other(p)].outgoing
      PROVE  OneSided(sessions[p], sessions[Other(p)])
  <2> DEFINE q == Other(p)
             s == sessions[p]
             t == sessions[q]
             x == set[q].outgoing
  <2>1. q \in Peers
    BY DEF Other, Peers, Behaviours
  <2>2. /\ s.state = "connected" /\ s.incoming = x
        /\ t.state = "connected" /\ t.outgoing = x /\ t.out = <<>>
    BY <1>1, <1>3, <2>1 DEF session
  <2>3. x \in Nat
    BY <1>1, <2>1 DEF Scenario, Settings
  <2> HIDE DEF q, s, t, x
  <2>4. InStep(s, t)
    <3>1. Len(t.out) = 0 /\ x = x + (0 - 0) /\ \A i \in (0 + 1)..0 : FALSE
      BY <2>2, <2>3
    <3> QED
      BY <2>2, <3>1 DEF InStep, RunsFrom
  <2>5. OneSided(s, t)
    BY <2>2, <2>4 DEF OneSided, UnderWay
  <2> QED
    BY <2>5 DEF s, t, q
<1>4. PICK p \in Peers : set[p].incoming = set[Other(p)].outgoing
  <2>1. "acceptor" \in Peers
    BY DEF Peers, Behaviours
  <2> QED
    BY <1>2, <2>1
<1>5. failures < scenario.failures => \A o \in Peers : set[o].incoming = set[Other(o)].outgoing
  BY <1>1, <1>2
<1>6. scenario.failures <= 1
  BY <1>2
<1> HIDE DEF set
<1> QED
  BY <1>3, <1>4, <1>5, <1>6 DEF GapOnOneSide

(* What is under way, counted: a session that is behind has one request or *)
(* one answer under way, any other has none.                               *)
LEMMA RecoveriesCounted ==
    ASSUME NEW s, NEW t, NEW n \in Nat, Pair(s, t, n), Connected(s),
           Behind(s) => Requested(s) \/ Answered(t)
    PROVE  Cardinality({i \in DOMAIN s.out : s.out[i].type = "ResendRequest"})
           + Cardinality({i \in DOMAIN t.out : GapFill(t.out[i])})
           = IF Behind(s) THEN 1 ELSE 0
<1> DEFINE R == {i \in DOMAIN s.out : s.out[i].type = "ResendRequest"}
           F == {i \in DOMAIN t.out : GapFill(t.out[i])}
<1>1. s \in SessionRecord /\ t \in SessionRecord /\ Paired(s, t, n)
  BY DEF Pair
<1>2. DOMAIN s.out = 1..Len(s.out) /\ DOMAIN t.out = 1..Len(t.out)
  BY <1>1, FieldTypes
<1>3. OneAtMost(s, t) /\ RequestsMatch(s) /\ FillsMatch(s, t)
  BY <1>1 DEF Paired, Recovers, Connected
<1>4. \A i : i \in R <=> i \in 1..Len(s.out) /\ IsRequest(s.out[i])
  BY <1>2 DEF IsRequest
<1>5. \A i : i \in F <=> i \in 1..Len(t.out) /\ IsFill(t.out[i])
  <2>1. PICK p \in Peers : Proper(t, Other(p))
    BY DEF Pair
  <2>2. \A i \in 1..Len(t.out) : IsFill(t.out[i]) => t.out[i].gapFill
    BY <2>1 DEF Proper, Sane
  <2> QED
    BY <1>2, <2>2 DEF GapFill, IsFill
<1> HIDE DEF R, F
<1>6. CASE ~Behind(s)
  <2>1. R = {} /\ F = {}
    BY <1>3, <1>4, <1>5, <1>6 DEF RequestsMatch, FillsMatch
  <2>2. Cardinality(R) = 0 /\ Cardinality(F) = 0
    BY <2>1, FS_EmptySet
  <2> QED
    BY <1>6, <2>2 DEF R, F
<1>7. CASE Behind(s) /\ Requested(s)
  <2>1. PICK i \in 1..Len(s.out) : IsRequest(s.out[i])
    BY <1>7 DEF Requested
  <2>2. R = {i} /\ F = {}
    BY <1>3, <1>4, <1>5, <2>1 DEF OneAtMost
  <2>3. Cardinality(R) = 1 /\ Cardinality(F) = 0
    BY <2>2, FS_EmptySet, FS_Singleton
  <2> QED
    BY <1>7, <2>3 DEF R, F
<1>8. CASE Behind(s) /\ Answered(t)
  <2>1. PICK k \in 1..Len(t.out) : IsFill(t.out[k])
    BY <1>8 DEF Answered
  <2>2. F = {k} /\ R = {}
    BY <1>3, <1>4, <1>5, <2>1 DEF OneAtMost
  <2>3. Cardinality(F) = 1 /\ Cardinality(R) = 0
    BY <2>2, FS_EmptySet, FS_Singleton
  <2> QED
    BY <1>8, <2>3 DEF R, F
<1> QED
  BY <1>6, <1>7, <1>8

(* As long as both sessions are connected, one that still waits for        *)
(* messages up to its target has exactly one ResendRequest or one gap fill *)
(* under way, and any other none: no request is lost, repeated or dropped, *)
(* for every size of the gap and however heartbeats, application messages, *)
(* delayed TestRequests and the messages of the recovery interleave, as    *)
(* long as no second gap opens.                                            *)
THEOREM RecoveryIsUnderWay ==
    ASSUME StartsBehind, WithoutNextExpected, AtMostOneGap
    PROVE  Spec => []OneRecovery
<1>1. Init => GapOnOneSide
  BY InitGapOnOneSide
<1>2. TypeOK /\ StreamsInOrder /\ PairInv /\ GapOnOneSide /\ [Next]_vars => GapOnOneSide'
  BY NextGapOnOneSide
<1>3. TypeOK /\ PairInv /\ GapOnOneSide => OneRecovery
  <2> SUFFICES ASSUME TypeOK, PairInv, GapOnOneSide, scenario.resets = 0,
                      \A o \in Peers : sessions[o].state # "disconnected",
                      NEW p \in Peers
               PROVE  Recoveries(p) = IF /\ sessions[p].state = "resending"
                                         /\ sessions[p].incoming <= sessions[p].target
                                      THEN 1 ELSE 0
    BY DEF OneRecovery
  <2> DEFINE q == Other(p)
             s == sessions[p]
             t == sessions[q]
  <2>1. q \in Peers /\ Other(q) = p /\ Peers = {p, q} /\ failures \in Nat
    BY DEF Other, Peers, Behaviours, TypeOK
  <2>2. Pair(s, t, failures) /\ Connected(s)
    BY <2>1 DEF PairInv, Connected
  <2>3. OneSided(s, t) \/ OneSided(t, s)
    BY <2>1 DEF GapOnOneSide, Connected
  <2>4. Recoveries(p) =
            Cardinality({i \in DOMAIN s.out : s.out[i].type = "ResendRequest"})
            + Cardinality({i \in DOMAIN t.out : GapFill(t.out[i])})
    BY DEF Recoveries, Stream
  <2> HIDE DEF q, s, t
  <2>5. Behind(s) => Requested(s) \/ Answered(t)
    BY <2>3 DEF OneSided, UnderWay, Behind
  <2>6. Recoveries(p) = IF Behind(s) THEN 1 ELSE 0
    BY <2>1, <2>2, <2>4, <2>5, RecoveriesCounted
  <2> QED
    BY <2>6 DEF Behind, s
<1> QED
  BY <1>1, <1>2, <1>3, TypeCorrect, StreamsStayInOrder, PairInvariant, PTL DEF Spec
=============================================================================
