---------------------------- MODULE SocketReader ----------------------------
(***************************************************************************)
(* socket_reader: the bytes of the peer's messages arrive in pieces of any *)
(* size, are decoded field by field, and each complete message is          *)
(* dispatched to the session.                                              *)
(*                                                                         *)
(* The handler of a read appends what arrived and then decodes and         *)
(* dispatches in a loop.  Each round of the loop is a step, because the    *)
(* session a message is dispatched to may close the socket, itself or in a *)
(* handler that runs while it waits in a write.  No other read can start   *)
(* before the loop has ended.                                              *)
(***************************************************************************)
EXTENDS MessageCodec, TLC

CONSTANTS
    ReadBufferSize,    \* the size of m_read_buffer
    WriteBufferSize,   \* what the peer's writer has room for
    Scripts            \* what the peer may send: sequences of messages

ASSUME ReaderAssumption == ReadBufferSize \in Nat \ {0} /\ WriteBufferSize \in Nat

VARIABLES
    script,         \* the messages the peer has not sent yet
    sent,           \* those it has, as encode left them
    unsent,         \* those it could not encode
    socket,         \* the bytes written and not read, while the socket is open
    open,
    reading,        \* "armed", "decoding" in the handler, or "stopped"
    read_buffer,    \* m_read_buffer up to m_write_offset
    read_offset,
    message,        \* m_message
    dispatched      \* what the session has been given

peer == <<script, sent, unsent>>
vars == <<script, sent, unsent, socket, open, reading, read_buffer, read_offset,
          message, dispatched>>

write_offset == Len(read_buffer)
Unread == SubSeq(read_buffer, read_offset + 1, write_offset)

Init ==
    /\ script \in Scripts
    /\ sent = <<>> /\ unsent = <<>>
    /\ socket = <<>> /\ open = TRUE
    /\ reading = "armed"
    /\ read_buffer = <<>> /\ read_offset = 0
    /\ message = reset
    /\ dispatched = <<>>

(* The fields as session::send completes them: an empty CheckSum, which    *)
(* encode gives its value, comes last.                                     *)
Completed(m) ==
    IF "set_checksum" \in m.options
    THEN set(m.fields, field(CheckSum, <<>>), "replace_first_or_append") ELSE m.fields

(* The peer's writer encodes the next message, or throws.                  *)
Send ==
    /\ script # <<>>
    /\ \E result \in {encode(Completed(Head(script)), Head(script).options, WriteBufferSize)} :
          IF result.outcome = "encoded"
          THEN /\ socket' = socket \o result.bytes
               /\ sent' = Append(sent, [Head(script) EXCEPT !.fields = result.fields])
               /\ UNCHANGED unsent
          ELSE /\ unsent' = Append(unsent, Head(script))
               /\ UNCHANGED <<socket, sent>>
    /\ script' = Tail(script)
    /\ UNCHANGED <<open, reading, read_buffer, read_offset, message, dispatched>>

(* Mutant: the error of a read is ignored.                                 *)
ReadIgnoresErrors(n) ==
    /\ reading = "armed"
    /\ IF write_offset = ReadBufferSize \/ ~open THEN n = 0
       ELSE n \in 1..(ReadBufferSize - write_offset) /\ n <= Len(socket)
    /\ read_buffer' = read_buffer \o SubSeq(socket, 1, n)
    /\ socket' = SubSeq(socket, n + 1, Len(socket))
    /\ reading' = "decoding"
    /\ UNCHANGED <<peer, open, read_offset, message, dispatched>>

(* The read completes with n bytes.  One that has no room to read into     *)
(* completes at once with none, whether the socket is open or not.         *)
Read(n) ==
    /\ reading = "armed"
    /\ IF write_offset = ReadBufferSize THEN n = 0
       ELSE open /\ n \in 1..(ReadBufferSize - write_offset) /\ n <= Len(socket)
    /\ read_buffer' = read_buffer \o SubSeq(socket, 1, n)
    /\ socket' = SubSeq(socket, n + 1, Len(socket))
    /\ reading' = "decoding"
    /\ UNCHANGED <<peer, open, read_offset, message, dispatched>>

(* The read fails, because the socket was closed here or by the peer, and  *)
(* the exception leaves the handler.                                       *)
ReadFails ==
    /\ reading = "armed" /\ write_offset < ReadBufferSize
    /\ ~open \/ (script = <<>> /\ socket = <<>>)
    /\ reading' = "stopped"
    /\ UNCHANGED <<peer, socket, open, read_buffer, read_offset, message, dispatched>>

(* Mutants: the offsets are reset and nothing is moved; or the buffer is   *)
(* never emptied.                                                          *)
ReadMovesNothing(offset) ==
    IF write_offset = ReadBufferSize
    THEN /\ read_buffer' = SubSeq(read_buffer, 1, write_offset - offset)
         /\ read_offset' = 0
    ELSE /\ read_buffer' = read_buffer
         /\ read_offset' = offset

ReadNeverCompacts(offset) == read_buffer' = read_buffer /\ read_offset' = offset

(* socket_reader::read, after offset bytes have been decoded: what is left *)
(* moves to the start of a buffer that is full.                            *)
read(offset) ==
    IF write_offset = ReadBufferSize
    THEN /\ read_buffer' = SubSeq(read_buffer, offset + 1, write_offset)
         /\ read_offset' = 0
    ELSE /\ read_buffer' = read_buffer
         /\ read_offset' = offset

(* One round of the handler's loop.                                        *)
Decode ==
    /\ reading = "decoding"
    /\ \E result \in {decode(message, Unread)} :
          \/ /\ result.outcome = "complete"
             /\ dispatched' = Append(dispatched, result.message)
             /\ message' = reset
             /\ read_offset' = read_offset + result.consumed
             /\ UNCHANGED <<read_buffer, reading>>
          \/ /\ result.outcome = "incomplete"
             /\ message' = result.message
             /\ read(read_offset + result.consumed)
             /\ reading' = "armed"
             /\ UNCHANGED dispatched
          \/ /\ result.outcome = "throws"
             /\ reading' = "stopped"
             /\ UNCHANGED <<read_buffer, read_offset, message, dispatched>>
    /\ UNCHANGED <<peer, socket, open>>

(* The session closes its transport.                                       *)
Close ==
    /\ open
    /\ open' = FALSE
    /\ UNCHANGED <<peer, socket, reading, read_buffer, read_offset, message, dispatched>>

ReadSome == \E n \in 0..ReadBufferSize : Read(n)

Next == Send \/ ReadSome \/ ReadFails \/ Decode \/ Close

(* The peer sends what it has, and the io_context runs: weak fairness of   *)
(* the actions, with the conditions that enable them spelled out, because  *)
(* TLC evaluates ENABLED of an action that decodes very slowly.            *)
CanRead == reading = "armed" /\ (socket # <<>> \/ ~open \/ write_offset = ReadBufferSize)

Fairness ==
    /\ []<>(script = <<>>) \/ []<><<Send>>_vars
    /\ []<>(reading # "decoding") \/ []<><<Decode>>_vars
    /\ []<>(~CanRead) \/ []<><<ReadSome \/ ReadFails>>_vars

Spec == Init /\ [][Next]_vars /\ Fairness

-----------------------------------------------------------------------------
(* What FIX asks for: the sum of the bytes before CheckSum, and the length *)
(* of what is between BodyLength and CheckSum.                             *)
TrueCheckSum(fields) ==
    Total(encode_fields(SubSeq(fields, 1, find(fields, CheckSum) - 1))) % 256
TrueBodyLength(fields) ==
    Len(encode_fields(SubSeq(fields, find(fields, BodyLength) + 1,
                                     find(fields, CheckSum) - 1)))

(* However the bytes are split into reads, the session is given the        *)
(* messages that were sent, field by field, in their order, also if data   *)
(* holds separators; and its checks accept a CheckSum or a BodyLength just *)
(* when it is the true one, which it is if encode has set it, also if      *)
(* there are bytes above 127.                                              *)
DispatchedAsSent ==
    /\ Len(dispatched) <= Len(sent)
    /\ \A i \in DOMAIN dispatched :
          LET fields == sent[i].fields
              checksum == fields[find(fields, CheckSum)].value
              length == find(fields, BodyLength)
              m == dispatched[i]
          IN  /\ m.fields = fields
              /\ validate_checksum(m) <=> checksum = format_checksum(TrueCheckSum(fields))
              /\ validate_body_length(m) <=>
                    length # 0 /\ fields[length].value = to_chars(TrueBodyLength(fields))
              /\ "set_checksum" \in sent[i].options => validate_checksum(m)
              /\ "set_body_length" \in sent[i].options => validate_body_length(m)

FieldsOf(messages) == FlattenSeq([i \in DOMAIN messages |-> messages[i].fields])

(* The comment in socket_reader::read: what is left when decode wants more *)
(* is less than one field, and it is the start of the next one.            *)
RemainderIsOneField ==
    reading = "armed" =>
        LET fields == FieldsOf(sent)
            taken == FieldsOf(dispatched) \o message.fields
        IN  IF Len(taken) = Len(fields) THEN Unread = <<>>
            ELSE IsStrictPrefix(Unread, encode_field(fields[Len(taken) + 1]))

(* A message of seven bit characters that fits is always sent: only bytes  *)
(* above 127 can make the sum negative and encode throw.                   *)
AsciiIsSent ==
    \A i \in DOMAIN unsent :
        \/ Len(encode_fields(unsent[i].fields)) > WriteBufferSize
        \/ \E f \in Range(unsent[i].fields) : \E b \in Range(f.value) : b > 127

(* What decode can read: known tags, data after its length, and fields     *)
(* that fit into the read buffer.                                          *)
Readable(m) ==
    \A i \in DOMAIN m.fields :
        LET f == m.fields[i]
        IN  /\ f.tag \in Tags
            /\ f.tag \in DataTags =>
                  i > 1 /\ from_chars(m.fields[i - 1].value) = Len(f.value)
            /\ Len(encode_field(f)) <= ReadBufferSize

(* A message is dispatched in the end if it, and what was sent before it,  *)
(* can be read, unless the session closes.                                 *)
AllDispatched ==
    \A n \in UNION {DOMAIN s : s \in Scripts} :
        Len(sent) >= n /\ (\A i \in 1..n : Readable(sent[i]))
            ~> Len(dispatched) >= n \/ ~open

(* A reader whose socket is closed stops, however much is in its buffer,   *)
(* unless a field that does not fit keeps it busy for ever.                *)
ClosedStops ==
    ~open /\ (\A i \in DOMAIN sent : Readable(sent[i]))
        ~> reading = "stopped" \/ \E i \in DOMAIN sent : ~Readable(sent[i])

=============================================================================
