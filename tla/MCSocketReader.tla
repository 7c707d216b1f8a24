--------------------------- MODULE MCSocketReader ---------------------------
(* Scripts of SocketReader for TLC: short messages with the header fields  *)
(* that encode and decode treat specially.                                 *)
EXTENDS SocketReader

Text == 58
RawDataLength == 95
RawData == 96
UserDefined == 9999

MCTags == Range(HeaderTags) \cup {CheckSum, Text, RawDataLength, RawData}

Standard == {"set_body_length", "set_checksum"}

(* The given fields are added to an otherwise empty header.                *)
Message(fields, options) == [fields |-> message_with_header(fields), options |-> options]

Plain == Message(<<>>, Standard)
(* Data that holds a separator and an end of field.                        *)
Data == Message(<<field(RawDataLength, <<50>>),
                  field(RawData, <<field_separator, value_separator>>)>>, Standard)
(* One byte above 127, and as many as make the sum negative.               *)
Bytes(n, b) == [i \in 1..n |-> b]
OneHigh == Message(<<field(Text, <<200>>)>>, Standard)
ManyHigh == Message(<<field(Text, Bytes(12, 128))>>, Standard)
(* A field that fills the buffer, and one that is a byte too long.         *)
Exact == Message(<<field(Text, Bytes(ReadBufferSize - 4, 65))>>, Standard)
TooLong == Message(<<field(Text, Bytes(ReadBufferSize - 3, 65))>>, Standard)
TooBig == Message(<<field(Text, Bytes(WriteBufferSize, 65))>>, Standard)
(* What the tests send: a CheckSum or a BodyLength of the caller's own,    *)
(* and no BodyLength at all.                                               *)
Wrong == to_chars(666)
OwnCheckSum == Message(<<field(CheckSum, Wrong)>>, Standard \ {"set_checksum"})
OwnBodyLength == Message(<<field(BodyLength, Wrong)>>, Standard \ {"set_body_length"})
NoBodyLength == [OwnBodyLength EXCEPT !.fields = remove(OwnBodyLength.fields, BodyLength)]
(* A tag the dictionary does not know, and data without its length.        *)
Unknown == Message(<<field(UserDefined, <<65>>)>>, Standard)
NoLength == Message(<<field(RawData, <<65>>)>>, Standard)

Kinds == {Plain, Data, OneHigh, ManyHigh, Exact, TooLong, TooBig, OwnCheckSum,
          OwnBodyLength, NoBodyLength, Unknown, NoLength}

MCScripts == {<<m, n>> : m \in Kinds, n \in {Plain, Data, OneHigh, TooLong, Unknown}}
=============================================================================
