---------------------------- MODULE MessageCodec ----------------------------
(***************************************************************************)
(* How a message is written as tag=value<SOH> fields and read back:        *)
(* message::encode and message::decode, the collection of fields they work *)
(* on, and the two checks a session makes of what decode leaves behind.    *)
(* Bytes are numbers; a value is a sequence of bytes.                      *)
(***************************************************************************)
EXTENDS Integers, Sequences, FiniteSets, SequencesExt

CONSTANTS
    Tags,          \* the tags the dictionary knows
    DataTags,      \* those of fields that hold data, after a length field
    CharIsSigned   \* whether char is signed on this platform

ASSUME CodecAssumption ==
    /\ Tags \subseteq Nat \ {0}
    /\ DataTags \subseteq Tags
    /\ CharIsSigned \in BOOLEAN

Byte == 0..255
value_separator == 61
field_separator == 1
Zero == 48

BodyLength == 9
CheckSum == 10

field(tag, value) == [tag |-> tag, value |-> value]

-----------------------------------------------------------------------------
(* Numbers as text.                                                        *)

(* The decimal digits of an int.                                           *)
number_of_digits(n) == 1 + Cardinality({k \in 1..9 : n >= 10^k})

RECURSIVE to_chars(_)
to_chars(n) ==
    IF n < 10 THEN <<Zero + n>> ELSE Append(to_chars(n \div 10), Zero + (n % 10))

(* What from_chars and stoi read from the start of a text: the number its  *)
(* leading digits denote, or NotANumber if there is none.                  *)
NotANumber == -1
from_chars(text) ==
    LET isDigit(b) == b \in Zero..(Zero + 9)
        stop == SelectInSeq(text, LAMBDA b : ~isDigit(b))
        digits == IF stop = 0 THEN text ELSE SubSeq(text, 1, stop - 1)
    IN  IF digits = <<>> THEN NotANumber
        ELSE FoldLeft(LAMBDA n, b : 10 * n + (b - Zero), 0, digits)

-----------------------------------------------------------------------------
(* The fields of a message.                                                *)

find(fields, tag) == SelectInSeq(fields, LAMBDA f : f.tag = tag)

set(fields, f, operation) ==
    LET existing == find(fields, f.tag)
    IN  CASE operation = "append" -> Append(fields, f)
          [] operation # "append" /\ existing # 0 -> [fields EXCEPT ![existing] = f]
          [] OTHER -> IF operation = "replace_first_or_append" THEN Append(fields, f) ELSE fields

(* remove, with the default operation remove_first.                        *)
remove(fields, tag) ==
    LET first == find(fields, tag)
    IN  IF first = 0 THEN fields ELSE RemoveAt(fields, first)

(* A message with an empty header and the given fields in it or behind it. *)
HeaderTags == <<8, BodyLength, 35, 49, 56, 34, 52>>

message_with_header(fields) ==
    LET header == [i \in DOMAIN HeaderTags |-> field(HeaderTags[i], <<>>)]
        filled[i \in 0..Len(fields)] ==
            IF i = 0 THEN header
            ELSE set(filled[i - 1], fields[i], "replace_first_or_append")
    IN  filled[Len(fields)]

-----------------------------------------------------------------------------
(* Checksums.                                                              *)

char(b) == IF CharIsSigned /\ b > 127 THEN b - 256 ELSE b

Total(numbers) ==
    LET sum[i \in 0..Len(numbers)] == IF i = 0 THEN 0 ELSE sum[i - 1] + numbers[i]
    IN  sum[Len(numbers)]

reduce(bytes) == Total([i \in DOMAIN bytes |-> char(bytes[i])])

(* Mutant: the sum itself.                                                 *)
SumWithoutRemainder(bytes) == reduce(bytes)

(* C++'s remainder has the sign of the dividend.  The caller stores it as  *)
(* an unsigned number, in which a negative one is huge.                    *)
calculate_checksum(bytes) ==
    LET sum == reduce(bytes)
    IN  IF sum >= 0 THEN sum % 256 ELSE -((-sum) % 256)

(* Three digits.  A number that needs more makes it throw.                 *)
CanFormat(checksum) == checksum \in 0..999
format_checksum(checksum) ==
    <<Zero + (checksum \div 100), Zero + ((checksum \div 10) % 10), Zero + (checksum % 10)>>

-----------------------------------------------------------------------------
(* message::encode.                                                        *)

(* The fields between BodyLength and CheckSum, in bytes.                   *)
calculate_body_length(fields) ==
    LET first == find(fields, BodyLength)
        last == find(fields, CheckSum)
        upto == IF last = 0 THEN Len(fields) ELSE last - 1
        body == IF first = 0 THEN <<>> ELSE SubSeq(fields, first + 1, upto)
    IN  Total([i \in DOMAIN body |->
                  number_of_digits(body[i].tag) + Len(body[i].value) + 2])

encode_field(f) ==
    to_chars(f.tag) \o <<value_separator>> \o f.value \o <<field_separator>>

encode_fields(fields) == FlattenSeq([i \in DOMAIN fields |-> encode_field(fields[i])])

Encoded(outcome, fields, bytes) ==
    [outcome |-> outcome, fields |-> fields, bytes |-> bytes]

(* The value BodyLength gets, if there is one.                             *)
set_body_length(fields, options) ==
    IF "set_body_length" \in options
    THEN set(fields, field(BodyLength, to_chars(calculate_body_length(fields))), "replace_first")
    ELSE fields

(* The CheckSum field behind the bytes it is the sum of.                   *)
append_checksum(fields, bytes, checksum, size) ==
    LET whole == bytes \o encode_field(checksum)
    IN  Encoded(IF Len(whole) > size THEN "no room" ELSE "encoded",
                set(fields, checksum, "replace_first"), whole)

encode_measured(fields, options, size) ==
    LET last == IF "set_checksum" \in options THEN find(fields, CheckSum) ELSE 0
        bytes == encode_fields(IF last = 0 THEN fields ELSE SubSeq(fields, 1, last - 1))
        sum == calculate_checksum(bytes)
    IN  CASE Len(bytes) > size -> Encoded("no room", fields, bytes)
          [] Len(bytes) <= size /\ last = 0 -> Encoded("encoded", fields, bytes)
          [] OTHER ->
                IF CanFormat(sum)
                THEN append_checksum(fields, bytes, field(CheckSum, format_checksum(sum)), size)
                ELSE Encoded("throws", fields, bytes)

(* The outcome is "encoded", or "no room" if a field does not fit into the *)
(* size bytes of the buffer, or "throws".  With set_checksum the first     *)
(* CheckSum field gets the sum of what is before it, and ends the message. *)
encode(fields, options, size) ==
    encode_measured(set_body_length(fields, options), options, size)

-----------------------------------------------------------------------------
(* message::decode.                                                        *)

(* The message a reader builds up over several calls.  Of the sum only the *)
(* remainder by 256 is ever used, which wrapping around does not change.   *)
reset == [fields |-> <<>>, checksum |-> 0, valid |-> FALSE]

(* A field of n bytes, at the start of text, after which left bytes are    *)
(* left; or none, because the text ends before the field does, or because  *)
(* decode throws.                                                          *)
Parsed(tag, text, n) ==
    [outcome |-> "field", field |-> field(tag, SubSeq(text, 1, n)),
     left |-> Len(text) - (n + 1)]
NoField(outcome) == [outcome |-> outcome]

(* Data is as long as the field before it says, and followed by a separator. *)
data_field(tag, text, length) ==
    CASE length = NotANumber -> NoField("throws")
      [] length # NotANumber /\ length + 1 > Len(text) -> NoField("incomplete")
      [] OTHER -> IF text[length + 1] = field_separator THEN Parsed(tag, text, length)
                                                        ELSE NoField("throws")

(* Any other field ends at the first separator.                            *)
delimited_field(tag, text, delimiter) ==
    IF delimiter = 0 THEN NoField("incomplete") ELSE Parsed(tag, text, delimiter - 1)

(* The field whose tag has been read, after the given fields.              *)
field_with(tag, text, fields) ==
    CASE tag \notin Tags -> NoField("throws")
      [] tag \in DataTags ->
            IF fields = <<>> THEN NoField("throws")
            ELSE data_field(tag, text, from_chars(Last(fields).value))
      [] OTHER ->
            delimited_field(tag, text, SelectInSeq(text, LAMBDA b : b = field_separator))

(* One round of decode's loop: what it makes of the bytes from current on. *)
next_field(fields, bytes) ==
    LET equals == SelectInSeq(bytes, LAMBDA b : b = value_separator)
    IN  IF equals = 0 THEN NoField("incomplete")
        ELSE field_with(from_chars(SubSeq(bytes, 1, equals - 1)),
                        SubSeq(bytes, equals + 1, Len(bytes)), fields)

(* The loop, with current bytes consumed and the next round's result.  The *)
(* sum covers what is consumed up to the CheckSum field.                   *)
RECURSIVE decode_from(_, _, _, _)
decode_from(fields, buffer, current, next) ==
    IF next.outcome # "field"
    THEN [fields |-> fields, consumed |-> current, summed |-> current,
          outcome |-> next.outcome]
    ELSE LET read == Append(fields, next.field)
             after == Len(buffer) - next.left
         IN  IF next.field.tag = CheckSum
             THEN [fields |-> read, consumed |-> after, summed |-> current,
                   outcome |-> "complete"]
             ELSE decode_from(read, buffer, after,
                              next_field(read, SubSeq(buffer, after + 1, Len(buffer))))

(* Mutant: the sum of what earlier calls consumed is lost.                 *)
DecodedSumsOneCall(message, buffer, result) ==
    [consumed |-> result.consumed, outcome |-> result.outcome,
     message |-> [fields |-> result.fields,
                  checksum |-> reduce(SubSeq(buffer, 1, result.summed)) % 256,
                  valid |-> message.valid \/ result.outcome = "complete"]]

Decoded(message, buffer, result) ==
    [consumed |-> result.consumed, outcome |-> result.outcome,
     message |-> [fields |-> result.fields,
                  checksum |-> (message.checksum
                                + reduce(SubSeq(buffer, 1, result.summed))) % 256,
                  valid |-> message.valid \/ result.outcome = "complete"]]

decode(message, buffer) ==
    Decoded(message, buffer,
            decode_from(message.fields, buffer, 0, next_field(message.fields, buffer)))

-----------------------------------------------------------------------------
(* What the session asks of a message it reads.                            *)

validate_checksum(message) ==
    LET i == find(message.fields, CheckSum)
    IN  /\ i # 0
        /\ message.valid
        /\ message.fields[i].value = format_checksum(message.checksum)

validate_body_length(message) ==
    LET i == find(message.fields, BodyLength)
    IN  /\ i # 0
        /\ message.fields[i].value = to_chars(calculate_body_length(message.fields))

=============================================================================
