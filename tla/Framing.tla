------------------------------ MODULE Framing ------------------------------
(***************************************************************************)
(* protocol.rs: where the first message of a server ends (message_len) and *)
(* whether it is one of the protocol (parse).  Bytes are numbers; the text *)
(* fields that parse also extracts are left out, and so are bytes outside  *)
(* ASCII.                                                                  *)
(***************************************************************************)
EXTENDS Integers, Sequences, FiniteSetsExt, SequencesExt

CONSTANT isize_MAX   \* the largest value of an isize

ASSUME FramingAssumption == isize_MAX \in Nat

Protocol == {"ssh", "ftp", "mysql", "smtp", "redis", "postgres"}

LF == 10
CR == 13
SP == 32
PLUS == 43
DASH == 45
COLON == 58
DOLLAR == 36
STAR == 42
Digit == 48 .. 57
Alphabetic == (65 .. 90) \cup (97 .. 122)

(* Ok(None), Ok(Some(n)) and Err(status) *)
More == [tag |-> "more", len |-> 0, status |-> "ok"]
Complete(n) == [tag |-> "complete", len |-> n, status |-> "ok"]
Error(s) == [tag |-> "error", len |-> 0, status |-> s]

Verdict == {More} \cup {Complete(n) : n \in Nat}
             \cup {Error(s) : s \in {"protocol_mismatch", "oversized"}}

(* mutant: the line found last, not first *)
last_line_end(data, from) ==
    LET ends == {e \in from + 2 .. Len(data) : data[e - 1] = CR /\ data[e] = LF}
    IN  IF ends = {} THEN 0 ELSE Max(ends)

(* The end of the first line that begins at or after from, 0 if there is   *)
(* none.                                                                   *)
line_end(data, from) ==
    LET ends == {e \in from + 2 .. Len(data) : data[e - 1] = CR /\ data[e] = LF}
    IN  IF ends = {} THEN 0 ELSE Min(ends)

CompleteAt(end) == IF end = 0 THEN More ELSE Complete(end)

(* The last line of a reply of several lines: the code and a blank,        *)
(* wherever they come first after the first line.                          *)
multiline_end(data, first_end) ==
    LET needle == SubSeq(data, 1, 3) \o <<SP>>
        at == {i \in first_end .. Len(data) - 4 : SubSeq(data, i + 1, i + 4) = needle}
    IN  IF at = {} THEN 0 ELSE line_end(data, Min(at))

ftp_len(data) ==
    LET first_end == line_end(data, 0)
        code == Len(data) >= 4 /\ \A i \in 1 .. 3 : data[i] \in Digit
    IN  IF first_end = 0
        THEN More
        ELSE CASE code /\ data[4] = SP -> Complete(first_end)
               [] code /\ data[4] = DASH -> CompleteAt(multiline_end(data, first_end))
               [] OTHER -> Error("protocol_mismatch")

smtp_len(data) == ftp_len(data)

ssh_len(data) ==
    LET ends == {i \in 1 .. Len(data) : data[i] = LF}
    IN  CompleteAt(IF ends = {} THEN 0 ELSE Min(ends))

(* A message whose length stands in its header. *)
Sized(data, total, max) ==
    CASE total > max -> Error("oversized")
      [] total <= max /\ Len(data) >= total -> Complete(total)
      [] total <= max /\ Len(data) < total -> More

LittleEndian(b) == b[1] + 256 * b[2] + 65536 * b[3]

mysql_len(data, max) ==
    IF Len(data) < 4
    THEN More
    ELSE Sized(data, LittleEndian(data) + 4, max)

(* A signed decimal number, as isize::from_str reads it; one that is too   *)
(* large is none.                                                          *)
Unsigned(text) == IF text # <<>> /\ Head(text) \in {PLUS, DASH} THEN Tail(text) ELSE text

Value(text) ==
    LET digits == Unsigned(text)
        read[n \in 0 .. Len(digits)] ==
            IF n = 0 THEN 0 ELSE 10 * read[n - 1] + (digits[n] - 48)
    IN  read[Len(digits)]

IsNumber(text) ==
    /\ Unsigned(text) # <<>>
    /\ \A i \in DOMAIN Unsigned(text) : Unsigned(text)[i] \in Digit
    /\ Value(text) <= IF Head(text) = DASH THEN isize_MAX + 1 ELSE isize_MAX

Negative(text) == Head(text) = DASH /\ Value(text) > 0

redis_bulk_len(data) ==
    LET header_end == line_end(data, 0)
        text == SubSeq(data, 2, header_end - 2)
        total == IF Negative(text) THEN header_end ELSE header_end + Value(text) + 2
    IN  CASE header_end = 0 -> More
          [] header_end # 0 /\ ~IsNumber(text) -> Error("protocol_mismatch")
          [] header_end # 0 /\ IsNumber(text) ->
                IF total \in 0 .. Len(data) THEN Complete(total) ELSE More

redis_len(data) ==
    IF data = <<>>
    THEN More
    ELSE CASE Head(data) \in {PLUS, DASH, COLON, STAR} -> CompleteAt(line_end(data, 0))
           [] Head(data) = DOLLAR -> redis_bulk_len(data)
           [] OTHER -> Error("protocol_mismatch")

BigEndian(b) == ((b[1] * 256 + b[2]) * 256 + b[3]) * 256 + b[4]

postgres_len(data, max) ==
    IF Len(data) < 5
    THEN More
    ELSE IF data[1] \notin Alphabetic \/ BigEndian(SubSeq(data, 2, 5)) < 4
         THEN Error("protocol_mismatch")
         ELSE Sized(data, BigEndian(SubSeq(data, 2, 5)) + 1, max)

Framed(protocol, data, max) ==
    CASE protocol = "ssh" -> ssh_len(data)
      [] protocol = "ftp" -> ftp_len(data)
      [] protocol = "mysql" -> mysql_len(data, max)
      [] protocol = "smtp" -> smtp_len(data)
      [] protocol = "redis" -> redis_len(data)
      [] protocol = "postgres" -> postgres_len(data, max)

message_len(protocol, data, max) ==
    IF Len(data) > max THEN Error("oversized") ELSE Framed(protocol, data, max)

-----------------------------------------------------------------------------
(* parse: whether a complete message is accepted *)

Chomp(data) ==
    LET line == IF data # <<>> /\ Last(data) = LF THEN Front(data) ELSE data
    IN  IF line # <<>> /\ Last(line) = CR THEN Front(line) ELSE line

parse_ssh(data) ==
    LET line == Chomp(data)
    IN  /\ IsPrefix(<<83, 83, 72, DASH>>, line)
        /\ \E i \in 5 .. Len(line) : line[i] = DASH

parse_reply(data) == IsPrefix(<<50, 50, 48>>, data)

(* The version ends at the first zero byte; four bytes of connection id    *)
(* follow.                                                                 *)
parse_mysql(data) ==
    /\ Len(data) >= 5 /\ data[4] = 0 /\ data[5] = 10
    /\ LET nuls == {i \in 6 .. Len(data) : data[i] = 0}
       IN  nuls # {} /\ Len(data) >= Min(nuls) + 4

parse_redis(data) == data # <<>> /\ Head(data) \in {PLUS, DASH, COLON, DOLLAR, STAR}

parse_postgres(data) == data # <<>>

parse(protocol, data) ==
    CASE protocol = "ssh" -> parse_ssh(data)
      [] protocol \in {"ftp", "smtp"} -> parse_reply(data)
      [] protocol = "mysql" -> parse_mysql(data)
      [] protocol = "redis" -> parse_redis(data)
      [] protocol = "postgres" -> parse_postgres(data)

=============================================================================
