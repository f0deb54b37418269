------------------------------- MODULE MqWire -------------------------------
(***************************************************************************)
(* What happens to the bytes of a message between mq_client and the        *)
(* message queue server: send and register_mq, the read of recv_msg into   *)
(* its _buf, check_msg_crc, and mq_def over buffer on the way out.         *)
(*                                                                         *)
(* A char has Width bits, and sums wrap around.  A text has no zero byte,  *)
(* nor a % (send uses it as a format).  There is no length in a message    *)
(* and no mark at its end: recv_msg takes whatever one read returns for    *)
(* one message.  _buf is cleared when recv_msg is called and not between   *)
(* two reads of the same call, so bytes of a longer read stay behind a     *)
(* shorter one.                                                            *)
(***************************************************************************)
EXTENDS Naturals, Sequences, SequencesExt

CONSTANTS Width,      \* bits of a char, 8 in the code
          Chars,      \* the characters of texts and names
          NameSize,   \* the size of recv_msg's publisher_name, 128 in the code
          MaxText,    \* bound of the model: the length of a text or a name
          MaxSent     \* bound of the model: the messages a client sends

Byte == 0 .. 2^Width - 1

(* A name by itself fits into publisher_name with its terminating zero. *)
ASSUME WireAssumption ==
    /\ Width \in 5 .. 8 /\ Chars \subseteq Byte \ {0}
    /\ MaxSent \in Nat /\ MaxText \in Nat /\ NameSize \in Nat /\ MaxText < NameSize

Text == UNION {[1 .. k -> Chars] : k \in 1 .. MaxText}
Slots == 1 .. MaxSent * (MaxText + 2) + 1   \* BUFSIZE is larger than that
Zeros == [k \in Slots |-> 0]

VARIABLES
    sent,        \* how many messages the client has sent
    wire,        \* the messages on their way: type and text of each
    off,         \* how many bytes of the first one were read
    _buf,        \* recv_msg's buffer
    took,        \* the messages of the last read, if it ended where one ends
    fresh,       \* the last read was the first of a recv_msg
    result,      \* what recv_msg made of it; type 0 if nothing
    ub           \* publisher_name was written past its end, or read so

vars == <<sent, wire, off, _buf, took, fresh, result, ub>>

(* char sums. *)
Sum(s) == FoldSeq(LAMBDA x, acc : (x + acc) % 2^Width, 0, s)

(* mq_client::send: the checksum follows the text.  register_mq: it is     *)
(* added up one place too far, and what is sent is the terminating zero.   *)
Checksum(text) == Sum(<<1>> \o text)
send(text) == <<1>> \o text \o <<Checksum(text)>>
register_mq(name) == <<4>> \o name \o <<0>>
Bytes(m) == IF m.type = 1 THEN send(m.text) ELSE register_mq(m.text)

(* A C string: the bytes before the first zero. *)
CString(b) == LET end == CHOOSE k \in 1 .. Len(b) + 1 :
                            /\ k = Len(b) + 1 \/ b[k] = 0
                            /\ \A j \in 1 .. k - 1 : b[j] # 0
              IN  SubSeq(b, 1, end - 1)

(* check_msg_crc(buf, n), and a mutant that takes strlen for the length. *)
check_string_crc(b, n) == LET s == CString(b) IN s # <<>> /\ Last(s) = Sum(Front(s))
check_msg_crc(b, n) == b[n] = Sum(SubSeq(b, 1, n - 1))

(* buffer::push_back: _len is never moved, so everything goes to the start.*)
push_back(ptr, s) == [k \in Slots |-> IF k <= Len(s) THEN s[k] ELSE ptr[k]]

(* mq_def::encode_mq_msg and decode_mq_msg; the mutant keeps the last byte.*)
encode_mq_msg(b) == push_back(push_back(push_back(Zeros, <<1>>), CString(b)), <<1>>)
decodeFrontOnly(ptr) == LET s == CString(ptr) IN SubSeq(s, 2, Len(s))
decode_mq_msg(ptr) == LET s == CString(ptr) IN SubSeq(s, 2, Len(s) - 1)

(* What a subscriber's callback would get of it: nread bytes are written,  *)
(* and read as a C string.                                                 *)
Delivered(b, n) == LET s == decode_mq_msg(encode_mq_msg(b))
                   IN  IF Len(s) > n THEN SubSeq(s, 1, n) ELSE s

-----------------------------------------------------------------------------
Init ==
    /\ sent = 0 /\ wire = <<>> /\ off = 0
    /\ _buf = Zeros /\ took = <<>> /\ fresh = TRUE /\ result = [type |-> 0] /\ ub = FALSE

Write(type, text) ==
    /\ sent < MaxSent
    /\ sent' = sent + 1
    /\ wire' = Append(wire, [type |-> type, text |-> text])
    /\ UNCHANGED <<off, _buf, took, fresh, result, ub>>

All(ms) == FlattenSeq([k \in DOMAIN ms |-> Bytes(ms[k])])
Stream == SubSeq(All(wire), off + 1, Len(All(wire)))
Size(k) == Len(All(SubSeq(wire, 1, k)))

(* 0x1 with a correct checksum is sent on, and 0x4 has its name between    *)
(* the first byte and the last; the mutant thinks of a checksum too.  The  *)
(* n - 2 bytes are copied into publisher_name, for 0x16 as well, whatever  *)
(* n is: for one byte the length is that of a negative number, and without *)
(* a zero among them the name, which 0x4 uses, has no end.                 *)
NameShort(b, n) == CString(SubSeq(b, 2, n - 2))
Name(b, n) == CString(SubSeq(b, 2, n - 1))
Overrun(b, n) ==
    \/ b[1] \in {4, 22} /\ (n < 2 \/ n - 2 > NameSize)
    \/ b[1] = 4 /\ n - 2 = NameSize /\ Len(Name(b, n)) = NameSize
Handled(b, n) ==
    CASE b[1] = 1 /\ check_msg_crc(b, n) -> [type |-> 1, text |-> Delivered(b, n)]
      [] b[1] = 4 -> [type |-> 4, text |-> Name(b, n)]
      [] OTHER -> [type |-> 0]

(* A read of n bytes, and the switch of recv_msg on the first of them. *)
Read(n, first) ==
    LET old == IF first THEN Zeros ELSE _buf
        whole == {k \in 1 .. Len(wire) : Size(k) <= off + n}
        k == IF whole = {} THEN 0 ELSE Len(SelectSeq([j \in DOMAIN wire |-> j],
                                                      LAMBDA j : j \in whole))
    IN  /\ ~ ub /\ n <= Len(Stream)
        /\ _buf' = push_back(old, SubSeq(Stream, 1, n))
        /\ result' = Handled(_buf', n) /\ ub' = Overrun(_buf', n)
        /\ took' = IF off = 0 /\ k > 0 /\ Size(k) = n THEN SubSeq(wire, 1, k) ELSE <<>>
        /\ fresh' = first
        /\ wire' = SubSeq(wire, k + 1, Len(wire))
        /\ off' = off + n - Size(k)
        /\ UNCHANGED sent

Next ==
    \/ \E type \in {1, 4}, text \in Text : Write(type, text)
    \/ \E n \in 1 .. Len(Stream), first \in BOOLEAN : Read(n, first)

Spec == Init /\ [][Next]_vars

-----------------------------------------------------------------------------
(* Bytes are bytes, and what was made of a read is a text. *)
TypeOK ==
    /\ _buf \in [Slots -> Byte] /\ sent \in 0 .. MaxSent /\ fresh \in BOOLEAN
    /\ off < MaxText + 2
    /\ result.type # 0 => \A k \in DOMAIN result.text : result.text[k] \in Byte \ {0}

(* A publication that one read returns alone, into a cleared buffer, is    *)
(* passed on as it was sent, with one exception: when its checksum is zero *)
(* the C string ends before it, and the last character of the text goes.   *)
AloneIsExact ==
    Len(took) = 1 /\ fresh /\ took[1].type = 1 =>
        result = [type |-> 1, text |-> IF Checksum(took[1].text) = 0 THEN Front(took[1].text)
                                       ELSE took[1].text]

(* What earlier reads left in the buffer does not get in the way of a      *)
(* publication that a read returns alone: it is passed on with all of its  *)
(* text, behind which there may be its checksum and one old byte, and no   *)
(* more, because only as many bytes are written as were read.              *)
AloneIsPassedOn ==
    Len(took) = 1 /\ took[1].type = 1 /\ Checksum(took[1].text) # 0 =>
        LET text == took[1].text
            more == Append(text, Checksum(text))
        IN  /\ result.type = 1 /\ IsPrefix(text, result.text)
            /\ IsPrefix(result.text, more) \/ more = Front(result.text)

(* A subscriber's registration keeps the publisher's name whatever else is *)
(* in the buffer, behind it in the same read or left from an earlier one,  *)
(* as long as the whole read fits into publisher_name but for two bytes.   *)
NameIsExact ==
    Len(took) > 0 /\ took[1].type = 4 /\ Len(All(took)) <= NameSize + 2 =>
        ~ ub /\ result = [type |-> 4, text |-> took[1].text]

=============================================================================
