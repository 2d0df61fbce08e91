----------------------------- MODULE SslStream ------------------------------
(***************************************************************************)
(* The framing of the control connection: messages as bytes of a stream,   *)
(* which Transport::doReceiveSsl cuts up again.  A read takes the message  *)
(* from the start of its buffer; after every piece the stream yields, its  *)
(* completion condition says how many bytes it still wants, and the        *)
(* composed operation never takes more than that.  When it wants none the  *)
(* message is processed and the next read starts with an empty buffer: a   *)
(* byte read too many would be lost.                                       *)
(*                                                                         *)
(* The server is external; it writes whole messages, until the connection  *)
(* closes and takes some of what was under way with it.  A length is below *)
(* 2^31, so that the int in which the code keeps it holds it.              *)
(***************************************************************************)
EXTENDS Integers, Sequences, SequencesExt

CONSTANTS
    Base,       \* 256
    MaxLength,  \* MUMBLE_TCP_MAXLENGTH, the size of the buffer
    Message,    \* the messages the server sends, each a type and the bytes of its payload
    Fatal,      \* the types whose processing throws
    MaxSent     \* bound: messages sent

ASSUME BaseAssumption == Base \in Nat \ {0, 1}
ASSUME LengthAssumption == MaxLength \in Nat /\ MaxLength >= 6
ASSUME SentAssumption == MaxSent \in Nat

Byte == 0 .. Base - 1

\* The values of two and of four bytes.
Short == Base * Base
Word == Short * Short

ASSUME MessageAssumption ==
    /\ Message \subseteq [type : 0 .. Short - 1, payload : Seq(Byte)]
    /\ \A m \in Message : 2 * Len(m.payload) < Word

VARIABLES
    stream,    \* the bytes on their way
    closed,    \* the connection is closed
    buffer,    \* what the read that is under way has taken
    wanted,    \* what its completion condition has asked for
    reading,   \* whether a read is under way
    sent,      \* history: the messages the server has sent
    received   \* the messages processed

vars == <<stream, closed, buffer, wanted, reading, sent, received>>

HeaderSize == 6

Init ==
    /\ stream = << >>
    /\ closed = FALSE
    /\ buffer = << >>
    /\ wanted = HeaderSize
    /\ reading = TRUE
    /\ sent = << >>
    /\ received = << >>

-----------------------------------------------------------------------------
\* The type in two bytes and the length of the payload in four, most
\* significant first, then the payload.
Frame(m) ==
    LET high == Len(m.payload) \div Short
        low  == Len(m.payload) % Short
    IN  << m.type \div Base, m.type % Base,
           high \div Base, high % Base, low \div Base, low % Base >>
        \o m.payload

Send(m) ==
    /\ ~closed
    /\ Len(sent) < MaxSent
    /\ stream' = stream \o Frame(m)
    /\ sent' = Append(sent, m)
    /\ UNCHANGED <<closed, buffer, wanted, reading, received>>

\* Of what is under way the end may be lost.
Close ==
    /\ ~closed
    /\ closed' = TRUE
    /\ \E n \in 0 .. Len(stream) : stream' = SubSeq(stream, 1, n)
    /\ UNCHANGED <<buffer, wanted, reading, sent, received>>

-----------------------------------------------------------------------------
\* Mutant: the bytes of the length are taken in the order of the machine.
PayloadSizeUnswapped(b) == b[3] + b[4] * Base + (b[5] + b[6] * Base) * Short

PayloadSize(b) == (b[3] * Base + b[4]) * Short + b[5] * Base + b[6]

WholeMessageLength(b) == PayloadSize(b) + HeaderSize

MessageType(b) == b[1] * Base + b[2]

\* Mutants: a message that fills the buffer is too long; the length of the
\* payload is compared.
TooLongFull(b) == Len(b) >= HeaderSize /\ WholeMessageLength(b) >= MaxLength
TooLongPayload(b) == Len(b) >= HeaderSize /\ PayloadSize(b) > MaxLength

TooLong(b) == Len(b) >= HeaderSize /\ WholeMessageLength(b) > MaxLength

\* Mutants: a header is asked for whatever there is of it; what there is is
\* not taken off.
RemainingHeader(b) ==
    IF Len(b) < HeaderSize THEN HeaderSize ELSE (WholeMessageLength(b) - Len(b)) % (Word * Word)
RemainingAgain(b) == IF Len(b) < HeaderSize THEN HeaderSize - Len(b) ELSE PayloadSize(b)

\* The completion condition.  The subtraction is made in a size_t.
Remaining(b) ==
    IF Len(b) < HeaderSize THEN HeaderSize - Len(b)
    ELSE (WholeMessageLength(b) - Len(b)) % (Word * Word)

\* The operation ends when nothing more is wanted or the buffer is full.
Complete(b) == Remaining(b) = 0 \/ Len(b) = MaxLength

\* The read is under way again, from the start of the buffer.
DoReceiveSsl == reading' = TRUE /\ buffer' = << >> /\ wanted' = HeaderSize

\* An exception from the completion condition or from the processing: nothing reads on.
Ends == reading' = FALSE /\ UNCHANGED <<buffer, wanted>>

\* The stream yields another piece of the message.
ReadSome ==
    /\ reading
    /\ \E n \in 1 .. Len(stream) :
          LET b == buffer \o SubSeq(stream, 1, n)
              m == [type |-> MessageType(b), payload |-> SubSeq(b, HeaderSize + 1, Len(b))]
          IN  /\ n <= wanted
              /\ Len(b) <= MaxLength
              /\ stream' = SubSeq(stream, n + 1, Len(stream))
              /\ \/ TooLong(b) /\ Ends /\ UNCHANGED received
                 \/ /\ ~TooLong(b) /\ Complete(b)
                    /\ received' = Append(received, m)
                    /\ IF m.type \in Fatal THEN Ends ELSE DoReceiveSsl
                 \/ /\ ~TooLong(b) /\ ~Complete(b)
                    /\ buffer' = b
                    /\ wanted' = Remaining(b)
                    /\ UNCHANGED <<reading, received>>
    /\ UNCHANGED <<closed, sent>>

\* At the end of the stream the next piece is an error.  The completion condition does
\* not look at it and asks for what the message still wants; only if that were nothing
\* would the operation end.
ReadFails ==
    /\ reading
    /\ closed
    /\ stream = << >>
    /\ wanted' = Remaining(buffer)
    /\ reading' = (wanted' # 0)
    /\ UNCHANGED <<stream, closed, buffer, sent, received>>

Next == (\E m \in Message : Send(m)) \/ Close \/ ReadSome \/ ReadFails

Spec == Init /\ [][Next]_vars

\* The loop takes what has arrived.
FairSpec == Spec /\ WF_vars(ReadSome)

-----------------------------------------------------------------------------
(***************************************************************************)
(* Properties                                                              *)
(***************************************************************************)

\* The messages that are not processed yet.
Inbox == SubSeq(sent, Len(received) + 1, Len(sent))

\* Every variable has its type; what a read still wants has room in its buffer.
TypeOK ==
    /\ stream \in Seq(Byte)
    /\ buffer \in Seq(Byte)
    /\ wanted \in Nat
    /\ reading => Len(buffer) + wanted <= MaxLength
    /\ {closed, reading} \subseteq BOOLEAN
    /\ sent \in Seq(Message)
    /\ received \in Seq(Message)

\* What the read under way has taken and what is still on its way are together
\* the messages not yet processed, from the start of the first one on: no byte of
\* the next message is ever swallowed with the one before it, and none is left
\* behind (the completion condition of doReceiveSsl).
StreamIsInbox ==
    reading =>
        LET frames == FlattenSeq([i \in DOMAIN Inbox |-> Frame(Inbox[i])])
        IN  IF closed THEN IsPrefix(buffer \o stream, frames) ELSE buffer \o stream = frames

\* The reading ends only with a message whose processing throws, or with one that is
\* too long for the buffer, and never otherwise, not even with the connection (the
\* completion condition, its comparison with MUMBLE_TCP_MAXLENGTH, and the error that
\* it does not look at).
EndsForAReason ==
    ~reading =>
        \/ received # << >> /\ Last(received).type \in Fatal
        \/ Inbox # << >> /\ Len(Frame(Head(Inbox))) > MaxLength

\* What the layers above see is a queue of messages, in whatever pieces the stream
\* delivers them.
Queue == INSTANCE MessageQueue WITH inbox <- Inbox, open <- reading

ImplementsQueue == Queue!Spec

\* A message that has been sent is processed, unless the reading or the connection
\* ends first: no length, none at all included, leaves the read waiting for bytes
\* of the next message.
AllReceived ==
    \A n \in 1 .. MaxSent :
        Len(sent) >= n ~> Len(received) >= n \/ closed \/ ~reading
=============================================================================
