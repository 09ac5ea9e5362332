--------------------------- MODULE SocketTransport ---------------------------
(***************************************************************************)
(* A connection between the browser's processes.  The sender, clientsocket *)
(* of SocketInterface.py or sendData of privileged/sockets/api.js, writes  *)
(* a header and the payload of each message; the network passes the bytes  *)
(* on in pieces of any size; the reader is the extension's                 *)
(* (onInputStreamReady, which takes it that a message is there as a whole) *)
(* or Python's (_handle_conn, which reads until it has what it needs).     *)
(* A connection has one sender: the clientsocket that the threads of the   *)
(* TaskManager share without a lock is outside of this module.             *)
(***************************************************************************)
EXTENDS BufferPack, SequencesExt

CONSTANTS
  Payloads,    \* payloads of messages, sequences of bytes
  Symbols,     \* serialization symbols that may be sent, as bytes
  ExtSymbols,  \* those that the extension takes: 'j' and 'n'
  PySymbols,   \* those that Python takes: 'n', 'u', 'd' and 'j'
  Refused,     \* messages that Python's de-serializer refuses
  MaxMessages  \* bound: messages of the connection

ASSUME SocketAssumption ==
  /\ Payloads \subseteq Seq(Bytes) /\ Symbols \subseteq Bytes
  /\ ExtSymbols \subseteq Symbols /\ PySymbols \subseteq Symbols /\ MaxMessages \in Nat

ASSUME RefusedAssumption == Refused \subseteq PySymbols \X Payloads

\* The length of a payload fits in the header: four bytes count to 4 GiB.
ASSUME LengthAssumption == \A p \in Payloads : Len(p) <= MaxOf("L")

VARIABLES
  reader,    \* "extension" or "python"
  sent,      \* history: the messages, as <<symbol, payload>>
  wire,      \* the bytes that were written
  arrived,   \* how many of them have reached the reader's socket
  read,      \* how many of those the reader has taken
  header,    \* Python's reader: the header it has read, <<>> before
  listening, \* the reader will be called again
  broken,    \* the connection is closed
  queue,     \* messages that were passed on
  stuck      \* history: the reader raised, and is not called again

vars == <<reader, sent, wire, arrived, read, header, listening, broken, queue, stuck>>

HeaderFormat == <<"L", "c">>
HeaderLength == LengthOf(HeaderFormat, 2)

Init ==
  /\ reader \in {"extension", "python"}
  /\ sent = <<>> /\ wire = <<>> /\ arrived = 0 /\ read = 0 /\ header = <<>>
  /\ listening = TRUE /\ broken = FALSE /\ queue = <<>> /\ stuck = FALSE

Supported == IF reader = "extension" THEN ExtSymbols ELSE PySymbols

\* The messages that the reader passes on.
Accepted == (Supported \X Seq(Bytes)) \ (IF reader = "python" THEN Refused ELSE {})

\* sendData and clientsocket.send: header and payload, nothing between them.
Send(symbol, payload) ==
  /\ ~broken /\ Len(sent) < MaxMessages
  /\ sent' = Append(sent, <<symbol, payload>>)
  /\ wire' = wire \o Pack(TRUE, HeaderFormat, <<Len(payload), symbol>>) \o payload
  /\ UNCHANGED <<reader, arrived, read, header, listening, broken, queue, stuck>>

\* The network.
Arrive ==
  /\ ~broken
  /\ \E n \in (arrived + 1)..Len(wire) : arrived' = n
  /\ UNCHANGED <<reader, sent, wire, read, header, listening, broken, queue, stuck>>

\* The connection is closed; what has not arrived is lost.
Break ==
  /\ ~broken
  /\ broken' = TRUE
  /\ UNCHANGED <<reader, sent, wire, arrived, read, header, listening, queue, stuck>>

Available == arrived - read
Octets(first, n) == SubSeq(wire, read + first, read + first + n - 1)

Deliver(symbol, payload) ==
  queue' = IF <<symbol, payload>> \in Accepted THEN Append(queue, <<symbol, payload>>) ELSE queue

\* Mutant: after a symbol it does not know the reader is not called again.
AsksAgainIfSupported(symbol) == symbol \in Supported

\* asyncWait, whatever the symbol was.
AsksAgain(symbol) == symbol \in Symbols

\* Mutant: the payload of a message with an unknown symbol is not read.
PayloadTaken(symbol, size) == IF symbol \in Supported THEN size ELSE 0

\* readBytes takes the payload before the symbol is looked at.
Taken(symbol, size) == size

\* onInputStreamReady with data: readByteArray and readBytes throw when what
\* they want is not there, and then asyncWait is not called again.
OnInputStreamReady ==
  /\ reader = "extension" /\ listening /\ Available > 0
  /\ LET meta  == Unpack(TRUE, HeaderFormat, Octets(1, HeaderLength))
         whole == Available >= HeaderLength /\ Available - HeaderLength >= meta[1]
     IN \/ /\ whole
           /\ Deliver(meta[2], Octets(HeaderLength + 1, meta[1]))
           /\ read' = read + HeaderLength + Taken(meta[2], meta[1])
           /\ listening' = AsksAgain(meta[2]) /\ UNCHANGED stuck
        \/ /\ ~whole
           /\ listening' = FALSE /\ stuck' = TRUE
           /\ UNCHANGED <<read, queue>>
  /\ UNCHANGED <<reader, sent, wire, arrived, header, broken>>

\* receive_msg(client, 5).
ReceiveHeader ==
  /\ reader = "python" /\ listening /\ header = <<>> /\ Available >= HeaderLength
  /\ header' = Unpack(TRUE, HeaderFormat, Octets(1, HeaderLength))
  /\ read' = read + HeaderLength
  /\ UNCHANGED <<reader, sent, wire, arrived, listening, broken, queue, stuck>>

\* receive_msg(client, msglen), and what is done with the message.  If it is
\* refused, the handler means to go on, but traceback.format_exc(e) takes the
\* exception for a limit and raises a TypeError, which ends the thread; an error
\* of dill that is no ValueError ends it at once.  Nothing closes the connection.
ReceivePayload ==
  /\ reader = "python" /\ listening /\ header # <<>> /\ Available >= header[1]
  /\ LET payload == Octets(1, header[1]) IN
     /\ Deliver(header[2], payload)
     /\ IF <<header[2], payload>> \in Refused
        THEN listening' = FALSE /\ stuck' = TRUE
        ELSE UNCHANGED <<listening, stuck>>
  /\ read' = read + header[1] /\ header' = <<>>
  /\ UNCHANGED <<reader, sent, wire, arrived, broken>>

\* The reader comes to the end of a closed connection and stops.
EndOfStream ==
  /\ broken /\ listening
  /\ \/ reader = "extension" /\ Available = 0
     \/ reader = "python" /\ Available < (IF header = <<>> THEN HeaderLength ELSE header[1])
  /\ listening' = FALSE
  /\ UNCHANGED <<reader, sent, wire, arrived, read, header, broken, queue, stuck>>

Reader == OnInputStreamReady \/ ReceiveHeader \/ ReceivePayload \/ EndOfStream

Next ==
  \/ \E s \in Symbols, p \in Payloads : Send(s, p)
  \/ Arrive \/ Break \/ Reader

Spec == Init /\ [][Next]_vars

\* The network delivers and the reader is called.
FairSpec == Spec /\ WF_vars(Arrive) /\ WF_vars(Reader)

-----------------------------------------------------------------------------
TypeOK ==
  /\ reader \in {"extension", "python"}
  /\ sent \in Seq(Symbols \X Payloads) /\ queue \in Seq(Symbols \X Payloads)
  /\ wire \in Seq(Bytes) /\ arrived \in 0..Len(wire) /\ read \in 0..arrived
  /\ listening \in BOOLEAN /\ broken \in BOOLEAN /\ stuck \in BOOLEAN

\* Kept(ms, taken)[n]: those of the first n messages that are in `taken`.
Kept(ms, taken) ==
  LET kept[n \in 0..Len(ms)] ==
        IF n = 0 THEN <<>>
        ELSE IF ms[n] \in taken THEN Append(kept[n - 1], ms[n]) ELSE kept[n - 1]
  IN kept

\* The messages that the reader ought to pass on.
Expected == Kept(sent, Accepted)[Len(sent)]

(***************************************************************************)
(* Whatever the pieces in which the bytes arrive, the messages that are    *)
(* passed on are those that were sent, unchanged and in their order, less  *)
(* the ones whose symbol is not supported and those that Python refuses: a *)
(* reader that has lost its place in the stream never goes on.             *)
(***************************************************************************)
NothingGarbled == IsPrefix(queue, Expected)

(***************************************************************************)
(* The connection implements a queue of the messages that the reader       *)
(* accepts: each step passes on at most the one that has waited longest,  *)
(* and none goes away, even when the connection breaks.                    *)
(***************************************************************************)
Pipe == INSTANCE MessagePipe WITH
          Messages <- Symbols \X Payloads,
          waiting  <- SubSeq(Expected, Len(queue) + 1, Len(Expected)),
          passed   <- queue

PipeSpec == Pipe!Spec

(***************************************************************************)
(* Every message that the reader accepts is passed on in the end, although *)
(* others are not supported.  Exceptions: the connection breaks; the       *)
(* extension's reader has met a part of a message; Python has been sent    *)
(* one that it refuses, after which, against the `continue` of             *)
(* SocketInterface.py:91, nothing of the connection is read any more.      *)
(***************************************************************************)
AllReceived == []<>(queue = Expected \/ broken \/ stuck)
=============================================================================
