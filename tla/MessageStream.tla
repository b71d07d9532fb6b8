--------------------------- MODULE MessageStream ----------------------------
(***************************************************************************)
(* One direction of a TCP connection between two forwarders: the write     *)
(* buffer with its offset, filled by the forwarder's thread and drained by *)
(* the select loop of the reader's thread (tcp_forwarder.cpp), the socket, *)
(* and the framer that cuts the stream into publications again             *)
(* (stream_publication_framer.cpp).                                        *)
(*                                                                         *)
(* A message is the sequence of its encoded bytes, a keepalive the empty   *)
(* one.  send() may take any part of what it is given, as non-blocking     *)
(* sockets do, and recv() may return any part of what has arrived.         *)
(***************************************************************************)
EXTENDS Integers, SequencesExt

CONSTANTS
    Message,       \* encoded publications: non-empty sequences of bytes
    Capacity,      \* bytes that the socket holds
    RxBuffer,      \* size of rx_buffer
    MaxMessages,   \* bound: publications that are written
    MaxKeepalives  \* bound: keepalives that are written

VARIABLES
    write_buffer,  \* messages with their size field, not written in full
    write_offset,  \* bytes of the first of them that are written
    loop,          \* where the select loop is: "setup", "select", "handle"
    watch,         \* write_sockets holds the socket
    ended,         \* select() returned the socket because of a shutdown
    socket,        \* bytes under way
    conn,          \* "open", "shut" (shutdown was called) or "erased"
    framer,        \* the StreamPublicationFramer of the other end
    given,         \* history: publications handed to write
    received,      \* publications that the framer completed
    keepalives     \* how many keepalives were written

svars == <<write_buffer, write_offset, loop, watch, ended, socket, conn, framer, given,
           received, keepalives>>

ASSUME StreamAssumption ==
    /\ \A m \in Message : m \in Seq(0 .. 255) /\ m # <<>>
    /\ Capacity \in Nat \ {0} /\ RxBuffer \in Nat \ {0}
    /\ MaxMessages \in Nat /\ MaxKeepalives \in Nat

(***************************************************************************)
(* The size field: four bytes in network order.                            *)
(***************************************************************************)
htonl(n) == <<n \div 16777216, (n \div 65536) % 256, (n \div 256) % 256, n % 256>>
ntohl(b) == b[1] * 16777216 + b[2] * 65536 + b[3] * 256 + b[4]

Frame(m) == htonl(Len(m)) \o m

(***************************************************************************)
(* The writer.  k are the bytes that send() takes.                         *)
(***************************************************************************)
RECURSIVE Bytes(_)
Bytes(buf) == IF buf = <<>> THEN <<>> ELSE Head(buf) \o Bytes(Tail(buf))

\* Where a message ends among the bytes of the buffer.
EndOf(buf, i) == Len(Bytes(SubSeq(buf, 1, i)))

Unsent(buf, off) == SubSeq(Bytes(buf), off + 1, EndOf(buf, Len(buf)))

\* Mutant: the offset is kept when a message is complete.
AdvanceKept(buf, off, k) ==
    LET done == Max({i \in 0 .. Len(buf) : EndOf(buf, i) <= off + k})
    IN  [buffer |-> SubSeq(buf, done + 1, Len(buf)), offset |-> off + k]

\* pop() of what is complete, and the offset into what is not.
Advance(buf, off, k) ==
    LET done == Max({i \in 0 .. Len(buf) : EndOf(buf, i) <= off + k})
    IN  [buffer |-> SubSeq(buf, done + 1, Len(buf)),
         offset |-> off + k - EndOf(buf, done)]

Sent(buf, off, k) ==
    /\ Len(socket) + k <= Capacity
    /\ socket' = socket \o SubSeq(Unsent(buf, off), 1, k)
    /\ \E rest \in {Advance(buf, off, k)} :
          write_buffer' = rest.buffer /\ write_offset' = rest.offset

\* TCPForwarder::write: queue, then send of the first message only.
Write(m) ==
    LET buf == Append(write_buffer, Frame(m)) IN
    \/ /\ conn = "open"
       /\ \E k \in 0 .. (Len(Head(buf)) - write_offset) :
             Sent(buf, write_offset, k)
    \/ /\ conn = "shut"        \* send() fails
       /\ write_buffer' = buf
       /\ UNCHANGED <<socket, write_offset>>

\* TCPForwarder::receive of a publication for the peer.
WritePublication(m) ==
    /\ Len(given) < MaxMessages
    /\ Write(m)
    /\ given' = Append(given, m)
    /\ UNCHANGED <<loop, watch, ended, conn, framer, received, keepalives>>

\* keepalive(): four zero bytes.
WriteKeepalive ==
    /\ keepalives < MaxKeepalives
    /\ Write(<<>>)
    /\ keepalives' = keepalives + 1
    /\ UNCHANGED <<loop, watch, ended, conn, framer, given, received>>

(***************************************************************************)
(* The select loop: sets are made up under remote_mtx, select() waits      *)
(* without it for at most a second, and what is ready is handled under it. *)
(***************************************************************************)
\* Mutant: sockets are only watched for reading.
SetupBlind ==
    /\ loop = "setup" /\ conn # "erased"
    /\ watch' = FALSE
    /\ loop' = "select"
    /\ UNCHANGED <<write_buffer, write_offset, ended, socket, conn, framer, given,
                   received, keepalives>>

Setup ==
    /\ loop = "setup" /\ conn # "erased"
    /\ watch' = (write_buffer # <<>>)
    /\ loop' = "select"
    /\ UNCHANGED <<write_buffer, write_offset, ended, socket, conn, framer, given,
                   received, keepalives>>

\* Woken or timed out; the socket stays watched if it is ready for writing.
Select ==
    /\ loop = "select"
    /\ watch' = (watch /\ Len(socket) < Capacity)
    /\ ended' = (conn = "shut")
    /\ loop' = "handle"
    /\ UNCHANGED <<write_buffer, write_offset, socket, conn, framer, given,
                   received, keepalives>>

\* write_handler, and the end of a connection that was shut down.
Handle ==
    /\ loop = "handle"
    /\ loop' = "setup"
    /\ \/ /\ conn = "open" /\ watch
          /\ \E k \in 1 .. Min({Capacity - Len(socket),
                                Len(Unsent(write_buffer, write_offset))}) :
                Sent(write_buffer, write_offset, k)
          /\ UNCHANGED conn
       \/ /\ conn = "open"
          /\ watch => Capacity = Len(socket) \/ write_buffer = <<>>
          /\ UNCHANGED <<socket, write_buffer, write_offset, conn>>
       \/ /\ conn = "shut"
          /\ ended \/ (watch /\ write_buffer # <<>>)  \* recv() or send() fails
          /\ conn' = "erased"
          /\ write_buffer' = <<>> /\ write_offset' = 0
          /\ UNCHANGED socket
       \/ /\ conn = "shut"
          /\ ~ended /\ ~(watch /\ write_buffer # <<>>)
          /\ UNCHANGED <<socket, write_buffer, write_offset, conn>>
    /\ UNCHANGED <<watch, ended, framer, given, received, keepalives>>

\* The peer or the network ends the connection, or keepalive() does, which
\* has not heard of the peer for two minutes.  From here on send() fails.
Shutdown ==
    /\ conn = "open"
    /\ conn' = "shut"
    /\ UNCHANGED <<write_buffer, write_offset, loop, watch, ended, socket, framer, given,
                   received, keepalives>>

(***************************************************************************)
(* The framer.  size_buffer holds the bytes of the size field that have    *)
(* come; four minus their number is size_field_remaining_bytes.            *)
(***************************************************************************)
EmptyFramer == [state |-> "empty", size_buffer |-> <<>>, remaining |-> 0,
                publication_buffer |-> <<>>]

\* One round of process_data's loop on the bytes d # <<>>: the framer, how
\* many bytes it took and the publications it completed.
Result(fr, taken, done) == [framer |-> fr, taken |-> taken, done |-> done]

FromEmpty(fr, d) ==
    IF Len(d) >= 4
    THEN Result([fr EXCEPT !.state = "waiting_for_data",
                           !.remaining = ntohl(SubSeq(d, 1, 4))], 4, <<>>)
    ELSE Result([fr EXCEPT !.state = "waiting_for_size", !.size_buffer = d],
                Len(d), <<>>)

WaitingForSize(fr, d) ==
    LET missing == 4 - Len(fr.size_buffer) IN
    IF Len(d) > missing
    THEN Result([fr EXCEPT !.state = "waiting_for_data", !.size_buffer = <<>>,
                    !.remaining = ntohl(fr.size_buffer \o SubSeq(d, 1, missing))],
                missing, <<>>)
    ELSE Result([fr EXCEPT !.size_buffer = @ \o d], Len(d), <<>>)

WaitingForData(fr, d) ==
    LET n == Min({fr.remaining, Len(d)})
        content == fr.publication_buffer \o SubSeq(d, 1, n)
    IN  IF n < fr.remaining
        THEN Result([fr EXCEPT !.remaining = @ - n, !.publication_buffer = content],
                    n, <<>>)
        ELSE Result(EmptyFramer, n, IF content = <<>> THEN <<>> ELSE <<content>>)

Round(fr, d) == CASE fr.state = "empty" -> FromEmpty(fr, d)
                  [] fr.state = "waiting_for_size" -> WaitingForSize(fr, d)
                  [] fr.state = "waiting_for_data" -> WaitingForData(fr, d)

Framer == [state : {"empty", "waiting_for_size", "waiting_for_data"}, size_buffer : Seq(Nat),
           remaining : Nat, publication_buffer : Seq(Nat)]

\* The loop over the data d; done are the publications that are complete so far.
process_data[fr \in Framer, d \in Seq(Nat), done \in Seq(Seq(Nat))] ==
    IF d = <<>> THEN [framer |-> fr, done |-> done]
    ELSE LET r == Round(fr, d)
         IN  process_data[r.framer, SubSeq(d, r.taken + 1, Len(d)), done \o r.done]

\* data_handler of the other end.
Recv ==
    /\ socket # <<>>
    /\ \E n \in 1 .. Min({RxBuffer, Len(socket)}) :
       \E r \in {process_data[framer, SubSeq(socket, 1, n), <<>>]} :
          /\ framer' = r.framer
          /\ received' = received \o r.done
          /\ socket' = SubSeq(socket, n + 1, Len(socket))
    /\ UNCHANGED <<write_buffer, write_offset, loop, watch, ended, conn, given, keepalives>>

(***************************************************************************)
(* The specification.                                                      *)
(***************************************************************************)
SInit ==
    /\ write_buffer = <<>> /\ write_offset = 0
    /\ loop = "setup" /\ watch = FALSE /\ ended = FALSE
    /\ socket = <<>> /\ conn = "open"
    /\ framer = EmptyFramer
    /\ given = <<>> /\ received = <<>> /\ keepalives = 0

SNext ==
    \/ \E m \in Message : WritePublication(m)
    \/ WriteKeepalive
    \/ Setup \/ Select \/ Handle
    \/ Shutdown
    \/ Recv

\* The select loops of both ends keep running.
StreamFairness == WF_svars(Setup \/ Select \/ Handle) /\ WF_svars(Recv)

SSpec == SInit /\ [][SNext]_svars /\ StreamFairness

(***************************************************************************)
(* Properties.                                                             *)
(***************************************************************************)
Channel == INSTANCE MessageChannel

\* The bytes that arrive in pieces become the publications that were written,
\* in order, each once, with keepalives in between, however send() and recv()
\* cut the stream and whichever thread sends the rest of a message.
ImplementsChannel == Channel!ChSpec

\* A publication that was written reaches the other end, also if the rest of
\* it is left to the select loop, unless the connection ends first.
EventuallyReceived ==
    \A n \in 1 .. MaxMessages :
        Len(given) = n ~> Len(received) >= n \/ conn # "open"
=============================================================================
