--------------------------- MODULE SslConnection ---------------------------
(***************************************************************************)
(* One SslConnection (net/ssl_connection.cc) over its TcpConnection: the    *)
(* handshake, the two memory BIOs between OpenSSL and TCP, the blocked      *)
(* flags, flushing and closing, and the SslAcceptor that waits for the      *)
(* handshake of a server side connection.  The TCP layer is what            *)
(* TcpConnection promises its handlers; OpenSSL is external and modelled by *)
(* what this code asks of it.  The members are the record ssl.              *)
(***************************************************************************)
EXTENDS Integers, Sequences, SequencesExt

CONSTANTS
  Flights,      \* handshake flights of each side
  MaxRecords,   \* data records the peer sends, and chunks written here
  ChunkRecords  \* TLS records that one chunk of outbuf_ needs

ASSUME SslAssumption ==
  Flights \in Nat \ {0} /\ MaxRecords \in Nat /\ ChunkRecords \in Nat \ {0}

VARIABLES
  ssl,    \* the members of the connection, and the calls it makes
  tcp,    \* the TcpConnection below: state, write events, outbuf, wire
  peer    \* what the other end has sent that is not read, and its progress

sslVars == <<ssl, tcp, peer>>

\* A record is <<kind, number>>: a handshake flight, application data, the
\* two halves of a data record that TCP split, or close_notify.
Rec(kind, n) == <<kind, n>>
KindsOf(s, kinds) == SelectSeq(s, LAMBDA r : r[1] \in kinds)
Fails(x, why) == [x EXCEPT !.abort = IF @ = "" THEN why ELSE @]

SslInit ==
  /\ \E server \in BOOLEAN :
       ssl = [state |-> "DISCONNECTED", server |-> server, live |-> FALSE, started |-> FALSE,
              got |-> 0, finished |-> FALSE, verifyFailed |-> FALSE,
              bioIn |-> <<>>, bioOut |-> <<>>, half |-> FALSE, shut |-> FALSE,
              readBlocked |-> FALSE, out |-> <<>>, in |-> <<>>, writes |-> 0,
              owner |-> IF server THEN "acceptor" ELSE "app",
              queued |-> <<>>, connects |-> 0, closes |-> 0, writesWhileBlocked |-> 0, deleted |-> FALSE,
              abort |-> ""]
  /\ tcp = [state |-> "none", want |-> FALSE, out |-> <<>>, wire |-> <<>>]
  /\ peer = [wire |-> <<>>, flights |-> 0, sent |-> 0, closed |-> FALSE]

SslRunning == ssl.abort = ""

---------------------------------------------------------------------------
(* OpenSSL, as this code uses it.                                           *)

\* SSL_do_handshake: reads the flights that are in the BIO, answers each, and
\* starts by itself on the client's side.  A bad certificate sets
\* verification_failed_ through SslConnectionVerifyCallback.
SslDoHandshake(x, bad) ==
  LET n == Len(KindsOf(x.bioIn, {"H"}))
      own == IF x.server \/ x.started THEN n ELSE n + 1
      answers == IF x.got + n >= Flights /\ ~x.server /\ n > 0 THEN own - 1 ELSE own
  IN  [x EXCEPT !.bioIn = KindsOf(@, {"D", "A", "B", "N"}), !.got = @ + n, !.started = TRUE,
                !.bioOut = @ \o [i \in 1..answers |-> Rec("H", 0)],
                !.verifyFailed = bad /\ n > 0]
SslIsInitFinished(x) == x.got >= Flights

\* SSL_read until it has no more: the data, whether it stops in the middle of
\* a record, and a close_notify, for which SSL_read returns 0.
SslReadAll(x) ==
  [x EXCEPT !.in = @ \o KindsOf(x.bioIn, {"D", "B"}), !.bioIn = <<>>,
            !.half = IF x.bioIn = <<>> THEN @ ELSE Last(x.bioIn)[1] = "A",
            !.readBlocked = IF x.bioIn = <<>> THEN @ ELSE Last(x.bioIn)[1] = "A"]

---------------------------------------------------------------------------
(* Methods.                                                                 *)

\* SslClear: p_ssl_ and the BIOs are freed.
SslClear(x) == [x EXCEPT !.live = FALSE, !.bioIn = <<>>, !.bioOut = <<>>]

\* The TCP layer is closed under the connection: the close handler runs, the
\* application's or SslConnectionCloseHandler of the acceptor, which clears the
\* handlers and queues the delete.  (Faulty: the handlers stay.)
KeepSslTcpClosed(x) == [x EXCEPT !.state = "DISCONNECTED",
  !.queued = IF x.owner = "acceptor" THEN Append(@, "delete") ELSE @]
SslTcpClosed(x) ==
  CASE x.owner = "acceptor" -> [x EXCEPT !.state = "DISCONNECTED", !.owner = "nobody",
                                         !.queued = Append(@, "delete")]
    [] x.owner = "app" -> [x EXCEPT !.state = "DISCONNECTED", !.closes = @ + 1]
    [] OTHER -> [x EXCEPT !.state = "DISCONNECTED"]

\* SslHandshake: finished only when nothing is left to send; the connect
\* handler is queued.  The result says whether TCP must close, and whether
\* write events are asked for.  (Faulty: no write events.)
QuietSslHandshake(x, bad) ==
  CASE x.finished -> [x |-> x, ok |-> TRUE, want |-> FALSE]
    [] ~x.finished /\ SslIsInitFinished(x) /\ x.bioOut # <<>> -> [x |-> x, ok |-> TRUE, want |-> FALSE]
    [] ~x.finished /\ SslIsInitFinished(x) /\ x.bioOut = <<>> ->
         [x |-> [x EXCEPT !.finished = TRUE, !.state = "CONNECTED",
                          !.queued = Append(@, "connect")], ok |-> TRUE, want |-> FALSE]
    [] OTHER -> LET y == SslDoHandshake(x, bad) IN [x |-> y, ok |-> ~y.verifyFailed, want |-> FALSE]
SslHandshake(x, bad) ==
  CASE x.finished -> [x |-> x, ok |-> TRUE, want |-> FALSE]
    [] ~x.finished /\ SslIsInitFinished(x) /\ x.bioOut # <<>> -> [x |-> x, ok |-> TRUE, want |-> TRUE]
    [] ~x.finished /\ SslIsInitFinished(x) /\ x.bioOut = <<>> ->
         [x |-> [x EXCEPT !.finished = TRUE, !.state = "CONNECTED",
                          !.queued = Append(@, "connect")], ok |-> TRUE, want |-> FALSE]
    [] OTHER -> LET y == SslDoHandshake(x, bad) IN [x |-> y, ok |-> ~y.verifyFailed, want |-> TRUE]

\* BIO_read until the BIO is empty, into the outbuf of the TCP connection.
DrainBio(x) == [x EXCEPT !.bioOut = <<>>]

\* SslShutdown: close_notify, and whatever the BIO holds goes to TCP.  Before
\* the end of the handshake SSL_shutdown only fails, which is logged.
SslShutdown(x) ==
  IF ~x.live \/ ~SslIsInitFinished(x) THEN x
  ELSE [x EXCEPT !.shut = TRUE, !.bioOut = IF x.shut THEN @ ELSE Append(@, Rec("N", 0))]

\* One SSL_write per chunk.  With SSL_MODE_ENABLE_PARTIAL_WRITE it takes one
\* record of the chunk; outbuf_ is cleared after the loop.
WriteChunks(x) ==
  [x EXCEPT !.out = <<>>,
            !.bioOut = @ \o [i \in 1..Len(x.out) |-> Rec("D", (x.out[i] - 1) * ChunkRecords + 1)],
            !.writesWhileBlocked = @ + (IF x.half /\ x.out # <<>> THEN 1 ELSE 0)]

\* SSL_read of a connection that began to flush in its handshake goes on with
\* the handshake, and blocks when there is nothing after it.
SslReadHandshake(x, bad) ==
  LET y == SslDoHandshake(x, bad)
  IN  IF y.bioIn = <<>> THEN [y EXCEPT !.half = TRUE, !.readBlocked = TRUE] ELSE SslReadAll(y)

\* TcpConnectionReadHandler after the bytes are in the BIO.
ReadHandler(x, bad) ==
  IF x.state = "CONNECTING" THEN SslHandshake(x, bad)
  ELSE LET y == IF SslIsInitFinished(x) THEN SslReadAll(x) ELSE SslReadHandshake(x, bad)
           z == IF y.state = "FLUSHING" THEN [y EXCEPT !.in = <<>>] ELSE y
       IN  [x |-> z, ok |-> SslIsInitFinished(x) \/ ~z.verifyFailed,
            want |-> z.readBlocked /\ z.out # <<>>]

\* TcpConnectionWriteHandler, up to the reading of the BIO.
Encrypt(x, bad) ==
  CASE x.state = "CONNECTING" -> SslHandshake(x, bad)
    [] x.state # "CONNECTING" /\ ~x.readBlocked -> [x |-> WriteChunks(x), ok |-> TRUE, want |-> FALSE]
    [] OTHER -> [x |-> x, ok |-> TRUE, want |-> FALSE]

\* The end of TcpConnectionWriteHandler: shut down once all is encrypted.
\* (Faulty: at once.)
EarlyFinishWrite(x) ==
  IF x.state = "FLUSHING"
  THEN [SslShutdown(x) EXCEPT !.queued = Append(@, "tcp flush")] ELSE x
FinishWrite(x) ==
  IF x.state = "FLUSHING" /\ x.out = <<>>
  THEN [SslShutdown(x) EXCEPT !.queued = Append(@, "tcp flush")] ELSE x

---------------------------------------------------------------------------
(* Actions: the handlers the TCP connection calls, in the select thread.    *)

\* A handler that returned an error, or a ForceClose(), ends the connection.
TcpGoes(x) ==
  /\ ssl' = SslTcpClosed(x)
  /\ tcp' = [tcp EXCEPT !.state = "closed", !.want = FALSE, !.out = <<>>]

\* Connect(), whose failure leaves everything as it was, or Wrap() for the
\* acceptor, which goes on to the handshake.  When SslInitialize fails in Wrap()
\* the acceptor has not set its handlers yet: TCP is closed, and the close
\* without a handler asks the closed TCP connection for write events.
SslStart ==
  /\ SslRunning /\ tcp.state = "none"
  /\ \/ /\ ssl.server
        /\ tcp' = [tcp EXCEPT !.state = "open"]
        /\ ssl' = [ssl EXCEPT !.state = "CONNECTING", !.live = TRUE]
     \/ /\ ssl.server
        /\ tcp' = [tcp EXCEPT !.state = "closed"]
        /\ ssl' = Fails(ssl, "null selector: request events")
     \/ /\ ~ssl.server
        /\ tcp' = [tcp EXCEPT !.state = "connecting", !.want = TRUE]
        /\ ssl' = [ssl EXCEPT !.state = "CONNECTING"]
  /\ UNCHANGED peer

\* SslInitialize makes the SSL object, or fails and closes.
TcpConnectionConnectHandler ==
  /\ SslRunning /\ tcp.state = "connecting"
  /\ \/ tcp' = [tcp EXCEPT !.state = "open"] /\ ssl' = [ssl EXCEPT !.live = TRUE]
     \/ TcpGoes(SslClear(ssl))
  /\ UNCHANGED peer

\* n records of the peer reach the read handler together.
TcpConnectionReadHandler(n, bad) ==
  /\ SslRunning /\ tcp.state = "open" /\ n \in 1..Len(peer.wire)
  /\ peer' = [peer EXCEPT !.wire = SubSeq(@, n + 1, Len(@))]
  /\ IF ~ssl.live THEN ssl' = Fails(ssl, "null ssl") /\ UNCHANGED tcp
     ELSE LET r == ReadHandler([ssl EXCEPT !.bioIn = @ \o SubSeq(peer.wire, 1, n)], bad)
          IN  IF r.ok THEN ssl' = r.x /\ tcp' = [tcp EXCEPT !.want = @ \/ r.want]
              ELSE TcpGoes(r.x)

\* HandleWriteEvent: outbuf is written, then the write handler fills it again;
\* write events stay on as long as it is not empty.
TcpConnectionWriteHandler(bad) ==
  /\ SslRunning /\ tcp.state = "open" /\ tcp.want
  /\ IF ~ssl.live /\ (ssl.state = "CONNECTING" \/ (ssl.out # <<>> /\ ~ssl.readBlocked))
     THEN ssl' = Fails(ssl, "null ssl") /\ UNCHANGED tcp
     ELSE LET r == Encrypt(ssl, bad)
              x == FinishWrite(DrainBio(r.x))
              more == r.x.bioOut \o x.bioOut
          IN  IF r.ok
              THEN /\ ssl' = DrainBio(x)
                   /\ tcp' = [tcp EXCEPT !.wire = @ \o tcp.out, !.out = more, !.want = more # <<>>]
              ELSE TcpGoes(r.x)
  /\ UNCHANGED peer

\* In FLUSHING the TCP connection writes what it has and calls nobody.
TcpFlushes ==
  /\ SslRunning /\ tcp.state = "flushing" /\ tcp.want
  /\ tcp' = [tcp EXCEPT !.wire = @ \o tcp.out, !.out = <<>>, !.want = FALSE]
  /\ UNCHANGED <<ssl, peer>>

\* CLOSE_READ of the TCP layer: only SslShutdown, whose bytes go to outbuf.
TcpCloseRead ==
  /\ SslRunning /\ tcp.state = "open" /\ peer.closed /\ peer.wire = <<>> /\ ~ssl.shut
  /\ LET x == SslShutdown(ssl)
     IN  ssl' = DrainBio(x) /\ tcp' = [tcp EXCEPT !.state = "flushing", !.out = @ \o x.bioOut]
  /\ UNCHANGED peer

\* CLOSE_READ_WRITE: an error, the peer's reset, the linger timeout.
TcpConnectionCloseHandler ==
  /\ SslRunning /\ tcp.state \in {"connecting", "open", "flushing"}
  /\ TcpGoes(ssl) /\ UNCHANGED peer

\* A function queued in the select loop: the connect handler, which in the
\* acceptor hands the connection over, or a close of the TCP layer, which is
\* not there any more (null selector) if it closed before.
RunQueued ==
  /\ SslRunning /\ ssl.queued # <<>>
  /\ LET rest == [ssl EXCEPT !.queued = Tail(@)]
         what == Head(ssl.queued)
     IN  \/ /\ what = "connect"
            /\ ssl' = IF ssl.owner = "nobody" THEN rest
                      ELSE [rest EXCEPT !.connects = @ + 1, !.owner = "app"]
            /\ UNCHANGED tcp
         \/ what = "delete" /\ ssl' = [rest EXCEPT !.deleted = TRUE] /\ UNCHANGED tcp
         \/ what \in {"tcp force", "tcp flush"} /\ tcp.state = "closed"
            /\ ssl' = Fails(rest, "null selector: close") /\ UNCHANGED tcp
         \/ what = "tcp force" /\ tcp.state # "closed" /\ TcpGoes(rest)
         \/ what = "tcp flush" /\ tcp.state # "closed" /\ ssl' = rest
            /\ tcp' = IF tcp.state = "open" THEN [tcp EXCEPT !.state = "flushing", !.want = TRUE] ELSE tcp
  /\ UNCHANGED peer

\* -- the application, once it has the connection ---------------------------

\* Write() appends one chunk and asks for write events.
SslWrite ==
  /\ SslRunning /\ ssl.owner = "app" /\ ssl.state = "CONNECTED" /\ tcp.state = "open"
  /\ ssl.writes < MaxRecords
  /\ ssl' = [ssl EXCEPT !.writes = @ + 1,
                        !.out = Append(@, ssl.writes + 1)]
  /\ tcp' = [tcp EXCEPT !.want = TRUE]
  /\ UNCHANGED peer

\* FlushAndClose(), in the handshake too.
SslFlushAndClose ==
  /\ SslRunning /\ ssl.owner = "app" /\ ssl.state # "FLUSHING"
  /\ tcp.state \in {"connecting", "open", "flushing"}
  /\ ssl' = [ssl EXCEPT !.state = "FLUSHING"]
  /\ tcp' = [tcp EXCEPT !.want = TRUE]
  /\ UNCHANGED peer

\* ForceClose() in the select thread; another thread frees the SSL object at
\* once, and the TCP connection is closed when its loop comes to it.
SslForceClose(otherThread) ==
  /\ SslRunning /\ tcp.state \in {"open", "flushing"} /\ ssl.live /\ ssl.owner = "app"
  /\ \/ /\ otherThread
        /\ ssl' = [SslClear(ssl) EXCEPT !.queued = Append(@, "tcp force")]
        /\ UNCHANGED tcp
     \/ ~otherThread /\ TcpGoes(SslClear(ssl))
  /\ UNCHANGED peer

\* -- the other end, which follows the protocol ----------------------------

OurFlights == Len(KindsOf(tcp.wire, {"H"}))
PeerFlight ==
  /\ SslRunning /\ tcp.state = "open" /\ ~peer.closed /\ peer.flights < Flights
  /\ IF ssl.server THEN peer.flights <= OurFlights ELSE peer.flights < OurFlights
  /\ peer' = [peer EXCEPT !.flights = @ + 1, !.wire = Append(@, Rec("H", 0))]
  /\ UNCHANGED <<ssl, tcp>>

PeerData(split) ==
  /\ SslRunning /\ tcp.state = "open" /\ ~peer.closed
  /\ peer.flights = Flights /\ peer.sent < MaxRecords
  /\ peer' = [peer EXCEPT !.sent = @ + 1,
                          !.wire = @ \o IF split THEN <<Rec("A", peer.sent + 1), Rec("B", peer.sent + 1)>>
                                        ELSE <<Rec("D", peer.sent + 1)>>]
  /\ UNCHANGED <<ssl, tcp>>

PeerNotify ==
  /\ SslRunning /\ tcp.state = "open" /\ ~peer.closed /\ peer.flights = Flights
  /\ peer' = [peer EXCEPT !.closed = TRUE, !.wire = Append(@, Rec("N", 0))]
  /\ UNCHANGED <<ssl, tcp>>

SslNext ==
  \/ SslStart \/ TcpConnectionConnectHandler
  \/ \E bad \in BOOLEAN :
       \/ \E n \in 1..(Flights + 2 * MaxRecords + 1) : TcpConnectionReadHandler(n, bad)
       \/ TcpConnectionWriteHandler(bad)
  \/ TcpFlushes \/ TcpCloseRead \/ TcpConnectionCloseHandler \/ RunQueued
  \/ SslWrite \/ SslFlushAndClose \/ \E other \in BOOLEAN : SslForceClose(other)
  \/ PeerFlight \/ PeerNotify \/ \E split \in BOOLEAN : PeerData(split)

\* The select thread handles what is ready; the peer goes on with the
\* handshake.
SelectThread ==
  \/ TcpConnectionConnectHandler \/ RunQueued \/ TcpFlushes
  \/ \E bad \in BOOLEAN :
       \/ \E n \in 1..(Flights + 2 * MaxRecords + 1) : TcpConnectionReadHandler(n, bad)
       \/ TcpConnectionWriteHandler(bad)
SslFairness == WF_sslVars(SelectThread) /\ WF_sslVars(PeerFlight)

SslSpec == SslInit /\ [][SslNext]_sslVars /\ SslFairness

---------------------------------------------------------------------------
\* Every variable has its type.
SslTypeOK ==
  /\ ssl.state \in {"DISCONNECTED", "CONNECTING", "CONNECTED", "FLUSHING"}
  /\ tcp.state \in {"none", "connecting", "open", "flushing", "closed"}
  /\ ssl.got \in 0..Flights
  /\ peer.flights \in 0..Flights /\ peer.sent \in 0..MaxRecords

\* The connect handler and the close handler run at most once each, whichever
\* of the calls, the events and the queued functions closes the connection.
HandlersRunOnce == ssl.connects \in 0..1 /\ ssl.closes \in 0..1

\* The connection is handed to the application only after a handshake in
\* which the certificate was not refused, when all of the handshake's own
\* output has been given to TCP (SslHandshake).
ConnectedAfterHandshake ==
  ssl.finished =>
    /\ ssl.got = Flights /\ ~ssl.verifyFailed
    /\ Len(KindsOf(tcp.wire \o tcp.out, {"H"})) >= Flights \/ tcp.state = "closed"

\* A connection of the acceptor goes to the application or is deleted, never
\* both, and nothing of it is queued once it is deleted, also when it breaks
\* between the end of the handshake and the connect handler.
HandedOverOrDeleted ==
  /\ ssl.deleted => ssl.connects = 0 /\ ssl.queued = <<>>
  /\ ssl.owner = "nobody" => ssl.connects = 0

\* SSL_write is not called while a record is half read ("DON'T use SSL_write!
\* or it will corrupt internal ssl structures").
NoWriteWhileReading == ssl.writesWhileBlocked = 0

\* TCP gets the records of the application's data in the order of the writes,
\* none of them twice and no chunk passed over while the connection is open,
\* and nothing after close_notify.
RecordsInOrder ==
  LET all == tcp.wire \o tcp.out
      data == KindsOf(all, {"D"})
  IN  /\ \A i, j \in DOMAIN data : i < j => data[i][2] < data[j][2]
      /\ \A i \in DOMAIN all : all[i][1] = "N" => i = Len(all)
      /\ ssl.state = "CONNECTED" /\ tcp.state = "open" => Len(data) + Len(ssl.out) = ssl.writes

\* Every record of what was written reaches TCP: a chunk that is not in outbuf_
\* any more was sent as a whole ("If we sent every piece of data").
RecordsComplete ==
  ssl.state = "CONNECTED" /\ tcp.state = "open" =>
    Len(KindsOf(tcp.wire \o tcp.out, {"D"})) = (ssl.writes - Len(ssl.out)) * ChunkRecords

\* SslConnection, whenever records arrive in parts and output is blocked: the
\* application gets a connection only after the handshake, and TCP gets its
\* records in order.
SslInv ==
  SslTypeOK /\ HandlersRunOnce /\ ConnectedAfterHandshake /\ NoWriteWhileReading /\ RecordsInOrder

\* A handshake with a peer that answers and does not hang up ends: the
\* connection is established or closed (the write events asked for in
\* SslHandshake carry it on).
HandshakeEnds ==
  []<>(ssl.state # "CONNECTING" \/ peer.closed \/ ~SslRunning)

\* What the peer sent and TCP delivered is decrypted ("we need to read as long
\* as we have any kind of data in both of them").
DeliveredIsRead ==
  ssl.state = "CONNECTED" /\ peer.wire = <<>> /\ ~tcp.want /\ ssl.queued = <<>> => ssl.bioIn = <<>>
=============================================================================
