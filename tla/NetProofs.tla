------------------------------ MODULE NetProofs ------------------------------
(***************************************************************************)
(* Proofs about the connections: TcpConnection, TcpAcceptor and the SSL    *)
(* connection on top of it, for any number of clients, threads, calls,     *)
(* chunks and records, and about Timeouter, for any timeouts and any       *)
(* number of alarms, when timeouts are set and cleared in the thread of    *)
(* the loop (as TcpConnection does).                                       *)
(***************************************************************************)
EXTENDS TcpAcceptor, SslConnection, Timeouter, FiniteSetTheorems, SequenceTheorems, TLAPS

-----------------------------------------------------------------------------
(* TcpConnection: its life                                                 *)

\* The members of a connection, the directives it reports, the states with a
\* descriptor, and the aborts that are a failed CHECK on the state.
ConnFields ==
  {"state", "fd", "selector", "registered", "desire", "readClosed", "writeClosed", "timer",
   "closeOnResolve", "out", "writes", "closes", "handler", "abort"}
Directives == {"CLOSE_READ", "CLOSE_READ_WRITE"}
OpenStates == {"CONNECTING", "CONNECTED", "FLUSHING"}
FailedChecks == {"CHECK: event state", "CHECK: close flags", "CHECK: fd left", "CHECK: dns state"}

\* The members have their types, and no CHECK on the state has failed but the
\* one of CloseCommunication, while the name is being resolved.
ClosedEarly == "CHECK: close while resolving"
ConnKinds(c) ==
  /\ DOMAIN c = ConnFields /\ c.state \in States /\ c.closes \in Seq(Directives)
  /\ c.abort \notin FailedChecks
  /\ c.abort = ClosedEarly => c.state = "RESOLVING"

\* A descriptor is held in the open states, where the connection is registered;
\* selector() is set until the connection is closed.
ConnOpen(c) ==
  /\ c.fd <=> c.state \in OpenStates
  /\ c.fd => c.registered
  /\ c.state # "DISCONNECTED" => c.selector

\* CLOSE_READ_WRITE was reported at most once, and the connection is over then.
ConnTold(c) ==
  /\ \A i \in 1..Len(c.closes) : c.closes[i] = "CLOSE_READ_WRITE" => c.state = "DISCONNECTED"
  /\ \A i, j \in 1..Len(c.closes) :
       c.closes[i] = "CLOSE_READ_WRITE" /\ c.closes[j] = "CLOSE_READ_WRITE" => i = j

\* What every method relies on and leaves behind.
ConnOK(c) == ConnKinds(c) /\ ConnOpen(c) /\ ConnTold(c)

\* A method that leaves the life of the connection as it is.
SameLife(c, d) ==
  /\ DOMAIN d = ConnFields
  /\ d.state = c.state /\ d.fd = c.fd /\ d.selector = c.selector /\ d.registered = c.registered
  /\ d.closes = c.closes
  /\ c.abort \notin FailedChecks => d.abort \notin FailedChecks
  /\ d.abort = ClosedEarly => c.abort = ClosedEarly \/ c.state = "RESOLVING"

\* A method that may close the connection, but not while it is resolving.
Keeps(c, d) == ConnOK(d) /\ (c.state = "RESOLVING" => d.state = "RESOLVING")

\* The inductive invariant: an event that is being handled has its descriptor, and
\* the resolver is asked only while the connection is resolving.
TcpLife ==
  /\ ConnOK(conn)
  /\ ev # NoEvent => conn.fd
  /\ dns = "asked" => conn.state = "RESOLVING"

\* A method that changes nothing of the life keeps what it relies on.
LEMMA SameLifeOK ==
  ASSUME NEW c, NEW d, ConnOK(c), SameLife(c, d)
  PROVE  Keeps(c, d)
<1>1. ConnKinds(d)
  BY DEF ConnOK, ConnKinds, SameLife
<1>2. ConnOpen(d)
  BY DEF ConnOK, ConnOpen, SameLife
<1>3. ConnTold(d)
  BY DEF ConnOK, ConnTold, SameLife
<1> QED
  BY <1>1, <1>2, <1>3 DEF ConnOK, Keeps, SameLife

\* Methods compose.
LEMMA KeepsTwice ==
  ASSUME NEW c, NEW d, NEW e, Keeps(c, d), Keeps(d, e)
  PROVE  Keeps(c, e)
  BY DEF Keeps

\* An abort that is no CHECK on the state changes nothing of the life.
LEMMA AbortLife ==
  ASSUME NEW c, DOMAIN c = ConnFields, NEW why, why \notin FailedChecks,
         why = ClosedEarly => c.state = "RESOLVING"
  PROVE  SameLife(c, Abort(c, why))
  BY DEF Abort, SameLife, ConnFields

\* The aborts that are no CHECK on the state.
LEMMA OtherAborts ==
  /\ \A why \in {"null selector: request events", "null selector: close", "hang: CleanAndCloseAll", ""} :
       why \notin FailedChecks /\ why # ClosedEarly
  /\ ClosedEarly \notin FailedChecks
  BY DEF FailedChecks, ClosedEarly

\* RequestReadEvents and RequestWriteEvents change what is polled, or abort.
LEMMA RequestEventsLife ==
  ASSUME NEW c, DOMAIN c = ConnFields, NEW desire, NEW enable
  PROVE  SameLife(c, RequestEvents(c, desire, enable))
<1>1. CASE ~c.selector
  <2>1. RequestEvents(c, desire, enable) = Abort(c, "null selector: request events")
    BY <1>1 DEF RequestEvents
  <2> QED
    BY <2>1, AbortLife, OtherAborts
<1>2. CASE c.selector
  <2> DEFINE new == IF enable THEN c.desire \cup {desire} ELSE c.desire \ {desire}
  <2>1. RequestEvents(c, desire, enable) = [c EXCEPT !.desire = new]
    BY <1>2 DEF RequestEvents
  <2> HIDE DEF new
  <2> QED
    BY <2>1 DEF SameLife, ConnFields
<1> QED
  BY <1>1, <1>2

\* The same, for a connection that is in order.
LEMMA RequestEventsOK ==
  ASSUME NEW c, ConnOK(c), NEW desire, NEW enable
  PROVE  Keeps(c, RequestEvents(c, desire, enable))
<1>1. DOMAIN c = ConnFields
  BY DEF ConnOK, ConnKinds
<1> QED
  BY <1>1, RequestEventsLife, SameLifeOK

\* An open connection goes on in another open state.
LEMMA OpenStateOK ==
  ASSUME NEW c, ConnOK(c), c.fd, NEW st \in OpenStates
  PROVE  Keeps(c, [c EXCEPT !.state = st])
<1> DEFINE d == [c EXCEPT !.state = st]
<1>1. DOMAIN c = ConnFields /\ c.state \in OpenStates /\ st \in OpenStates
  BY DEF ConnOK, ConnKinds, ConnOpen
<1>2. /\ DOMAIN d = ConnFields /\ d.state = st /\ d.fd = c.fd /\ d.selector = c.selector
      /\ d.registered = c.registered /\ d.closes = c.closes /\ d.abort = c.abort
  BY <1>1 DEF ConnFields
<1> HIDE DEF d
<1>3. ConnKinds(d)
  BY <1>1, <1>2 DEF ConnOK, ConnKinds, OpenStates, States
<1>4. ConnOpen(d)
  BY <1>1, <1>2 DEF ConnOK, ConnOpen, OpenStates
<1>5. ConnTold(d)
  BY <1>1, <1>2 DEF ConnOK, ConnTold, OpenStates
<1>6. c.state # "RESOLVING"
  BY <1>1 DEF OpenStates
<1> QED
  BY <1>3, <1>4, <1>5, <1>6 DEF ConnOK, Keeps, d

\* CloseCommunication: nothing, an abort, or FLUSHING.
LEMMA CloseCommunicationOK ==
  ASSUME NEW c, ConnOK(c)
  PROVE  Keeps(c, CloseCommunication(c))
<1>0. DOMAIN c = ConnFields
  BY DEF ConnOK, ConnKinds
<1>1. CASE CloseCommunication(c) = c
  BY <1>1 DEF Keeps
<1>2. CASE c.state = "RESOLVING" /\ CloseCommunication(c) = Abort(c, ClosedEarly)
  BY <1>0, <1>2, AbortLife, OtherAborts, SameLifeOK
<1>3. CASE c.fd /\ CloseCommunication(c) = RequestEvents([c EXCEPT !.state = "FLUSHING"], "write", TRUE)
  <2>1. "FLUSHING" \in OpenStates
    BY DEF OpenStates
  <2>2. Keeps(c, [c EXCEPT !.state = "FLUSHING"])
    BY <1>3, <2>1, OpenStateOK
  <2>3. ConnOK([c EXCEPT !.state = "FLUSHING"])
    BY <2>2 DEF Keeps
  <2> QED
    BY <1>3, <2>2, <2>3, RequestEventsOK, KeepsTwice
<1>4. \/ CloseCommunication(c) = c
      \/ ~c.fd /\ c.state # "DISCONNECTED" /\ CloseCommunication(c) = Abort(c, ClosedEarly)
      \/ c.fd /\ CloseCommunication(c) = RequestEvents([c EXCEPT !.state = "FLUSHING"], "write", TRUE)
  BY DEF CloseCommunication, ClosedEarly
<1>5. ~c.fd /\ c.state # "DISCONNECTED" => c.state = "RESOLVING"
  BY DEF ConnOK, ConnKinds, ConnOpen, OpenStates, States
<1> QED
  BY <1>1, <1>2, <1>3, <1>4, <1>5

\* FlushAndClose in the select thread.
LEMMA FlushAndCloseOK ==
  ASSUME NEW c, ConnOK(c)
  PROVE  Keeps(c, FlushAndClose(c))
<1>0. DOMAIN c = ConnFields
  BY DEF ConnOK, ConnKinds
<1>1. CASE c.selector
  BY <1>1, CloseCommunicationOK DEF FlushAndClose
<1>2. CASE ~c.selector
  <2>1. FlushAndClose(c) = Abort(c, "null selector: close")
    BY <1>2 DEF FlushAndClose
  <2> QED
    BY <1>0, <2>1, AbortLife, OtherAborts, SameLifeOK
<1> QED
  BY <1>1, <1>2

\* What one more directive makes of the ones reported.
LEMMA AppendDirective ==
  ASSUME NEW q \in Seq(Directives), NEW j \in Directives
  PROVE  /\ Append(q, j) \in Seq(Directives) /\ Len(q) \in Nat /\ Len(Append(q, j)) = Len(q) + 1
         /\ \A i \in 1..Len(q) : Append(q, j)[i] = q[i]
         /\ Append(q, j)[Len(q) + 1] = j
  OBVIOUS

\* CallCloseHandler, which finds its flags set; the whole close is reported once.
LEMMA CallCloseHandlerOK ==
  ASSUME NEW c, ConnOK(c), NEW directive \in Directives, c.readClosed,
         directive = "CLOSE_READ_WRITE" =>
           c.writeClosed /\ c.state = "DISCONNECTED"
           /\ \A i \in 1..Len(c.closes) : c.closes[i] # "CLOSE_READ_WRITE"
  PROVE  Keeps(c, CallCloseHandler(c, directive))
<1> DEFINE d == [c EXCEPT !.closes = Append(@, directive)]
<1>1. DOMAIN c = ConnFields /\ c.closes \in Seq(Directives) /\ directive \in Directives
  BY DEF ConnOK, ConnKinds
<1>2. /\ DOMAIN d = ConnFields /\ d.state = c.state /\ d.fd = c.fd /\ d.selector = c.selector
      /\ d.registered = c.registered /\ d.closes = Append(c.closes, directive) /\ d.abort = c.abort
  BY <1>1 DEF ConnFields
<1>3. CallCloseHandler(c, directive) = ConnectionCallCloseHandler(d, directive)
  BY DEF CallCloseHandler
<1> HIDE DEF d
<1>4. PICK n \in Nat : /\ n = Len(c.closes) /\ Len(d.closes) = n + 1 /\ d.closes \in Seq(Directives)
                       /\ \A i \in 1..n : d.closes[i] = c.closes[i]
                       /\ d.closes[n + 1] = directive
  <2>1. /\ Append(c.closes, directive) \in Seq(Directives) /\ Len(c.closes) \in Nat
        /\ Len(Append(c.closes, directive)) = Len(c.closes) + 1
        /\ \A i \in 1..Len(c.closes) : Append(c.closes, directive)[i] = c.closes[i]
        /\ Append(c.closes, directive)[Len(c.closes) + 1] = directive
    BY <1>1, AppendDirective
  <2> QED
    BY <1>2, <2>1
<1>5. ConnKinds(d)
  BY <1>1, <1>2, <1>4 DEF ConnOK, ConnKinds
<1>6. ConnOpen(d)
  BY <1>2 DEF ConnOK, ConnOpen
<1>7. ConnTold(d)
  <2>1. /\ \A i \in 1..n : c.closes[i] = "CLOSE_READ_WRITE" => c.state = "DISCONNECTED"
        /\ \A i, j \in 1..n :
             c.closes[i] = "CLOSE_READ_WRITE" /\ c.closes[j] = "CLOSE_READ_WRITE" => i = j
    BY <1>4 DEF ConnOK, ConnTold
  <2>2. \A i \in 1..(n + 1) : i \in 1..n \/ i = n + 1
    BY <1>4
  <2>3. CASE directive = "CLOSE_READ_WRITE"
    <3>1. c.state = "DISCONNECTED" /\ \A i \in 1..n : c.closes[i] # "CLOSE_READ_WRITE"
      BY <2>3, <1>4
    <3>2. \A i \in 1..(n + 1) : d.closes[i] = "CLOSE_READ_WRITE" => i = n + 1
      BY <1>4, <2>2, <3>1
    <3> QED
      BY <1>2, <1>4, <3>1, <3>2 DEF ConnTold
  <2>4. CASE directive # "CLOSE_READ_WRITE"
    <3>1. \A i \in 1..(n + 1) : d.closes[i] = "CLOSE_READ_WRITE" => i \in 1..n /\ c.closes[i] = "CLOSE_READ_WRITE"
      BY <1>4, <2>2, <2>4
    <3> QED
      BY <1>2, <1>4, <2>1, <3>1 DEF ConnTold
  <2> QED
    BY <2>3, <2>4
<1>8. Keeps(c, d)
  BY <1>2, <1>5, <1>6, <1>7 DEF ConnOK, Keeps
<1>9. Keeps(d, ConnectionCallCloseHandler(d, directive))
  <2>1. ConnOK(d)
    BY <1>5, <1>6, <1>7 DEF ConnOK
  <2> QED
    BY <2>1, FlushAndCloseOK DEF ConnectionCallCloseHandler, Keeps
<1> QED
  BY <1>3, <1>8, <1>9, KeepsTwice

\* InternalClose in any state: its CHECKs hold, and the close is told once.
LEMMA InternalCloseOK ==
  ASSUME NEW c, ConnOK(c)
  PROVE  Keeps(c, InternalClose(c))
<1>0. DOMAIN c = ConnFields
  BY DEF ConnOK, ConnKinds
<1>1. CASE c.state = "DISCONNECTED"
  <2>1. ~c.fd
    BY <1>1 DEF ConnOK, ConnOpen, OpenStates
  <2>2. InternalClose(c) = c
    BY <1>1, <2>1 DEF InternalClose
  <2> QED
    BY <2>2 DEF Keeps
<1>2. CASE c.state = "RESOLVING"
  <2>1. InternalClose(c) = [c EXCEPT !.closeOnResolve = TRUE]
    BY <1>2 DEF InternalClose
  <2>2. SameLife(c, InternalClose(c))
    BY <1>0, <2>1 DEF SameLife, ConnFields
  <2> QED
    BY <2>2, SameLifeOK
<1>3. CASE c.state # "DISCONNECTED" /\ c.state # "RESOLVING"
  <2> DEFINE d == [c EXCEPT !.fd = FALSE, !.registered = FALSE, !.selector = FALSE,
                   !.state = "DISCONNECTED", !.readClosed = TRUE,
                   !.writeClosed = TRUE, !.timer = FALSE, !.out = <<>>]
  <2>1. InternalClose(c) = CallCloseHandler(d, "CLOSE_READ_WRITE")
    BY <1>3 DEF InternalClose
  <2>2. DOMAIN d = ConnFields /\ d.closes = c.closes /\ d.abort = c.abort
    BY <1>0 DEF ConnFields
  <2>3. d.state = "DISCONNECTED" /\ d.fd = FALSE /\ d.readClosed = TRUE /\ d.writeClosed = TRUE
    BY <1>0 DEF ConnFields
  <2> HIDE DEF d
  <2>4. ConnKinds(d)
    BY <1>3, <2>2, <2>3 DEF ConnOK, ConnKinds, States
  <2>5. ConnOpen(d)
    BY <2>3 DEF ConnOpen, OpenStates
  <2>6. \A i \in 1..Len(d.closes) : d.closes[i] # "CLOSE_READ_WRITE"
    BY <1>3, <2>2 DEF ConnOK, ConnTold
  <2>7. ConnTold(d)
    BY <2>6 DEF ConnTold
  <2>8. "CLOSE_READ_WRITE" \in Directives
    BY DEF Directives
  <2>9. Keeps(d, CallCloseHandler(d, "CLOSE_READ_WRITE"))
    <3>1. ConnOK(d) /\ d.readClosed /\ d.writeClosed /\ d.state = "DISCONNECTED"
      BY <2>3, <2>4, <2>5, <2>7 DEF ConnOK
    <3> QED
      BY <2>6, <2>8, <3>1, CallCloseHandlerOK
  <2> QED
    BY <1>3, <2>1, <2>9 DEF Keeps
<1> QED
  BY <1>1, <1>2, <1>3

\* ForceClose in the select thread.
LEMMA ForceCloseOK ==
  ASSUME NEW c, ConnOK(c)
  PROVE  Keeps(c, ForceClose(c))
<1>0. DOMAIN c = ConnFields
  BY DEF ConnOK, ConnKinds
<1>1. CASE c.selector
  BY <1>1, InternalCloseOK DEF ForceClose
<1>2. CASE ~c.selector
  <2>1. ForceClose(c) = Abort(c, "null selector: close")
    BY <1>2 DEF ForceClose
  <2> QED
    BY <1>0, <2>1, AbortLife, OtherAborts, SameLifeOK
<1> QED
  BY <1>1, <1>2

\* Write: one more chunk, and a request for write events.
LEMMA WriteOK ==
  ASSUME NEW c, ConnOK(c)
  PROVE  Keeps(c, Write(c))
<1>0. DOMAIN c = ConnFields
  BY DEF ConnOK, ConnKinds
<1>1. CASE c.writes = MaxWrites
  BY <1>1 DEF Write, Keeps
<1>2. CASE c.writes # MaxWrites
  <2> DEFINE d == [c EXCEPT !.writes = @ + 1,
                   !.out = Append(@, [i \in 1..ChunkSize |-> Written(c) + i])]
  <2>1. Write(c) = RequestEvents(d, "write", TRUE)
    BY <1>2 DEF Write
  <2>2. SameLife(c, d)
    BY <1>0 DEF SameLife, ConnFields
  <2> HIDE DEF d
  <2>3. Keeps(c, d)
    BY <2>2, SameLifeOK
  <2>4. ConnOK(d)
    BY <2>3 DEF Keeps
  <2> QED
    BY <2>1, <2>3, <2>4, RequestEventsOK, KeepsTwice
<1> QED
  BY <1>1, <1>2

\* Whatever a handler of the application does.
LEMMA ReactOK ==
  ASSUME NEW c, ConnOK(c), NEW reaction
  PROVE  Keeps(c, React(c, reaction))
<1>1. Keeps(c, c)
  BY DEF Keeps
<1>2. React(c, reaction) \in {Write(c), FlushAndClose(c), ForceClose(c), InternalClose(c), c}
  BY DEF React
<1> QED
  BY <1>1, <1>2, WriteOK, FlushAndCloseOK, ForceCloseOK, InternalCloseOK

\* The first event of a connecting socket, and the connect handler.
LEMMA ConnectedReactOK ==
  ASSUME NEW c, ConnOK(c), c.fd, NEW reaction
  PROVE  ConnOK(PerformConnectOnFirstOperation(c, reaction))
<1>1. "CONNECTED" \in OpenStates
  BY DEF OpenStates
<1>2. ConnOK([c EXCEPT !.state = "CONNECTED"])
  BY <1>1, OpenStateOK DEF Keeps
<1> QED
  BY <1>2, ReactOK DEF PerformConnectOnFirstOperation, Keeps

\* A read, the read handler, and CLOSE_READ when reading is over.
LEMMA ReadAllOK ==
  ASSUME NEW c, ConnOK(c), NEW reaction, NEW stale
  PROVE  ConnOK(ReadAll(c, reaction, stale))
<1> DEFINE read == React(c, reaction)
           done == IF read.writeClosed \/ read.state = "FLUSHING" \/ stale
                   THEN [read EXCEPT !.readClosed = TRUE] ELSE read
           told == IF done.readClosed THEN CallCloseHandler(done, "CLOSE_READ") ELSE done
<1>1. ReadAll(c, reaction, stale) = IF reaction = "error" THEN read
        ELSE IF done.readClosed /\ told.fd THEN RequestEvents(told, "read", FALSE) ELSE told
  BY DEF ReadAll
<1>2. ConnOK(read)
  BY ReactOK DEF Keeps
<1> HIDE DEF read
<1>3. DOMAIN read = ConnFields
  BY <1>2 DEF ConnOK, ConnKinds
<1>4. SameLife(read, [read EXCEPT !.readClosed = TRUE])
  BY <1>3 DEF SameLife, ConnFields
<1>5. ConnOK(done)
  BY <1>2, <1>4, SameLifeOK DEF Keeps
<1> HIDE DEF done
<1>6. "CLOSE_READ" \in Directives /\ "CLOSE_READ" # "CLOSE_READ_WRITE"
  BY DEF Directives
<1>7. ConnOK(told)
  BY <1>5, <1>6, CallCloseHandlerOK DEF Keeps
<1> HIDE DEF told
<1>8. ConnOK(RequestEvents(told, "read", FALSE))
  BY <1>7, RequestEventsOK DEF Keeps
<1> QED
  BY <1>1, <1>2, <1>7, <1>8

\* An event is handled in an open state.
LEMMA EventStates ==
  ASSUME NEW c, ConnOK(c), c.fd
  PROVE  c.state \in OpenStates /\ c.state # "DISCONNECTED" /\ c.state # "RESOLVING"
  BY DEF ConnOK, ConnOpen, OpenStates

\* HandleReadEvent: its CHECK holds.
LEMMA HandleReadEventOK ==
  ASSUME NEW c, ConnOK(c), c.fd, NEW s, NEW reaction, NEW stale
  PROVE  ConnOK(HandleReadEvent(c, s, reaction, stale))
<1>1. c.state \notin {"DISCONNECTED", "RESOLVING"}
  BY EventStates
<1>2. HandleReadEvent(c, s, reaction, stale) \in
        {PerformConnectOnFirstOperation(c, reaction), InternalClose(c), ReadAll(c, reaction, stale)}
  BY <1>1 DEF HandleReadEvent
<1> QED
  BY <1>2, ConnectedReactOK, InternalCloseOK, ReadAllOK DEF Keeps

\* The end of HandleWriteEvent, after the write.
LEMMA AfterWriteOK ==
  ASSUME NEW c, ConnOK(c), NEW s, NEW reaction
  PROVE  ConnOK(AfterWrite(c, s, reaction))
<1> DEFINE after == IF c.state # "FLUSHING" THEN React(c, reaction) ELSE c
           idle == RequestEvents(after, "write", FALSE)
<1>1. AfterWrite(c, s, reaction) \in {after, idle, InternalClose(idle), ShutdownWrite(idle)}
  BY DEF AfterWrite
<1>2. ConnOK(after)
  BY ReactOK DEF Keeps
<1> HIDE DEF after
<1>3. ConnOK(idle)
  BY <1>2, RequestEventsOK DEF Keeps
<1> HIDE DEF idle
<1>4. DOMAIN idle = ConnFields
  BY <1>3 DEF ConnOK, ConnKinds
<1>5. SameLife(idle, ShutdownWrite(idle))
  BY <1>4 DEF ShutdownWrite, SameLife, ConnFields
<1> QED
  BY <1>1, <1>2, <1>3, <1>5, SameLifeOK, InternalCloseOK DEF Keeps

\* HandleWriteEvent: its CHECK holds.
LEMMA HandleWriteEventOK ==
  ASSUME NEW c, ConnOK(c), c.fd, NEW s, NEW k, NEW reaction
  PROVE  ConnOK(HandleWriteEvent(c, s, k, reaction))
<1> DEFINE left == RemovePrefix(c.out, Len(WriteCord(c.out, k)))
           d == [c EXCEPT !.out = left]
<1>1. c.state \notin {"DISCONNECTED", "RESOLVING"}
  BY EventStates
<1>2. HandleWriteEvent(c, s, k, reaction) \in
        {PerformConnectOnFirstOperation(c, reaction), InternalClose(c), AfterWrite(d, s, reaction)}
  BY <1>1 DEF HandleWriteEvent
<1>3. DOMAIN c = ConnFields
  BY DEF ConnOK, ConnKinds
<1> HIDE DEF left
<1>4. SameLife(c, d)
  BY <1>3 DEF SameLife, ConnFields
<1>5. ConnOK(d)
  BY <1>4, SameLifeOK DEF Keeps
<1> HIDE DEF d
<1> QED
  BY <1>2, <1>5, ConnectedReactOK, InternalCloseOK, AfterWriteOK DEF Keeps

\* HandleErrorEvent: its CHECK holds.
LEMMA HandleErrorEventOK ==
  ASSUME NEW c, ConnOK(c), c.fd, NEW flags
  PROVE  ConnOK(HandleErrorEvent(c, flags))
<1> DEFINE wc == [c EXCEPT !.writeClosed = TRUE]
           flushing == [c EXCEPT !.state = "FLUSHING"]
<1>1. c.state # "DISCONNECTED" /\ DOMAIN c = ConnFields
  BY EventStates DEF ConnOK, ConnKinds
<1>2. HandleErrorEvent(c, flags) \in
        {InternalClose(c), wc, InternalClose(wc), flushing, InternalClose(flushing), c}
  BY <1>1 DEF HandleErrorEvent
<1>3. SameLife(c, wc)
  BY <1>1 DEF SameLife, ConnFields
<1>4. "FLUSHING" \in OpenStates
  BY DEF OpenStates
<1>5. ConnOK(wc) /\ ConnOK(flushing)
  BY <1>3, <1>4, SameLifeOK, OpenStateOK DEF Keeps
<1> HIDE DEF wc, flushing
<1> QED
  BY <1>2, <1>5, InternalCloseOK DEF Keeps

\* A socket is opened for a connection that has none and was not closed.
LEMMA ConnectSocketOK ==
  ASSUME NEW c, ConnOK(c), c.state \in {"DISCONNECTED", "RESOLVING"}, c.selector, NEW outcome,
         \A i \in 1..Len(c.closes) : c.closes[i] # "CLOSE_READ_WRITE", c.abort # ClosedEarly
  PROVE  ConnOK(ConnectSocket(c, outcome))
<1> DEFINE open == [c EXCEPT !.fd = TRUE, !.registered = TRUE, !.state = "CONNECTING",
                        !.readClosed = FALSE, !.writeClosed = FALSE]
           wants == [open EXCEPT !.desire = @ \cup {"read", "write"}]
           reg == [c EXCEPT !.registered = TRUE]
<1>0. DOMAIN c = ConnFields
  BY DEF ConnOK, ConnKinds
<1>1. ConnectSocket(c, outcome) \in {c, reg, open, wants}
  BY DEF ConnectSocket
<1>2. ConnOK(reg)
  <2>1. /\ DOMAIN reg = ConnFields /\ reg.state = c.state /\ reg.fd = c.fd /\ reg.selector = c.selector
        /\ reg.closes = c.closes /\ reg.abort = c.abort /\ reg.registered = TRUE
    BY <1>0 DEF ConnFields
  <2> HIDE DEF reg
  <2>2. ConnKinds(reg)
    BY <2>1 DEF ConnOK, ConnKinds
  <2>3. ConnOpen(reg)
    BY <2>1 DEF ConnOK, ConnOpen
  <2>4. ConnTold(reg)
    BY <2>1 DEF ConnOK, ConnTold
  <2> QED
    BY <2>2, <2>3, <2>4 DEF ConnOK
<1>3. ConnOK(open)
  <2>1. DOMAIN open = ConnFields /\ open.selector = c.selector /\ open.closes = c.closes /\ open.abort = c.abort
    BY <1>0 DEF ConnFields
  <2>2. open.fd = TRUE /\ open.registered = TRUE /\ open.state = "CONNECTING"
    BY <1>0 DEF ConnFields
  <2> HIDE DEF open
  <2>3. ConnKinds(open)
    BY <2>1, <2>2 DEF ConnOK, ConnKinds, States
  <2>4. ConnOpen(open)
    BY <2>1, <2>2 DEF ConnOpen, OpenStates
  <2>5. ConnTold(open)
    BY <2>1 DEF ConnTold
  <2> QED
    BY <2>3, <2>4, <2>5 DEF ConnOK
<1> HIDE DEF open, reg
<1>4. ConnOK(wants)
  <2>1. DOMAIN open = ConnFields
    BY <1>3 DEF ConnOK, ConnKinds
  <2>2. SameLife(open, wants)
    BY <2>1 DEF SameLife, ConnFields
  <2> QED
    BY <1>3, <2>2, SameLifeOK DEF Keeps
<1> HIDE DEF wants
<1> QED
  BY <1>1, <1>2, <1>3, <1>4

\* HandleDnsResult finds the connection resolving.
LEMMA HandleDnsResultOK ==
  ASSUME NEW c, ConnOK(c), c.state = "RESOLVING", NEW resolved, NEW outcome, c.abort # ClosedEarly
  PROVE  ConnOK(HandleDnsResult(c, resolved, outcome))
<1>1. c.selector /\ \A i \in 1..Len(c.closes) : c.closes[i] # "CLOSE_READ_WRITE"
  BY DEF ConnOK, ConnOpen, ConnTold
<1>2. ConnOK(ConnectSocket(c, outcome))
  BY <1>1, ConnectSocketOK
<1>3. HandleDnsResult(c, resolved, outcome) \in
        {InternalClose(c), InternalClose(ConnectSocket(c, outcome)), ConnectSocket(c, outcome)}
  BY DEF HandleDnsResult
<1> QED
  BY <1>2, <1>3, InternalCloseOK DEF Keeps

\* Wrap of a connection that was not used yet.
LEMMA WrapResultOK ==
  ASSUME NEW c, ConnOK(c), c.state = "DISCONNECTED", c.selector, NEW outcome, c.closes = <<>>
  PROVE  ConnOK(WrapResult(c, outcome))
<1> DEFINE open == [c EXCEPT !.fd = TRUE, !.registered = TRUE, !.state = "CONNECTED",
                 !.readClosed = FALSE, !.writeClosed = FALSE, !.desire = @ \cup {"read"}]
           reg == [c EXCEPT !.registered = TRUE]
<1>0. DOMAIN c = ConnFields
  BY DEF ConnOK, ConnKinds
<1>1. WrapResult(c, outcome) \in {c, reg, open}
  BY DEF WrapResult
<1>2. ConnOK(reg)
  <2>1. /\ DOMAIN reg = ConnFields /\ reg.state = c.state /\ reg.fd = c.fd /\ reg.selector = c.selector
        /\ reg.closes = c.closes /\ reg.abort = c.abort /\ reg.registered = TRUE
    BY <1>0 DEF ConnFields
  <2> HIDE DEF reg
  <2>2. ConnKinds(reg)
    BY <2>1 DEF ConnOK, ConnKinds
  <2>3. ConnOpen(reg)
    BY <2>1 DEF ConnOK, ConnOpen
  <2>4. ConnTold(reg)
    BY <2>1 DEF ConnOK, ConnTold
  <2> QED
    BY <2>2, <2>3, <2>4 DEF ConnOK
<1>3. ConnOK(open)
  <2>1. DOMAIN open = ConnFields /\ open.selector = c.selector /\ open.closes = c.closes /\ open.abort = c.abort
    BY <1>0 DEF ConnFields
  <2>2. open.fd = TRUE /\ open.registered = TRUE /\ open.state = "CONNECTED"
    BY <1>0 DEF ConnFields
  <2> HIDE DEF open
  <2>3. ConnKinds(open)
    BY <2>1, <2>2 DEF ConnOK, ConnKinds, States
  <2>4. ConnOpen(open)
    BY <2>1, <2>2 DEF ConnOpen, OpenStates
  <2>5. ConnTold(open)
    BY <2>1 DEF ConnTold
  <2> QED
    BY <2>3, <2>4, <2>5 DEF ConnOK
<1> HIDE DEF open, reg
<1> QED
  BY <1>1, <1>2, <1>3

\* A new connection is in order.
LEMMA LifeInit == TcpInit => TcpLife
<1> SUFFICES ASSUME TcpInit PROVE TcpLife
  OBVIOUS
<1>1. PICK handler \in CloseHandlers : conn = NewConnection(handler)
  BY DEF TcpInit
<1>2. DOMAIN conn = ConnFields
  BY <1>1 DEF NewConnection, ConnFields
<1>3. conn.state = "DISCONNECTED" /\ conn.fd = FALSE /\ conn.closes = <<>>
  BY <1>1 DEF NewConnection
<1>a. conn.abort = ""
  BY <1>1 DEF NewConnection
<1>4. ConnKinds(conn)
  <2>1. conn.closes \in Seq(Directives)
    BY <1>3
  <2>2. conn.abort \notin FailedChecks /\ conn.abort # ClosedEarly
    BY <1>a, OtherAborts
  <2>3. conn.state \in States
    BY <1>3 DEF States
  <2> QED
    BY <1>2, <2>1, <2>2, <2>3 DEF ConnKinds
<1>5. ConnOpen(conn)
  BY <1>3 DEF ConnOpen, OpenStates
<1>6. ConnTold(conn)
  BY <1>3 DEF ConnTold
<1>7. ev = NoEvent /\ dns = "none"
  BY DEF TcpInit
<1> QED
  BY <1>4, <1>5, <1>6, <1>7 DEF TcpLife, ConnOK

\* While the process runs, no CHECK has failed.
LEMMA RunningNotEarly == Running => conn.abort # ClosedEarly
  BY DEF Running, ClosedEarly

\* Connect keeps the invariant, with an address or with a name to resolve.
LEMMA StartKeepsLife ==
  ASSUME TcpLife, NEW resolved, NEW outcome, StartConnect(resolved, outcome)
  PROVE  TcpLife'
<1>1. /\ ConnOK(conn) /\ conn.state = "DISCONNECTED" /\ conn.selector /\ conn.closes = <<>>
      /\ ev = NoEvent /\ ev' = ev /\ dns # "asked" /\ DOMAIN conn = ConnFields
  BY DEF StartConnect, Idle, TcpLife, ConnOK, ConnKinds
<1>2. CASE resolved
  <2>1. ConnOK(ConnectSocket(conn, outcome))
    BY <1>1, RunningNotEarly, ConnectSocketOK DEF StartConnect, Idle
  <2>2. conn' = ConnectSocket(conn, outcome) /\ dns' = dns
    BY <1>2 DEF StartConnect
  <2>3. ConnOK(conn')
    BY <2>1, <2>2
  <2> QED
    BY <1>1, <2>2, <2>3 DEF TcpLife
<1>3. CASE ~resolved
  <2>1. conn' = [conn EXCEPT !.state = "RESOLVING"] /\ dns' = "asked"
    BY <1>3 DEF StartConnect
  <2>2. /\ DOMAIN conn' = ConnFields /\ conn'.state = "RESOLVING" /\ conn'.fd = conn.fd
        /\ conn'.selector = conn.selector /\ conn'.registered = conn.registered
        /\ conn'.closes = <<>> /\ conn'.abort = conn.abort
    BY <1>1, <2>1 DEF ConnFields
  <2>3. ConnKinds(conn')
    <3>1. "RESOLVING" \in States /\ <<>> \in Seq(Directives)
      BY DEF States
    <3> QED
      BY <1>1, <2>2, <3>1 DEF ConnOK, ConnKinds
  <2>4. ConnOpen(conn')
    <3>1. ~conn.fd
      BY <1>1 DEF ConnOK, ConnOpen, OpenStates
    <3> QED
      BY <1>1, <2>2, <3>1 DEF ConnOpen, OpenStates
  <2>5. ConnTold(conn')
    BY <2>2 DEF ConnTold
  <2> QED
    BY <1>1, <2>2, <2>3, <2>4, <2>5 DEF TcpLife, ConnOK
<1> QED
  BY <1>2, <1>3

\* Wrap keeps the invariant.
LEMMA WrapKeepsLife ==
  ASSUME TcpLife, NEW outcome, Wrap(outcome)
  PROVE  TcpLife'
<1>1. /\ ConnOK(conn) /\ conn.state = "DISCONNECTED" /\ conn.selector /\ conn.closes = <<>>
      /\ ev = NoEvent /\ ev' = ev /\ dns # "asked" /\ dns' = dns /\ conn' = WrapResult(conn, outcome)
  BY DEF Wrap, Idle, TcpLife
<1>2. ConnOK(conn')
  BY <1>1, WrapResultOK
<1> QED
  BY <1>1, <1>2 DEF TcpLife

\* The answer of the resolver keeps the invariant.
LEMMA DnsKeepsLife ==
  ASSUME TcpLife, NEW resolved, NEW outcome, DnsAnswer(resolved, outcome)
  PROVE  TcpLife'
<1>1. /\ ConnOK(conn) /\ conn.state = "RESOLVING" /\ ev = NoEvent /\ ev' = ev /\ dns' = "answered"
      /\ conn' = HandleDnsResult(conn, resolved, outcome)
  BY DEF DnsAnswer, Idle, TcpLife, Becomes
<1>2. ConnOK(conn')
  BY <1>1, RunningNotEarly, HandleDnsResultOK DEF DnsAnswer, Idle
<1> QED
  BY <1>1, <1>2 DEF TcpLife

\* The functions and alarms of the select thread keep the invariant.
LEMMA IdleStepsKeepLife ==
  ASSUME TcpLife, AppWrite \/ RunPosted \/ HandleTimeoutEvent \/ CloseAll
  PROVE  TcpLife'
<1>1. ConnOK(conn) /\ DOMAIN conn = ConnFields /\ ev = NoEvent /\ ev' = ev /\ dns' = dns
  BY DEF TcpLife, ConnOK, ConnKinds, AppWrite, RunPosted, HandleTimeoutEvent, CloseAll, Idle
<1>2. conn' \in {Write(conn), FlushAndClose(conn), ForceClose(conn), InternalClose(conn),
                 Abort(conn, "hang: CleanAndCloseAll")}
  <2>1. CASE AppWrite
    BY <2>1 DEF AppWrite
  <2>2. CASE RunPosted
    BY <2>2 DEF RunPosted, Becomes
  <2>3. CASE HandleTimeoutEvent
    BY <2>3 DEF HandleTimeoutEvent, Becomes
  <2>4. CASE CloseAll
    BY <2>4 DEF CloseAll, Becomes
  <2> QED
    BY <2>1, <2>2, <2>3, <2>4
<1>3. Keeps(conn, Abort(conn, "hang: CleanAndCloseAll"))
  BY <1>1, AbortLife, OtherAborts, SameLifeOK
<1>4. Keeps(conn, conn')
  BY <1>1, <1>2, <1>3, WriteOK, FlushAndCloseOK, ForceCloseOK, InternalCloseOK
<1>5. ConnOK(conn') /\ (conn.state = "RESOLVING" => conn'.state = "RESOLVING")
  BY <1>4 DEF Keeps
<1> QED
  BY <1>1, <1>5 DEF TcpLife

\* The handlers of an event keep the invariant.
LEMMA EventStepsKeepLife ==
  ASSUME TcpLife, NEW reaction, NEW stale, NEW k,
         ErrorEvent \/ ReadEvent(reaction, stale) \/ WriteEvent(k, reaction)
  PROVE  TcpLife'
<1>1. ev # NoEvent /\ ConnOK(conn) /\ conn.fd /\ dns' = dns
  BY DEF TcpLife, ErrorEvent, ReadEvent, WriteEvent
<1>2. ConnOK(conn')
  <2>1. CASE ErrorEvent
    BY <1>1, <2>1, HandleErrorEventOK DEF ErrorEvent, Becomes
  <2>2. CASE ReadEvent(reaction, stale)
    BY <1>1, <2>2, HandleReadEventOK DEF ReadEvent
  <2>3. CASE WriteEvent(k, reaction)
    BY <1>1, <2>3, HandleWriteEventOK DEF WriteEvent
  <2> QED
    BY <2>1, <2>2, <2>3
<1>3. ev' # NoEvent => conn'.fd
  BY DEF ErrorEvent, ReadEvent, WriteEvent, Proceed
<1>4. dns # "asked"
  BY <1>1, EventStates DEF TcpLife
<1> QED
  BY <1>1, <1>2, <1>3, <1>4 DEF TcpLife, NoEvent

\* Every step keeps the invariant.
LEMMA LifeNext == TcpLife /\ [TcpNext]_tcpVars => TcpLife'
<1> SUFFICES ASSUME TcpLife, [TcpNext]_tcpVars PROVE TcpLife'
  OBVIOUS
<1>1. CASE UNCHANGED <<conn, ev, dns>>
  BY <1>1 DEF TcpLife, NoEvent
<1>2. CASE TcpNext
  <2>1. CASE \E outcome \in Outcomes :
               \/ \E resolved \in BOOLEAN : StartConnect(resolved, outcome) \/ DnsAnswer(resolved, outcome)
               \/ Wrap(outcome)
    BY <2>1, StartKeepsLife, DnsKeepsLife, WrapKeepsLife
  <2>2. CASE \E call \in {"flush", "force"} : CallFromThread(call)
    BY <2>2, <1>1 DEF CallFromThread
  <2>3. CASE AppWrite \/ RunPosted \/ HandleTimeoutEvent \/ CloseAll
    BY <2>3, IdleStepsKeepLife
  <2>4. CASE TcpLoopStep
    <3>1. conn.fd /\ conn' = conn /\ dns' = dns
      BY <2>4 DEF TcpLoopStep
    <3> QED
      BY <3>1 DEF TcpLife
  <2>5. CASE ErrorEvent \/ \E reaction \in Reactions :
               \/ \E stale \in BOOLEAN : ReadEvent(reaction, stale)
               \/ \E k \in Takes : WriteEvent(k, reaction)
    BY <2>5, EventStepsKeepLife
  <2>6. CASE PeerConnects \/ PeerSends \/ PeerReads \/ PeerCloses
    BY <2>6, <1>1 DEF PeerConnects, PeerSends, PeerReads, PeerCloses
  <2> QED
    BY <1>2, <2>1, <2>2, <2>3, <2>4, <2>5, <2>6 DEF TcpNext, EventStep
<1> QED
  BY <1>1, <1>2 DEF tcpVars

\* The invariant says what the theorem states.
LEMMA LifeMeans == TcpLife => TcpChecksHold /\ OpenIsRegistered /\ CloseReportedOnce
<1> SUFFICES ASSUME TcpLife PROVE TcpChecksHold /\ OpenIsRegistered /\ CloseReportedOnce
  OBVIOUS
<1>1. ConnKinds(conn) /\ ConnOpen(conn) /\ ConnTold(conn)
  BY DEF TcpLife, ConnOK
<1>2. TcpChecksHold
  BY <1>1 DEF ConnKinds, TcpChecksHold, FailedChecks, ClosedEarly
<1>3. OpenIsRegistered
  BY <1>1 DEF ConnOpen, OpenIsRegistered, OpenStates
<1>4. CloseReportedOnce
  <2> DEFINE gone == {i \in DOMAIN conn.closes : conn.closes[i] = "CLOSE_READ_WRITE"}
  <2>1. DOMAIN conn.closes = 1..Len(conn.closes)
    BY <1>1 DEF ConnKinds
  <2>2. CASE gone = {}
    BY <2>2, FS_EmptySet DEF CloseReportedOnce
  <2>3. CASE gone # {}
    <3>1. PICK i : i \in gone
      BY <2>3
    <3>2. gone = {i}
      BY <1>1, <2>1, <3>1 DEF ConnTold
    <3>3. Cardinality(gone) = 1
      BY <3>2, FS_Singleton
    <3>4. conn.state = "DISCONNECTED"
      BY <1>1, <2>1, <3>1 DEF ConnTold
    <3>5. ~conn.fd
      BY <1>1, <3>4 DEF ConnOpen, OpenStates
    <3> HIDE DEF gone
    <3>6. Cardinality(gone) <= 1 /\ (gone # {} => ~conn.fd)
      BY <3>3, <3>5
    <3> QED
      BY <3>6 DEF CloseReportedOnce, gone
  <2> QED
    BY <2>2, <2>3
<1> QED
  BY <1>2, <1>3, <1>4

\* Whatever the application does in its handlers, the peer, the resolver and
\* other threads do: no CHECK on the state of a TcpConnection fails but the one of
\* CloseCommunication (connection.cc:966), and that one only while the name is
\* being resolved; a descriptor is held exactly while the connection is open and
\* registered, and CLOSE_READ_WRITE is reported at most once and after the
\* descriptor is closed.  For any chunks, calls, input and read limit.
THEOREM TcpLifeHolds == TcpSpec => [](TcpChecksHold /\ OpenIsRegistered /\ CloseReportedOnce)
<1>1. TcpLife => TcpChecksHold /\ OpenIsRegistered /\ CloseReportedOnce
  BY LifeMeans
<1> QED
  BY <1>1, LifeInit, LifeNext, PTL DEF TcpSpec

-----------------------------------------------------------------------------
\* A method that reports no close, unless the descriptor is gone after it.
Quiet(c, d) == d.fd => c.fd /\ d.closes = c.closes

\* A method that changes nothing of the life is quiet.
LEMMA QuietSame ==
  ASSUME NEW c, NEW d, SameLife(c, d)
  PROVE  Quiet(c, d)
  BY DEF SameLife, Quiet

\* Quiet methods compose.
LEMMA QuietTwice ==
  ASSUME NEW c, NEW d, NEW e, Quiet(c, d), Quiet(d, e)
  PROVE  Quiet(c, e)
  BY DEF Quiet

\* FlushAndClose reports nothing.
LEMMA FlushAndCloseQuiet ==
  ASSUME NEW c, DOMAIN c = ConnFields
  PROVE  Quiet(c, FlushAndClose(c))
<1> DEFINE d == [c EXCEPT !.state = "FLUSHING"]
<1>1. DOMAIN d = ConnFields /\ d.fd = c.fd /\ d.closes = c.closes
  BY DEF ConnFields
<1>2. FlushAndClose(c) \in {c, Abort(c, "CHECK: close while resolving"), RequestEvents(d, "write", TRUE),
                            Abort(c, "null selector: close")}
  BY DEF FlushAndClose, CloseCommunication
<1>3. Quiet(c, c)
  BY DEF Quiet
<1>4. Quiet(c, Abort(c, "CHECK: close while resolving")) /\ Quiet(c, Abort(c, "null selector: close"))
  BY DEF Quiet, Abort, ConnFields
<1>5. Quiet(c, d)
  BY <1>1 DEF Quiet
<1> HIDE DEF d
<1>6. Quiet(d, RequestEvents(d, "write", TRUE))
  BY <1>1, RequestEventsLife, QuietSame
<1>7. Quiet(c, RequestEvents(d, "write", TRUE))
  BY <1>5, <1>6, QuietTwice
<1> QED
  BY <1>2, <1>3, <1>4, <1>7

\* InternalClose reports CLOSE_READ_WRITE, but it has closed fd_ before.
LEMMA InternalCloseQuiet ==
  ASSUME NEW c, ConnOK(c)
  PROVE  Quiet(c, InternalClose(c))
<1>0. DOMAIN c = ConnFields
  BY DEF ConnOK, ConnKinds
<1>1. CASE c.state = "DISCONNECTED"
  <2>1. InternalClose(c) = c
    BY <1>1 DEF InternalClose, ConnOK, ConnOpen, OpenStates
  <2> QED
    BY <2>1 DEF Quiet
<1>2. CASE c.state = "RESOLVING"
  <2>1. InternalClose(c) = [c EXCEPT !.closeOnResolve = TRUE]
    BY <1>2 DEF InternalClose
  <2> QED
    BY <1>0, <2>1 DEF Quiet, ConnFields
<1>3. CASE c.state # "DISCONNECTED" /\ c.state # "RESOLVING"
  <2> DEFINE d == [c EXCEPT !.fd = FALSE, !.registered = FALSE, !.selector = FALSE,
                   !.state = "DISCONNECTED", !.readClosed = TRUE,
                   !.writeClosed = TRUE, !.timer = FALSE, !.out = <<>>]
             e == [d EXCEPT !.closes = Append(@, "CLOSE_READ_WRITE")]
  <2>1. InternalClose(c) = CallCloseHandler(d, "CLOSE_READ_WRITE")
    BY <1>3 DEF InternalClose
  <2>2. DOMAIN d = ConnFields /\ d.fd = FALSE /\ d.readClosed = TRUE /\ d.writeClosed = TRUE
    BY <1>0 DEF ConnFields
  <2> HIDE DEF d
  <2>3. CallCloseHandler(d, "CLOSE_READ_WRITE") = ConnectionCallCloseHandler(e, "CLOSE_READ_WRITE")
    BY <2>2 DEF CallCloseHandler
  <2>4. DOMAIN e = ConnFields /\ e.fd = FALSE
    BY <2>2 DEF ConnFields
  <2> HIDE DEF e
  <2>5. Quiet(e, ConnectionCallCloseHandler(e, "CLOSE_READ_WRITE"))
    BY <2>4, FlushAndCloseQuiet DEF ConnectionCallCloseHandler, Quiet
  <2> QED
    BY <2>1, <2>3, <2>4, <2>5 DEF Quiet
<1> QED
  BY <1>1, <1>2, <1>3

\* ForceClose, which is InternalClose or an abort.
LEMMA ForceCloseQuiet ==
  ASSUME NEW c, ConnOK(c)
  PROVE  Quiet(c, ForceClose(c))
<1>0. DOMAIN c = ConnFields
  BY DEF ConnOK, ConnKinds
<1>1. ForceClose(c) \in {InternalClose(c), Abort(c, "null selector: close")}
  BY DEF ForceClose
<1>2. Quiet(c, Abort(c, "null selector: close"))
  BY <1>0, AbortLife, OtherAborts, QuietSame
<1> QED
  BY <1>1, <1>2, InternalCloseQuiet

\* Write reports nothing.
LEMMA WriteQuiet ==
  ASSUME NEW c, ConnOK(c)
  PROVE  Quiet(c, Write(c))
<1> DEFINE d == [c EXCEPT !.writes = @ + 1,
                 !.out = Append(@, [i \in 1..ChunkSize |-> Written(c) + i])]
<1>0. DOMAIN c = ConnFields
  BY DEF ConnOK, ConnKinds
<1>1. Write(c) \in {c, RequestEvents(d, "write", TRUE)}
  BY DEF Write
<1>2. DOMAIN d = ConnFields /\ d.fd = c.fd /\ d.closes = c.closes
  BY <1>0 DEF ConnFields
<1> HIDE DEF d
<1>3. Quiet(c, d) /\ Quiet(c, c)
  BY <1>2 DEF Quiet
<1>4. Quiet(d, RequestEvents(d, "write", TRUE))
  BY <1>2, RequestEventsLife, QuietSame
<1>5. Quiet(c, RequestEvents(d, "write", TRUE))
  BY <1>3, <1>4, QuietTwice
<1> QED
  BY <1>1, <1>3, <1>5

\* Whatever a handler of the application does.
LEMMA ReactQuiet ==
  ASSUME NEW c, ConnOK(c), NEW reaction
  PROVE  Quiet(c, React(c, reaction))
<1>0. DOMAIN c = ConnFields
  BY DEF ConnOK, ConnKinds
<1>1. Quiet(c, c)
  BY DEF Quiet
<1>2. React(c, reaction) \in {Write(c), FlushAndClose(c), ForceClose(c), InternalClose(c), c}
  BY DEF React
<1> QED
  BY <1>0, <1>1, <1>2, WriteQuiet, FlushAndCloseQuiet, ForceCloseQuiet, InternalCloseQuiet

\* The first event of a connecting socket.
LEMMA ConnectedReactQuiet ==
  ASSUME NEW c, ConnOK(c), c.fd, NEW reaction
  PROVE  Quiet(c, PerformConnectOnFirstOperation(c, reaction))
<1> DEFINE d == [c EXCEPT !.state = "CONNECTED"]
           r == IF reaction = "error" THEN "nothing" ELSE reaction
<1>1. "CONNECTED" \in OpenStates /\ DOMAIN c = ConnFields
  BY DEF OpenStates, ConnOK, ConnKinds
<1>2. ConnOK(d)
  BY <1>1, OpenStateOK DEF Keeps
<1>3. Quiet(c, d)
  BY <1>1 DEF Quiet, ConnFields
<1>4. PerformConnectOnFirstOperation(c, reaction) = React(d, r)
  BY DEF PerformConnectOnFirstOperation
<1> HIDE DEF d, r
<1>5. Quiet(d, React(d, r))
  BY <1>2, ReactQuiet
<1> QED
  BY <1>3, <1>4, <1>5, QuietTwice

\* The end of HandleWriteEvent.
LEMMA AfterWriteQuiet ==
  ASSUME NEW c, ConnOK(c), NEW s, NEW reaction
  PROVE  Quiet(c, AfterWrite(c, s, reaction))
<1> DEFINE after == IF c.state # "FLUSHING" THEN React(c, reaction) ELSE c
           idle == RequestEvents(after, "write", FALSE)
<1>1. AfterWrite(c, s, reaction) \in {after, idle, InternalClose(idle), ShutdownWrite(idle)}
  BY DEF AfterWrite
<1>2. ConnOK(after) /\ Quiet(c, after)
  BY ReactOK, ReactQuiet DEF Keeps, Quiet
<1> HIDE DEF after
<1>3. DOMAIN after = ConnFields
  BY <1>2 DEF ConnOK, ConnKinds
<1>4. ConnOK(idle) /\ Quiet(after, idle)
  BY <1>2, <1>3, RequestEventsOK, RequestEventsLife, QuietSame DEF Keeps
<1>5. Quiet(c, idle)
  BY <1>2, <1>4, QuietTwice
<1> HIDE DEF idle
<1>6. DOMAIN idle = ConnFields
  BY <1>4 DEF ConnOK, ConnKinds
<1>7. SameLife(idle, ShutdownWrite(idle))
  BY <1>6 DEF ShutdownWrite, SameLife, ConnFields
<1>8. Quiet(idle, ShutdownWrite(idle)) /\ Quiet(idle, InternalClose(idle))
  BY <1>4, <1>7, QuietSame, InternalCloseQuiet
<1> QED
  BY <1>1, <1>2, <1>5, <1>8, QuietTwice

\* HandleWriteEvent.
LEMMA HandleWriteEventQuiet ==
  ASSUME NEW c, ConnOK(c), c.fd, NEW s, NEW k, NEW reaction
  PROVE  Quiet(c, HandleWriteEvent(c, s, k, reaction))
<1> DEFINE left == RemovePrefix(c.out, Len(WriteCord(c.out, k)))
           d == [c EXCEPT !.out = left]
<1>1. c.state \notin {"DISCONNECTED", "RESOLVING"}
  BY EventStates
<1>2. HandleWriteEvent(c, s, k, reaction) \in
        {PerformConnectOnFirstOperation(c, reaction), InternalClose(c), AfterWrite(d, s, reaction)}
  BY <1>1 DEF HandleWriteEvent
<1>3. DOMAIN c = ConnFields
  BY DEF ConnOK, ConnKinds
<1> HIDE DEF left
<1>4. SameLife(c, d)
  BY <1>3 DEF SameLife, ConnFields
<1>5. ConnOK(d) /\ Quiet(c, d)
  BY <1>4, SameLifeOK, QuietSame DEF Keeps
<1> HIDE DEF d
<1>6. Quiet(c, AfterWrite(d, s, reaction))
  BY <1>5, AfterWriteQuiet, QuietTwice
<1> QED
  BY <1>2, <1>6, ConnectedReactQuiet, InternalCloseQuiet

\* HandleErrorEvent.
LEMMA HandleErrorEventQuiet ==
  ASSUME NEW c, ConnOK(c), c.fd, NEW flags
  PROVE  Quiet(c, HandleErrorEvent(c, flags))
<1> DEFINE wc == [c EXCEPT !.writeClosed = TRUE]
           flushing == [c EXCEPT !.state = "FLUSHING"]
<1>1. c.state # "DISCONNECTED" /\ DOMAIN c = ConnFields
  BY EventStates DEF ConnOK, ConnKinds
<1>2. HandleErrorEvent(c, flags) \in
        {InternalClose(c), wc, InternalClose(wc), flushing, InternalClose(flushing), c}
  BY <1>1 DEF HandleErrorEvent
<1>3. SameLife(c, wc)
  BY <1>1 DEF SameLife, ConnFields
<1>4. "FLUSHING" \in OpenStates
  BY DEF OpenStates
<1>5. ConnOK(wc) /\ ConnOK(flushing)
  BY <1>3, <1>4, SameLifeOK, OpenStateOK DEF Keeps
<1>6. Quiet(c, wc) /\ Quiet(c, flushing) /\ Quiet(c, c)
  BY <1>1 DEF Quiet, ConnFields
<1> HIDE DEF wc, flushing
<1>7. Quiet(c, InternalClose(c)) /\ Quiet(c, InternalClose(wc)) /\ Quiet(c, InternalClose(flushing))
  BY <1>5, <1>6, InternalCloseQuiet, QuietTwice
<1> QED
  BY <1>2, <1>6, <1>7

\* Opening a socket tells the application nothing.
LEMMA ConnectSocketTells ==
  ASSUME NEW c, DOMAIN c = ConnFields, NEW outcome
  PROVE  ConnectSocket(c, outcome).closes = c.closes /\ WrapResult(c, outcome).closes = c.closes
<1>1. ConnectSocket(c, outcome).closes = c.closes
  BY DEF ConnectSocket, ConnFields
<1>2. WrapResult(c, outcome).closes = c.closes
  BY DEF WrapResult, ConnFields
<1> QED
  BY <1>1, <1>2

\* The kernel's side of the socket.
SockFields == {"est", "in", "fin", "err", "shut", "full"}

\* The bytes that wait in the socket are a number.
SockOK == DOMAIN sock = SockFields /\ sock.in \in Int

\* Every step keeps the socket a socket.
LEMMA SockNext == SockOK /\ [TcpNext]_tcpVars => SockOK'
<1> SUFFICES ASSUME SockOK, [TcpNext]_tcpVars PROVE SockOK'
  OBVIOUS
<1>1. DOMAIN NoSocket = SockFields /\ NoSocket.in \in Int
  BY DEF NoSocket, SockFields
<1>2. CASE sock' \in {sock, NoSocket}
  BY <1>1, <1>2 DEF SockOK
<1>3. ASSUME NEW resolved, NEW outcome, StartConnect(resolved, outcome) PROVE SockOK'
  <2>1. sock' \in {sock, [NoSocket EXCEPT !.err = conn'.fd /\ outcome = "connect"]}
    BY <1>3 DEF StartConnect
  <2> QED
    BY <1>1, <2>1 DEF SockOK, SockFields
<1>4. ASSUME NEW outcome, Wrap(outcome) PROVE SockOK'
  <2>1. sock' \in {NoSocket, [NoSocket EXCEPT !.est = TRUE]}
    BY <1>4 DEF Wrap
  <2> QED
    BY <1>1, <2>1 DEF SockOK, SockFields
<1>5. ASSUME NEW reaction, NEW stale, ReadEvent(reaction, stale) PROVE SockOK'
  <2> DEFINE n == IF conn.state = "CONNECTING" \/ sock.err THEN 0 ELSE PerformRead(sock)
  <2>1. n \in Int
    BY TcpAssumption DEF SockOK, PerformRead
  <2>2. sock' \in {[sock EXCEPT !.in = @ - n], NoSocket}
    BY <1>5 DEF ReadEvent
  <2> HIDE DEF n
  <2> QED
    BY <1>1, <2>1, <2>2 DEF SockOK, SockFields
<1>6. ASSUME NEW k, NEW reaction, WriteEvent(k, reaction) PROVE SockOK'
  <2>1. PICK shut, full : sock' \in {[sock EXCEPT !.shut = shut, !.full = full], NoSocket}
    BY <1>6 DEF WriteEvent
  <2> QED
    BY <1>1, <2>1 DEF SockOK, SockFields
<1>7. CASE PeerConnects \/ PeerSends \/ PeerReads \/ PeerCloses
  <2>1. sock' \in {[sock EXCEPT !.est = TRUE], [sock EXCEPT !.err = TRUE], [sock EXCEPT !.fin = TRUE],
                   [sock EXCEPT !.in = @ + 1], [sock EXCEPT !.full = FALSE]}
    BY <1>7 DEF PeerConnects, PeerSends, PeerReads, PeerCloses
  <2> QED
    BY <2>1 DEF SockOK, SockFields
<1>8. ASSUME NEW resolved, NEW outcome, DnsAnswer(resolved, outcome) PROVE sock' \in {sock, NoSocket}
  BY <1>8 DEF DnsAnswer, Becomes
<1>9. ASSUME \/ \E call \in {"flush", "force"} : CallFromThread(call)
             \/ AppWrite \/ RunPosted \/ HandleTimeoutEvent \/ CloseAll \/ TcpLoopStep \/ ErrorEvent
             \/ UNCHANGED tcpVars
      PROVE  sock' \in {sock, NoSocket}
  BY <1>9 DEF CallFromThread, AppWrite, RunPosted, HandleTimeoutEvent, CloseAll, TcpLoopStep, ErrorEvent,
              Becomes, tcpVars
<1> QED
  BY <1>2, <1>3, <1>4, <1>5, <1>6, <1>7, <1>8, <1>9 DEF TcpNext, EventStep

\* Only a read reports a close and leaves the descriptor open, and without a
\* limit it has taken all that waited.
LEMMA CloseReadAfterAll ==
  ASSUME ReadLimit = 0, TcpLife, SockOK, [TcpNext]_tcpVars, conn'.fd, conn'.closes # conn.closes
  PROVE  sock'.in = 0
<1>0. ConnOK(conn) /\ DOMAIN conn = ConnFields
  BY DEF TcpLife, ConnOK, ConnKinds
<1>1. ~Quiet(conn, conn')
  BY DEF Quiet
<1>2. ASSUME NEW resolved, NEW outcome, StartConnect(resolved, outcome) PROVE FALSE
  <2>1. conn' \in {ConnectSocket(conn, outcome), [conn EXCEPT !.state = "RESOLVING"]}
    BY <1>2 DEF StartConnect
  <2>2. [conn EXCEPT !.state = "RESOLVING"].closes = conn.closes
    BY <1>0 DEF ConnFields
  <2>3. ConnectSocket(conn, outcome).closes = conn.closes
    BY <1>0, ConnectSocketTells
  <2> QED
    BY <2>1, <2>2, <2>3
<1>3. ASSUME NEW outcome, Wrap(outcome) PROVE FALSE
  BY <1>0, <1>3, ConnectSocketTells DEF Wrap
<1>4. ASSUME NEW resolved, NEW outcome, DnsAnswer(resolved, outcome) PROVE FALSE
  <2> DEFINE d == ConnectSocket(conn, outcome)
  <2>1. conn.state = "RESOLVING" /\ conn.selector
    BY <1>0, <1>4 DEF DnsAnswer, TcpLife, ConnOK, ConnOpen
  <2>2. \A i \in 1..Len(conn.closes) : conn.closes[i] # "CLOSE_READ_WRITE"
    BY <1>0, <2>1 DEF ConnOK, ConnTold
  <2>3. ConnOK(d) /\ d.closes = conn.closes
    BY <1>0, <1>4, <2>1, <2>2, RunningNotEarly, ConnectSocketOK, ConnectSocketTells DEF DnsAnswer, Idle
  <2>4. conn' \in {InternalClose(conn), InternalClose(d), d}
    BY <1>4, <2>1 DEF DnsAnswer, Becomes, HandleDnsResult
  <2> HIDE DEF d
  <2>5. Quiet(conn, InternalClose(conn)) /\ Quiet(d, InternalClose(d))
    BY <1>0, <2>3, InternalCloseQuiet
  <2> QED
    BY <2>3, <2>4, <2>5 DEF Quiet
<1>5. ASSUME AppWrite \/ RunPosted \/ HandleTimeoutEvent \/ CloseAll PROVE FALSE
  <2>1. conn' \in {Write(conn), FlushAndClose(conn), ForceClose(conn), InternalClose(conn),
                   Abort(conn, "hang: CleanAndCloseAll")}
    <3>1. CASE AppWrite
      BY <3>1 DEF AppWrite
    <3>2. CASE RunPosted
      BY <3>2 DEF RunPosted, Becomes
    <3>3. CASE HandleTimeoutEvent
      BY <3>3 DEF HandleTimeoutEvent, Becomes
    <3>4. CASE CloseAll
      BY <3>4 DEF CloseAll, Becomes
    <3> QED
      BY <1>5, <3>1, <3>2, <3>3, <3>4
  <2>2. Quiet(conn, Abort(conn, "hang: CleanAndCloseAll"))
    BY <1>0, AbortLife, OtherAborts, QuietSame
  <2> QED
    BY <1>0, <1>1, <2>1, <2>2, WriteQuiet, FlushAndCloseQuiet, ForceCloseQuiet, InternalCloseQuiet
<1>6. ASSUME ErrorEvent PROVE FALSE
  <2>1. ConnOK(conn) /\ conn.fd /\ conn' = HandleErrorEvent(conn, ev.flags)
    BY <1>0, <1>6 DEF ErrorEvent, Becomes, TcpLife
  <2> QED
    BY <1>1, <2>1, HandleErrorEventQuiet
<1>7. ASSUME NEW k, NEW reaction, WriteEvent(k, reaction) PROVE FALSE
  <2>1. ConnOK(conn) /\ conn.fd /\ conn' = HandleWriteEvent(conn, sock, k, reaction)
    BY <1>0, <1>7 DEF WriteEvent, TcpLife
  <2> QED
    BY <1>1, <2>1, HandleWriteEventQuiet
<1>8. ASSUME NEW reaction, NEW stale, ReadEvent(reaction, stale) PROVE sock'.in = 0
  <2>1. ConnOK(conn) /\ conn.fd /\ conn' = HandleReadEvent(conn, sock, reaction, stale)
    BY <1>0, <1>8 DEF ReadEvent, TcpLife
  <2>2. conn.state \notin {"DISCONNECTED", "RESOLVING"}
    BY <2>1, EventStates
  <2>3. conn.state # "CONNECTING" /\ ~sock.err
    <3>1. conn.state = "CONNECTING" => conn' = PerformConnectOnFirstOperation(conn, reaction)
      BY <2>1, <2>2 DEF HandleReadEvent
    <3>2. conn.state # "CONNECTING" /\ sock.err => conn' = InternalClose(conn)
      BY <2>1, <2>2 DEF HandleReadEvent
    <3>3. Quiet(conn, PerformConnectOnFirstOperation(conn, reaction)) /\ Quiet(conn, InternalClose(conn))
      BY <2>1, ConnectedReactQuiet, InternalCloseQuiet
    <3> QED
      BY <1>1, <3>1, <3>2, <3>3
  <2>4. sock' = [sock EXCEPT !.in = @ - PerformRead(sock)]
    BY <1>8, <2>3 DEF ReadEvent
  <2>5. PerformRead(sock) = sock.in
    BY DEF PerformRead
  <2>6. sock'.in = sock.in - sock.in
    BY <2>4, <2>5 DEF SockOK, SockFields
  <2> QED
    BY <2>6 DEF SockOK
<1>9. \/ \E call \in {"flush", "force"} : CallFromThread(call)
      \/ TcpLoopStep \/ PeerConnects \/ PeerSends \/ PeerReads \/ PeerCloses \/ UNCHANGED tcpVars
      => conn' = conn
  BY DEF CallFromThread, TcpLoopStep, PeerConnects, PeerSends, PeerReads, PeerCloses, tcpVars
<1> QED
  BY <1>2, <1>3, <1>4, <1>5, <1>6, <1>7, <1>8, <1>9 DEF TcpNext, EventStep

\* With no read_limit (params_.read_limit is unset unless the application sets
\* it), CLOSE_READ is reported to an open connection whose peer has finished only
\* by the read that took all that waited in the socket.
THEOREM ReadBeforeCloseReadHolds == ASSUME ReadLimit = 0 PROVE TcpSpec => ReadBeforeCloseRead
<1>1. TcpInit => SockOK
  BY DEF TcpInit, NoSocket, SockOK, SockFields
<1>2. TcpLife /\ SockOK /\ [TcpNext]_tcpVars
        => [Len(conn'.closes) = Len(conn.closes) + 1 /\ Last(conn'.closes) = "CLOSE_READ"
            /\ sock.fin /\ conn'.fd => sock'.in = 0]_tcpVars
  <2> SUFFICES ASSUME TcpLife, SockOK, [TcpNext]_tcpVars, conn'.fd, Len(conn'.closes) = Len(conn.closes) + 1
               PROVE  sock'.in = 0
    OBVIOUS
  <2>1. Len(conn.closes) \in Nat
    BY DEF TcpLife, ConnOK, ConnKinds
  <2>2. conn'.closes # conn.closes
    BY <2>1
  <2> QED
    BY <2>2, CloseReadAfterAll
<1> QED
  BY <1>1, <1>2, LifeInit, LifeNext, SockNext, PTL DEF TcpSpec, ReadBeforeCloseRead

-----------------------------------------------------------------------------
(* TcpAcceptor: clients, queues and counters                               *)

\* The members of the acceptor, its counters, and the tasks of client threads.
AccFields == {"state", "fd", "selector", "registered", "polled", "closing", "hasHandler", "next", "abort"}
StatFields == {"hangUps", "errors", "parse", "filtered", "scheduled", "accepted", "wrapErrors", "initialized"}
Tasks == {"initialize", "drop"} \X Clients

\* The variables have their types.
AccKinds ==
  /\ DOMAIN acc = AccFields /\ acc.next \in Nat /\ acc.closing \in 0..MaxCalls
  /\ acc.state \in {"DISCONNECTED", "LISTENING"} /\ acc.fd \in BOOLEAN /\ acc.selector \in BOOLEAN
  /\ client \in [Clients -> ClientPlaces]
  /\ todo \in [ClientThreadIds -> Seq(Tasks)]
  /\ DOMAIN stats = StatFields /\ \A s \in StatFields : stats[s] \in Nat
  /\ given \in [ClientThreadIds -> Nat]

\* A listening acceptor has a descriptor and a selector; after an error it has
\* neither.
AccListens ==
  /\ acc.fd <=> acc.state = "LISTENING"
  /\ acc.fd => acc.selector
  /\ stats.errors <= 1 /\ (stats.errors = 1 => ~acc.fd)
  /\ stats.errors = 1 => ~acc.selector
  /\ stats.hangUps + stats.errors <= MaxSocketErrors

\* The queue of a client thread says where its clients are.
QueueTells ==
  \A t \in ClientThreadIds : \A i \in 1..Len(todo[t]) :
     client[todo[t][i][2]] = IF todo[t][i][1] = "initialize" THEN "scheduled" ELSE "dropping"

\* A client is in one queue, once.
QueuedOnce ==
  \A t, u \in ClientThreadIds : \A i \in 1..Len(todo[t]), j \in 1..Len(todo[u]) :
     todo[t][i][2] = todo[u][j][2] => t = u /\ i = j

\* A scheduled client is in a queue, to be initialized.
ScheduledQueued ==
  \A c \in Clients : client[c] = "scheduled" =>
     \E t \in ClientThreadIds : \E i \in 1..Len(todo[t]) : todo[t][i] = <<"initialize", c>>

\* The number of clients in some of the places; the places behind accept().
In(places) == Cardinality({c \in Clients : client[c] \in places})
Accepted == ClientPlaces \ {"none", "backlog"}

\* The counters of the acceptor, against the places its clients are in.
AccCounts ==
  /\ stats.parse + stats.filtered + stats.scheduled <= In(Accepted)
  /\ stats.scheduled = In({"scheduled"}) + stats.accepted
  /\ stats.accepted = stats.initialized + stats.wrapErrors
  /\ stats.initialized >= In({"delivered", "dropping"})

\* The client threads were given clients in turn: no thread got two more than
\* another.
GivenInTurn ==
  \E q \in Nat : \A t \in ClientThreadIds :
    given[t] = q + (IF t < acc.next % ClientThreads THEN 1 ELSE 0)

\* The inductive invariant.
AccIInv == AccKinds /\ AccListens /\ QueueTells /\ QueuedOnce /\ ScheduledQueued /\ AccCounts /\ GivenInTurn

\* A number of clients is a number.
LEMMA InOnePlace ==
  ASSUME AccKinds, NEW places
  PROVE  In(places) \in Nat /\ In(places) <= MaxClients
<1>1. IsFiniteSet(Clients) /\ Cardinality(Clients) = MaxClients
  BY AcceptorAssumption, FS_Interval DEF Clients
<1>2. {c \in Clients : client[c] \in places} \in SUBSET Clients
  OBVIOUS
<1> QED
  BY <1>1, <1>2, FS_Subset, FS_CardinalityType, AcceptorAssumption DEF In

\* What one client that moves does to these numbers.
LEMMA ClientMoves ==
  ASSUME AccKinds, NEW c \in Clients, NEW p, client' = [client EXCEPT ![c] = p], NEW places
  PROVE  In(places)' = In(places) - (IF client[c] \in places THEN 1 ELSE 0)
                                  + (IF p \in places THEN 1 ELSE 0)
<1> DEFINE S == {d \in Clients : client[d] \in places}
           T == {d \in Clients : client'[d] \in places}
<1>0. IsFiniteSet(S) /\ Cardinality(S) \in Nat
  <2>1. IsFiniteSet(Clients)
    BY AcceptorAssumption, FS_Interval DEF Clients
  <2> QED
    BY <2>1, FS_Subset, FS_CardinalityType
<1>a. In(places) = Cardinality(S) /\ In(places)' = Cardinality(T)
  BY DEF In
<1>1. IsFiniteSet(S \ {c}) /\ Cardinality(S \ {c}) = IF client[c] \in places THEN Cardinality(S) - 1 ELSE Cardinality(S)
  BY <1>0, FS_RemoveElement
<1>2. CASE p \in places
  <2>1. T = (S \ {c}) \cup {c}
    BY <1>2 DEF AccKinds
  <2>2. Cardinality(T) = Cardinality(S \ {c}) + 1
    <3>1. IsFiniteSet(S \ {c}) /\ c \notin S \ {c}
      BY <1>1
    <3> HIDE DEF S, T
    <3> QED
      BY <3>1, <2>1, FS_AddElement
  <2> QED
    BY <1>0, <1>a, <1>1, <1>2, <2>2
<1>3. CASE p \notin places
  <2>1. T = S \ {c}
    BY <1>3 DEF AccKinds
  <2> HIDE DEF S, T
  <2> QED
    BY <1>0, <1>a, <1>1, <1>3, <2>1
<1> QED
  BY <1>2, <1>3

\* next_client_thread_ goes round.
LEMMA NextThread ==
  ASSUME NEW n \in Nat, NEW k \in Nat \ {0}
  PROVE  /\ n % k \in 0..(k - 1)
         /\ (n + 1) % k = IF (n % k) + 1 = k THEN 0 ELSE (n % k) + 1
<1> DEFINE q == n \div k
           r == n % k
           p == (n + 1) \div k
           u == (n + 1) % k
<1>1. /\ q \in Int /\ r \in 0..(k - 1) /\ n = k * q + r
      /\ p \in Int /\ u \in 0..(k - 1) /\ n + 1 = k * p + u
  OBVIOUS
<1> HIDE DEF q, r, p, u
<1>2. k * p + u = k * q + r + 1
  BY <1>1
<1>3. k * (p - q) = k * p - k * q
  BY <1>1
<1>4. PICK d \in Int : d = p - q
  BY <1>1
<1>5. k * d = r + 1 - u
  BY <1>1, <1>2, <1>3, <1>4
<1>6. CASE d <= -1
  <2>1. k * d <= k * (-1)
    BY <1>6, <1>4
  <2> QED
    BY <1>1, <1>5, <2>1
<1>7. CASE d >= 2
  <2>1. k * d >= k * 2
    BY <1>7, <1>4
  <2> QED
    BY <1>1, <1>5, <2>1
<1>8. CASE d = 0
  BY <1>1, <1>5, <1>8 DEF r, u
<1>9. CASE d = 1
  BY <1>1, <1>5, <1>9 DEF r, u
<1> QED
  BY <1>4, <1>6, <1>7, <1>8, <1>9

\* The invariant holds initially.
LEMMA AccInitIInv == AccInit => AccIInv
<1> SUFFICES ASSUME AccInit PROVE AccIInv
  OBVIOUS
<1>0. PICK h \in BOOLEAN :
         acc = [state |-> "DISCONNECTED", fd |-> FALSE, selector |-> TRUE,
              registered |-> FALSE, polled |-> FALSE, closing |-> 0,
              hasHandler |-> h, next |-> 0, abort |-> ""]
  BY DEF AccInit
<1>b. /\ acc.next = 0 /\ acc.closing = 0 /\ acc.state = "DISCONNECTED"
      /\ acc.fd = FALSE /\ acc.selector = TRUE
  BY <1>0
<1>a. /\ client = [c \in Clients |-> "none"]
      /\ todo = [t \in ClientThreadIds |-> <<>>]
      /\ stats = [hangUps |-> 0, errors |-> 0, parse |-> 0, filtered |-> 0, scheduled |-> 0,
                  accepted |-> 0, wrapErrors |-> 0, initialized |-> 0]
      /\ given = [t \in ClientThreadIds |-> 0]
  BY DEF AccInit
<1>1. AccKinds
  <2>1. DOMAIN acc = AccFields
    BY <1>0 DEF AccFields
  <2>2. DOMAIN stats = StatFields
    BY <1>a DEF StatFields
  <2>3. \A s \in StatFields : stats[s] = 0
    BY <1>a DEF StatFields
  <2>4. client \in [Clients -> ClientPlaces] /\ todo \in [ClientThreadIds -> Seq(Tasks)] /\ given \in [ClientThreadIds -> Nat]
    BY <1>a DEF ClientPlaces
  <2>5. acc.next \in Nat /\ acc.closing \in 0..MaxCalls
    BY <1>b, TcpAssumption
  <2> QED
    BY <1>b, <2>1, <2>2, <2>3, <2>4, <2>5 DEF AccKinds
<1>2. AccListens
  BY <1>a, <1>b DEF AccListens, MaxSocketErrors
<1>3. QueueTells /\ QueuedOnce /\ ScheduledQueued
  BY <1>a DEF QueueTells, QueuedOnce, ScheduledQueued
<1>4. In(Accepted) = 0 /\ In({"scheduled"}) = 0 /\ In({"delivered", "dropping"}) = 0
  <2>1. \A P \in SUBSET Accepted : {c \in Clients : client[c] \in P} = {}
    BY <1>a DEF Accepted, ClientPlaces
  <2> QED
    BY <2>1, FS_EmptySet DEF In, Accepted, ClientPlaces
<1>5. AccCounts
  BY <1>4, <1>a DEF AccCounts
<1>6. GivenInTurn
  <2>1. \A t \in ClientThreadIds : given[t] = 0 + (IF t < acc.next % ClientThreads THEN 1 ELSE 0)
    <3>1. acc.next % ClientThreads = 0
      <4>1. acc.next = 0
        BY <1>0
      <4> QED
        BY <4>1, AcceptorAssumption
    <3> QED
      BY <3>1, <1>a DEF ClientThreadIds
  <2> QED
    BY <2>1 DEF GivenInTurn
<1> QED
  BY <1>1, <1>2, <1>3, <1>5, <1>6 DEF AccIInv

\* The queue of thread t loses its first d tasks, and gets e more, of client c.
QueueShifts(t, d, e, w, c) ==
  /\ todo' \in [ClientThreadIds -> Seq(Tasks)]
  /\ \A u \in ClientThreadIds : u # t => todo'[u] = todo[u]
  /\ d <= Len(todo[t]) /\ Len(todo'[t]) = Len(todo[t]) - d + e
  /\ \A i \in 1..(Len(todo[t]) - d) : todo'[t][i] = todo[t][i + d]
  /\ e = 1 => todo'[t][Len(todo[t]) - d + 1] = <<w, c>>

\* Client c is in no queue but in the first d places of that of thread t.
NotElsewhere(t, d, c) ==
  \A u \in ClientThreadIds : \A i \in 1..Len(todo[u]) : todo[u][i][2] = c => u = t /\ i <= d

\* Client c goes to p, and the queue of thread t changes with it.
QueueChange(t, d, e, w, c, p) ==
  /\ t \in ClientThreadIds /\ c \in Clients /\ d \in {0, 1} /\ e \in {0, 1}
  /\ w \in {"initialize", "drop"} /\ p \in ClientPlaces
  /\ client' = [client EXCEPT ![c] = p]
  /\ QueueShifts(t, d, e, w, c) /\ NotElsewhere(t, d, c)
  /\ d = 1 => todo[t][1][2] = c
  /\ e = 1 => p = (IF w = "initialize" THEN "scheduled" ELSE "dropping")
  /\ p = "scheduled" => e = 1 /\ w = "initialize"

\* Queues that change with the client keep what they say of the clients.
LEMMA QueueStep ==
  ASSUME AccKinds, QueueTells, QueuedOnce, ScheduledQueued,
         NEW t, NEW d, NEW e, NEW w, NEW c, NEW p, QueueChange(t, d, e, w, c, p)
  PROVE  QueueTells' /\ QueuedOnce' /\ ScheduledQueued'
<1> /\ t \in ClientThreadIds /\ c \in Clients /\ d \in {0, 1} /\ e \in {0, 1}
    /\ w \in {"initialize", "drop"} /\ p \in ClientPlaces
    /\ client' = [client EXCEPT ![c] = p]
    /\ QueueShifts(t, d, e, w, c) /\ NotElsewhere(t, d, c)
    /\ d = 1 => todo[t][1][2] = c
    /\ e = 1 => p = (IF w = "initialize" THEN "scheduled" ELSE "dropping")
    /\ p = "scheduled" => e = 1 /\ w = "initialize"
  BY DEF QueueChange
<1>0. \A u \in ClientThreadIds : todo[u] \in Seq(Tasks) /\ Len(todo[u]) \in Nat /\ todo'[u] \in Seq(Tasks) /\ Len(todo'[u]) \in Nat
  BY DEF AccKinds, QueueShifts
<1>1. \A u \in ClientThreadIds : u # t => todo'[u] = todo[u]
  BY DEF QueueShifts
<1>2. /\ d <= Len(todo[t]) /\ Len(todo'[t]) = Len(todo[t]) - d + e
      /\ \A i \in 1..(Len(todo[t]) - d) : todo'[t][i] = todo[t][i + d]
      /\ e = 1 => todo'[t][Len(todo[t]) - d + 1] = <<w, c>>
  BY DEF QueueShifts
<1>3. \A u \in ClientThreadIds : \A i \in 1..Len(todo[u]) : todo[u][i] \in Tasks
  BY <1>0
\* where a task of the new queues was before
<1>4. ASSUME NEW u \in ClientThreadIds, NEW i \in 1..Len(todo'[u])
      PROVE  \/ u = t /\ e = 1 /\ i = Len(todo[t]) - d + 1 /\ todo'[u][i] = <<w, c>>
             \/ \E j \in 1..Len(todo[u]) : /\ todo'[u][i] = todo[u][j] /\ todo[u][j][2] # c
                                           /\ j = IF u = t THEN i + d ELSE i
  <2>1. CASE u # t
    <3>1. i \in 1..Len(todo[u]) /\ todo'[u][i] = todo[u][i]
      BY <2>1, <1>1
    <3>2. todo[u][i][2] # c
      BY <2>1, <3>1 DEF NotElsewhere
    <3> QED
      BY <2>1, <3>1, <3>2
  <2>2. CASE u = t /\ i <= Len(todo[t]) - d
    <3>0. i \in 1..(Len(todo[t]) - d)
      BY <2>2, <1>0
    <3>1. i + d \in 1..Len(todo[t]) /\ todo'[u][i] = todo[t][i + d] /\ ~(i + d <= d)
      BY <2>2, <3>0, <1>0, <1>2
    <3>2. todo[t][i + d][2] # c
      BY <3>1 DEF NotElsewhere
    <3> QED
      BY <2>2, <3>1, <3>2
  <2>3. CASE u = t /\ i > Len(todo[t]) - d
    <3>1. i = Len(todo[t]) - d + 1 /\ e = 1
      BY <2>3, <1>0, <1>2
    <3> QED
      BY <2>3, <3>1, <1>2
  <2> QED
    BY <2>1, <2>2, <2>3, <1>0
<1>5. QueueTells'
  <2> SUFFICES ASSUME NEW u \in ClientThreadIds, NEW i \in 1..Len(todo'[u])
        PROVE client'[todo'[u][i][2]] = IF todo'[u][i][1] = "initialize" THEN "scheduled" ELSE "dropping"
    BY DEF QueueTells
  <2>1. CASE todo'[u][i] = <<w, c>> /\ e = 1
    BY <2>1 DEF AccKinds
  <2>2. ASSUME NEW j \in 1..Len(todo[u]), todo'[u][i] = todo[u][j], todo[u][j][2] # c
        PROVE client'[todo'[u][i][2]] = IF todo'[u][i][1] = "initialize" THEN "scheduled" ELSE "dropping"
    <3>1. todo[u][j][2] \in Clients
      BY <1>3 DEF Tasks
    <3> QED
      BY <2>2, <3>1 DEF QueueTells, AccKinds
  <2> QED
    BY <1>4, <2>1, <2>2
<1>6. QueuedOnce'
  <2> SUFFICES ASSUME NEW u \in ClientThreadIds, NEW v \in ClientThreadIds,
                      NEW i \in 1..Len(todo'[u]), NEW j \in 1..Len(todo'[v]),
                      todo'[u][i][2] = todo'[v][j][2]
               PROVE u = v /\ i = j
    BY DEF QueuedOnce
  <2>1. CASE todo'[u][i][2] = c
    <3>1. u = t /\ i = Len(todo[t]) - d + 1
      BY <2>1, <1>4
    <3>2. v = t /\ j = Len(todo[t]) - d + 1
      BY <2>1, <1>4
    <3> QED
      BY <3>1, <3>2
  <2>2. CASE todo'[u][i][2] # c
    <3>1. PICK k \in 1..Len(todo[u]) : todo'[u][i] = todo[u][k] /\ k = IF u = t THEN i + d ELSE i
      BY <2>2, <1>4
    <3>2. PICK l \in 1..Len(todo[v]) : todo'[v][j] = todo[v][l] /\ l = IF v = t THEN j + d ELSE j
      BY <2>2, <1>4
    <3>3. u = v /\ k = l
      BY <3>1, <3>2 DEF QueuedOnce
    <3> QED
      BY <3>1, <3>2, <3>3, <1>0
  <2> QED
    BY <2>1, <2>2
<1>7. ScheduledQueued'
  <2> SUFFICES ASSUME NEW b \in Clients, client'[b] = "scheduled"
               PROVE \E u \in ClientThreadIds : \E i \in 1..Len(todo'[u]) : todo'[u][i] = <<"initialize", b>>
    BY DEF ScheduledQueued
  <2>1. CASE b = c
    <3>1. e = 1 /\ w = "initialize"
      BY <2>1 DEF AccKinds
    <3>2. Len(todo[t]) - d + 1 \in 1..Len(todo'[t])
      BY <1>0, <1>2, <3>1
    <3> QED
      BY <2>1, <3>1, <3>2, <1>2
  <2>2. CASE b # c
    <3>1. client[b] = "scheduled"
      BY <2>2 DEF AccKinds
    <3>a. PICK u \in ClientThreadIds : \E i \in 1..Len(todo[u]) : todo[u][i] = <<"initialize", b>>
      BY <3>1 DEF ScheduledQueued
    <3>2. PICK i \in 1..Len(todo[u]) : todo[u][i] = <<"initialize", b>>
      BY <3>a
    <3>3. CASE u # t
      BY <3>2, <3>3, <1>1
    <3>4. CASE u = t
      <4>1. i > d
        <5>1. CASE i = 1 /\ d = 1
          <6>1. todo[t][1][2] = b
            BY <3>2, <3>4, <5>1
          <6> QED
            BY <6>1, <5>1, <2>2
        <5> QED
          BY <5>1, <3>2
      <4>2. i - d \in 1..Len(todo'[t]) /\ i - d \in 1..(Len(todo[t]) - d) /\ (i - d) + d = i
        BY <4>1, <3>2, <3>4, <1>0, <1>2
      <4>3. todo'[t][i - d] = todo[t][i]
        BY <4>2, <1>2
      <4> QED
        BY <3>2, <3>4, <4>2, <4>3
    <3> QED
      BY <3>3, <3>4
  <2> QED
    BY <2>1, <2>2
<1> QED
  BY <1>5, <1>6, <1>7

\* A step that changes only the acceptor itself.
LEMMA AccMembers ==
  ASSUME AccIInv, UNCHANGED <<client, todo, stats, given>>, acc'.next = acc.next,
         DOMAIN acc' = AccFields, acc'.closing \in 0..MaxCalls,
         \/ acc'.fd = acc.fd /\ acc'.selector = acc.selector /\ acc'.state = acc.state
         \/ acc'.fd = FALSE /\ acc'.selector = FALSE /\ acc'.state = "DISCONNECTED"
         \/ acc'.fd = TRUE /\ acc'.selector = acc.selector /\ acc'.state = "LISTENING" /\ acc.selector
  PROVE  AccIInv'
<1>1. AccKinds'
  BY DEF AccIInv, AccKinds
<1>2. AccListens'
  BY DEF AccIInv, AccKinds, AccListens
<1>3. QueueTells' /\ QueuedOnce' /\ ScheduledQueued' /\ AccCounts' /\ GivenInTurn'
  <2>1. QueueTells'
    BY DEF AccIInv, QueueTells
  <2>2. QueuedOnce'
    BY DEF AccIInv, QueuedOnce
  <2>3. ScheduledQueued'
    BY DEF AccIInv, ScheduledQueued
  <2>4. \A places : In(places)' = In(places)
    BY DEF In
  <2>5. AccCounts'
    BY DEF AccIInv, AccCounts, In
  <2>6. GivenInTurn'
    BY DEF AccIInv, GivenInTurn
  <2> QED
    BY <2>1, <2>2, <2>3, <2>5, <2>6
<1> QED
  BY <1>1, <1>2, <1>3 DEF AccIInv

\* InternalClose of an open acceptor.
LEMMA AccInternalCloseIs ==
  ASSUME NEW a, "fd" \in DOMAIN a, a.fd = TRUE, DOMAIN a = AccFields
  PROVE  LET b == AccInternalClose(a)
         IN  /\ DOMAIN b = AccFields /\ b.fd = FALSE /\ b.selector = FALSE
             /\ b.state = "DISCONNECTED" /\ b.next = a.next /\ b.closing = a.closing
  BY DEF AccInternalClose, AccFields

\* Listen keeps the invariant.
LEMMA AccListenKeeps == ASSUME AccIInv, NEW o \in Outcomes, Listen(o) PROVE AccIInv'
<1>0. DOMAIN acc = AccFields /\ acc.closing \in 0..MaxCalls
  BY DEF AccIInv, AccKinds
<1>1. DOMAIN acc' = AccFields /\ acc'.closing = acc.closing /\ acc'.next = acc.next
  BY <1>0 DEF Listen, AccFields
<1>2. \/ acc'.fd = acc.fd /\ acc'.selector = acc.selector /\ acc'.state = acc.state
      \/ acc'.fd = TRUE /\ acc'.selector = acc.selector /\ acc'.state = "LISTENING" /\ acc.selector
  BY <1>0 DEF Listen, AccFields
<1>3. UNCHANGED <<client, todo, stats, given>>
  BY DEF Listen
<1> QED
  BY <1>0, <1>1, <1>2, <1>3, AccMembers

\* Close, from any thread, keeps the invariant.
LEMMA CloseKeeps == ASSUME AccIInv, CloseFromThread \/ RunClose PROVE AccIInv'
<1>0. DOMAIN acc = AccFields /\ acc.closing \in 0..MaxCalls /\ acc.fd \in BOOLEAN
  BY DEF AccIInv, AccKinds
<1>3. UNCHANGED <<client, todo, stats, given>>
  BY DEF CloseFromThread, RunClose
<1>1. CASE CloseFromThread
  <2>1. /\ DOMAIN acc' = AccFields /\ acc'.closing = acc.closing + 1 /\ acc.closing < MaxCalls
        /\ acc'.next = acc.next
        /\ acc'.fd = acc.fd /\ acc'.selector = acc.selector /\ acc'.state = acc.state
    BY <1>0, <1>1 DEF CloseFromThread, AccFields
  <2> QED
    BY <1>0, <1>3, <2>1, AccMembers, TcpAssumption
<1>2. CASE RunClose
  <2> DEFINE a == [acc EXCEPT !.closing = @ - 1]
  <2>1. DOMAIN a = AccFields /\ a.fd = acc.fd /\ a.closing = acc.closing - 1 /\ a.next = acc.next /\ a.selector = acc.selector /\ a.state = acc.state
    BY <1>0 DEF AccFields
  <2>2. acc.closing > 0
    BY <1>2 DEF RunClose
  <2>3. CASE acc.selector /\ a.fd
    <3>1. acc' = AccInternalClose(a) /\ a.fd = TRUE /\ "fd" \in DOMAIN a
      BY <1>0, <1>2, <2>1, <2>3 DEF RunClose, AccFields
    <3> HIDE DEF a
    <3>2. /\ DOMAIN acc' = AccFields /\ acc'.fd = FALSE /\ acc'.selector = FALSE
          /\ acc'.state = "DISCONNECTED" /\ acc'.next = a.next /\ acc'.closing = a.closing
      BY <2>1, <3>1, AccInternalCloseIs
    <3>3. acc'.closing \in 0..MaxCalls
      BY <1>0, <2>1, <2>2, <3>2, TcpAssumption
    <3> QED
      BY <1>3, <2>1, <3>2, <3>3, AccMembers
  <2>4. CASE ~(acc.selector /\ a.fd)
    <3>1. /\ DOMAIN acc' = AccFields /\ acc'.closing \in {acc.closing, acc.closing - 1} /\ acc'.next = acc.next
          /\ acc'.fd = acc.fd /\ acc'.selector = acc.selector /\ acc'.state = acc.state
      <4>1. CASE acc.selector
        <5>1. acc' = AccInternalClose(a) /\ ~a.fd
          BY <1>2, <2>4, <4>1 DEF RunClose
        <5>2. acc' = a \/ acc' = [a EXCEPT !.abort = "CHECK: acceptor state"]
          BY <5>1 DEF AccInternalClose
        <5> HIDE DEF a
        <5> QED
          BY <2>1, <5>2 DEF AccFields
      <4>2. CASE ~acc.selector
        <5>1. acc' = [acc EXCEPT !.abort = "null selector: close"]
          BY <1>2, <4>2 DEF RunClose
        <5> QED
          BY <1>0, <5>1 DEF AccFields
      <4> QED
        BY <4>1, <4>2
    <3> QED
      BY <1>0, <1>3, <2>2, <3>1, AccMembers, TcpAssumption
  <2> QED
    BY <2>3, <2>4
<1> QED
  BY <1>1, <1>2

\* The counters move while client c goes to p.
CountsMove(c, p, dr, ds, di, dw) ==
  /\ c \in Clients /\ p \in ClientPlaces /\ client' = [client EXCEPT ![c] = p]
  /\ dr \in Nat /\ ds \in Nat /\ di \in Nat /\ dw \in Nat
  /\ stats'.parse + stats'.filtered = stats.parse + stats.filtered + dr
  /\ stats'.scheduled = stats.scheduled + ds
  /\ stats'.initialized = stats.initialized + di /\ stats'.wrapErrors = stats.wrapErrors + dw
  /\ stats'.accepted = stats.accepted + di + dw
  /\ dr + ds <= (IF p \in Accepted THEN 1 ELSE 0) - (IF client[c] \in Accepted THEN 1 ELSE 0)
  /\ ds - (di + dw) = (IF p = "scheduled" THEN 1 ELSE 0) - (IF client[c] = "scheduled" THEN 1 ELSE 0)
  /\ di >= (IF p \in {"delivered", "dropping"} THEN 1 ELSE 0)
            - (IF client[c] \in {"delivered", "dropping"} THEN 1 ELSE 0)

\* Counters that move with the client keep the balance.
LEMMA CountsStep ==
  ASSUME AccKinds, AccKinds', AccCounts, NEW c, NEW p, NEW dr, NEW ds, NEW di, NEW dw,
         CountsMove(c, p, dr, ds, di, dw)
  PROVE  AccCounts'
<1> /\ c \in Clients /\ p \in ClientPlaces /\ client' = [client EXCEPT ![c] = p]
    /\ dr \in Nat /\ ds \in Nat /\ di \in Nat /\ dw \in Nat
    /\ dr + ds <= (IF p \in Accepted THEN 1 ELSE 0) - (IF client[c] \in Accepted THEN 1 ELSE 0)
    /\ ds - (di + dw) = (IF p = "scheduled" THEN 1 ELSE 0) - (IF client[c] = "scheduled" THEN 1 ELSE 0)
    /\ di >= (IF p \in {"delivered", "dropping"} THEN 1 ELSE 0)
              - (IF client[c] \in {"delivered", "dropping"} THEN 1 ELSE 0)
  BY DEF CountsMove
<1>1. /\ stats.parse \in Nat /\ stats.filtered \in Nat /\ stats.scheduled \in Nat /\ stats.accepted \in Nat
      /\ stats.initialized \in Nat /\ stats.wrapErrors \in Nat
  BY DEF AccKinds, StatFields
<1>2. /\ stats'.parse \in Nat /\ stats'.filtered \in Nat
  BY DEF AccKinds, StatFields
<1>3. In(Accepted) \in Nat /\ In({"scheduled"}) \in Nat /\ In({"delivered", "dropping"}) \in Nat
  BY InOnePlace
<1>4. PICK ga \in 0..1, pa \in 0..1 :
        /\ In(Accepted)' = In(Accepted) - ga + pa /\ dr + ds <= pa - ga
  <2>1. In(Accepted)' = In(Accepted) - (IF client[c] \in Accepted THEN 1 ELSE 0) + (IF p \in Accepted THEN 1 ELSE 0)
    BY ClientMoves
  <2> QED
    BY <2>1
<1>5. PICK gs \in 0..1, ps \in 0..1 :
        In({"scheduled"})' = In({"scheduled"}) - gs + ps /\ ds - (di + dw) = ps - gs
  <2>1. In({"scheduled"})' = In({"scheduled"}) - (IF client[c] \in {"scheduled"} THEN 1 ELSE 0) + (IF p \in {"scheduled"} THEN 1 ELSE 0)
    BY ClientMoves
  <2>2. (client[c] \in {"scheduled"} <=> client[c] = "scheduled") /\ (p \in {"scheduled"} <=> p = "scheduled")
    OBVIOUS
  <2> QED
    BY <2>1, <2>2
<1>6. PICK gd \in 0..1, pd \in 0..1 :
        In({"delivered", "dropping"})' = In({"delivered", "dropping"}) - gd + pd /\ di >= pd - gd
  <2>1. In({"delivered", "dropping"})' = In({"delivered", "dropping"})
          - (IF client[c] \in {"delivered", "dropping"} THEN 1 ELSE 0) + (IF p \in {"delivered", "dropping"} THEN 1 ELSE 0)
    BY ClientMoves
  <2> QED
    BY <2>1
<1>7. /\ stats.parse + stats.filtered + stats.scheduled <= In(Accepted)
      /\ stats.scheduled = In({"scheduled"}) + stats.accepted
      /\ stats.accepted = stats.initialized + stats.wrapErrors
      /\ stats.initialized >= In({"delivered", "dropping"})
  BY DEF AccCounts
<1>a. CountsMove(c, p, dr, ds, di, dw)
  OBVIOUS
<1>8. stats'.parse + stats'.filtered + stats'.scheduled <= In(Accepted)'
  BY <1>a, <1>1, <1>2, <1>3, <1>4, <1>7 DEF CountsMove
<1>9. stats'.scheduled = In({"scheduled"})' + stats'.accepted
  BY <1>a, <1>1, <1>3, <1>5, <1>7 DEF CountsMove
<1>10. stats'.accepted = stats'.initialized + stats'.wrapErrors
  BY <1>a, <1>1, <1>7 DEF CountsMove
<1>11. stats'.initialized >= In({"delivered", "dropping"})'
  BY <1>a, <1>1, <1>3, <1>6, <1>7 DEF CountsMove
<1> QED
  BY <1>8, <1>9, <1>10, <1>11 DEF AccCounts

\* A client that was not accepted is in no queue.
LEMMA NotQueued ==
  ASSUME AccKinds, QueueTells, NEW c \in Clients, client[c] \in {"none", "backlog"}, NEW t
  PROVE  NotElsewhere(t, 0, c)
  BY DEF NotElsewhere, QueueTells

\* HandleErrorEvent keeps the invariant.
LEMMA AccErrorKeeps == ASSUME AccIInv, NEW h \in BOOLEAN, AccHandleErrorEvent(h) PROVE AccIInv'
<1>0. DOMAIN acc = AccFields /\ acc.fd = TRUE /\ AccKinds /\ AccListens /\ DOMAIN stats = StatFields
  BY DEF AccIInv, AccKinds, AccHandleErrorEvent
<1>a. \A s \in StatFields : stats[s] \in Nat
  BY <1>0 DEF AccKinds
<1>b. stats.hangUps \in Nat /\ stats.errors \in Nat /\ stats.errors = 0
  BY <1>0, <1>a DEF StatFields, AccListens
<1>1. UNCHANGED <<client, todo, given>>
  BY DEF AccHandleErrorEvent
<1>2. DOMAIN stats' = StatFields /\ \A s \in StatFields \ {"hangUps", "errors"} : stats'[s] = stats[s]
  BY <1>0 DEF AccHandleErrorEvent, StatFields
<1>3. /\ stats'.hangUps = stats.hangUps + (IF h THEN 1 ELSE 0)
      /\ stats'.errors = stats.errors + (IF h THEN 0 ELSE 1)
  BY <1>0, <1>b DEF AccHandleErrorEvent, StatFields
<1>4. stats.hangUps + stats.errors < MaxSocketErrors
  BY DEF AccHandleErrorEvent
<1>5. acc' = IF h THEN acc ELSE AccInternalClose(acc)
  BY DEF AccHandleErrorEvent
<1>6. ~h => /\ DOMAIN acc' = AccFields /\ acc'.fd = FALSE /\ acc'.selector = FALSE
            /\ acc'.state = "DISCONNECTED" /\ acc'.next = acc.next /\ acc'.closing = acc.closing
  <2>1. "fd" \in DOMAIN acc
    BY <1>0 DEF AccFields
  <2>2. ~h => acc' = AccInternalClose(acc)
    BY <1>5
  <2> QED
    BY <1>0, <2>1, <2>2, AccInternalCloseIs
<1>7. AccKinds'
  <2>1. /\ DOMAIN acc' = AccFields /\ acc'.next \in Nat /\ acc'.closing \in 0..MaxCalls
        /\ acc'.state \in {"DISCONNECTED", "LISTENING"} /\ acc'.fd \in BOOLEAN /\ acc'.selector \in BOOLEAN
    BY <1>0, <1>5, <1>6 DEF AccKinds
  <2>2. \A s \in StatFields : stats'[s] \in Nat
    <3>1. stats'.hangUps \in Nat /\ stats'.errors \in Nat
      BY <1>b, <1>3
    <3> QED
      BY <1>a, <1>2, <3>1
  <2> QED
    BY <1>0, <1>1, <1>2, <2>1, <2>2 DEF AccKinds
<1>8. AccListens'
  BY <1>0, <1>b, <1>3, <1>4, <1>5, <1>6 DEF AccListens, MaxSocketErrors
<1>9. QueueTells' /\ QueuedOnce' /\ ScheduledQueued' /\ AccCounts' /\ GivenInTurn'
  <2>1. QueueTells'
    BY <1>1 DEF AccIInv, QueueTells
  <2>2. QueuedOnce'
    BY <1>1 DEF AccIInv, QueuedOnce
  <2>3. ScheduledQueued'
    BY <1>1 DEF AccIInv, ScheduledQueued
  <2>5. AccCounts'
    <3>1. \A s \in {"parse", "filtered", "scheduled", "accepted", "initialized", "wrapErrors"} : stats'[s] = stats[s]
      BY <1>2 DEF StatFields
    <3> QED
      BY <1>1, <3>1 DEF AccIInv, AccCounts, In
  <2>6. GivenInTurn'
    BY <1>1, <1>5, <1>6 DEF AccIInv, GivenInTurn
  <2> QED
    BY <2>1, <2>2, <2>3, <2>5, <2>6
<1> QED
  BY <1>7, <1>8, <1>9 DEF AccIInv

\* A client that arrives keeps the invariant.
LEMMA ArrivesKeeps == ASSUME AccIInv, NEW c \in Clients, ClientArrives(c) PROVE AccIInv'
<1>0. AccKinds /\ AccListens /\ QueueTells /\ QueuedOnce /\ ScheduledQueued /\ AccCounts /\ GivenInTurn
  BY DEF AccIInv
<1>1. client[c] = "none" /\ client' = [client EXCEPT ![c] = "backlog"] /\ UNCHANGED <<acc, todo, stats, given>>
  BY DEF ClientArrives
<1>2. AccKinds'
  BY <1>0, <1>1 DEF AccKinds, ClientPlaces
<1>3. PICK t : t \in ClientThreadIds
  BY AcceptorAssumption DEF ClientThreadIds
<1>4. QueueShifts(t, 0, 0, "drop", c)
  BY <1>0, <1>1, <1>3 DEF QueueShifts, AccKinds
<1>5. QueueTells' /\ QueuedOnce' /\ ScheduledQueued'
  <2>1. NotElsewhere(t, 0, c)
    BY <1>0, <1>1, NotQueued
  <2>2. "backlog" \in ClientPlaces
    BY DEF ClientPlaces
  <2>3. QueueChange(t, 0, 0, "drop", c, "backlog")
    BY <1>1, <1>3, <1>4, <2>1, <2>2 DEF QueueChange
  <2> QED
    BY <1>0, <2>3, QueueStep
<1>6. AccCounts'
  <2>1. stats.parse \in Nat /\ stats.filtered \in Nat /\ stats.scheduled \in Nat /\ stats.accepted \in Nat
        /\ stats.initialized \in Nat /\ stats.wrapErrors \in Nat
    BY <1>0 DEF AccKinds, StatFields
  <2> QED
    <3>2. "backlog" \in ClientPlaces /\ "backlog" \notin Accepted /\ client[c] \notin Accepted
      BY <1>1 DEF ClientPlaces, Accepted
    <3>1. CountsMove(c, "backlog", 0, 0, 0, 0)
      BY <1>1, <2>1, <3>2 DEF CountsMove
    <3> QED
      BY <1>0, <1>2, <3>1, CountsStep
<1>7. AccListens' /\ GivenInTurn'
  BY <1>0, <1>1 DEF AccListens, GivenInTurn
<1> QED
  BY <1>2, <1>5, <1>6, <1>7 DEF AccIInv

\* accept() of a client that is gone, cannot be parsed or is filtered.
LEMMA RefusedKeeps ==
  ASSUME AccIInv, NEW c \in Clients, NEW o \in {"gone", "parse", "filtered"}, AccHandleReadEvent(c, o)
  PROVE  AccIInv'
<1>0. AccKinds /\ AccListens /\ QueueTells /\ QueuedOnce /\ ScheduledQueued /\ AccCounts /\ GivenInTurn
  BY DEF AccIInv
<1>1. /\ client[c] = "backlog" /\ client' = [client EXCEPT ![c] = "closed"] /\ UNCHANGED <<acc, todo, given>>
      /\ stats' = IF o = "gone" THEN stats ELSE [stats EXCEPT ![o] = @ + 1]
  BY DEF AccHandleReadEvent
<1>2. /\ stats.parse \in Nat /\ stats.filtered \in Nat /\ stats.scheduled \in Nat /\ stats.accepted \in Nat
      /\ stats.initialized \in Nat /\ stats.wrapErrors \in Nat /\ stats.hangUps \in Nat /\ stats.errors \in Nat
      /\ DOMAIN stats = StatFields
  BY <1>0 DEF AccKinds, StatFields
<1>3. /\ DOMAIN stats' = StatFields
      /\ stats'.parse = stats.parse + (IF o = "parse" THEN 1 ELSE 0)
      /\ stats'.filtered = stats.filtered + (IF o = "filtered" THEN 1 ELSE 0)
      /\ stats'.scheduled = stats.scheduled /\ stats'.accepted = stats.accepted
      /\ stats'.initialized = stats.initialized /\ stats'.wrapErrors = stats.wrapErrors
      /\ stats'.hangUps = stats.hangUps /\ stats'.errors = stats.errors
  BY <1>1, <1>2 DEF StatFields
<1>4. AccKinds'
  <2>1. \A f \in StatFields : stats'[f] \in Nat
    BY <1>2, <1>3 DEF StatFields
  <2>2. client' \in [Clients -> ClientPlaces]
    BY <1>0, <1>1 DEF AccKinds, ClientPlaces
  <2> QED
    BY <1>0, <1>1, <1>3, <2>1, <2>2 DEF AccKinds
<1>5. PICK t : t \in ClientThreadIds
  BY AcceptorAssumption DEF ClientThreadIds
<1>6. "closed" \in ClientPlaces /\ "closed" \in Accepted /\ client[c] \notin Accepted
  BY <1>1 DEF ClientPlaces, Accepted
<1>7. QueueTells' /\ QueuedOnce' /\ ScheduledQueued'
  <2>1. NotElsewhere(t, 0, c)
    BY <1>0, <1>1, NotQueued
  <2>2. QueueShifts(t, 0, 0, "drop", c)
    BY <1>0, <1>1, <1>5 DEF QueueShifts, AccKinds
  <2>3. QueueChange(t, 0, 0, "drop", c, "closed")
    BY <1>1, <1>5, <1>6, <2>1, <2>2 DEF QueueChange
  <2> QED
    BY <1>0, <2>3, QueueStep
<1>8. AccCounts'
  <2>1. PICK dr \in 0..1 : stats'.parse + stats'.filtered = stats.parse + stats.filtered + dr
    BY <1>2, <1>3
  <2>2. CountsMove(c, "closed", dr, 0, 0, 0)
    BY <1>1, <1>2, <1>3, <1>6, <2>1 DEF CountsMove
  <2> QED
    BY <1>0, <1>4, <2>2, CountsStep
<1>9. AccListens' /\ GivenInTurn'
  BY <1>0, <1>1, <1>3 DEF AccListens, GivenInTurn
<1> QED
  BY <1>4, <1>7, <1>8, <1>9 DEF AccIInv

\* accept() of a client that goes to the next client thread.
LEMMA ScheduleKeeps ==
  ASSUME AccIInv, NEW c \in Clients, AccHandleReadEvent(c, "ok")
  PROVE  AccIInv'
<1> DEFINE t == GetNextSelector
           task == <<"initialize", c>>
<1>0. AccKinds /\ AccListens /\ QueueTells /\ QueuedOnce /\ ScheduledQueued /\ AccCounts /\ GivenInTurn
  BY DEF AccIInv
<1>1. /\ client[c] = "backlog" /\ client' = [client EXCEPT ![c] = "scheduled"]
      /\ stats' = [stats EXCEPT !.scheduled = @ + 1]
      /\ todo' = [todo EXCEPT ![t] = Append(@, task)]
      /\ given' = [given EXCEPT ![t] = @ + 1]
      /\ acc' = [acc EXCEPT !.next = @ + 1]
  BY DEF AccHandleReadEvent
<1>a. acc.next \in Nat /\ DOMAIN acc = AccFields
  BY <1>0 DEF AccKinds
<1>b. /\ t \in 0..(ClientThreads - 1)
      /\ (acc.next + 1) % ClientThreads = IF t + 1 = ClientThreads THEN 0 ELSE t + 1
  BY <1>a, AcceptorAssumption, NextThread DEF GetNextSelector
<1>c. t \in ClientThreadIds
  BY <1>b DEF ClientThreadIds
<1>d. t = acc.next % ClientThreads
  BY DEF GetNextSelector
<1> HIDE DEF t
<1>2. /\ stats.parse \in Nat /\ stats.filtered \in Nat /\ stats.scheduled \in Nat /\ stats.accepted \in Nat
      /\ stats.initialized \in Nat /\ stats.wrapErrors \in Nat /\ stats.hangUps \in Nat /\ stats.errors \in Nat
      /\ DOMAIN stats = StatFields
  BY <1>0 DEF AccKinds, StatFields
<1>3. /\ DOMAIN stats' = StatFields
      /\ stats'.parse = stats.parse /\ stats'.filtered = stats.filtered
      /\ stats'.scheduled = stats.scheduled + 1 /\ stats'.accepted = stats.accepted
      /\ stats'.initialized = stats.initialized /\ stats'.wrapErrors = stats.wrapErrors
      /\ stats'.hangUps = stats.hangUps /\ stats'.errors = stats.errors
  BY <1>1, <1>2 DEF StatFields
<1>e. /\ DOMAIN acc' = AccFields /\ acc'.next = acc.next + 1 /\ acc'.closing = acc.closing
      /\ acc'.state = acc.state /\ acc'.fd = acc.fd /\ acc'.selector = acc.selector
  BY <1>1, <1>a DEF AccFields
<1>f. todo \in [ClientThreadIds -> Seq(Tasks)] /\ task \in Tasks /\ todo[t] \in Seq(Tasks) /\ Len(todo[t]) \in Nat
  BY <1>0, <1>c DEF AccKinds, Tasks
<1>g. todo' \in [ClientThreadIds -> Seq(Tasks)] /\ todo'[t] = Append(todo[t], task)
  BY <1>1, <1>c, <1>f
<1>4. AccKinds'
  <2>1. \A f \in StatFields : stats'[f] \in Nat
    BY <1>2, <1>3 DEF StatFields
  <2>2. client' \in [Clients -> ClientPlaces]
    BY <1>0, <1>1 DEF AccKinds, ClientPlaces
  <2>3. given' \in [ClientThreadIds -> Nat]
    BY <1>0, <1>1, <1>c DEF AccKinds
  <2>4. /\ acc'.next \in Nat /\ acc'.closing \in 0..MaxCalls
        /\ acc'.state \in {"DISCONNECTED", "LISTENING"} /\ acc'.fd \in BOOLEAN /\ acc'.selector \in BOOLEAN
    BY <1>0, <1>a, <1>e DEF AccKinds
  <2> QED
    BY <1>e, <1>g, <1>3, <2>1, <2>2, <2>3, <2>4 DEF AccKinds
<1>6. "scheduled" \in ClientPlaces /\ "scheduled" \in Accepted /\ client[c] \notin Accepted
  BY <1>1 DEF ClientPlaces, Accepted
<1>7. QueueTells' /\ QueuedOnce' /\ ScheduledQueued'
  <2>1. NotElsewhere(t, 0, c)
    BY <1>0, <1>1, NotQueued
  <2>2. QueueShifts(t, 0, 1, "initialize", c)
    <3>1. \A u \in ClientThreadIds : u # t => todo'[u] = todo[u]
      BY <1>1, <1>c, <1>f
    <3>2. /\ Len(todo'[t]) = Len(todo[t]) - 0 + 1 /\ 0 <= Len(todo[t])
          /\ \A i \in 1..(Len(todo[t]) - 0) : todo'[t][i] = todo[t][i + 0]
          /\ todo'[t][Len(todo[t]) - 0 + 1] = task
      BY <1>f, <1>g
    <3> QED
      BY <1>g, <3>1, <3>2 DEF QueueShifts
  <2>3. QueueChange(t, 0, 1, "initialize", c, "scheduled")
    BY <1>1, <1>c, <1>6, <2>1, <2>2 DEF QueueChange
  <2> QED
    BY <1>0, <2>3, QueueStep
<1>8. AccCounts'
  <2>2. CountsMove(c, "scheduled", 0, 1, 0, 0)
    BY <1>1, <1>2, <1>3, <1>6 DEF CountsMove
  <2> QED
    BY <1>0, <1>4, <2>2, CountsStep
<1>9. AccListens'
  BY <1>0, <1>e, <1>3 DEF AccListens
<1>10. GivenInTurn'
  <2>1. PICK q \in Nat : \A u \in ClientThreadIds : given[u] = q + (IF u < t THEN 1 ELSE 0)
    BY <1>0, <1>d DEF GivenInTurn
  <2>2. given \in [ClientThreadIds -> Nat] /\ \A u \in ClientThreadIds : given'[u] = IF u = t THEN given[u] + 1 ELSE given[u]
    BY <1>0, <1>1, <1>c DEF AccKinds
  <2>3. \A u \in ClientThreadIds : u \in 0..(ClientThreads - 1)
    BY DEF ClientThreadIds
  <2>4. PICK r \in Nat : r = acc'.next % ClientThreads /\ r = IF t + 1 = ClientThreads THEN 0 ELSE t + 1
    BY <1>b, <1>e
  <2>5. CASE t + 1 = ClientThreads
    <3>1. \A u \in ClientThreadIds : given'[u] = (q + 1) + (IF u < r THEN 1 ELSE 0)
      BY <1>b, <2>1, <2>2, <2>3, <2>4, <2>5, AcceptorAssumption
    <3> QED
      BY <3>1, <2>4 DEF GivenInTurn
  <2>6. CASE t + 1 # ClientThreads
    <3>1. \A u \in ClientThreadIds : given'[u] = q + (IF u < r THEN 1 ELSE 0)
      BY <1>b, <2>1, <2>2, <2>3, <2>4, <2>6, AcceptorAssumption
    <3> QED
      BY <3>1, <2>4 DEF GivenInTurn
  <2> QED
    BY <2>5, <2>6
<1> QED
  BY <1>4, <1>7, <1>8, <1>9, <1>10 DEF AccIInv

\* the first task of thread t is for client c
LEMMA FirstTask ==
  ASSUME AccIInv, NEW t \in ClientThreadIds, todo[t] # <<>>
  PROVE  /\ todo[t] \in Seq(Tasks) /\ Len(todo[t]) \in Nat \ {0} /\ Head(todo[t]) = todo[t][1]
         /\ Head(todo[t])[2] \in Clients /\ NotElsewhere(t, 1, Head(todo[t])[2])
         /\ client[Head(todo[t])[2]] = IF Head(todo[t])[1] = "initialize" THEN "scheduled" ELSE "dropping"
<1>1. todo[t] \in Seq(Tasks) /\ Len(todo[t]) \in Nat \ {0} /\ Head(todo[t]) = todo[t][1] /\ todo[t][1] \in Tasks
  BY DEF AccIInv, AccKinds
<1>2. 1 \in 1..Len(todo[t])
  BY <1>1
<1>3. NotElsewhere(t, 1, todo[t][1][2])
  BY <1>1, <1>2 DEF NotElsewhere, AccIInv, QueuedOnce
<1>4. client[todo[t][1][2]] = IF todo[t][1][1] = "initialize" THEN "scheduled" ELSE "dropping"
  BY <1>2 DEF AccIInv, QueueTells
<1> QED
  BY <1>1, <1>3, <1>4 DEF Tasks

\* A thread takes the first task of its queue.
LEMMA TailShifts ==
  ASSUME AccKinds, NEW t \in ClientThreadIds, todo[t] # <<>>, NEW c, todo' = [todo EXCEPT ![t] = Tail(@)]
  PROVE  QueueShifts(t, 1, 0, "drop", c)
<1>1. todo[t] \in Seq(Tasks) /\ Len(todo[t]) \in Nat \ {0} /\ todo \in [ClientThreadIds -> Seq(Tasks)]
  BY DEF AccKinds
<1>2. /\ Tail(todo[t]) \in Seq(Tasks) /\ Len(Tail(todo[t])) = Len(todo[t]) - 1
      /\ \A i \in 1..(Len(todo[t]) - 1) : Tail(todo[t])[i] = todo[t][i + 1]
  BY <1>1
<1>3. todo' \in [ClientThreadIds -> Seq(Tasks)] /\ todo'[t] = Tail(todo[t])
  BY <1>1, <1>2
<1>4. \A u \in ClientThreadIds : u # t => todo'[u] = todo[u]
  BY <1>1
<1> QED
  BY <1>1, <1>2, <1>3, <1>4 DEF QueueShifts

\* The delete of a connection that was dropped keeps the invariant.
LEMMA DropKeeps == ASSUME AccIInv, NEW t \in ClientThreadIds, DropConnection(t) PROVE AccIInv'
<1> DEFINE c == Head(todo[t])[2]
<1>0. AccKinds /\ AccListens /\ QueueTells /\ QueuedOnce /\ ScheduledQueued /\ AccCounts /\ GivenInTurn
  BY DEF AccIInv
<1>1. /\ todo[t] # <<>> /\ Head(todo[t])[1] = "drop" /\ UNCHANGED <<stats, given>>
      /\ client' = [client EXCEPT ![c] = "closed"] /\ todo' = [todo EXCEPT ![t] = Tail(@)]
  BY DEF DropConnection
<1>2. PICK why : acc' = [acc EXCEPT !.abort = why]
  BY DEF DropConnection
<1>3. /\ todo[t] \in Seq(Tasks) /\ Len(todo[t]) \in Nat \ {0} /\ todo[t][1][2] = c /\ c \in Clients
      /\ client[c] = "dropping" /\ NotElsewhere(t, 1, c)
  BY <1>1, FirstTask
<1>a. QueueShifts(t, 1, 0, "drop", c)
  BY <1>0, <1>1, TailShifts
<1> HIDE DEF c
<1>e. /\ DOMAIN acc' = AccFields /\ acc'.next = acc.next /\ acc'.closing = acc.closing
      /\ acc'.state = acc.state /\ acc'.fd = acc.fd /\ acc'.selector = acc.selector
  BY <1>0, <1>2 DEF AccFields, AccKinds
<1>4. AccKinds'
  <2>1. todo' \in [ClientThreadIds -> Seq(Tasks)]
    BY <1>a DEF QueueShifts
  <2> QED
    BY <1>0, <1>1, <1>3, <1>e, <2>1 DEF AccKinds, ClientPlaces
<1>6. "closed" \in ClientPlaces /\ "closed" \in Accepted /\ client[c] \in Accepted
  BY <1>3 DEF ClientPlaces, Accepted
<1>7. QueueTells' /\ QueuedOnce' /\ ScheduledQueued'
  <2>3. QueueChange(t, 1, 0, "drop", c, "closed")
    BY <1>1, <1>3, <1>a, <1>6 DEF QueueChange
  <2> QED
    BY <1>0, <2>3, QueueStep
<1>8. AccCounts'
  <2>1. /\ stats.parse \in Nat /\ stats.filtered \in Nat /\ stats.scheduled \in Nat /\ stats.accepted \in Nat
        /\ stats.initialized \in Nat /\ stats.wrapErrors \in Nat
    BY <1>0 DEF AccKinds, StatFields
  <2>2. CountsMove(c, "closed", 0, 0, 0, 0)
    BY <1>1, <1>3, <1>6, <2>1 DEF CountsMove
  <2> QED
    BY <1>0, <1>4, <2>2, CountsStep
<1>9. AccListens' /\ GivenInTurn'
  BY <1>0, <1>1, <1>e DEF AccListens, GivenInTurn
<1> QED
  BY <1>4, <1>7, <1>8, <1>9 DEF AccIInv

\* InitializeAcceptedConnection keeps the invariant.
LEMMA InitializeKeeps ==
  ASSUME AccIInv, NEW t \in ClientThreadIds, NEW o \in Outcomes, InitializeAcceptedConnection(t, o)
  PROVE  AccIInv'
<1> DEFINE c == Head(todo[t])[2]
           more(p) == IF p = "dropping" THEN <<<<"drop", c>>>> ELSE <<>>
<1>0. AccKinds /\ AccListens /\ QueueTells /\ QueuedOnce /\ ScheduledQueued /\ AccCounts /\ GivenInTurn
  BY DEF AccIInv
<1>1. PICK p \in {"delivered", "dropping", "dangling", "closed"}, ok \in BOOLEAN :
        /\ ok <=> p \in {"delivered", "dropping"}
        /\ client' = [client EXCEPT ![c] = p]
        /\ todo' = [todo EXCEPT ![t] = Tail(@) \o more(p)]
        /\ stats' = [stats EXCEPT !.accepted = @ + 1, !.wrapErrors = @ + (IF ok THEN 0 ELSE 1),
                                  !.initialized = @ + (IF ok THEN 1 ELSE 0)]
  <2> DEFINE wrapped == WrapResult(NewConnection("none"), o)
             place == CASE wrapped.fd /\ acc.hasHandler -> "delivered"
                        [] wrapped.fd /\ ~acc.hasHandler -> "dropping"
                        [] ~wrapped.fd /\ wrapped.registered -> "dangling"
                        [] OTHER -> "closed"
             good == wrapped.fd /\ TRUE
  <2>1. /\ client' = [client EXCEPT ![c] = place]
        /\ todo' = [todo EXCEPT ![t] = Tail(@) \o more(place)]
        /\ stats' = [stats EXCEPT !.accepted = @ + 1,
                                  !.wrapErrors = @ + (IF wrapped.fd THEN 0 ELSE 1),
                                  !.initialized = @ + (IF wrapped.fd THEN 1 ELSE 0)]
    BY DEF InitializeAcceptedConnection
  <2>2. place \in {"delivered", "dropping", "dangling", "closed"}
    OBVIOUS
  <2>3. good <=> place \in {"delivered", "dropping"}
    OBVIOUS
  <2>4. stats' = [stats EXCEPT !.accepted = @ + 1, !.wrapErrors = @ + (IF good THEN 0 ELSE 1),
                              !.initialized = @ + (IF good THEN 1 ELSE 0)]
    BY <2>1
  <2>5. good \in BOOLEAN
    OBVIOUS
  <2> HIDE DEF place, good
  <2> QED
    BY <2>1, <2>2, <2>3, <2>4, <2>5
<1>2. todo[t] # <<>> /\ Head(todo[t])[1] = "initialize" /\ UNCHANGED <<acc, given>>
  BY DEF InitializeAcceptedConnection
<1>3. /\ todo[t] \in Seq(Tasks) /\ Len(todo[t]) \in Nat \ {0} /\ todo[t][1][2] = c /\ c \in Clients
      /\ client[c] = "scheduled" /\ NotElsewhere(t, 1, c)
  BY <1>2, FirstTask
<1> HIDE DEF c
<1>4. /\ stats.parse \in Nat /\ stats.filtered \in Nat /\ stats.scheduled \in Nat /\ stats.accepted \in Nat
      /\ stats.initialized \in Nat /\ stats.wrapErrors \in Nat /\ stats.hangUps \in Nat /\ stats.errors \in Nat
      /\ DOMAIN stats = StatFields
  BY <1>0 DEF AccKinds, StatFields
<1>5. /\ DOMAIN stats' = StatFields
      /\ stats'.parse = stats.parse /\ stats'.filtered = stats.filtered
      /\ stats'.scheduled = stats.scheduled /\ stats'.accepted = stats.accepted + 1
      /\ stats'.initialized = stats.initialized + (IF ok THEN 1 ELSE 0)
      /\ stats'.wrapErrors = stats.wrapErrors + (IF ok THEN 0 ELSE 1)
      /\ stats'.hangUps = stats.hangUps /\ stats'.errors = stats.errors
  BY <1>1, <1>4 DEF StatFields
<1>6. p \in ClientPlaces /\ p \in Accepted /\ client[c] \in Accepted /\ p # "scheduled"
  BY <1>1, <1>3 DEF ClientPlaces, Accepted
<1>7. \E e \in {0, 1} : QueueChange(t, 1, e, "drop", c, p)
  <2> DEFINE s == Tail(todo[t]) \o more(p)
  <2>0. todo \in [ClientThreadIds -> Seq(Tasks)] /\ <<"drop", c>> \in Tasks
    BY <1>0, <1>3 DEF AccKinds, Tasks
  <2>1. todo' = [todo EXCEPT ![t] = s]
    BY <1>1
  <2>2. \A u \in ClientThreadIds : u # t => todo'[u] = todo[u]
    BY <2>0, <2>1
  <2>3. CASE p # "dropping"
    <3>1. Tail(todo[t]) \in Seq(Tasks) /\ s = Tail(todo[t])
      BY <1>3, <2>3
    <3>2. todo' = [todo EXCEPT ![t] = Tail(@)]
      BY <2>1, <3>1
    <3>3. QueueShifts(t, 1, 0, "drop", c)
      BY <1>0, <1>2, <3>2, TailShifts
    <3>4. QueueChange(t, 1, 0, "drop", c, p)
      BY <1>1, <1>3, <1>6, <3>3 DEF QueueChange
    <3> QED
      BY <3>4
  <2>4. CASE p = "dropping"
    <3>1. Tail(todo[t]) \in Seq(Tasks) /\ s = Append(Tail(todo[t]), <<"drop", c>>)
      BY <1>3, <2>0, <2>4
    <3>2. /\ s \in Seq(Tasks) /\ Len(s) = Len(todo[t]) - 1 + 1
          /\ \A i \in 1..(Len(todo[t]) - 1) : s[i] = todo[t][i + 1]
          /\ s[Len(todo[t]) - 1 + 1] = <<"drop", c>>
      BY <1>3, <2>0, <3>1
    <3> HIDE DEF s
    <3>3. todo' \in [ClientThreadIds -> Seq(Tasks)] /\ todo'[t] = s
      BY <2>0, <2>1, <3>2
    <3>4. QueueShifts(t, 1, 1, "drop", c)
      BY <1>3, <2>2, <3>2, <3>3 DEF QueueShifts
    <3>5. QueueChange(t, 1, 1, "drop", c, p)
      BY <1>1, <1>3, <1>6, <2>4, <3>4 DEF QueueChange
    <3> QED
      BY <3>5
  <2> QED
    BY <2>3, <2>4
<1>8. QueueTells' /\ QueuedOnce' /\ ScheduledQueued' /\ todo' \in [ClientThreadIds -> Seq(Tasks)]
  <2>1. PICK e \in {0, 1} : QueueChange(t, 1, e, "drop", c, p)
    BY <1>7
  <2>2. QueueTells' /\ QueuedOnce' /\ ScheduledQueued'
    BY <1>0, <2>1, QueueStep
  <2>3. todo' \in [ClientThreadIds -> Seq(Tasks)]
    BY <2>1 DEF QueueChange, QueueShifts
  <2> QED
    BY <2>2, <2>3
<1>9. AccKinds'
  <2>1. \A f \in StatFields : stats'[f] \in Nat
    BY <1>4, <1>5 DEF StatFields
  <2>2. client' \in [Clients -> ClientPlaces]
    BY <1>0, <1>1, <1>6 DEF AccKinds
  <2> QED
    BY <1>0, <1>2, <1>5, <1>8, <2>1, <2>2 DEF AccKinds
<1>10. AccCounts'
  <2>1. CASE ok
    <3>1. CountsMove(c, p, 0, 0, 1, 0)
      BY <1>1, <1>3, <1>4, <1>5, <1>6, <2>1 DEF CountsMove
    <3> QED
      BY <1>0, <1>9, <3>1, CountsStep
  <2>2. CASE ~ok
    <3>1. CountsMove(c, p, 0, 0, 0, 1)
      BY <1>1, <1>3, <1>4, <1>5, <1>6, <2>2 DEF CountsMove
    <3> QED
      BY <1>0, <1>9, <3>1, CountsStep
  <2> QED
    BY <2>1, <2>2
<1>11. AccListens' /\ GivenInTurn'
  BY <1>0, <1>2, <1>5 DEF AccListens, GivenInTurn
<1> QED
  BY <1>8, <1>9, <1>10, <1>11 DEF AccIInv

\* Every step keeps the invariant.
LEMMA AccNextIInv == AccIInv /\ [AccNext]_accVars => AccIInv'
<1> SUFFICES ASSUME AccIInv, [AccNext]_accVars PROVE AccIInv'
  OBVIOUS
<1>1. CASE UNCHANGED accVars
  <2>1. AccKinds' /\ AccListens'
    BY <1>1 DEF accVars, AccIInv, AccKinds, AccListens
  <2>2. QueueTells' /\ QueuedOnce' /\ ScheduledQueued'
    <3>1. QueueTells'
      BY <1>1 DEF accVars, AccIInv, QueueTells
    <3>2. QueuedOnce'
      BY <1>1 DEF accVars, AccIInv, QueuedOnce
    <3>3. ScheduledQueued'
      BY <1>1 DEF accVars, AccIInv, ScheduledQueued
    <3> QED
      BY <3>1, <3>2, <3>3
  <2>3. AccCounts' /\ GivenInTurn'
    BY <1>1 DEF accVars, AccIInv, AccCounts, In, GivenInTurn
  <2> QED
    BY <2>1, <2>2, <2>3 DEF AccIInv
<1>2. ASSUME NEW o \in Outcomes, Listen(o) PROVE AccIInv'
  BY <1>2, AccListenKeeps
<1>3. ASSUME NEW o \in Outcomes, NEW t \in ClientThreadIds, InitializeAcceptedConnection(t, o) PROVE AccIInv'
  BY <1>3, InitializeKeeps
<1>4. CASE CloseFromThread \/ RunClose
  BY <1>4, CloseKeeps
<1>5. ASSUME NEW c \in Clients, ClientArrives(c) PROVE AccIInv'
  BY <1>5, ArrivesKeeps
<1>6. ASSUME NEW c \in Clients, NEW o \in {"gone", "parse", "filtered", "ok"}, AccHandleReadEvent(c, o) PROVE AccIInv'
  BY <1>6, RefusedKeeps, ScheduleKeeps
<1>7. ASSUME NEW h \in BOOLEAN, AccHandleErrorEvent(h) PROVE AccIInv'
  BY <1>7, AccErrorKeeps
<1>8. ASSUME NEW t \in ClientThreadIds, DropConnection(t) PROVE AccIInv'
  BY <1>8, DropKeeps
<1> QED
  BY <1>1, <1>2, <1>3, <1>4, <1>5, <1>6, <1>7, <1>8 DEF AccNext

\* The invariant says what the run checks: a set of queued tasks with the same
\* client is a single task, and the counters bound each other.
LEMMA AccIInvImplies == AccIInv => AccInv
<1> SUFFICES ASSUME AccIInv PROVE AccInv
  OBVIOUS
<1>0. AccKinds /\ AccListens /\ QueueTells /\ QueuedOnce /\ ScheduledQueued /\ AccCounts /\ GivenInTurn
  BY DEF AccIInv
<1>1. \A t \in ClientThreadIds : todo[t] \in Seq(Tasks) /\ Len(todo[t]) \in Nat /\ \A i \in 1..Len(todo[t]) : todo[t][i] \in Tasks
  BY <1>0 DEF AccKinds
<1>2. ASSUME NEW t \in ClientThreadIds PROVE Len(todo[t]) <= MaxClients
  <2> DEFINE f == [i \in 1..Len(todo[t]) |-> todo[t][i][2]]
  <2>1. f \in Injection(1..Len(todo[t]), Clients)
    <3>1. \A i \in 1..Len(todo[t]) : todo[t][i][2] \in Clients
      BY <1>1 DEF Tasks
    <3>2. \A i, j \in 1..Len(todo[t]) : todo[t][i][2] = todo[t][j][2] => i = j
      BY <1>0 DEF QueuedOnce
    <3>3. f \in [1..Len(todo[t]) -> Clients]
      BY <3>1
    <3>4. \A i, j \in 1..Len(todo[t]) : f[i] = f[j] => i = j
      BY <3>2
    <3> HIDE DEF f
    <3> QED
      BY <3>3, <3>4 DEF Injection, IsInjective
  <2>2. IsFiniteSet(Clients) /\ Cardinality(Clients) = MaxClients
    BY AcceptorAssumption, FS_Interval DEF Clients
  <2>3. Cardinality(1..Len(todo[t])) = Len(todo[t])
    BY <1>1, FS_Interval
  <2> HIDE DEF f
  <2> QED
    BY <2>1, <2>2, <2>3, FS_Injection
<1>3. AccTypeOK
  <2>1. In(Accepted) \in Nat /\ In(Accepted) <= MaxClients /\ In({"scheduled"}) \in Nat
    BY <1>0, InOnePlace
  <2>2. /\ stats.parse \in Nat /\ stats.filtered \in Nat /\ stats.scheduled \in Nat /\ stats.accepted \in Nat
        /\ stats.initialized \in Nat /\ stats.wrapErrors \in Nat /\ stats.hangUps \in Nat /\ stats.errors \in Nat
        /\ DOMAIN stats = StatFields
    BY <1>0 DEF AccKinds, StatFields
  <2>3. /\ stats.hangUps <= MaxSocketErrors /\ stats.errors <= MaxSocketErrors
        /\ stats.parse <= MaxClients /\ stats.filtered <= MaxClients /\ stats.scheduled <= MaxClients
        /\ stats.accepted <= MaxClients /\ stats.initialized <= MaxClients /\ stats.wrapErrors <= MaxClients
    BY <1>0, <2>1, <2>2, AcceptorAssumption DEF AccListens, AccCounts, MaxSocketErrors
  <2>4. \A s \in DOMAIN stats : stats[s] \in 0..(MaxClients + MaxSocketErrors)
    BY <2>2, <2>3, AcceptorAssumption DEF StatFields, MaxSocketErrors
  <2> QED
    BY <1>0, <1>2, <2>4 DEF AccTypeOK, AccKinds
<1>4. AcceptedAccountedFor
  <2> DEFINE Queued == {at \in ClientThreadIds \X (1..MaxClients) :
                          at[2] <= Len(todo[at[1]]) /\ todo[at[1]][at[2]][1] = "initialize"}
             Waiting == {c \in Clients : client[c] \in {"scheduled"}}
             f == [at \in Queued |-> todo[at[1]][at[2]][2]]
  <2>1. \A at \in Queued : /\ at[1] \in ClientThreadIds /\ at[2] \in 1..Len(todo[at[1]]) /\ at = <<at[1], at[2]>>
                            /\ todo[at[1]][at[2]][1] = "initialize"
    BY <1>1
  <2>2. \A at \in Queued : f[at] \in Waiting
    <3> SUFFICES ASSUME NEW at \in Queued PROVE f[at] \in Waiting
      OBVIOUS
    <3>1. todo[at[1]][at[2]] \in Tasks
      BY <1>1, <2>1
    <3>2. client[todo[at[1]][at[2]][2]] = "scheduled"
      BY <1>0, <2>1 DEF QueueTells
    <3> QED
      BY <3>1, <3>2 DEF Tasks
  <2>3. \A a, b \in Queued : f[a] = f[b] => a = b
    BY <1>0, <2>1 DEF QueuedOnce
  <2>4. \A c \in Waiting : \E at \in Queued : f[at] = c
    <3> SUFFICES ASSUME NEW c \in Waiting PROVE \E at \in Queued : f[at] = c
      OBVIOUS
    <3>1. PICK t \in ClientThreadIds : \E i \in 1..Len(todo[t]) : todo[t][i] = <<"initialize", c>>
      BY <1>0 DEF ScheduledQueued
    <3>2. PICK i \in 1..Len(todo[t]) : todo[t][i] = <<"initialize", c>>
      BY <3>1
    <3>3. i \in 1..MaxClients
      BY <1>1, <1>2, <3>2, AcceptorAssumption
    <3>4. <<t, i>> \in Queued
      BY <3>2, <3>3
    <3> QED
      BY <3>2, <3>4
  <2>5. f \in Bijection(Queued, Waiting)
    <3>1. f \in [Queued -> Waiting]
      BY <2>2
    <3> HIDE DEF Queued, Waiting, f
    <3>2. f \in Injection(Queued, Waiting)
      BY <3>1, <2>3 DEF Injection, IsInjective
    <3>3. f \in Surjection(Queued, Waiting)
      BY <3>1, <2>4 DEF Surjection
    <3> QED
      BY <3>2, <3>3 DEF Bijection
  <2>6. IsFiniteSet(Queued)
    <3>1. IsFiniteSet(ClientThreadIds \X (1..MaxClients))
      <4>1. IsFiniteSet(ClientThreadIds)
        <5>1. 0 \in Int /\ ClientThreads - 1 \in Int
          BY AcceptorAssumption
        <5> QED
          BY <5>1, FS_Interval DEF ClientThreadIds
      <4>2. IsFiniteSet(1..MaxClients)
        BY AcceptorAssumption, FS_Interval
      <4> QED
        BY <4>1, <4>2, FS_Product
    <3> QED
      BY <3>1, FS_Subset
  <2>7. Cardinality(Queued) = Cardinality(Waiting)
    <3> HIDE DEF f, Queued, Waiting
    <3> QED
      BY <2>5, <2>6, FS_Bijection DEF ExistsBijection
  <2> QED
    BY <1>0, <2>7 DEF AcceptedAccountedFor, AccCounts, In
<1>5. ErrorsAtMostOne
  BY <1>0 DEF AccListens, AccKinds, ErrorsAtMostOne
<1>6. SharedEvenly
  <2>1. PICK q \in Nat : \A t \in ClientThreadIds : given[t] = q + (IF t < acc.next % ClientThreads THEN 1 ELSE 0)
    BY <1>0 DEF GivenInTurn
  <2>2. \A t \in ClientThreadIds : given[t] \in q..(q + 1)
    BY <2>1
  <2> QED
    BY <2>2 DEF SharedEvenly
<1> QED
  BY <1>3, <1>4, <1>5, <1>6 DEF AccInv

\* TcpAcceptor, for any number of clients, client threads and calls: no
\* client is lost or doubled between the thread of the acceptor and those of the
\* clients and the counters account for each of them, no thread is ever given two
\* clients more than another, and the acceptor is closed at its first error.
THEOREM AccInvHolds == AccSpec => []AccInv
  BY AccInitIInv, AccNextIInv, AccIInvImplies, PTL DEF AccSpec

-----------------------------------------------------------------------------
(* SslConnection: who owns it                                              *)

\* The members of the SSL connection, of the TCP connection below it, and what
\* may be queued with RunInSelectLoop.
SslFields ==
  {"state", "server", "live", "started", "got", "finished", "verifyFailed", "bioIn", "bioOut",
   "half", "shut", "readBlocked", "out", "in", "writes", "owner", "queued", "connects",
   "closes", "writesWhileBlocked", "deleted", "abort"}
TcpFields == {"state", "want", "out", "wire"}
Jobs == {"connect", "delete", "tcp force", "tcp flush"}

\* The members have their types.
SslKinds(x) ==
  /\ DOMAIN x = SslFields
  /\ x.queued \in Seq(Jobs) /\ x.connects \in 0..1 /\ x.closes \in 0..1
  /\ x.owner \in {"acceptor", "app", "nobody"}
  /\ x.finished \in BOOLEAN /\ x.deleted \in BOOLEAN

\* The acceptor owns the connection until the connect handler ran, then the
\* application does; the one that nobody owns has its delete queued or done.
Owned(x) ==
  /\ x.owner = "acceptor" => /\ x.connects = 0 /\ ~x.deleted /\ x.state # "FLUSHING"
                             /\ x.queued = IF x.finished THEN <<"connect">> ELSE <<>>
  /\ x.owner = "app" => /\ ~x.deleted /\ \A i \in 1..Len(x.queued) : x.queued[i] # "delete"
  /\ x.owner = "nobody" => /\ x.connects = 0
                           /\ IF x.deleted THEN x.queued = <<>>
                              ELSE x.queued = <<"delete">> \/ x.queued = <<"connect", "delete">>

\* The connect handler is queued once, by the handshake, and not run before.
ConnectOnce(x) ==
  /\ \A i \in 1..Len(x.queued) : x.queued[i] = "connect" => x.finished /\ x.connects = 0
  /\ \A i, j \in 1..Len(x.queued) : x.queued[i] = "connect" /\ x.queued[j] = "connect" => i = j
  /\ x.connects > 0 => x.finished

\* A record that was read in part is what blocks writing.
BlockedTogether(x) == x.half = x.readBlocked /\ x.writesWhileBlocked = 0

\* What every method relies on and leaves behind.
SslHandOK(x) == SslKinds(x) /\ Owned(x) /\ ConnectOnce(x) /\ BlockedTogether(x)

\* The inductive invariant: with TCP open there is an owner, and no close was told.
HandInv ==
  /\ SslHandOK(ssl) /\ DOMAIN tcp = TcpFields
  /\ ssl.owner = "nobody" => tcp.state = "closed"
  /\ tcp.state # "closed" => ssl.closes = 0

\* x became y, and neither the owner nor the queue learnt of it.
Alike(x, y) ==
  /\ DOMAIN y = SslFields
  /\ y.owner = x.owner /\ y.queued = x.queued /\ y.connects = x.connects
  /\ y.closes = x.closes /\ y.deleted = x.deleted /\ y.finished = x.finished
  /\ (x.owner = "acceptor" /\ x.state # "FLUSHING") => y.state # "FLUSHING"
  /\ BlockedTogether(x) => BlockedTogether(y)

\* A method that neither the owner nor the queue learns of.
LEMMA AlikeOK ==
  ASSUME NEW x, NEW y, SslHandOK(x), Alike(x, y)
  PROVE  SslHandOK(y) /\ y.owner = x.owner /\ y.closes = x.closes
<1>1. SslKinds(y)
  BY DEF SslHandOK, SslKinds, Alike
<1>2. Owned(y)
  BY DEF SslHandOK, Owned, Alike
<1>3. ConnectOnce(y)
  BY DEF SslHandOK, ConnectOnce, Alike
<1>4. BlockedTogether(y)
  BY DEF SslHandOK, Alike
<1> QED
  BY <1>1, <1>2, <1>3, <1>4 DEF SslHandOK, Alike

\* Such methods compose.
LEMMA AlikeTwice ==
  ASSUME NEW x, NEW y, NEW z, Alike(x, y), Alike(y, z)
  PROVE  Alike(x, z)
  BY DEF Alike

\* What one more job makes of the queue.
LEMMA AppendJob ==
  ASSUME NEW q \in Seq(Jobs), NEW j \in Jobs
  PROVE  /\ Append(q, j) \in Seq(Jobs) /\ Len(q) \in Nat /\ Len(Append(q, j)) = Len(q) + 1
         /\ \A i \in 1..Len(q) : Append(q, j)[i] = q[i]
         /\ Append(q, j)[Len(q) + 1] = j
  OBVIOUS

\* the handshake ended: the connect handler is queued
LEMMA FinishedOK ==
  ASSUME NEW x, SslHandOK(x), ~x.finished, x.owner # "nobody"
  PROVE  LET y == [x EXCEPT !.finished = TRUE, !.state = "CONNECTED", !.queued = Append(@, "connect")]
         IN  SslHandOK(y) /\ y.owner = x.owner /\ y.closes = x.closes
<1> DEFINE y == [x EXCEPT !.finished = TRUE, !.state = "CONNECTED", !.queued = Append(@, "connect")]
<1>0. /\ DOMAIN x = SslFields /\ x.queued \in Seq(Jobs) /\ x.connects \in 0..1 /\ x.closes \in 0..1
      /\ x.owner \in {"acceptor", "app", "nobody"}
  BY DEF SslHandOK, SslKinds
<1>1. /\ DOMAIN y = SslFields /\ y.owner = x.owner /\ y.queued = Append(x.queued, "connect") /\ y.connects = x.connects
      /\ y.closes = x.closes /\ y.deleted = x.deleted /\ y.finished = TRUE
      /\ y.state = "CONNECTED" /\ y.half = x.half /\ y.readBlocked = x.readBlocked
      /\ y.writesWhileBlocked = x.writesWhileBlocked
  <2>1. DOMAIN y = SslFields
    BY <1>0
  <2>2. y.finished = TRUE /\ y.state = "CONNECTED" /\ y.queued = Append(x.queued, "connect")
    BY <1>0 DEF SslFields
  <2>3. y.owner = x.owner /\ y.connects = x.connects /\ y.closes = x.closes /\ y.deleted = x.deleted
    BY <1>0 DEF SslFields
  <2>4. y.half = x.half /\ y.readBlocked = x.readBlocked /\ y.writesWhileBlocked = x.writesWhileBlocked
    BY <1>0 DEF SslFields
  <2> HIDE DEF y
  <2> QED
    BY <2>1, <2>2, <2>3, <2>4
<1> HIDE DEF y
<1>a. /\ Append(x.queued, "connect") \in Seq(Jobs) /\ Len(y.queued) = Len(x.queued) + 1 /\ Len(x.queued) \in Nat
      /\ \A i \in 1..Len(x.queued) : y.queued[i] = x.queued[i]
      /\ y.queued[Len(x.queued) + 1] = "connect"
  <2>1. "connect" \in Jobs
    BY DEF Jobs
  <2> QED
    BY <1>0, <1>1, <2>1, AppendJob
<1>2. SslKinds(y)
  BY <1>0, <1>1, <1>a DEF SslHandOK, SslKinds
<1>b. x.connects = 0 /\ \A i \in 1..Len(x.queued) : x.queued[i] # "connect"
  BY <1>0 DEF SslHandOK, ConnectOnce
<1>3. Owned(y)
  <2>1. CASE x.owner = "acceptor"
    <3>1. x.queued = <<>> /\ ~x.deleted
      BY <2>1 DEF SslHandOK, Owned
    <3>2. Append(x.queued, "connect") = <<"connect">>
      BY <3>1
    <3> QED
      BY <2>1, <1>1, <1>b, <3>1, <3>2 DEF Owned
  <2>2. CASE x.owner = "app"
    <3>1. ~x.deleted /\ \A i \in 1..Len(x.queued) : x.queued[i] # "delete"
      BY <2>2 DEF SslHandOK, Owned
    <3>2. \A i \in 1..Len(y.queued) : y.queued[i] # "delete"
      BY <1>a, <3>1
    <3> QED
      BY <2>2, <1>1, <3>1, <3>2 DEF Owned
  <2> QED
    BY <1>0, <2>1, <2>2
<1>4. ConnectOnce(y)
  BY <1>0, <1>1, <1>a, <1>b DEF ConnectOnce
<1>5. BlockedTogether(y)
  BY <1>1 DEF SslHandOK, BlockedTogether
<1> QED
  BY <1>1, <1>2, <1>3, <1>4, <1>5 DEF SslHandOK, y

\* The methods on the BIOs and the state of OpenSSL.
LEMMA MethodsAlike ==
  ASSUME NEW x, DOMAIN x = SslFields, NEW bad
  PROVE  /\ Alike(x, SslDoHandshake(x, bad)) /\ Alike(x, SslReadAll(x)) /\ Alike(x, SslClear(x))
         /\ Alike(x, DrainBio(x)) /\ Alike(x, SslShutdown(x))
         /\ ~x.readBlocked => Alike(x, WriteChunks(x))
<1>1. Alike(x, SslDoHandshake(x, bad))
  BY DEF SslDoHandshake, Alike, SslFields, BlockedTogether
<1>2. Alike(x, SslReadAll(x))
  BY DEF SslReadAll, Alike, SslFields, BlockedTogether
<1>3. Alike(x, SslClear(x))
  BY DEF SslClear, Alike, SslFields, BlockedTogether
<1>4. Alike(x, DrainBio(x))
  BY DEF DrainBio, Alike, SslFields, BlockedTogether
<1>5. Alike(x, SslShutdown(x))
  BY DEF SslShutdown, Alike, SslFields, BlockedTogether
<1>6. ~x.readBlocked => Alike(x, WriteChunks(x))
  BY DEF WriteChunks, Alike, SslFields, BlockedTogether
<1> QED
  BY <1>1, <1>2, <1>3, <1>4, <1>5, <1>6

\* a call that closes is queued, by the application
LEMMA QueueJobOK ==
  ASSUME NEW x, SslHandOK(x), x.owner = "app", NEW job \in Jobs, job # "delete", job # "connect"
  PROVE  LET y == [x EXCEPT !.queued = Append(@, job)]
         IN  SslHandOK(y) /\ y.owner = x.owner /\ y.closes = x.closes
<1> DEFINE y == [x EXCEPT !.queued = Append(@, job)]
<1>0. /\ DOMAIN x = SslFields /\ x.queued \in Seq(Jobs) /\ x.connects \in 0..1 /\ x.closes \in 0..1
      /\ x.owner \in {"acceptor", "app", "nobody"} /\ job \in Jobs
  BY DEF SslHandOK, SslKinds
<1>1. /\ DOMAIN y = SslFields /\ y.owner = x.owner /\ y.queued = Append(x.queued, job) /\ y.connects = x.connects
      /\ y.closes = x.closes /\ y.deleted = x.deleted /\ y.finished = x.finished
      /\ y.half = x.half /\ y.readBlocked = x.readBlocked
      /\ y.writesWhileBlocked = x.writesWhileBlocked
  BY <1>0 DEF SslFields
<1> HIDE DEF y
<1>a. /\ Append(x.queued, job) \in Seq(Jobs) /\ Len(y.queued) = Len(x.queued) + 1 /\ Len(x.queued) \in Nat
      /\ \A i \in 1..Len(x.queued) : y.queued[i] = x.queued[i]
      /\ y.queued[Len(x.queued) + 1] = job
  <2>1. /\ Append(x.queued, job) \in Seq(Jobs) /\ Len(x.queued) \in Nat /\ Len(Append(x.queued, job)) = Len(x.queued) + 1
        /\ \A i \in 1..Len(x.queued) : Append(x.queued, job)[i] = x.queued[i]
        /\ Append(x.queued, job)[Len(x.queued) + 1] = job
    BY <1>0, AppendJob
  <2> QED
    BY <1>1, <2>1
<1>j. job # "delete" /\ job # "connect"
  OBVIOUS
<1>l. PICK n \in Nat : n = Len(x.queued) /\ Len(y.queued) = n + 1
  BY <1>a
<1>2. SslKinds(y)
  BY <1>0, <1>1, <1>a DEF SslHandOK, SslKinds
<1>3. Owned(y)
  <2>1. ~x.deleted /\ \A i \in 1..Len(x.queued) : x.queued[i] # "delete"
    BY DEF SslHandOK, Owned
  <2>2. \A i \in 1..Len(y.queued) : y.queued[i] # "delete"
    <3> SUFFICES ASSUME NEW i \in 1..Len(y.queued) PROVE y.queued[i] # "delete"
      OBVIOUS
    <3>1. CASE i = Len(x.queued) + 1
      BY <1>a, <1>j, <3>1
    <3>2. CASE i # Len(x.queued) + 1
      <4>1. i \in 1..Len(x.queued)
        BY <1>l, <3>2
      <4> QED
        BY <1>a, <2>1, <4>1
    <3> QED
      BY <3>1, <3>2
  <2> QED
    BY <1>1, <2>1, <2>2 DEF Owned
<1>4. ConnectOnce(y)
  <2>1. ConnectOnce(x) /\ job # "connect"
    BY DEF SslHandOK
  <2>2. \A i \in 1..Len(y.queued) : y.queued[i] = "connect" => i \in 1..Len(x.queued) /\ x.queued[i] = "connect"
    <3> SUFFICES ASSUME NEW i \in 1..Len(y.queued), y.queued[i] = "connect"
                 PROVE i \in 1..Len(x.queued) /\ x.queued[i] = "connect"
      OBVIOUS
    <3>1. i # Len(x.queued) + 1
      BY <1>a, <1>j
    <3>2. i \in 1..Len(x.queued)
      BY <1>l, <3>1
    <3> QED
      BY <1>a, <3>2
  <2> QED
    BY <1>1, <2>1, <2>2 DEF ConnectOnce
<1>5. BlockedTogether(y)
  BY <1>1 DEF SslHandOK, BlockedTogether
<1> QED
  BY <1>1, <1>2, <1>3, <1>4, <1>5 DEF SslHandOK, y

\* The end of a write: a flush may end in a close, which is queued.
LEMMA FinishWriteOK ==
  ASSUME NEW x, SslHandOK(x), x.owner # "nobody"
  PROVE  LET y == FinishWrite(x) IN SslHandOK(y) /\ y.owner = x.owner /\ y.closes = x.closes
<1>1. CASE ~(x.state = "FLUSHING" /\ x.out = <<>>)
  <2>1. FinishWrite(x) = x
    BY <1>1 DEF FinishWrite
  <2> QED
    BY <2>1
<1>2. CASE x.state = "FLUSHING" /\ x.out = <<>>
  <2> DEFINE z == SslShutdown(x)
  <2>1. Alike(x, z)
    BY MethodsAlike DEF SslHandOK, SslKinds
  <2> HIDE DEF z
  <2>2. SslHandOK(z) /\ z.owner = x.owner /\ z.closes = x.closes
    BY <2>1, AlikeOK
  <2>3. x.owner = "app"
    BY <1>2 DEF SslHandOK, SslKinds, Owned
  <2>4. FinishWrite(x) = [z EXCEPT !.queued = Append(@, "tcp flush")]
    BY <1>2 DEF FinishWrite, z
  <2>5. "tcp flush" \in Jobs /\ "tcp flush" # "delete" /\ "tcp flush" # "connect"
    BY DEF Jobs
  <2> QED
    BY <2>2, <2>3, <2>4, <2>5, QueueJobOK
<1> QED
  BY <1>1, <1>2

\* Handshake, which queues the connect handler when it is finished.
LEMMA HandshakeOK ==
  ASSUME NEW x, SslHandOK(x), x.owner # "nobody", NEW bad
  PROVE  LET y == SslHandshake(x, bad).x IN SslHandOK(y) /\ y.owner = x.owner /\ y.closes = x.closes
<1>0. DOMAIN x = SslFields
  BY DEF SslHandOK, SslKinds
<1>1. CASE SslHandshake(x, bad).x = x
  BY <1>1
<1>2. CASE ~x.finished /\ SslHandshake(x, bad).x = [x EXCEPT !.finished = TRUE, !.state = "CONNECTED", !.queued = Append(@, "connect")]
  BY <1>2, FinishedOK
<1>3. CASE SslHandshake(x, bad).x = SslDoHandshake(x, bad)
  <2>1. Alike(x, SslDoHandshake(x, bad))
    BY <1>0, MethodsAlike
  <2> QED
    BY <1>3, <2>1, AlikeOK
<1>4. \/ SslHandshake(x, bad).x = x
      \/ ~x.finished /\ SslHandshake(x, bad).x = [x EXCEPT !.finished = TRUE, !.state = "CONNECTED", !.queued = Append(@, "connect")]
      \/ SslHandshake(x, bad).x = SslDoHandshake(x, bad)
  <2>1. CASE x.finished
    BY <2>1 DEF SslHandshake
  <2>2. CASE ~x.finished /\ SslIsInitFinished(x) /\ x.bioOut # <<>>
    BY <2>2 DEF SslHandshake
  <2>3. CASE ~x.finished /\ SslIsInitFinished(x) /\ x.bioOut = <<>>
    <3>1. SslHandshake(x, bad) = [x |-> [x EXCEPT !.finished = TRUE, !.state = "CONNECTED",
                          !.queued = Append(@, "connect")], ok |-> TRUE, want |-> FALSE]
      BY <2>3 DEF SslHandshake
    <3> QED
      BY <2>3, <3>1
  <2>4. CASE ~x.finished /\ ~SslIsInitFinished(x)
    <3> DEFINE y == SslDoHandshake(x, bad)
    <3>1. SslHandshake(x, bad) = [x |-> y, ok |-> ~y.verifyFailed, want |-> TRUE]
      BY <2>4 DEF SslHandshake
    <3> HIDE DEF y
    <3>2. SslHandshake(x, bad).x = y
      BY <3>1
    <3> QED
      BY <3>2 DEF y
  <2> QED
    BY <2>1, <2>2, <2>3, <2>4
<1> QED
  BY <1>1, <1>2, <1>3, <1>4

\* ReadHandler: the handshake, or a read and the writes it held up.
LEMMA ReadHandlerOK ==
  ASSUME NEW x, SslHandOK(x), x.owner # "nobody", NEW bad
  PROVE  LET y == ReadHandler(x, bad).x IN SslHandOK(y) /\ y.owner = x.owner /\ y.closes = x.closes
<1>1. CASE x.state = "CONNECTING"
  <2>1. ReadHandler(x, bad) = SslHandshake(x, bad)
    BY <1>1 DEF ReadHandler
  <2> QED
    BY <2>1, HandshakeOK
<1>2. CASE x.state # "CONNECTING"
  <2> DEFINE h == SslDoHandshake(x, bad)
             y == IF SslIsInitFinished(x) THEN SslReadAll(x) ELSE SslReadHandshake(x, bad)
             z == IF y.state = "FLUSHING" THEN [y EXCEPT !.in = <<>>] ELSE y
  <2>1. ReadHandler(x, bad).x = z
    BY <1>2 DEF ReadHandler
  <2>2. Alike(x, y)
    <3>1. DOMAIN x = SslFields
      BY DEF SslHandOK, SslKinds
    <3>2. Alike(x, SslReadAll(x)) /\ Alike(x, h) /\ DOMAIN h = SslFields
      BY <3>1, MethodsAlike DEF Alike
    <3>3. y \in {SslReadAll(x), [h EXCEPT !.half = TRUE, !.readBlocked = TRUE], SslReadAll(h)}
      BY DEF SslReadHandshake
    <3> HIDE DEF h, y
    <3>4. Alike(h, [h EXCEPT !.half = TRUE, !.readBlocked = TRUE])
      BY <3>2 DEF Alike, SslFields, BlockedTogether
    <3>5. Alike(h, SslReadAll(h))
      BY <3>2, MethodsAlike
    <3> QED
      BY <3>2, <3>3, <3>4, <3>5, AlikeTwice
  <2> HIDE DEF y
  <2>3. Alike(y, z)
    BY <2>2 DEF Alike, SslFields, BlockedTogether
  <2> HIDE DEF z
  <2> QED
    BY <2>1, <2>2, <2>3, AlikeTwice, AlikeOK
<1> QED
  BY <1>1, <1>2

\* What the write handler does before anything goes to TCP.
LEMMA EncryptOK ==
  ASSUME NEW x, SslHandOK(x), x.owner # "nobody", NEW bad
  PROVE  LET y == Encrypt(x, bad).x IN SslHandOK(y) /\ y.owner = x.owner /\ y.closes = x.closes
<1>1. CASE Encrypt(x, bad).x = SslHandshake(x, bad).x
  BY <1>1, HandshakeOK
<1>2. CASE ~x.readBlocked /\ Encrypt(x, bad).x = WriteChunks(x)
  <2>1. Alike(x, WriteChunks(x))
    BY <1>2, MethodsAlike DEF SslHandOK, SslKinds
  <2> QED
    BY <1>2, <2>1, AlikeOK
<1>3. CASE Encrypt(x, bad).x = x
  BY <1>3
<1> QED
  BY <1>1, <1>2, <1>3 DEF Encrypt

\* The close of the TCP connection: the acceptor's connection becomes nobody's.
LEMMA TcpClosedOK ==
  ASSUME NEW x, SslHandOK(x), x.owner # "nobody", x.closes = 0
  PROVE  SslHandOK(SslTcpClosed(x))
<1>0. /\ DOMAIN x = SslFields /\ x.queued \in Seq(Jobs) /\ x.connects \in 0..1 /\ x.closes \in 0..1
      /\ x.owner \in {"acceptor", "app", "nobody"} /\ "delete" \in Jobs
      /\ x.finished \in BOOLEAN /\ x.deleted \in BOOLEAN
  BY DEF SslHandOK, SslKinds, Jobs
<1>1. CASE x.owner = "app"
  <2> DEFINE y == [x EXCEPT !.state = "DISCONNECTED", !.closes = @ + 1]
  <2>1. SslTcpClosed(x) = y
    BY <1>1 DEF SslTcpClosed
  <2>2. /\ DOMAIN y = SslFields /\ y.owner = x.owner /\ y.queued = x.queued /\ y.connects = x.connects
        /\ y.closes = 1 /\ y.deleted = x.deleted /\ y.finished = x.finished
        /\ y.half = x.half /\ y.readBlocked = x.readBlocked
        /\ y.writesWhileBlocked = x.writesWhileBlocked
    BY <1>0 DEF SslFields
  <2> HIDE DEF y
  <2>3. SslKinds(y)
    BY <1>0, <2>2 DEF SslKinds
  <2>4. Owned(y) /\ ConnectOnce(y) /\ BlockedTogether(y)
    BY <1>1, <2>2 DEF SslHandOK, Owned, ConnectOnce, BlockedTogether
  <2> QED
    BY <2>1, <2>3, <2>4 DEF SslHandOK
<1>2. CASE x.owner = "acceptor"
  <2> DEFINE y == [x EXCEPT !.state = "DISCONNECTED", !.owner = "nobody", !.queued = Append(@, "delete")]
  <2>1. SslTcpClosed(x) = y
    BY <1>2 DEF SslTcpClosed
  <2>2. /\ DOMAIN y = SslFields /\ y.owner = "nobody" /\ y.queued = Append(x.queued, "delete")
    BY <1>0 DEF SslFields
  <2>a. /\ y.connects = x.connects
        /\ y.closes = x.closes /\ y.deleted = x.deleted /\ y.finished = x.finished
        /\ y.half = x.half /\ y.readBlocked = x.readBlocked
        /\ y.writesWhileBlocked = x.writesWhileBlocked
    BY <1>0 DEF SslFields
  <2> HIDE DEF y
  <2>b. x.connects = 0 /\ ~x.deleted /\ x.queued = IF x.finished THEN <<"connect">> ELSE <<>>
    BY <1>2 DEF SslHandOK, Owned
  <2>c. y.queued = IF x.finished THEN <<"connect", "delete">> ELSE <<"delete">>
    BY <2>2, <2>b
  <2>3. SslKinds(y)
    BY <1>0, <2>2, <2>a, AppendJob DEF SslKinds
  <2>4. Owned(y)
    BY <2>2, <2>a, <2>b, <2>c DEF Owned
  <2>5. ConnectOnce(y)
    <3>1. CASE x.finished
      <4>1. y.queued = <<"connect", "delete">>
        BY <2>c, <3>1
      <4> QED
        BY <4>1, <3>1, <2>a, <2>b DEF ConnectOnce
    <3>2. CASE ~x.finished
      <4>1. y.queued = <<"delete">>
        BY <2>c, <3>2
      <4> QED
        BY <4>1, <2>a, <2>b DEF ConnectOnce
    <3> QED
      BY <3>1, <3>2
  <2>6. BlockedTogether(y)
    BY <2>a DEF SslHandOK, BlockedTogether
  <2> QED
    BY <2>1, <2>3, <2>4, <2>5, <2>6 DEF SslHandOK
<1> QED
  BY <1>0, <1>1, <1>2

\* The invariant holds initially.
LEMMA HandInit == SslInit => HandInv
<1> SUFFICES ASSUME SslInit PROVE HandInv
  OBVIOUS
<1>1. PICK server \in BOOLEAN :
       ssl = [state |-> "DISCONNECTED", server |-> server, live |-> FALSE, started |-> FALSE,
              got |-> 0, finished |-> FALSE, verifyFailed |-> FALSE,
              bioIn |-> <<>>, bioOut |-> <<>>, half |-> FALSE, shut |-> FALSE,
              readBlocked |-> FALSE, out |-> <<>>, in |-> <<>>, writes |-> 0,
              owner |-> IF server THEN "acceptor" ELSE "app",
              queued |-> <<>>, connects |-> 0, closes |-> 0, writesWhileBlocked |-> 0, deleted |-> FALSE,
              abort |-> ""]
  BY DEF SslInit
<1>2. DOMAIN ssl = SslFields
  BY <1>1 DEF SslFields
<1>3. /\ ssl.queued = <<>> /\ ssl.connects = 0 /\ ssl.closes = 0 /\ ssl.owner \in {"acceptor", "app"}
      /\ ssl.finished = FALSE /\ ssl.deleted = FALSE /\ ssl.state = "DISCONNECTED"
      /\ ssl.half = FALSE /\ ssl.readBlocked = FALSE /\ ssl.writesWhileBlocked = 0
  BY <1>1
<1>4. DOMAIN tcp = TcpFields /\ tcp.state = "none"
  <2>1. tcp = [state |-> "none", want |-> FALSE, out |-> <<>>, wire |-> <<>>]
    BY DEF SslInit
  <2> QED
    BY <2>1 DEF TcpFields
<1>5. SslHandOK(ssl)
  <2>1. ssl.queued \in Seq(Jobs) /\ \A i \in 1..Len(ssl.queued) : FALSE
    BY <1>3
  <2>a. ssl.connects \in 0..1 /\ ssl.closes \in 0..1
    BY <1>3
  <2>b. ssl.owner \in {"acceptor", "app", "nobody"} /\ ssl.finished \in BOOLEAN /\ ssl.deleted \in BOOLEAN
    BY <1>3
  <2>2. SslKinds(ssl)
    BY <1>2, <2>1, <2>a, <2>b DEF SslKinds
  <2>3. Owned(ssl)
    BY <1>3, <2>1 DEF Owned
  <2>4. ConnectOnce(ssl)
    BY <1>3, <2>1 DEF ConnectOnce
  <2>5. BlockedTogether(ssl)
    BY <1>3 DEF BlockedTogether
  <2> QED
    BY <2>2, <2>3, <2>4, <2>5 DEF SslHandOK
<1> QED
  BY <1>3, <1>4, <1>5 DEF HandInv

\* the connection goes on with x, while its TCP connection is not closed
LEMMA SslGoesOn ==
  ASSUME HandInv, NEW STATE x, SslHandOK(x), x.closes = ssl.closes, x.owner # "nobody",
         ssl' = x, DOMAIN tcp' = TcpFields, tcp.state # "closed"
  PROVE  HandInv'
<1>1. SslHandOK(ssl')
  OBVIOUS
<1>2. ssl'.closes = 0 /\ ssl'.owner # "nobody"
  BY DEF HandInv
<1> QED
  BY <1>1, <1>2 DEF HandInv

\* A step that passes what it wrote on to TCP.
LEMMA SslTcpGoes ==
  ASSUME HandInv, NEW STATE x, SslHandOK(x), x.closes = ssl.closes, x.owner # "nobody", TcpGoes(x),
         tcp.state # "closed"
  PROVE  HandInv'
<1>1. x.closes = 0
  BY DEF HandInv
<1>2. SslHandOK(ssl')
  BY <1>1, TcpClosedOK DEF TcpGoes
<1>3. DOMAIN tcp' = TcpFields /\ tcp'.state = "closed"
  BY DEF TcpGoes, HandInv, TcpFields
<1> QED
  BY <1>2, <1>3 DEF HandInv

\* Before TCP is closed the connection has an owner.
LEMMA OpenIsOwned ==
  ASSUME HandInv, tcp.state # "closed"
  PROVE  SslHandOK(ssl) /\ ssl.owner # "nobody" /\ DOMAIN ssl = SslFields /\ DOMAIN tcp = TcpFields
  BY DEF HandInv, SslHandOK, SslKinds

\* Connect and Wrap keep the invariant.
LEMMA StartKeeps == ASSUME HandInv, SslStart PROVE HandInv'
<1>1. tcp.state # "closed"
  BY DEF SslStart
<1>2. SslHandOK(ssl) /\ ssl.owner # "nobody" /\ DOMAIN ssl = SslFields /\ DOMAIN tcp = TcpFields
  BY <1>1, OpenIsOwned
<1>3. DOMAIN tcp' = TcpFields
  BY <1>2 DEF SslStart, TcpFields
<1>4. CASE ssl' = [ssl EXCEPT !.state = "CONNECTING", !.live = TRUE]
  <2>1. Alike(ssl, ssl')
    BY <1>2, <1>4 DEF Alike, SslFields, BlockedTogether
  <2> QED
    BY <1>1, <1>2, <1>3, <2>1, AlikeOK, SslGoesOn
<1>5. CASE ssl' = [ssl EXCEPT !.state = "CONNECTING"]
  <2>1. Alike(ssl, ssl')
    BY <1>2, <1>5 DEF Alike, SslFields, BlockedTogether
  <2> QED
    BY <1>1, <1>2, <1>3, <2>1, AlikeOK, SslGoesOn
<1>6. CASE ssl' = Fails(ssl, "null selector: request events")
  <2>1. Alike(ssl, ssl')
    BY <1>2, <1>6 DEF Fails, Alike, SslFields, BlockedTogether
  <2> QED
    BY <1>1, <1>2, <1>3, <2>1, AlikeOK, SslGoesOn
<1> QED
  BY <1>4, <1>5, <1>6 DEF SslStart

\* TcpConnectionConnectHandler keeps the invariant.
LEMMA ConnectHandlerKeeps == ASSUME HandInv, TcpConnectionConnectHandler PROVE HandInv'
<1>1. tcp.state # "closed"
  BY DEF TcpConnectionConnectHandler
<1>2. SslHandOK(ssl) /\ ssl.owner # "nobody" /\ DOMAIN ssl = SslFields /\ DOMAIN tcp = TcpFields
  BY <1>1, OpenIsOwned
<1>3. CASE tcp' = [tcp EXCEPT !.state = "open"] /\ ssl' = [ssl EXCEPT !.live = TRUE]
  <2>1. Alike(ssl, ssl') /\ DOMAIN tcp' = TcpFields
    BY <1>2, <1>3 DEF Alike, SslFields, TcpFields, BlockedTogether
  <2> QED
    BY <1>1, <1>2, <2>1, AlikeOK, SslGoesOn
<1>4. CASE TcpGoes(SslClear(ssl))
  <2>1. Alike(ssl, SslClear(ssl))
    BY <1>2, MethodsAlike
  <2>2. SslHandOK(SslClear(ssl)) /\ SslClear(ssl).owner = ssl.owner /\ SslClear(ssl).closes = ssl.closes
    BY <1>2, <2>1, AlikeOK
  <2> QED
    BY <1>1, <1>2, <1>4, <2>2, SslTcpGoes
<1> QED
  BY <1>3, <1>4 DEF TcpConnectionConnectHandler

\* TcpConnectionReadHandler keeps the invariant.
LEMMA SslReadKeeps == ASSUME HandInv, NEW n, NEW bad, TcpConnectionReadHandler(n, bad) PROVE HandInv'
<1>1. tcp.state # "closed"
  BY DEF TcpConnectionReadHandler
<1>2. SslHandOK(ssl) /\ ssl.owner # "nobody" /\ DOMAIN ssl = SslFields /\ DOMAIN tcp = TcpFields
  BY <1>1, OpenIsOwned
<1>3. CASE ~ssl.live
  <2>1. ssl' = Fails(ssl, "null ssl") /\ tcp' = tcp
    BY <1>3 DEF TcpConnectionReadHandler
  <2>2. Alike(ssl, ssl')
    BY <1>2, <2>1 DEF Fails, Alike, SslFields, BlockedTogether
  <2> QED
    BY <1>1, <1>2, <2>1, <2>2, AlikeOK, SslGoesOn
<1>4. CASE ssl.live
  <2> DEFINE x == [ssl EXCEPT !.bioIn = @ \o SubSeq(peer.wire, 1, n)]
             r == ReadHandler(x, bad)
  <2>1. Alike(ssl, x)
    BY <1>2 DEF Alike, SslFields, BlockedTogether
  <2>2. IF r.ok THEN ssl' = r.x /\ tcp' = [tcp EXCEPT !.want = @ \/ r.want] ELSE TcpGoes(r.x)
    BY <1>4 DEF TcpConnectionReadHandler
  <2> HIDE DEF x
  <2>3. SslHandOK(x) /\ x.owner = ssl.owner /\ x.closes = ssl.closes
    BY <1>2, <2>1, AlikeOK
  <2>4. SslHandOK(r.x) /\ r.x.owner = x.owner /\ r.x.closes = x.closes
    BY <1>2, <2>3, ReadHandlerOK
  <2> HIDE DEF r
  <2>5. CASE r.ok
    <3>1. ssl' = r.x /\ DOMAIN tcp' = TcpFields
      BY <1>2, <2>2, <2>5 DEF TcpFields
    <3> QED
      BY <1>1, <1>2, <2>3, <2>4, <3>1, SslGoesOn
  <2>6. CASE ~r.ok
    BY <1>1, <1>2, <2>2, <2>3, <2>4, <2>6, SslTcpGoes
  <2> QED
    BY <2>5, <2>6
<1> QED
  BY <1>3, <1>4

\* TcpConnectionWriteHandler keeps the invariant.
LEMMA SslWriteHandlerKeeps == ASSUME HandInv, NEW bad, TcpConnectionWriteHandler(bad) PROVE HandInv'
<1>1. tcp.state # "closed"
  BY DEF TcpConnectionWriteHandler
<1>2. SslHandOK(ssl) /\ ssl.owner # "nobody" /\ DOMAIN ssl = SslFields /\ DOMAIN tcp = TcpFields
  BY <1>1, OpenIsOwned
<1> DEFINE null == ~ssl.live /\ (ssl.state = "CONNECTING" \/ (ssl.out # <<>> /\ ~ssl.readBlocked))
<1>3. CASE null
  <2>1. ssl' = Fails(ssl, "null ssl") /\ tcp' = tcp
    BY <1>3 DEF TcpConnectionWriteHandler
  <2>2. Alike(ssl, ssl')
    BY <1>2, <2>1 DEF Fails, Alike, SslFields, BlockedTogether
  <2> QED
    BY <1>1, <1>2, <2>1, <2>2, AlikeOK, SslGoesOn
<1>4. CASE ~null
  <2> DEFINE r == Encrypt(ssl, bad)
             d == DrainBio(r.x)
             x == FinishWrite(d)
             more == r.x.bioOut \o x.bioOut
  <2>2. IF r.ok THEN /\ ssl' = DrainBio(x)
                     /\ tcp' = [tcp EXCEPT !.wire = @ \o tcp.out, !.out = more, !.want = more # <<>>]
        ELSE TcpGoes(r.x)
    BY <1>4 DEF TcpConnectionWriteHandler
  <2>4. SslHandOK(r.x) /\ r.x.owner = ssl.owner /\ r.x.closes = ssl.closes
    BY <1>2, EncryptOK
  <2> HIDE DEF r
  <2>5. CASE r.ok
    <3>0. DOMAIN r.x = SslFields
      BY <2>4 DEF SslHandOK, SslKinds
    <3>1. Alike(r.x, d)
      BY <3>0, MethodsAlike
    <3> HIDE DEF d
    <3>2. SslHandOK(d) /\ d.owner = r.x.owner /\ d.closes = r.x.closes
      BY <2>4, <3>1, AlikeOK
    <3>3. SslHandOK(x) /\ x.owner = d.owner /\ x.closes = d.closes
      BY <1>2, <2>4, <3>2, FinishWriteOK
    <3> HIDE DEF x
    <3>4. DOMAIN x = SslFields
      BY <3>3 DEF SslHandOK, SslKinds
    <3>5. Alike(x, DrainBio(x))
      BY <3>4, MethodsAlike
    <3>6. SslHandOK(DrainBio(x)) /\ DrainBio(x).owner = x.owner /\ DrainBio(x).closes = x.closes
      BY <3>3, <3>5, AlikeOK
    <3>7. ssl' = DrainBio(x) /\ DOMAIN tcp' = TcpFields
      BY <1>2, <2>2, <2>5 DEF TcpFields
    <3> QED
      BY <1>1, <1>2, <2>4, <3>2, <3>3, <3>6, <3>7, SslGoesOn
  <2>6. CASE ~r.ok
    BY <1>1, <1>2, <2>2, <2>4, <2>6, SslTcpGoes
  <2> QED
    BY <2>5, <2>6
<1> QED
  BY <1>3, <1>4

\* The other steps of TCP and of the application keep the invariant.
LEMMA SslOtherKeeps ==
  ASSUME HandInv, TcpFlushes \/ TcpCloseRead \/ TcpConnectionCloseHandler \/ SslWrite \/ SslFlushAndClose
  PROVE  HandInv'
<1>1. tcp.state # "closed"
  BY DEF TcpFlushes, TcpCloseRead, TcpConnectionCloseHandler, SslWrite, SslFlushAndClose
<1>2. SslHandOK(ssl) /\ ssl.owner # "nobody" /\ DOMAIN ssl = SslFields /\ DOMAIN tcp = TcpFields
  BY <1>1, OpenIsOwned
<1>3. CASE TcpFlushes
  <2>1. ssl' = ssl /\ DOMAIN tcp' = TcpFields
    BY <1>2, <1>3 DEF TcpFlushes, TcpFields
  <2> QED
    BY <1>1, <1>2, <2>1, SslGoesOn
<1>4. CASE TcpCloseRead
  <2> DEFINE x == SslShutdown(ssl)
  <2>1. Alike(ssl, x)
    BY <1>2, MethodsAlike
  <2>2. ssl' = DrainBio(x) /\ DOMAIN tcp' = TcpFields
    BY <1>2, <1>4 DEF TcpCloseRead, TcpFields
  <2> HIDE DEF x
  <2>3. DOMAIN x = SslFields
    BY <2>1 DEF Alike
  <2>4. Alike(x, DrainBio(x))
    BY <2>3, MethodsAlike
  <2>5. Alike(ssl, ssl')
    BY <2>1, <2>2, <2>4, AlikeTwice
  <2> QED
    BY <1>1, <1>2, <2>2, <2>5, AlikeOK, SslGoesOn
<1>5. CASE TcpConnectionCloseHandler
  <2>1. TcpGoes(ssl)
    BY <1>5 DEF TcpConnectionCloseHandler
  <2> QED
    BY <1>1, <1>2, <2>1, SslTcpGoes
<1>6. CASE SslWrite
  <2>1. Alike(ssl, ssl') /\ DOMAIN tcp' = TcpFields
    BY <1>2, <1>6 DEF SslWrite, Alike, SslFields, TcpFields, BlockedTogether
  <2> QED
    BY <1>1, <1>2, <2>1, AlikeOK, SslGoesOn
<1>7. CASE SslFlushAndClose
  <2>1. Alike(ssl, ssl') /\ DOMAIN tcp' = TcpFields
    BY <1>2, <1>7 DEF SslFlushAndClose, Alike, SslFields, TcpFields, BlockedTogether
  <2> QED
    BY <1>1, <1>2, <2>1, AlikeOK, SslGoesOn
<1> QED
  BY <1>3, <1>4, <1>5, <1>6, <1>7

\* ForceClose, in its thread or in another, keeps the invariant.
LEMMA SslForceKeeps == ASSUME HandInv, NEW other, SslForceClose(other) PROVE HandInv'
<1>1. tcp.state # "closed"
  BY DEF SslForceClose
<1>2. SslHandOK(ssl) /\ ssl.owner # "nobody" /\ DOMAIN ssl = SslFields /\ DOMAIN tcp = TcpFields
  BY <1>1, OpenIsOwned
<1> DEFINE x == SslClear(ssl)
<1>3. Alike(ssl, x)
  BY <1>2, MethodsAlike
<1>4. ssl.owner = "app"
  BY DEF SslForceClose
<1>5. \/ ssl' = [x EXCEPT !.queued = Append(@, "tcp force")] /\ tcp' = tcp
      \/ TcpGoes(x)
  BY DEF SslForceClose
<1> HIDE DEF x
<1>6. SslHandOK(x) /\ x.owner = ssl.owner /\ x.closes = ssl.closes
  BY <1>2, <1>3, AlikeOK
<1>7. CASE ssl' = [x EXCEPT !.queued = Append(@, "tcp force")] /\ tcp' = tcp
  <2>1. "tcp force" \in Jobs /\ "tcp force" # "delete" /\ "tcp force" # "connect"
    BY DEF Jobs
  <2>2. SslHandOK(ssl') /\ ssl'.owner = x.owner /\ ssl'.closes = x.closes
    BY <1>4, <1>6, <1>7, <2>1, QueueJobOK
  <2> QED
    BY <1>1, <1>2, <1>6, <1>7, <2>2, SslGoesOn
<1>8. CASE TcpGoes(x)
  BY <1>1, <1>2, <1>6, <1>8, SslTcpGoes
<1> QED
  BY <1>5, <1>7, <1>8

\* What is left of a queue.
LEMMA RestJobs ==
  ASSUME NEW q \in Seq(Jobs), q # <<>>
  PROVE  /\ Tail(q) \in Seq(Jobs) /\ Len(q) \in Nat /\ Len(q) > 0 /\ Len(Tail(q)) = Len(q) - 1
         /\ \A i \in 1..(Len(q) - 1) : Tail(q)[i] = q[i + 1]
         /\ Head(q) = q[1] /\ Head(q) \in Jobs
  OBVIOUS

\* The application's connection takes a job from the queue.
LEMMA RestOK ==
  ASSUME NEW x, SslHandOK(x), x.owner = "app", x.queued # <<>>
  PROVE  LET y == [x EXCEPT !.queued = Tail(@)]
         IN  /\ SslHandOK(y) /\ y.owner = "app" /\ y.closes = x.closes /\ y.connects = x.connects
             /\ y.finished = x.finished
             /\ Head(x.queued) \in Jobs /\ Head(x.queued) # "delete"
             /\ Head(x.queued) = "connect" =>
                  x.finished /\ x.connects = 0 /\ \A i \in 1..Len(y.queued) : y.queued[i] # "connect"
<1> DEFINE y == [x EXCEPT !.queued = Tail(@)]
<1>0. /\ DOMAIN x = SslFields /\ x.queued \in Seq(Jobs) /\ x.connects \in 0..1 /\ x.closes \in 0..1
  BY DEF SslHandOK, SslKinds
<1>1. /\ DOMAIN y = SslFields /\ y.owner = x.owner /\ y.queued = Tail(x.queued) /\ y.connects = x.connects
      /\ y.closes = x.closes /\ y.deleted = x.deleted /\ y.finished = x.finished
      /\ y.half = x.half /\ y.readBlocked = x.readBlocked
      /\ y.writesWhileBlocked = x.writesWhileBlocked
  BY <1>0 DEF SslFields
<1> HIDE DEF y
<1>2. PICK n \in Nat : /\ Len(x.queued) = n + 1 /\ Len(y.queued) = n /\ y.queued \in Seq(Jobs)
                       /\ \A i \in 1..n : y.queued[i] = x.queued[i + 1]
                       /\ Head(x.queued) = x.queued[1] /\ Head(x.queued) \in Jobs
  <2>1. /\ Tail(x.queued) \in Seq(Jobs) /\ Len(x.queued) \in Nat /\ Len(x.queued) > 0
        /\ Len(Tail(x.queued)) = Len(x.queued) - 1
        /\ \A i \in 1..(Len(x.queued) - 1) : Tail(x.queued)[i] = x.queued[i + 1]
        /\ Head(x.queued) = x.queued[1] /\ Head(x.queued) \in Jobs
    BY <1>0, RestJobs
  <2>2. Len(x.queued) - 1 \in Nat /\ Len(x.queued) = (Len(x.queued) - 1) + 1
    BY <2>1
  <2>3. Len(y.queued) = Len(x.queued) - 1 /\ y.queued \in Seq(Jobs)
    BY <1>1, <2>1
  <2> QED
    BY <1>1, <2>1, <2>2, <2>3
<1>3. /\ ~x.deleted /\ \A i \in 1..Len(x.queued) : x.queued[i] # "delete"
      /\ \A i \in 1..Len(x.queued) : x.queued[i] = "connect" => x.finished /\ x.connects = 0
      /\ \A i, j \in 1..Len(x.queued) : x.queued[i] = "connect" /\ x.queued[j] = "connect" => i = j
      /\ x.connects > 0 => x.finished
  BY DEF SslHandOK, Owned, ConnectOnce
<1>4. 1 \in 1..Len(x.queued) /\ \A i \in 1..n : i \in Int /\ i + 1 \in 1..Len(x.queued) /\ i + 1 # 1
  BY <1>2
<1>5. SslKinds(y)
  BY <1>0, <1>1, <1>2 DEF SslHandOK, SslKinds
<1>6. Owned(y)
  BY <1>1, <1>2, <1>3, <1>4 DEF Owned
<1>7. ConnectOnce(y)
  <2>1. \A i \in 1..n : y.queued[i] = "connect" => x.finished /\ x.connects = 0
    BY <1>2, <1>3, <1>4
  <2>2. \A i, j \in 1..n : y.queued[i] = "connect" /\ y.queued[j] = "connect" => i = j
    <3> SUFFICES ASSUME NEW i \in 1..n, NEW j \in 1..n, y.queued[i] = "connect", y.queued[j] = "connect"
                 PROVE  i = j
      OBVIOUS
    <3>a. i + 1 \in 1..Len(x.queued) /\ j + 1 \in 1..Len(x.queued)
      BY <1>4
    <3>b. x.queued[i + 1] = "connect" /\ x.queued[j + 1] = "connect"
      BY <1>2
    <3>1. i + 1 = j + 1
      BY <1>3, <3>a, <3>b
    <3> QED
      BY <3>1
  <2> QED
    BY <1>1, <1>2, <1>3, <2>1, <2>2 DEF ConnectOnce
<1>8. BlockedTogether(y)
  BY <1>1 DEF SslHandOK, BlockedTogether
<1>9. Head(x.queued) = "connect" => x.finished /\ x.connects = 0 /\ \A i \in 1..Len(y.queued) : y.queued[i] # "connect"
  BY <1>2, <1>3, <1>4
<1>10. Head(x.queued) # "delete"
  BY <1>2, <1>3, <1>4
<1> QED
  BY <1>1, <1>2, <1>5, <1>6, <1>7, <1>8, <1>9, <1>10 DEF SslHandOK, y

\* The connect handler runs: the connection is the application's.
LEMMA ConnectedOK ==
  ASSUME NEW x, SslHandOK(x), x.owner \in {"acceptor", "app"}, x.queued # <<>>, Head(x.queued) = "connect"
  PROVE  LET y == [[x EXCEPT !.queued = Tail(@)] EXCEPT !.connects = @ + 1, !.owner = "app"]
         IN  SslHandOK(y) /\ y.owner = "app" /\ y.closes = x.closes
<1> DEFINE z == [x EXCEPT !.queued = Tail(@)]
           y == [z EXCEPT !.connects = @ + 1, !.owner = "app"]
<1>0. /\ DOMAIN x = SslFields /\ x.queued \in Seq(Jobs) /\ x.connects \in 0..1 /\ x.closes \in 0..1
      /\ x.finished \in BOOLEAN /\ x.deleted \in BOOLEAN
  BY DEF SslHandOK, SslKinds
<1>1. /\ DOMAIN z = SslFields /\ z.owner = x.owner /\ z.queued = Tail(x.queued) /\ z.connects = x.connects
      /\ z.closes = x.closes /\ z.deleted = x.deleted /\ z.finished = x.finished
      /\ z.half = x.half /\ z.readBlocked = x.readBlocked
      /\ z.writesWhileBlocked = x.writesWhileBlocked
  BY <1>0 DEF SslFields
<1>2. /\ x.finished /\ x.connects = 0 /\ ~x.deleted /\ z.queued \in Seq(Jobs)
      /\ \A i \in 1..Len(z.queued) : z.queued[i] # "connect" /\ z.queued[i] # "delete"
  <2>1. CASE x.owner = "app"
    <3>1. /\ SslHandOK(z) /\ z.owner = "app"
          /\ x.finished /\ x.connects = 0 /\ \A i \in 1..Len(z.queued) : z.queued[i] # "connect"
      BY <2>1, RestOK
    <3> HIDE DEF z
    <3> QED
      BY <2>1, <1>1, <3>1 DEF SslHandOK, SslKinds, Owned
  <2>2. CASE x.owner = "acceptor"
    <3> HIDE DEF z
    <3>1. x.connects = 0 /\ ~x.deleted /\ x.queued = IF x.finished THEN <<"connect">> ELSE <<>>
      BY <2>2 DEF SslHandOK, Owned
    <3>2. x.finished /\ Tail(x.queued) = <<>>
      BY <1>0, <3>1
    <3>3. z.queued = <<>>
      BY <1>1, <3>2
    <3> QED
      BY <3>1, <3>2, <3>3
  <2> QED
    BY <2>1, <2>2
<1> HIDE DEF z
<1>3. DOMAIN y = SslFields /\ y.owner = "app" /\ y.connects = 1
  BY <1>1, <1>2 DEF SslFields
<1>4. /\ y.closes = x.closes /\ y.deleted = x.deleted /\ y.finished = x.finished /\ y.queued = z.queued
      /\ y.half = x.half /\ y.readBlocked = x.readBlocked
      /\ y.writesWhileBlocked = x.writesWhileBlocked
  BY <1>1 DEF SslFields
<1> HIDE DEF y
<1>5. SslKinds(y)
  BY <1>0, <1>2, <1>3, <1>4 DEF SslKinds
<1>6. Owned(y)
  BY <1>2, <1>3, <1>4 DEF Owned
<1>7. ConnectOnce(y)
  BY <1>2, <1>3, <1>4 DEF ConnectOnce
<1>8. BlockedTogether(y)
  BY <1>4 DEF SslHandOK, BlockedTogether
<1> QED
  BY <1>3, <1>4, <1>5, <1>6, <1>7, <1>8 DEF SslHandOK, y, z

\* Queues of one and of two.
LEMMA ShortTails ==
  /\ \A a : Head(<<a>>) = a /\ Tail(<<a>>) = <<>>
  /\ \A a, b : Head(<<a, b>>) = a /\ Tail(<<a, b>>) = <<b>>
<1>1. ASSUME NEW a PROVE Head(<<a>>) = a /\ Tail(<<a>>) = <<>>
  OBVIOUS
<1>2. ASSUME NEW a, NEW b PROVE Head(<<a, b>>) = a /\ Tail(<<a, b>>) = <<b>>
  OBVIOUS
<1> QED
  BY <1>1, <1>2

\* Nobody's connection takes a job: the connect handler, which it leaves
\* out, or the delete, which is the last one.
LEMMA NobodysOK ==
  ASSUME NEW x, SslHandOK(x), x.owner = "nobody", x.queued # <<>>, NEW y,
         \/ Head(x.queued) = "connect" /\ y = [x EXCEPT !.queued = Tail(@)]
         \/ Head(x.queued) = "delete" /\ y = [[x EXCEPT !.queued = Tail(@)] EXCEPT !.deleted = TRUE]
  PROVE  SslHandOK(y) /\ y.owner = "nobody" /\ y.closes = x.closes
<1>0. /\ DOMAIN x = SslFields /\ x.queued \in Seq(Jobs) /\ x.connects \in 0..1 /\ x.closes \in 0..1
      /\ x.finished \in BOOLEAN /\ x.deleted \in BOOLEAN /\ "delete" \in Jobs
  BY DEF SslHandOK, SslKinds, Jobs
<1>1. x.connects = 0 /\ ~x.deleted /\ (x.queued = <<"delete">> \/ x.queued = <<"connect", "delete">>)
  BY <1>0 DEF SslHandOK, Owned
<1>t. /\ Head(x.queued) = "connect" => Tail(x.queued) = <<"delete">>
      /\ Head(x.queued) = "delete" => Tail(x.queued) = <<>>
  <2>1. CASE x.queued = <<"delete">>
    BY <2>1, ShortTails
  <2>2. CASE x.queued = <<"connect", "delete">>
    BY <2>2, ShortTails
  <2> QED
    BY <1>1, <2>1, <2>2
<1>d. <<"delete">> \in Seq(Jobs) /\ Len(<<"delete">>) = 1 /\ <<"delete">>[1] = "delete" /\ <<>> \in Seq(Jobs) /\ Len(<<>>) = 0
  BY <1>0
<1>2. CASE Head(x.queued) = "connect" /\ y = [x EXCEPT !.queued = Tail(@)]
  <2>1. /\ DOMAIN y = SslFields /\ y.owner = x.owner /\ y.queued = Tail(x.queued) /\ y.connects = x.connects
        /\ y.closes = x.closes /\ y.deleted = x.deleted /\ y.finished = x.finished
        /\ y.half = x.half /\ y.readBlocked = x.readBlocked
        /\ y.writesWhileBlocked = x.writesWhileBlocked
    BY <1>0, <1>2 DEF SslFields
  <2>2. y.queued = <<"delete">>
    BY <1>t, <1>2, <2>1
  <2>3. SslKinds(y)
    <3>1. y.queued \in Seq(Jobs)
      BY <1>d, <2>2
    <3> QED
      BY <1>0, <2>1, <3>1 DEF SslHandOK, SslKinds
  <2>4. Owned(y)
    BY <1>1, <2>1, <2>2 DEF Owned
  <2>5. ConnectOnce(y)
    <3>1. \A i \in 1..Len(y.queued) : y.queued[i] # "connect"
      BY <2>2
    <3> QED
      BY <1>1, <2>1, <3>1 DEF ConnectOnce
  <2>6. BlockedTogether(y)
    BY <2>1 DEF SslHandOK, BlockedTogether
  <2> QED
    BY <2>1, <2>3, <2>4, <2>5, <2>6 DEF SslHandOK
<1>3. CASE Head(x.queued) = "delete" /\ y = [[x EXCEPT !.queued = Tail(@)] EXCEPT !.deleted = TRUE]
  <2>1. DOMAIN y = SslFields /\ y.owner = x.owner /\ y.queued = Tail(x.queued) /\ y.deleted = TRUE
    BY <1>0, <1>3 DEF SslFields
  <2>a. /\ y.closes = x.closes /\ y.finished = x.finished /\ y.connects = x.connects
        /\ y.half = x.half /\ y.readBlocked = x.readBlocked
        /\ y.writesWhileBlocked = x.writesWhileBlocked
    BY <1>0, <1>3 DEF SslFields
  <2>2. y.queued = <<>>
    BY <1>t, <1>3, <2>1
  <2>3. SslKinds(y)
    <3>1. y.queued \in Seq(Jobs)
      BY <1>d, <2>2
    <3>2. y.deleted \in BOOLEAN
      BY <2>1
    <3> QED
      BY <1>0, <2>1, <2>a, <3>1, <3>2 DEF SslHandOK, SslKinds
  <2>4. Owned(y)
    BY <1>1, <2>1, <2>a, <2>2 DEF Owned
  <2>5. ConnectOnce(y)
    <3>1. \A i \in 1..Len(y.queued) : y.queued[i] # "connect"
      BY <2>2
    <3> QED
      BY <1>1, <2>a, <3>1 DEF ConnectOnce
  <2>6. BlockedTogether(y)
    BY <2>a DEF SslHandOK, BlockedTogether
  <2> QED
    BY <2>1, <2>a, <2>3, <2>4, <2>5, <2>6 DEF SslHandOK
<1> QED
  BY <1>2, <1>3

\* A queued function that leaves the TCP connection as it is.
LEMMA SslStays ==
  ASSUME HandInv, NEW STATE x, SslHandOK(x), x.closes = ssl.closes, x.owner = "nobody" => ssl.owner = "nobody",
         ssl' = x, UNCHANGED tcp
  PROVE  HandInv'
<1>1. SslHandOK(ssl')
  OBVIOUS
<1> QED
  BY <1>1 DEF HandInv

\* What the application's queue holds: the connect handler, or a close.
LEMMA RunQueuedKeeps == ASSUME HandInv, RunQueued PROVE HandInv'
<1> DEFINE rest == [ssl EXCEPT !.queued = Tail(@)]
           what == Head(ssl.queued)
<1>1. SslHandOK(ssl) /\ ssl.queued # <<>> /\ ssl.owner \in {"acceptor", "app", "nobody"}
      /\ DOMAIN tcp = TcpFields
  BY DEF RunQueued, HandInv, SslHandOK, SslKinds
<1>2. ssl.owner = "acceptor" => what = "connect"
  <2>1. ssl.owner = "acceptor" => ssl.queued = <<"connect">>
    BY <1>1 DEF SslHandOK, Owned, SslKinds
  <2> QED
    BY <2>1
<1>3. ssl.owner = "nobody" => what \in {"connect", "delete"}
  <2>1. ssl.owner = "nobody" => ssl.queued = <<"delete">> \/ ssl.queued = <<"connect", "delete">>
    BY <1>1 DEF SslHandOK, Owned, SslKinds
  <2> QED
    BY <2>1
<1>4. CASE what = "connect" /\ ssl.owner # "nobody"
  <2>1. ssl' = [rest EXCEPT !.connects = @ + 1, !.owner = "app"] /\ UNCHANGED tcp
    BY <1>4 DEF RunQueued
  <2>2. SslHandOK(ssl') /\ ssl'.owner = "app" /\ ssl'.closes = ssl.closes
    BY <1>1, <1>4, <2>1, ConnectedOK
  <2> QED
    BY <2>1, <2>2, SslStays
<1>5. CASE ssl.owner = "nobody"
  <2>1. /\ UNCHANGED tcp
        /\ \/ what = "connect" /\ ssl' = rest
           \/ what = "delete" /\ ssl' = [rest EXCEPT !.deleted = TRUE]
    BY <1>3, <1>5 DEF RunQueued
  <2>2. SslHandOK(ssl') /\ ssl'.owner = "nobody" /\ ssl'.closes = ssl.closes
    BY <1>1, <1>5, <2>1, NobodysOK
  <2> QED
    BY <1>5, <2>1, <2>2, SslStays
<1>6. CASE ssl.owner = "app" /\ what # "connect"
  <2>1. SslHandOK(rest) /\ rest.owner = "app" /\ rest.closes = ssl.closes /\ what # "delete"
    BY <1>1, <1>6, RestOK
  <2>2. \/ ssl' = Fails(rest, "null selector: close") /\ UNCHANGED tcp
        \/ tcp.state # "closed" /\ TcpGoes(rest)
        \/ tcp.state # "closed" /\ ssl' = rest
           /\ tcp' = IF tcp.state = "open" THEN [tcp EXCEPT !.state = "flushing", !.want = TRUE] ELSE tcp
    BY <1>6, <2>1 DEF RunQueued
  <2> HIDE DEF rest
  <2>3. CASE ssl' = Fails(rest, "null selector: close") /\ UNCHANGED tcp
    <3>1. DOMAIN rest = SslFields
      BY <2>1 DEF SslHandOK, SslKinds
    <3>2. Alike(rest, ssl')
      BY <2>3, <3>1 DEF Fails, Alike, SslFields, BlockedTogether
    <3>3. SslHandOK(ssl') /\ ssl'.owner = "app" /\ ssl'.closes = ssl.closes
      BY <2>1, <3>2, AlikeOK
    <3> QED
      BY <2>3, <3>3, SslStays
  <2>4. CASE tcp.state # "closed" /\ TcpGoes(rest)
    BY <2>1, <2>4, SslTcpGoes
  <2>5. CASE tcp.state # "closed" /\ ssl' = rest
           /\ tcp' = IF tcp.state = "open" THEN [tcp EXCEPT !.state = "flushing", !.want = TRUE] ELSE tcp
    <3>1. DOMAIN tcp' = TcpFields
      BY <1>1, <2>5
    <3> QED
      BY <2>1, <2>5, <3>1, SslGoesOn
  <2> QED
    BY <2>2, <2>3, <2>4, <2>5
<1> QED
  BY <1>1, <1>2, <1>4, <1>5, <1>6

\* Every step keeps the invariant.
LEMMA HandNext == HandInv /\ [SslNext]_sslVars => HandInv'
<1> SUFFICES ASSUME HandInv, [SslNext]_sslVars PROVE HandInv'
  OBVIOUS
<1>1. CASE UNCHANGED <<ssl, tcp>>
  BY <1>1 DEF HandInv
<1>2. CASE SslNext
  <2>1. CASE SslStart \/ TcpConnectionConnectHandler \/ RunQueued
    BY <2>1, StartKeeps, ConnectHandlerKeeps, RunQueuedKeeps
  <2>2. CASE \E bad \in BOOLEAN :
               \/ \E n \in 1..(Flights + 2 * MaxRecords + 1) : TcpConnectionReadHandler(n, bad)
               \/ TcpConnectionWriteHandler(bad)
    BY <2>2, SslReadKeeps, SslWriteHandlerKeeps
  <2>3. CASE TcpFlushes \/ TcpCloseRead \/ TcpConnectionCloseHandler \/ SslWrite \/ SslFlushAndClose
    BY <2>3, SslOtherKeeps
  <2>4. CASE \E other \in BOOLEAN : SslForceClose(other)
    BY <2>4, SslForceKeeps
  <2>5. CASE PeerFlight \/ PeerNotify \/ \E split \in BOOLEAN : PeerData(split)
    BY <2>5, <1>1 DEF PeerFlight, PeerNotify, PeerData
  <2> QED
    BY <1>2, <2>1, <2>2, <2>3, <2>4, <2>5 DEF SslNext
<1> QED
  BY <1>1, <1>2 DEF sslVars

\* The invariant says what the theorem states.
LEMMA HandMeans == HandInv => HandedOverOrDeleted /\ HandlersRunOnce /\ NoWriteWhileReading
<1> SUFFICES ASSUME HandInv PROVE HandedOverOrDeleted /\ HandlersRunOnce /\ NoWriteWhileReading
  OBVIOUS
<1>1. SslKinds(ssl) /\ Owned(ssl) /\ BlockedTogether(ssl)
  BY DEF HandInv, SslHandOK
<1>2. HandedOverOrDeleted
  BY <1>1 DEF SslKinds, Owned, HandedOverOrDeleted
<1>3. HandlersRunOnce
  BY <1>1 DEF SslKinds, HandlersRunOnce
<1>4. NoWriteWhileReading
  BY <1>1 DEF BlockedTogether, NoWriteWhileReading
<1> QED
  BY <1>2, <1>3, <1>4

\* SslConnection and SslAcceptor, for any flights, records and chunks: a
\* connection is handed over to the application or deleted, never both; its
\* connect and its close handler run at most once; and nothing is written while
\* a record was read in part.
THEOREM SslHandedOver == SslSpec => [](HandedOverOrDeleted /\ HandlersRunOnce /\ NoWriteWhileReading)
<1>1. HandInv => HandedOverOrDeleted /\ HandlersRunOnce /\ NoWriteWhileReading
  BY HandMeans
<1> QED
  BY <1>1, HandInit, HandNext, PTL DEF SslSpec

-----------------------------------------------------------------------------
(* Timeouter                                                               *)

USE MaxAlarmsAssumption, TimeoutIdsAssumption

(* The inductive invariant                                                 *)

(* An alarm that was issued has a timeout; it is registered, or taken once, *)
(* or done with.                                                           *)
AlarmsOwned ==
    /\ pending \subseteq 0 .. issued - 1
    /\ taken \in Seq(0 .. issued - 1)
    /\ \A i \in 1 .. Len(taken) :
         /\ taken[i] \notin pending
         /\ \A j \in 1 .. Len(taken) : taken[i] = taken[j] => i = j
    /\ \A a \in 0 .. issued - 1 : timeoutOf[a] \in TimeoutIds

(* The function of a registered alarm calls ProcessTimeout for the timeout *)
(* whose entry names this alarm, and that timeout was not cleared; so for  *)
(* an alarm taken, unless ClearAllTimeouts has erased the entry.           *)
EntriesMatch ==
    /\ \A t \in DOMAIN timeouts : timeoutOf[timeouts[t]] = t
    /\ \A a \in pending :
         timeoutOf[a] \in DOMAIN timeouts /\ timeouts[timeoutOf[a]] = a /\ timeoutOf[a] \notin cleared
    /\ \A i \in 1 .. Len(taken) : timeoutOf[taken[i]] \in DOMAIN timeouts =>
         timeouts[timeoutOf[taken[i]]] = taken[i] /\ timeoutOf[taken[i]] \notin cleared

(* A timeout about to be called, or just called, has no entry any more,    *)
(* and was not cleared.                                                    *)
CalledOnce ==
    /\ calling \notin DOMAIN timeouts /\ called \notin DOMAIN timeouts
    /\ calling \notin cleared /\ called \notin cleared

(* ~Timeouter leaves no alarm behind.                                      *)
NothingLeft == destroyed => pending = {} /\ taken = <<>>

TimeouterIInv ==
    /\ TimeouterTypeOK
    /\ NoCallAfterDestroy
    /\ SetHasAlarm
    /\ AlarmsOwned
    /\ EntriesMatch
    /\ CalledOnce
    /\ NothingLeft

-----------------------------------------------------------------------------
(* The invariant is inductive                                              *)

LEMMA TimeouterInitIInv == TimeouterInit => TimeouterIInv
<1> SUFFICES ASSUME TimeouterInit PROVE TimeouterIInv
  OBVIOUS
<1>1. /\ issued = 0 /\ pending = {} /\ taken = <<>> /\ DOMAIN timeouts = {}
      /\ timeoutOf = [a \in AlarmIds |-> NoTimeout] /\ calling = NoTimeout /\ called = NoTimeout
      /\ destroyed = FALSE /\ dangling = FALSE /\ cleared = {}
  BY DEF TimeouterInit, AlarmInit
<1>2. TimeouterTypeOK
  <2>1. DOMAIN taken = {} /\ 0 \in 0 .. MaxAlarms
    BY <1>1
  <2>2. destroyed \in BOOLEAN /\ dangling \in BOOLEAN
    BY <1>1
  <2>3. QED
    BY <1>1, <2>1, <2>2 DEF TimeouterTypeOK
<1>3. NoCallAfterDestroy /\ SetHasAlarm /\ CalledOnce /\ NothingLeft
  BY <1>1 DEF NoCallAfterDestroy, SetHasAlarm, CalledOnce, NothingLeft
<1>4. AlarmsOwned /\ EntriesMatch
  BY <1>1 DEF AlarmsOwned, EntriesMatch
<1>5. QED
  BY <1>2, <1>3, <1>4 DEF TimeouterIInv

(* SetTimeout in the loop's thread: nothing is taken, so the alarm it      *)
(* replaces was registered or is done with, and nothing else calls t.      *)
LEMMA SetTimeoutKeeps ==
  ASSUME ~AnyThread, TimeouterIInv, NEW t \in TimeoutIds, SetTimeout(t)
  PROVE  TimeouterIInv'
<1>1. /\ TimeouterTypeOK /\ NoCallAfterDestroy /\ SetHasAlarm /\ AlarmsOwned
      /\ EntriesMatch /\ CalledOnce /\ NothingLeft
      /\ ~destroyed /\ taken = <<>> /\ calling = NoTimeout /\ issued < MaxAlarms
      /\ pending' = (pending \ {timeouts[u] : u \in DOMAIN timeouts \cap {t}}) \cup {issued}
      /\ issued' = issued + 1
      /\ timeouts' = [u \in DOMAIN timeouts \cup {t} |->
                        IF u = t THEN issued ELSE timeouts[u]]
      /\ timeoutOf' = [timeoutOf EXCEPT ![issued] = t]
      /\ cleared' = cleared \ {t} /\ called' = NoTimeout
      /\ taken' = taken /\ calling' = calling /\ destroyed' = destroyed
      /\ dangling' = dangling
  BY DEF TimeouterIInv, SetTimeout, UserMayCall
<1>2. issued \in Nat /\ issued \in AlarmIds /\ issued \notin pending /\ issued + 1 \in 0 .. MaxAlarms
  BY <1>1 DEF TimeouterTypeOK, AlarmIds, AlarmsOwned
<1>3. /\ DOMAIN timeouts' = DOMAIN timeouts \cup {t} /\ timeouts'[t] = issued
      /\ \A u \in DOMAIN timeouts : u # t => timeouts'[u] = timeouts[u]
  BY <1>1
<1>4. /\ timeoutOf' \in [AlarmIds -> TimeoutIds \cup {NoTimeout}] /\ timeoutOf'[issued] = t
      /\ \A a \in AlarmIds : a # issued => timeoutOf'[a] = timeoutOf[a]
  BY <1>1, <1>2 DEF TimeouterTypeOK
<1>5. \A a \in pending : a \in pending' <=> timeoutOf[a] # t
  <2>1. ASSUME NEW a \in pending, timeoutOf[a] = t PROVE a \notin pending'
    BY <1>1, <1>2, <2>1 DEF EntriesMatch
  <2>2. ASSUME NEW a \in pending, timeoutOf[a] # t PROVE a \in pending'
    BY <1>1, <2>2 DEF EntriesMatch
  <2>3. QED
    BY <2>1, <2>2
<1>6. \A u \in DOMAIN timeouts : timeouts[u] \in 0 .. issued - 1 /\ timeouts[u] \in AlarmIds
                                 /\ timeouts[u] # issued
  BY <1>1, <1>2 DEF TimeouterTypeOK, AlarmIds
<1>7. pending' \subseteq pending \cup {issued} /\ pending \subseteq AlarmIds
  BY <1>1 DEF TimeouterTypeOK
<1>8. TimeouterTypeOK'
  <2>1. \A u \in DOMAIN timeouts' : timeouts'[u] \in 0 .. issued' - 1
    BY <1>1, <1>2, <1>3, <1>6
  <2>2. QED
    BY <1>1, <1>2, <1>3, <1>4, <1>7, <2>1 DEF TimeouterTypeOK
<1>9. NoCallAfterDestroy' /\ NothingLeft' /\ CalledOnce'
  BY <1>1, <1>3 DEF NoCallAfterDestroy, NothingLeft, CalledOnce, TimeouterTypeOK
<1>10. SetHasAlarm'
  <2>1. ASSUME NEW u \in DOMAIN timeouts' \ cleared'
        PROVE  timeouts'[u] \in pending'
    <3>1. CASE u = t
      BY <1>1, <1>3, <3>1
    <3>2. CASE u # t
      <4>1. u \in DOMAIN timeouts \ cleared /\ ToSet(taken) = {}
        BY <1>1, <1>3, <3>2 DEF ToSet
      <4>2. timeouts[u] \in pending /\ timeoutOf[timeouts[u]] = u
        BY <1>1, <4>1 DEF SetHasAlarm, EntriesMatch
      <4>3. QED
        BY <1>3, <1>5, <3>2, <4>1, <4>2
    <3>3. QED
      BY <3>1, <3>2
  <2>2. QED
    BY <2>1 DEF SetHasAlarm
<1>11. AlarmsOwned'
  <2>1. pending' \subseteq 0 .. issued' - 1
    <3>1. \A a \in 0 .. issued - 1 : a \in 0 .. issued' - 1
      BY <1>1, <1>2
    <3>2. issued \in 0 .. issued' - 1 /\ pending \subseteq 0 .. issued - 1
      BY <1>1, <1>2 DEF AlarmsOwned
    <3>3. QED
      BY <1>7, <3>1, <3>2
  <2>2. taken' = <<>>
    BY <1>1
  <2>3. \A a \in 0 .. issued' - 1 : timeoutOf'[a] \in TimeoutIds
    BY <1>1, <1>2, <1>4 DEF AlarmsOwned, AlarmIds
  <2>4. QED
    BY <2>1, <2>2, <2>3 DEF AlarmsOwned
<1>12. EntriesMatch'
  <2>1. \A u \in DOMAIN timeouts' : timeoutOf'[timeouts'[u]] = u
    BY <1>1, <1>3, <1>4, <1>6 DEF EntriesMatch
  <2>2. ASSUME NEW a \in pending'
        PROVE  /\ timeoutOf'[a] \in DOMAIN timeouts' /\ timeouts'[timeoutOf'[a]] = a
               /\ timeoutOf'[a] \notin cleared'
    <3>1. CASE a = issued
      BY <1>1, <1>3, <1>4, <3>1
    <3>2. CASE a # issued
      <4>1. a \in pending /\ timeoutOf[a] # t /\ timeoutOf'[a] = timeoutOf[a]
        BY <1>4, <1>5, <1>7, <3>2
      <4>2. QED
        BY <1>1, <1>3, <4>1 DEF EntriesMatch
    <3>3. QED
      BY <3>1, <3>2
  <2>3. Len(taken') = 0
    BY <1>1
  <2>4. QED
    BY <2>1, <2>2, <2>3 DEF EntriesMatch
<1>13. QED
  BY <1>8, <1>9, <1>10, <1>11, <1>12 DEF TimeouterIInv

(* ClearTimeout in the loop's thread: nothing is taken, so after its alarm *)
(* is unregistered nothing calls the timeout.                              *)
LEMMA ClearTimeoutKeeps ==
  ASSUME ~AnyThread, TimeouterIInv, NEW t \in TimeoutIds, ClearTimeout(t)
  PROVE  TimeouterIInv'
<1>1. /\ TimeouterTypeOK /\ NoCallAfterDestroy /\ SetHasAlarm /\ AlarmsOwned
      /\ EntriesMatch /\ CalledOnce /\ NothingLeft
      /\ ~destroyed /\ taken = <<>> /\ calling = NoTimeout
      /\ UNCHANGED <<issued, taken, timeouts, timeoutOf, calling, destroyed, dangling>>
      /\ called' = NoTimeout
  BY DEF TimeouterIInv, ClearTimeout, UserMayCall, UnregisterAlarm, alarmVars
<1>2. CASE t \notin DOMAIN timeouts
  <2>1. pending' = pending /\ cleared' = cleared
    BY <1>2 DEF ClearTimeout, alarmVars
  <2>2. QED
    BY <1>1, <2>1 DEF TimeouterIInv, TimeouterTypeOK, NoCallAfterDestroy, SetHasAlarm,
       AlarmsOwned, EntriesMatch, CalledOnce, NothingLeft
<1>3. CASE t \in DOMAIN timeouts
  <2>1. pending' = pending \ {timeouts[t]} /\ cleared' = cleared \cup {t}
    BY <1>3 DEF ClearTimeout, UnregisterAlarm
  <2>2. TimeouterTypeOK' /\ NoCallAfterDestroy' /\ NothingLeft'
    BY <1>1, <2>1 DEF TimeouterTypeOK, NoCallAfterDestroy, NothingLeft
  <2>3. AlarmsOwned' /\ CalledOnce'
    <3>1. AlarmsOwned'
      <4>1. /\ AlarmsOwned /\ pending' \subseteq pending
            /\ issued' = issued /\ taken' = taken /\ timeoutOf' = timeoutOf
        BY <1>1, <2>1
      <4>2. QED
        BY <4>1 DEF AlarmsOwned
    <3>2. CalledOnce'
      BY <1>1, <2>1 DEF CalledOnce, TimeouterTypeOK
    <3>3. QED
      BY <3>1, <3>2
  <2>4. EntriesMatch'
    BY <1>1, <1>3, <2>1 DEF EntriesMatch
  <2>5. SetHasAlarm'
    BY <1>1, <1>3, <2>1 DEF EntriesMatch, SetHasAlarm, ToSet
  <2>6. QED
    BY <2>2, <2>3, <2>4, <2>5 DEF TimeouterIInv
<1>4. QED
  BY <1>2, <1>3

(* ClearAllTimeouts and ~Timeouter: every registered alarm is that of an   *)
(* entry, so none is left.                                                 *)
LEMMA ClearAllKeeps ==
  ASSUME ~AnyThread, TimeouterIInv, ClearAllTimeouts \/ DestroyTimeouter
  PROVE  TimeouterIInv'
<1>1. /\ TimeouterTypeOK /\ NoCallAfterDestroy /\ SetHasAlarm /\ AlarmsOwned
      /\ EntriesMatch /\ CalledOnce /\ NothingLeft
      /\ ~destroyed /\ calling = NoTimeout
      /\ pending' = pending \ {timeouts[t] : t \in DOMAIN timeouts}
      /\ DOMAIN timeouts' = {} /\ cleared' = cleared \cup DOMAIN timeouts
      /\ called' = NoTimeout
      /\ UNCHANGED <<issued, taken, timeoutOf, calling, dangling>>
      /\ destroyed' \in BOOLEAN /\ (destroyed' => taken = <<>>)
  <2>1. CASE ClearAllTimeouts
    <3>1. destroyed' \in BOOLEAN
      BY <2>1 DEF TimeouterIInv, ClearAllTimeouts, TimeouterTypeOK
    <3>2. QED
      BY <2>1, <3>1 DEF TimeouterIInv, ClearAllTimeouts, UnregisterAlarm
  <2>2. CASE DestroyTimeouter
    <3>1. destroyed' \in BOOLEAN
      BY <2>2 DEF DestroyTimeouter
    <3>2. QED
      BY <2>2, <3>1 DEF TimeouterIInv, DestroyTimeouter, UnregisterAlarm
  <2>3. QED
    BY <2>1, <2>2
<1>2. pending' = {}
  BY <1>1 DEF EntriesMatch
<1>3. TimeouterTypeOK' /\ NoCallAfterDestroy' /\ NothingLeft'
  BY <1>1, <1>2 DEF TimeouterTypeOK, NoCallAfterDestroy, NothingLeft
<1>4. AlarmsOwned' /\ CalledOnce'
  BY <1>1, <1>2 DEF AlarmsOwned, CalledOnce, TimeouterTypeOK
<1>5. EntriesMatch' /\ SetHasAlarm'
  BY <1>1, <1>2 DEF EntriesMatch, SetHasAlarm
<1>6. QED
  BY <1>3, <1>4, <1>5 DEF TimeouterIInv

(* The loop takes a registered alarm.                                      *)
LEMMA LoopTakesKeeps ==
  ASSUME TimeouterIInv, NEW a \in pending, LoopTakes(a)
  PROVE  TimeouterIInv'
<1>1. /\ TimeouterTypeOK /\ NoCallAfterDestroy /\ SetHasAlarm /\ AlarmsOwned
      /\ EntriesMatch /\ CalledOnce /\ NothingLeft
      /\ pending' = pending \ {a} /\ taken' = Append(taken, a) /\ called' = NoTimeout
      /\ UNCHANGED <<issued, timeouts, timeoutOf, calling, destroyed, cleared, dangling>>
  BY DEF TimeouterIInv, LoopTakes, TakeAlarm
<1>2. a \in 0 .. issued - 1 /\ a \in AlarmIds
  BY <1>1 DEF AlarmsOwned, TimeouterTypeOK
<1>3. /\ taken \in Seq(0 .. issued - 1) /\ taken' \in Seq(0 .. issued - 1)
      /\ Len(taken) \in Nat /\ Len(taken') = Len(taken) + 1
      /\ \A i \in 1 .. Len(taken) : taken'[i] = taken[i]
      /\ taken'[Len(taken) + 1] = a
  BY <1>1, <1>2 DEF AlarmsOwned
<1>4. \A i \in 1 .. Len(taken') : \/ i \in 1 .. Len(taken) /\ taken'[i] = taken[i]
                                  \/ i = Len(taken) + 1 /\ taken'[i] = a
  BY <1>3
<1>5. TimeouterTypeOK'
  <2>1. \A i \in DOMAIN taken' : taken'[i] \in AlarmIds
    <3>1. DOMAIN taken = 1 .. Len(taken) /\ DOMAIN taken' = 1 .. Len(taken')
      BY <1>3
    <3>2. QED
      BY <1>1, <1>2, <1>4, <3>1 DEF TimeouterTypeOK
  <2>2. QED
    BY <1>1, <2>1 DEF TimeouterTypeOK
<1>6. NoCallAfterDestroy' /\ NothingLeft' /\ CalledOnce'
  BY <1>1 DEF NoCallAfterDestroy, NothingLeft, CalledOnce, TimeouterTypeOK
<1>7. SetHasAlarm'
  <2>1. ASSUME NEW x PROVE x \in pending \cup ToSet(taken) => x \in pending' \cup ToSet(taken')
    <3>1. DOMAIN taken = 1 .. Len(taken) /\ DOMAIN taken' = 1 .. Len(taken')
      BY <1>3
    <3>2. CASE x = a
      <4>1. Len(taken) + 1 \in DOMAIN taken'
        BY <1>3, <3>1
      <4>2. QED
        BY <1>3, <3>2, <4>1 DEF ToSet
    <3>3. CASE x \in ToSet(taken)
      <4>1. PICK i \in DOMAIN taken : x = taken[i]
        BY <3>3 DEF ToSet
      <4>2. i \in DOMAIN taken' /\ taken'[i] = x
        BY <1>3, <3>1, <4>1
      <4>3. QED
        BY <4>2 DEF ToSet
    <3>4. QED
      BY <1>1, <3>2, <3>3
  <2>2. QED
    BY <1>1, <2>1 DEF SetHasAlarm
<1>8. AlarmsOwned'
  <2>1. ASSUME NEW i \in 1 .. Len(taken')
        PROVE  /\ taken'[i] \notin pending'
               /\ \A j \in 1 .. Len(taken') : taken'[i] = taken'[j] => i = j
    <3>1. taken'[i] \notin pending'
      BY <1>1, <1>4 DEF AlarmsOwned
    <3>2. ASSUME NEW j \in 1 .. Len(taken'), taken'[i] = taken'[j] PROVE i = j
      BY <1>1, <1>4, <3>2 DEF AlarmsOwned
    <3>3. QED
      BY <3>1, <3>2
  <2>2. QED
    BY <1>1, <1>3, <2>1 DEF AlarmsOwned
<1>9. EntriesMatch'
  <2>1. ASSUME NEW i \in 1 .. Len(taken'), timeoutOf[taken'[i]] \in DOMAIN timeouts
        PROVE  timeouts[timeoutOf[taken'[i]]] = taken'[i] /\ timeoutOf[taken'[i]] \notin cleared
    BY <1>1, <1>4, <2>1 DEF EntriesMatch
  <2>2. QED
    BY <1>1, <2>1 DEF EntriesMatch
<1>10. QED
  BY <1>5, <1>6, <1>7, <1>8, <1>9 DEF TimeouterIInv

(* ProcessTimeout erases the entry of the alarm it was called by: no other *)
(* alarm of this timeout is registered or taken.                           *)
LEMMA ProcessTimeoutKeeps ==
  ASSUME TimeouterIInv, ProcessTimeout
  PROVE  TimeouterIInv'
<1> DEFINE h == Head(taken)
           t == timeoutOf[h]
<1>1. /\ TimeouterTypeOK /\ NoCallAfterDestroy /\ SetHasAlarm /\ AlarmsOwned
      /\ EntriesMatch /\ CalledOnce /\ NothingLeft
      /\ taken # <<>> /\ taken' = Tail(taken)
      /\ calling' = IF t \in DOMAIN timeouts THEN t ELSE NoTimeout
      /\ timeouts' = [u \in DOMAIN timeouts \ {t} |-> timeouts[u]]
      /\ dangling' = (dangling \/ destroyed) /\ called' = NoTimeout
      /\ UNCHANGED <<issued, pending, timeoutOf, destroyed, cleared>>
  BY DEF TimeouterIInv, ProcessTimeout, RunAlarm
<1>2. ~destroyed /\ ~dangling /\ ~dangling'
  BY <1>1 DEF NothingLeft, NoCallAfterDestroy
<1>3. taken \in Seq(0 .. issued - 1) /\ taken # <<>> /\ taken' = Tail(taken)
  BY <1>1 DEF AlarmsOwned
<1>4. h \in 0 .. issued - 1 /\ h = taken[1] /\ Len(taken) \in Nat /\ 1 \in 1 .. Len(taken)
  <2>1. Len(taken) \in Nat \ {0} /\ h = taken[1]
    BY <1>3
  <2>2. h \in 0 .. issued - 1
    BY <1>3, HeadTailProperties
  <2>3. QED
    BY <2>1, <2>2
<1>5. /\ taken' \in Seq(0 .. issued - 1) /\ Len(taken') = Len(taken) - 1
      /\ \A i \in 1 .. Len(taken') : i + 1 \in 1 .. Len(taken) /\ taken'[i] = taken[i + 1]
  <2>1. taken' \in Seq(0 .. issued - 1) /\ Len(taken') = Len(taken) - 1
    BY <1>3, HeadTailProperties
  <2>2. \A i \in 1 .. Len(taken') : taken'[i] = taken[i + 1]
    BY <1>3, HeadTailProperties
  <2>3. QED
    BY <1>4, <2>1, <2>2
<1>6. /\ t \in TimeoutIds /\ h \notin pending
      /\ t \in DOMAIN timeouts => timeouts[t] = h /\ t \notin cleared
      /\ \A i \in 1 .. Len(taken) : taken[i] = h => i = 1
  BY <1>1, <1>4 DEF AlarmsOwned, EntriesMatch
<1> HIDE DEF h, t
<1>7. /\ DOMAIN timeouts' = DOMAIN timeouts \ {t}
      /\ \A u \in DOMAIN timeouts' : timeouts'[u] = timeouts[u]
      /\ calling' \in TimeoutIds \cup {NoTimeout} /\ NoTimeout \notin DOMAIN timeouts
      /\ NoTimeout \notin cleared
  BY <1>1, <1>6 DEF TimeouterTypeOK
<1>8. TimeouterTypeOK'
  <2>1. \A i \in DOMAIN taken' : taken'[i] \in AlarmIds
    <3>1. DOMAIN taken = 1 .. Len(taken) /\ DOMAIN taken' = 1 .. Len(taken')
      BY <1>3, <1>5
    <3>2. QED
      BY <1>1, <1>5, <3>1 DEF TimeouterTypeOK
  <2>2. dangling' \in BOOLEAN
    BY <1>1
  <2>3. QED
    BY <1>1, <1>7, <2>1, <2>2 DEF TimeouterTypeOK
<1>9. NoCallAfterDestroy' /\ NothingLeft'
  BY <1>1, <1>2 DEF NoCallAfterDestroy, NothingLeft
<1>10. CalledOnce'
  <2>1. calling' \in {t, NoTimeout} /\ (calling' = t => t \notin cleared \/ t = NoTimeout)
    BY <1>1, <1>6
  <2>2. QED
    BY <1>1, <1>7, <2>1 DEF CalledOnce
<1>11. SetHasAlarm'
  <2>1. ASSUME NEW u \in DOMAIN timeouts' \ cleared'
        PROVE  timeouts'[u] \in pending' \cup ToSet(taken')
    <3>1. /\ u \in DOMAIN timeouts \ cleared /\ u # t /\ timeouts'[u] = timeouts[u]
          /\ timeoutOf[timeouts[u]] = u
      BY <1>1, <1>7 DEF EntriesMatch
    <3>2. timeouts[u] # h
      BY <3>1 DEF t
    <3>3. CASE timeouts[u] \in pending
      BY <1>1, <3>1, <3>3
    <3>4. CASE timeouts[u] \in ToSet(taken)
      <4>1. PICK i \in DOMAIN taken : timeouts[u] = taken[i]
        BY <3>4 DEF ToSet
      <4>2. i \in 1 .. Len(taken) /\ i # 1
        BY <1>3, <1>4, <3>2, <4>1
      <4>3. i - 1 \in 1 .. Len(taken') /\ (i - 1) + 1 = i
        BY <1>4, <1>5, <4>2
      <4>4. i - 1 \in DOMAIN taken' /\ taken'[i - 1] = timeouts[u]
        BY <1>5, <4>1, <4>3
      <4>5. QED
        BY <3>1, <4>4 DEF ToSet
    <3>5. QED
      BY <1>1, <3>1, <3>3, <3>4 DEF SetHasAlarm
  <2>2. QED
    BY <2>1 DEF SetHasAlarm
<1>12. AlarmsOwned'
  <2>1. ASSUME NEW i \in 1 .. Len(taken')
        PROVE  /\ taken'[i] \notin pending
               /\ \A j \in 1 .. Len(taken') : taken'[i] = taken'[j] => i = j
    <3>1. i + 1 \in 1 .. Len(taken) /\ taken'[i] = taken[i + 1]
      BY <1>5
    <3>2. ASSUME NEW j \in 1 .. Len(taken'), taken'[i] = taken'[j] PROVE i = j
      <4>1. j + 1 \in 1 .. Len(taken) /\ taken'[j] = taken[j + 1]
        BY <1>5
      <4>2. i + 1 = j + 1
        BY <1>1, <3>1, <3>2, <4>1 DEF AlarmsOwned
      <4>3. QED
        BY <4>2
    <3>3. QED
      BY <1>1, <3>1, <3>2 DEF AlarmsOwned
  <2>2. QED
    BY <1>1, <1>5, <2>1 DEF AlarmsOwned
<1>13. EntriesMatch'
  <2>1. \A u \in DOMAIN timeouts' : timeoutOf[timeouts'[u]] = u
    BY <1>1, <1>7 DEF EntriesMatch
  <2>2. ASSUME NEW a \in pending
        PROVE  /\ timeoutOf[a] \in DOMAIN timeouts' /\ timeouts'[timeoutOf[a]] = a
               /\ timeoutOf[a] \notin cleared
    <3>1. timeoutOf[a] \in DOMAIN timeouts /\ timeouts[timeoutOf[a]] = a /\ timeoutOf[a] \notin cleared
      BY <1>1 DEF EntriesMatch
    <3>2. timeoutOf[a] # t
      BY <1>6, <3>1
    <3>3. QED
      BY <1>7, <3>1, <3>2
  <2>3. ASSUME NEW i \in 1 .. Len(taken'), timeoutOf[taken'[i]] \in DOMAIN timeouts'
        PROVE  timeouts'[timeoutOf[taken'[i]]] = taken'[i] /\ timeoutOf[taken'[i]] \notin cleared
    <3>1. i + 1 \in 1 .. Len(taken) /\ taken'[i] = taken[i + 1]
      BY <1>5
    <3>2. timeoutOf[taken'[i]] \in DOMAIN timeouts
      BY <1>7, <2>3
    <3>3. QED
      BY <1>1, <1>7, <2>3, <3>1, <3>2 DEF EntriesMatch
  <2>4. QED
    BY <1>1, <2>1, <2>2, <2>3 DEF EntriesMatch
<1>14. QED
  BY <1>8, <1>9, <1>10, <1>11, <1>12, <1>13 DEF TimeouterIInv

(* One step of the user or of the loop.                                    *)
LEMMA TimeouterNextIInv ==
  ASSUME ~AnyThread
  PROVE  TimeouterIInv /\ [TimeouterNext]_timeouterVars => TimeouterIInv'
<1> SUFFICES ASSUME TimeouterIInv, [TimeouterNext]_timeouterVars PROVE TimeouterIInv'
  OBVIOUS
<1>1. ASSUME NEW t \in TimeoutIds, SetTimeout(t) \/ ClearTimeout(t) PROVE TimeouterIInv'
  BY <1>1, SetTimeoutKeeps, ClearTimeoutKeeps
<1>2. CASE ClearAllTimeouts \/ DestroyTimeouter
  BY <1>2, ClearAllKeeps
<1>3. ASSUME NEW a \in pending, LoopTakes(a) PROVE TimeouterIInv'
  BY <1>3, LoopTakesKeeps
<1>4. CASE ProcessTimeout
  BY <1>4, ProcessTimeoutKeeps
<1>5. CASE CallUser
  <2>1. /\ called' = calling /\ calling' = NoTimeout
        /\ UNCHANGED <<issued, pending, taken, timeouts, timeoutOf, destroyed, cleared, dangling>>
    BY <1>5 DEF CallUser, alarmVars
  <2>2. TimeouterTypeOK' /\ CalledOnce'
    BY <2>1 DEF TimeouterIInv, TimeouterTypeOK, CalledOnce
  <2>3. QED
    BY <2>1, <2>2 DEF TimeouterIInv, NoCallAfterDestroy, SetHasAlarm, AlarmsOwned,
       EntriesMatch, NothingLeft
<1>6. CASE UNCHANGED timeouterVars
  BY <1>6 DEF timeouterVars, alarmVars, TimeouterIInv, TimeouterTypeOK,
     NoCallAfterDestroy, SetHasAlarm, AlarmsOwned, EntriesMatch, CalledOnce, NothingLeft
<1>7. QED
  BY <1>1, <1>2, <1>3, <1>4, <1>5, <1>6 DEF TimeouterNext

-----------------------------------------------------------------------------
(* The theorems                                                            *)

(* The inductive invariant holds when timeouts are set and cleared in the  *)
(* thread of the loop.                                                     *)
THEOREM TimeouterInvariance ==
  ASSUME ~AnyThread
  PROVE  TimeouterSpec => []TimeouterIInv
  BY TimeouterInitIInv, TimeouterNextIInv, PTL DEF TimeouterSpec

(* A timeout that is set has an alarm, one set again waits for its last    *)
(* alarm, and a destroyed Timeouter is never called: in the thread of the  *)
(* loop, for any number of timeouts and alarms.                            *)
THEOREM TimeouterInvHolds ==
  ASSUME ~AnyThread
  PROVE  TimeouterSpec => []TimeouterInv
<1>1. TimeouterIInv => TimeouterInv
  <2> SUFFICES ASSUME TimeouterIInv PROVE TimeouterInv
    OBVIOUS
  <2>1. ASSUME NEW a \in pending PROVE called # timeoutOf[a]
    BY DEF TimeouterIInv, EntriesMatch, CalledOnce
  <2>2. QED
    BY <2>1 DEF TimeouterIInv, TimeouterInv, NotBeforeLastSet
<1>2. QED
  BY <1>1, TimeouterInvariance, PTL

(* After ClearTimeout returned true in the thread of the loop the callback *)
(* does not come until the timeout is set again.                           *)
THEOREM ClearedStaysQuietHolds ==
  ASSUME ~AnyThread
  PROVE  TimeouterSpec => []ClearedStaysQuiet
<1>1. TimeouterIInv => ClearedStaysQuiet
  BY DEF TimeouterIInv, CalledOnce, ClearedStaysQuiet
<1>2. QED
  BY <1>1, TimeouterInvariance, PTL
=============================================================================
