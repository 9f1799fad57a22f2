-------------------------------- MODULE MCNet --------------------------------
(***************************************************************************)
(* What lives in the thread of a Selector, on small instances: the         *)
(* functions that other threads hand to it, the connections and their      *)
(* Timeouter, and the queue and the resolver that they hand names to.  One *)
(* state graph holds one object: `part' says which, and the others stay as *)
(* they are before any use (the resolver: after its destructor).           *)
(***************************************************************************)
EXTENDS SelectorCallbacks, ProducerConsumerQueue, DnsResolver,
        TcpAcceptor, SslConnection, Timeouter

VARIABLE part

Parts == {"callbacks", "pcq", "dns", "tcp", "acceptor", "ssl", "timeouter"}

MCNetInit ==
  /\ CallbacksInit /\ PcqInit /\ TcpInit /\ AccInit /\ SslInit /\ TimeouterInit
  /\ IF part = "dns" THEN DnsInit ELSE DnsStarts("gone")
  /\ part = "tcp" \/ conn.handler = "none"
  /\ part = "acceptor" \/ acc.hasHandler
  /\ part = "ssl" \/ ssl.server

\* Requests are numbered in the order in which they are made.
RequestsNumbered == \A r \in asked' : 1 .. r \subseteq asked'

MCNetNext ==
  \/ part = "callbacks" /\ CallbacksNext
     /\ UNCHANGED <<pcqVars, dnsVars, tcpVars, accVars, sslVars, timeouterVars>>
  \/ part = "pcq" /\ PcqNext
     /\ UNCHANGED <<callbacksVars, dnsVars, tcpVars, accVars, sslVars, timeouterVars>>
  \/ part = "dns" /\ DnsNext /\ RequestsNumbered
     /\ UNCHANGED <<callbacksVars, pcqVars, tcpVars, accVars, sslVars, timeouterVars>>
  \/ part = "tcp" /\ TcpNext
     /\ UNCHANGED <<callbacksVars, pcqVars, dnsVars, accVars, sslVars, timeouterVars>>
  \/ part = "acceptor" /\ AccNext
     /\ UNCHANGED <<callbacksVars, pcqVars, dnsVars, tcpVars, sslVars, timeouterVars>>
  \/ part = "ssl" /\ SslNext
     /\ UNCHANGED <<callbacksVars, pcqVars, dnsVars, tcpVars, accVars, timeouterVars>>
  \/ part = "timeouter" /\ TimeouterNext
     /\ UNCHANGED <<callbacksVars, pcqVars, dnsVars, tcpVars, accVars, sslVars>>

\* An object that is not in use has no step that fairness asks for.
MCNetSpec ==
  /\ part \in Parts /\ MCNetInit
  /\ [][MCNetNext /\ UNCHANGED part]_<<callbacksVars, pcqVars, dnsVars, tcpVars, accVars, sslVars,
                                        timeouterVars, part>>
  /\ CallbacksFairness /\ DnsFairness /\ TcpFairness /\ SslFairness
=============================================================================
