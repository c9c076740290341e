------------------------- MODULE TftpServer_proofs -------------------------
(* Proofs about TftpServer for any clients, file sizes and bounds, lossy   *)
(* or not, slow or not.                                                    *)
EXTENDS TftpServer, TLAPS

-----------------------------------------------------------------------------
(* Datagrams                                                               *)

\* The elements of a sequence.
LEMMA SeqFacts ==
  ASSUME NEW S, NEW q \in Seq(S)
  PROVE  Len(q) \in Nat /\ \A n \in 1..Len(q) : q[n] \in S
OBVIOUS

\* A datagram leaves the queue at its head.
LEMMA TailFacts ==
  ASSUME NEW S, NEW q \in Seq(S), q # <<>>
  PROVE  /\ Head(q) \in S /\ Head(q) = q[1] /\ Len(q) >= 1
         /\ Tail(q) \in Seq(S) /\ Len(Tail(q)) = Len(q) - 1
         /\ \A n \in 1..Len(Tail(q)) : Tail(q)[n] = q[n + 1] /\ n + 1 \in 1..Len(q)
OBVIOUS

\* A datagram joins it at its end.
LEMMA AppendFacts ==
  ASSUME NEW S, NEW q \in Seq(S), NEW d \in S
  PROVE  /\ Append(q, d) \in Seq(S) /\ Len(Append(q, d)) = Len(q) + 1
         /\ Append(q, d)[Len(q) + 1] = d
         /\ \A n \in 1..Len(q) : Append(q, d)[n] = q[n]
OBVIOUS

-----------------------------------------------------------------------------
(* Types                                                                   *)

Serving == [mode : {"send", "wait"}, to : Clients, port : 1..MaxAsks,
            last : 1..MaxSize, chunk : 1..MaxSize, block : 1..MaxBlock + 1]

Types ==
  /\ srv \in {Idle} \cup Serving
  /\ queue \in Seq(FromClient)
  /\ inbox \in [Clients -> Seq(FromServer)]
  /\ client \in [Clients -> {"off", "asked", "done", "refused"}]
  /\ size \in [Clients -> 0..MaxSize]
  /\ got \in [Clients -> Seq(1..MaxSize)]
  /\ port \in [Clients -> 0..MaxAsks]
  /\ asks \in 0..MaxAsks /\ resends \in 0..MaxResends
  /\ served \in [Clients -> Nat] /\ slips \in [Clients -> Nat] /\ robbed \subseteq Clients

\* The server has not passed the end of the file, and numbers what it sends by
\* at most its place in it; a port tells which request it serves.
ServerInv ==
  srv # Idle =>
    /\ srv.block =< srv.chunk /\ srv.chunk =< srv.last
    /\ srv.mode = "wait" => srv.block =< MaxBlock
    /\ srv.port =< asks
    /\ srv.port = port[srv.to] => srv.last = size[srv.to]

\* A request is one of those made, and the last of its client asks for what the
\* client wants.
RequestIn(d, made, ports, sizes) ==
  d.op = "RRQ" => d.port =< made /\ (d.port = ports[d.from] => d.size = sizes[d.from])
RequestOK(d) == RequestIn(d, asks, port, size)
QueueInv == \A n \in 1..Len(queue) : RequestOK(queue[n])

DataFits(d, chunks) == d.op = "DATA" => d.block =< d.chunk /\ d.chunk =< chunks
DataOK(c, d) == DataFits(d, size[c])

ClientInv ==
  \A c \in Clients :
    /\ port[c] =< asks /\ (client[c] = "asked" => port[c] # 0)
    /\ Len(got[c]) =< size[c] /\ Len(got[c]) =< MaxBlock
    /\ \A n \in 1..Len(inbox[c]) : DataOK(c, inbox[c][n])

TypeInv == Types /\ ServerInv /\ QueueInv /\ ClientInv

\* The invariant is what the theorem on types needs.
LEMMA TypedAsStated == TypeInv => TypeOK
BY DEF TypeInv, Types, ServerInv, QueueInv, ClientInv, TypeOK, Serving

\* What the server sends reaches a client only on the port it listens on.
LEMMA DeliverTyped ==
  ASSUME TypeInv, NEW c \in Clients, NEW p, NEW d \in FromServer, p = port[c] => DataOK(c, d),
         Deliver(c, p, d)
  PROVE  /\ inbox' \in [Clients -> Seq(FromServer)]
         /\ \A k \in Clients : \A n \in 1..Len(inbox'[k]) : DataOK(k, inbox'[k][n])
<1> USE DEF TypeInv, Types, ClientInv
<1>1. CASE ~(p = port[c] /\ client[c] = "asked")
  BY <1>1 DEF Deliver
<1>2. CASE p = port[c] /\ client[c] = "asked"
  <2>1. inbox' = [inbox EXCEPT ![c] = Append(inbox[c], d)] /\ inbox[c] \in Seq(FromServer)
    BY <1>2 DEF Deliver
  <2>2. /\ Append(inbox[c], d) \in Seq(FromServer)
        /\ \A n \in 1..Len(Append(inbox[c], d)) : \/ n \in 1..Len(inbox[c]) /\ Append(inbox[c], d)[n] = inbox[c][n]
                                                  \/ Append(inbox[c], d)[n] = d
    BY <2>1, AppendFacts
  <2>3. \A n \in 1..Len(Append(inbox[c], d)) : DataOK(c, Append(inbox[c], d)[n])
    BY <1>2, <2>2
  <2>4. QED
    BY <2>1, <2>2, <2>3
<1>3. QED
  BY <1>1, <1>2

\* A client reads its oldest datagram, and perhaps closes its port then.
LEMMA ReadTyped ==
  ASSUME TypeInv, NEW c \in Clients, inbox[c] # <<>>,
         inbox' = [inbox EXCEPT ![c] = Tail(@)] \/ inbox' = [inbox EXCEPT ![c] = <<>>]
  PROVE  /\ inbox' \in [Clients -> Seq(FromServer)]
         /\ \A k \in Clients : \A n \in 1..Len(inbox'[k]) : DataOK(k, inbox'[k][n])
         /\ Head(inbox[c]) \in FromServer /\ DataOK(c, Head(inbox[c]))
<1> USE DEF TypeInv, Types, ClientInv
<1>1. inbox[c] \in Seq(FromServer)
  OBVIOUS
<1>2. /\ Tail(inbox[c]) \in Seq(FromServer)
      /\ Head(inbox[c]) = inbox[c][1] /\ 1 \in 1..Len(inbox[c]) /\ Head(inbox[c]) \in FromServer
      /\ \A n \in 1..Len(Tail(inbox[c])) : Tail(inbox[c])[n] = inbox[c][n + 1] /\ n + 1 \in 1..Len(inbox[c])
  BY <1>1, TailFacts
<1>3. \A n \in 1..Len(Tail(inbox[c])) : DataOK(c, Tail(inbox[c])[n])
  BY <1>2
<1>4. DataOK(c, Head(inbox[c]))
  BY <1>2
<1>5. CASE inbox' = [inbox EXCEPT ![c] = Tail(@)]
  BY <1>2, <1>3, <1>4, <1>5
<1>6. CASE inbox' = [inbox EXCEPT ![c] = <<>>]
  BY <1>2, <1>4, <1>6
<1>7. QED
  BY <1>5, <1>6

\* The queue loses its head, or gets one more.
LEMMA QueueShrinks ==
  ASSUME TypeInv, queue # <<>>, queue' = Tail(queue), UNCHANGED <<asks, port, size>>
  PROVE  queue' \in Seq(FromClient) /\ QueueInv' /\ Head(queue) \in FromClient /\ RequestOK(Head(queue))
<1>1. queue \in Seq(FromClient)
  BY DEF TypeInv, Types
<1>2. /\ Tail(queue) \in Seq(FromClient)
      /\ Head(queue) = queue[1] /\ 1 \in 1..Len(queue) /\ Head(queue) \in FromClient
      /\ \A n \in 1..Len(Tail(queue)) : Tail(queue)[n] = queue[n + 1] /\ n + 1 \in 1..Len(queue)
  BY <1>1, TailFacts
<1>3. \A n \in 1..Len(Tail(queue)) : RequestOK(Tail(queue)[n])
  BY <1>2 DEF TypeInv, QueueInv
<1>4. QED
  BY <1>2, <1>3 DEF TypeInv, QueueInv, RequestOK, RequestIn

\* A datagram that may be there joins the queue, whose others still may.
LEMMA QueueGrows ==
  ASSUME TypeInv, NEW d \in FromClient, queue' = Append(queue, d), RequestIn(d, asks', port', size'),
         \A n \in 1..Len(queue) : RequestIn(queue[n], asks', port', size')
  PROVE  queue' \in Seq(FromClient) /\ QueueInv'
<1>1. queue \in Seq(FromClient)
  BY DEF TypeInv, Types
<1>2. /\ Append(queue, d) \in Seq(FromClient)
      /\ \A n \in 1..Len(Append(queue, d)) : \/ n \in 1..Len(queue) /\ Append(queue, d)[n] = queue[n]
                                             \/ Append(queue, d)[n] = d
  BY <1>1, AppendFacts
<1>3. QED
  BY <1>2 DEF QueueInv, RequestOK, RequestIn

\* The server goes on to the next chunk or back to its requests.
LEMMA NextChunkTyped ==
  ASSUME TypeInv, srv.mode = "wait", NEW b, b = srv.block \/ b = srv.block + 1, NextChunk(b),
         UNCHANGED <<asks, port, size>>
  PROVE  srv' \in {Idle} \cup Serving /\ ServerInv' /\ slips' \in [Clients -> Nat]
<1>0. slips' \in [Clients -> Nat]
  <2>1. slips \in [Clients -> Nat]
    BY DEF TypeInv, Types
  <2>2. slips' = slips \/ slips' = [slips EXCEPT ![srv.to] = slips[srv.to] + 1]
    BY DEF NextChunk, Slip
  <2>3. QED
    BY <2>1, <2>2
<1>1. srv \in Serving /\ srv # Idle
  BY DEF TypeInv, Types, Idle, Serving
<1>2. /\ srv.block =< srv.chunk /\ srv.chunk =< srv.last /\ srv.block =< MaxBlock /\ srv.port =< asks
      /\ srv.port = port[srv.to] => srv.last = size[srv.to]
  BY <1>1 DEF TypeInv, ServerInv
<1>3. CASE srv.chunk = srv.last
  BY <1>0, <1>3 DEF NextChunk, ServerInv
<1>4. CASE srv.chunk # srv.last
  <2>1. srv' = [srv EXCEPT !.mode = "send", !.chunk = srv.chunk + 1, !.block = b]
    BY <1>4 DEF NextChunk
  <2>2. srv.chunk + 1 \in 1..MaxSize /\ b \in 1..MaxBlock + 1 /\ srv.chunk + 1 =< srv.last /\ b =< srv.chunk + 1
    BY <1>1, <1>2, <1>4, TftpAssumption DEF Serving
  <2>3. srv' \in Serving
    BY <1>1, <2>1, <2>2 DEF Serving
  <2>4. /\ srv'.block = b /\ srv'.chunk = srv.chunk + 1 /\ srv'.last = srv.last /\ srv'.mode = "send"
        /\ srv'.port = srv.port /\ srv'.to = srv.to
    BY <1>1, <2>1 DEF Serving
  <2>5. QED
    BY <1>0, <1>2, <2>2, <2>3, <2>4 DEF ServerInv
<1>5. QED
  BY <1>3, <1>4

\* Every step of the server keeps the types.
LEMMA ServerTyped == TypeInv /\ ServerStep => TypeInv'
<1> SUFFICES ASSUME TypeInv, ServerStep PROVE TypeInv'
  OBVIOUS
<1>0. Types /\ ServerInv /\ QueueInv /\ ClientInv
  BY DEF TypeInv
<1>1. CASE Serve
  <2>1. /\ queue # <<>> /\ queue' = Tail(queue) /\ Head(queue).op = "RRQ" /\ Head(queue).size > 0
        /\ srv' = [mode |-> "send", to |-> Head(queue).from, port |-> Head(queue).port,
                   last |-> Head(queue).size, chunk |-> 1, block |-> 1]
        /\ served' = IF Head(queue).port = port[Head(queue).from]
                     THEN [served EXCEPT ![Head(queue).from] = @ + 1] ELSE served
        /\ UNCHANGED <<inbox, client, size, got, port, asks, resends, slips, robbed>>
    BY <1>1 DEF Serve, clientVars, history
  <2>2. queue' \in Seq(FromClient) /\ QueueInv' /\ Head(queue) \in FromClient /\ RequestOK(Head(queue))
    BY <2>1, QueueShrinks
  <2>3. Head(queue) \in [from : Clients, op : {"RRQ"}, port : 1..MaxAsks, size : 0..MaxSize]
    BY <2>1, <2>2 DEF FromClient
  <2>4. srv' \in Serving
    BY <2>1, <2>3, TftpAssumption DEF Serving
  <2>5. ServerInv'
    BY <2>1, <2>2, <2>3 DEF ServerInv, RequestOK, RequestIn
  <2>6. served' \in [Clients -> Nat]
    <3>1. served \in [Clients -> Nat] /\ Head(queue).from \in Clients
      BY <1>0, <2>3 DEF Types
    <3>2. QED
      BY <2>1, <3>1
  <2>7. QED
    BY <1>0, <2>1, <2>2, <2>4, <2>5, <2>6 DEF TypeInv, Types, ClientInv, DataOK, DataFits
<1>2. CASE Refuse
  <2>1. /\ queue # <<>> /\ queue' = Tail(queue) /\ Head(queue).op = "RRQ"
        /\ Deliver(Head(queue).from, Head(queue).port, [op |-> "ERROR"])
        /\ UNCHANGED <<srv, client, size, got, port, asks, resends, served, slips, robbed>>
    BY <1>2 DEF Refuse, clientVars, history
  <2>2. queue' \in Seq(FromClient) /\ QueueInv' /\ Head(queue) \in FromClient
    BY <2>1, QueueShrinks
  <2>3. Head(queue).from \in Clients
    BY <2>2 DEF FromClient
  <2>4. [op |-> "ERROR"] \in FromServer /\ \A c : DataOK(c, [op |-> "ERROR"])
    BY DEF FromServer, DataOK, DataFits
  <2>5. /\ inbox' \in [Clients -> Seq(FromServer)]
        /\ \A k \in Clients : \A n \in 1..Len(inbox'[k]) : DataOK(k, inbox'[k][n])
    BY <2>1, <2>3, <2>4, DeliverTyped
  <2>6. QED
    BY <1>0, <2>1, <2>2, <2>5 DEF TypeInv, Types, ServerInv, ClientInv, DataOK, DataFits
<1>3. CASE CannotOpen \/ DropStray
  <2>1. /\ queue # <<>> /\ queue' = Tail(queue)
        /\ UNCHANGED <<srv, inbox, client, size, got, port, asks, resends, served, slips, robbed>>
    BY <1>3 DEF CannotOpen, DropStray, clientVars, history
  <2>2. queue' \in Seq(FromClient) /\ QueueInv'
    BY <2>1, QueueShrinks
  <2>3. QED
    BY <1>0, <2>1, <2>2 DEF TypeInv, Types, ServerInv, ClientInv, DataOK, DataFits
<1>4. CASE SendChunk
  <2> DEFINE d == [op |-> "DATA", block |-> srv.block, chunk |-> srv.chunk]
  <2>1. /\ srv.mode = "send" /\ srv.block =< MaxBlock /\ Deliver(srv.to, srv.port, d)
        /\ srv' = [srv EXCEPT !.mode = "wait"]
        /\ UNCHANGED <<queue, client, size, got, port, asks, resends, served, slips, robbed>>
    BY <1>4 DEF SendChunk, clientVars, history
  <2>2. srv \in Serving /\ srv # Idle
    BY <1>0, <2>1 DEF Types, Idle, Serving
  <2>3. /\ srv.block =< srv.chunk /\ srv.chunk =< srv.last /\ srv.port =< asks
        /\ srv.port = port[srv.to] => srv.last = size[srv.to]
    BY <1>0, <2>2 DEF ServerInv
  <2>4. d \in FromServer /\ (srv.port = port[srv.to] => DataOK(srv.to, d)) /\ srv.to \in Clients
    BY <2>1, <2>2, <2>3, TftpAssumption DEF FromServer, DataOK, DataFits, Serving, Blocks
  <2>5. /\ inbox' \in [Clients -> Seq(FromServer)]
        /\ \A k \in Clients : \A n \in 1..Len(inbox'[k]) : DataOK(k, inbox'[k][n])
    BY <2>1, <2>4, DeliverTyped
  <2>6. srv' \in Serving /\ srv'.block = srv.block /\ srv'.chunk = srv.chunk /\ srv'.last = srv.last
        /\ srv'.port = srv.port /\ srv'.to = srv.to
    BY <2>1, <2>2 DEF Serving
  <2>7. ServerInv'
    BY <2>1, <2>3, <2>6 DEF ServerInv
  <2>8. QED
    BY <1>0, <2>1, <2>5, <2>6, <2>7 DEF TypeInv, Types, QueueInv, RequestOK, RequestIn, ClientInv, DataOK, DataFits
<1>5. CASE BlockOverflow
  <2>1. srv' = Idle /\ UNCHANGED <<queue, inbox, client, size, got, port, asks, resends, served, slips, robbed>>
    BY <1>5 DEF BlockOverflow, clientVars, history
  <2>2. QED
    BY <1>0, <2>1 DEF TypeInv, Types, ServerInv, QueueInv, RequestOK, RequestIn, ClientInv, DataOK, DataFits
<1>6. CASE Receive
  <2>1. /\ srv.mode = "wait" /\ queue # <<>> /\ queue' = Tail(queue)
        /\ NextChunk(IF Head(queue).op = "ACK" /\ Head(queue).block = srv.block THEN srv.block + 1 ELSE srv.block)
        /\ robbed' \subseteq robbed \cup Slipped \cup {Head(queue).from}
        /\ UNCHANGED <<inbox, client, size, got, port, asks, resends, served>>
    BY <1>6 DEF Receive, Rob, clientVars, history
  <2>2. queue' \in Seq(FromClient) /\ QueueInv' /\ Head(queue) \in FromClient
    BY <2>1, QueueShrinks
  <2>3. \E b : (b = srv.block \/ b = srv.block + 1) /\ NextChunk(b)
    BY <2>1
  <2>4. srv' \in {Idle} \cup Serving /\ ServerInv' /\ slips' \in [Clients -> Nat]
    BY <2>1, <2>3, NextChunkTyped
  <2>5. robbed' \subseteq Clients
    BY <1>0, <2>1, <2>2 DEF Types, Slipped, FromClient
  <2>6. QED
    BY <1>0, <2>1, <2>2, <2>4, <2>5 DEF TypeInv, Types, ClientInv, DataOK, DataFits
<1>7. CASE Timeout
  <2>1. /\ srv.mode = "wait" /\ NextChunk(srv.block) /\ robbed' \subseteq robbed \cup Slipped
        /\ UNCHANGED <<queue, inbox, client, size, got, port, asks, resends, served>>
    BY <1>7 DEF Timeout, Rob, clientVars, history
  <2>2. srv' \in {Idle} \cup Serving /\ ServerInv' /\ slips' \in [Clients -> Nat]
    BY <2>1, NextChunkTyped
  <2>3. robbed' \subseteq Clients
    BY <1>0, <2>1 DEF Types, Slipped
  <2>4. QED
    BY <1>0, <2>1, <2>2, <2>3 DEF TypeInv, Types, QueueInv, RequestOK, RequestIn, ClientInv, DataOK, DataFits
<1>8. QED
  BY <1>1, <1>2, <1>3, <1>4, <1>5, <1>6, <1>7 DEF ServerStep

\* The end of a client's step: a datagram joins the queue and the server goes on.
LEMMA ServerUntouched ==
  ASSUME TypeInv, UNCHANGED <<srv, asks, port, size>>
  PROVE  ServerInv' /\ \A n \in 1..Len(queue) : RequestIn(queue[n], asks', port', size')
BY DEF TypeInv, ServerInv, QueueInv, RequestOK, RequestIn

\* Every step of a client and of the network keeps the types.
LEMMA ClientTyped ==
  ASSUME TypeInv, NEW c \in Clients,
         Ask(c) \/ Accept(c) \/ PassOver(c) \/ TakeError(c) \/ Resend(c) \/ LoseToClient(c) \/ LoseToServer
  PROVE  TypeInv'
<1>0. Types /\ ServerInv /\ QueueInv /\ ClientInv
  BY DEF TypeInv
<1>1. CASE Ask(c)
  <2>1. PICK n \in 0..MaxSize :
          /\ client' = [client EXCEPT ![c] = "asked"] /\ size' = [size EXCEPT ![c] = n]
          /\ got' = [got EXCEPT ![c] = <<>>] /\ asks < MaxAsks /\ asks' = asks + 1
          /\ port' = [port EXCEPT ![c] = asks'] /\ queue' = Append(queue, Request(c)')
          /\ inbox' = [inbox EXCEPT ![c] = <<>>] /\ UNCHANGED <<srv, resends>>
          /\ served' = [served EXCEPT ![c] = 0] /\ slips' = [slips EXCEPT ![c] = 0] /\ robbed' = robbed \ {c}
    BY <1>1 DEF Ask
  <2>2. asks' \in 1..MaxAsks /\ port' \in [Clients -> 0..MaxAsks] /\ port'[c] = asks' /\ size'[c] = n
    BY <1>0, <2>1, TftpAssumption DEF Types
  <2>3. Request(c)' = [from |-> c, op |-> "RRQ", port |-> asks', size |-> n]
    BY <2>2 DEF Request
  <2>4. Request(c)' \in FromClient /\ RequestIn(Request(c)', asks', port', size')
    BY <2>2, <2>3 DEF FromClient, RequestOK, RequestIn
  <2>5. \A k \in Clients : (port'[k] = port[k] /\ size'[k] = size[k]) \/ port'[k] = asks + 1
    BY <1>0, <2>1, <2>2 DEF Types
  <2>6. \A m \in 1..Len(queue) : RequestIn(queue[m], asks', port', size')
    <3>1. SUFFICES ASSUME NEW m \in 1..Len(queue), queue[m].op = "RRQ"
                   PROVE  /\ queue[m].port =< asks'
                          /\ queue[m].port = port'[queue[m].from] => queue[m].size = size'[queue[m].from]
      BY DEF RequestOK, RequestIn
    <3>2. queue[m] \in FromClient
      BY <1>0 DEF Types
    <3>3. queue[m].from \in Clients /\ queue[m].port \in 1..MaxAsks
      BY <3>1, <3>2 DEF FromClient
    <3>4. /\ queue[m].port =< asks
          /\ queue[m].port = port[queue[m].from] => queue[m].size = size[queue[m].from]
      BY <1>0, <3>1 DEF QueueInv, RequestOK, RequestIn
    <3>5. asks \in Nat
      BY <1>0 DEF Types
    <3>6. QED
      BY <2>1, <2>5, <3>3, <3>4, <3>5
  <2>7. queue' \in Seq(FromClient) /\ QueueInv'
    <3> DEFINE d == Request(c)'
    <3>1. d \in FromClient /\ queue' = Append(queue, d) /\ RequestIn(d, asks', port', size')
      BY <2>1, <2>4
    <3> HIDE DEF d
    <3>2. QED
      BY <2>6, <3>1, QueueGrows
  <2>8. ServerInv'
    <3>1. SUFFICES ASSUME srv # Idle
                   PROVE  srv.port =< asks' /\ (srv.port = port'[srv.to] => srv.last = size'[srv.to])
      BY <1>0, <2>1 DEF ServerInv
    <3>2. srv \in Serving /\ asks \in Nat
      BY <1>0, <3>1 DEF Types
    <3>3. srv.to \in Clients /\ srv.port \in 1..MaxAsks
      BY <3>2 DEF Serving
    <3>4. QED
      BY <1>0, <2>1, <2>5, <3>1, <3>2, <3>3 DEF ServerInv
  <2>9. ClientInv'
    <3>1. \A k \in Clients : port'[k] =< asks' /\ (client'[k] = "asked" => port'[k] # 0)
      BY <1>0, <2>1, <2>2 DEF Types, ClientInv
    <3>2. \A k \in Clients : Len(got'[k]) =< size'[k] /\ Len(got'[k]) =< MaxBlock
      BY <1>0, <2>1, <2>2, TftpAssumption DEF Types, ClientInv
    <3>3. ASSUME NEW k \in Clients, NEW m \in 1..Len(inbox'[k]) PROVE DataFits(inbox'[k][m], size'[k])
      <4>1. k # c
        BY <1>0, <2>1, <3>3 DEF Types
      <4>2. QED
        BY <1>0, <2>1, <3>3, <4>1 DEF Types, ClientInv, DataOK
    <3>4. QED
      BY <3>1, <3>2, <3>3 DEF ClientInv, DataOK
  <2>10. QED
    BY <1>0, <2>1, <2>2, <2>7, <2>8, <2>9 DEF TypeInv, Types
<1>2. CASE Accept(c)
  <2> DEFINE d == Head(inbox[c])
  <2>1. /\ client[c] = "asked" /\ inbox[c] # <<>> /\ d.op = "DATA" /\ d.block = Len(got[c]) + 1
        /\ got' = [got EXCEPT ![c] = Append(@, d.chunk)] /\ queue' = Append(queue, Ack(c, d.block))
        /\ client' = (IF d.chunk = size[c] THEN [client EXCEPT ![c] = "done"] ELSE client)
        /\ inbox' = [inbox EXCEPT ![c] = Tail(@)] \/ inbox' = [inbox EXCEPT ![c] = <<>>]
        /\ robbed' \subseteq robbed
        /\ UNCHANGED <<srv, size, port, asks, resends, served, slips>>
    BY <1>2 DEF Accept, Close
  <2>2. /\ inbox' \in [Clients -> Seq(FromServer)]
        /\ \A k \in Clients : \A n \in 1..Len(inbox'[k]) : DataOK(k, inbox'[k][n])
        /\ d \in FromServer /\ DataOK(c, d)
    BY <2>1, ReadTyped
  <2> HIDE DEF d
  <2>3. d.block \in Blocks /\ d.chunk \in 1..MaxSize /\ d.block =< d.chunk /\ d.chunk =< size[c]
    BY <2>1, <2>2 DEF FromServer, DataOK, DataFits
  <2>4. Ack(c, d.block) \in FromClient /\ RequestIn(Ack(c, d.block), asks', port', size')
    BY <2>3 DEF Ack, FromClient, RequestOK, RequestIn
  <2>5. ServerInv' /\ \A n \in 1..Len(queue) : RequestIn(queue[n], asks', port', size')
    BY <2>1, ServerUntouched
  <2>6. queue' \in Seq(FromClient) /\ QueueInv'
    <3> DEFINE e == Ack(c, d.block)
    <3>1. e \in FromClient /\ queue' = Append(queue, e) /\ RequestIn(e, asks', port', size')
      BY <2>1, <2>4
    <3> HIDE DEF e
    <3>2. QED
      BY <2>5, <3>1, QueueGrows
  <2>7. got' \in [Clients -> Seq(1..MaxSize)] /\ Len(got'[c]) = d.block
    BY <1>0, <2>1, <2>3 DEF Types
  <2>8. ClientInv'
    <3>1. \A k \in Clients : port'[k] =< asks' /\ (client'[k] = "asked" => port'[k] # 0)
      BY <1>0, <2>1 DEF Types, ClientInv
    <3>2. \A k \in Clients : Len(got'[k]) =< size'[k] /\ Len(got'[k]) =< MaxBlock
      BY <1>0, <2>1, <2>3, <2>7, TftpAssumption DEF Types, ClientInv, Blocks
    <3>3. QED
      BY <2>1, <2>2, <3>1, <3>2 DEF ClientInv, DataOK, DataFits
  <2>9. QED
    BY <1>0, <2>1, <2>2, <2>5, <2>6, <2>7, <2>8 DEF TypeInv, Types
<1>3. CASE PassOver(c) \/ LoseToClient(c)
  <2>1. /\ inbox[c] # <<>> /\ inbox' = [inbox EXCEPT ![c] = Tail(@)]
        /\ client' = client /\ robbed' \subseteq robbed \cup {c}
        /\ UNCHANGED <<srv, queue, size, got, port, asks, resends, served, slips>>
    BY <1>3 DEF PassOver, LoseToClient, Rob, clientVars, history
  <2>2. /\ inbox' \in [Clients -> Seq(FromServer)]
        /\ \A k \in Clients : \A n \in 1..Len(inbox'[k]) : DataOK(k, inbox'[k][n])
    BY <2>1, ReadTyped
  <2>3. QED
    BY <1>0, <2>1, <2>2 DEF TypeInv, Types, ServerInv, QueueInv, RequestOK, RequestIn, ClientInv, DataOK, DataFits
<1>4. CASE Resend(c)
  <2> DEFINE d == IF got[c] = <<>> THEN Request(c) ELSE Ack(c, Len(got[c]))
  <2>1. /\ client[c] = "asked" /\ resends < MaxResends /\ resends' = resends + 1 /\ queue' = Append(queue, d)
        /\ UNCHANGED <<srv, inbox, client, size, got, port, asks, served, slips, robbed>>
    BY <1>4 DEF Resend, history
  <2>2. d \in FromClient /\ RequestIn(d, asks', port', size')
    <3>1. CASE got[c] = <<>>
      <4>1. port[c] \in 1..MaxAsks /\ size[c] \in 0..MaxSize /\ port[c] =< asks
        BY <1>0, <2>1 DEF Types, ClientInv
      <4>2. d = [from |-> c, op |-> "RRQ", port |-> port[c], size |-> size[c]]
        BY <3>1 DEF Request
      <4>3. QED
        BY <2>1, <4>1, <4>2 DEF FromClient, RequestOK, RequestIn
    <3>2. CASE got[c] # <<>>
      <4>1. got[c] \in Seq(1..MaxSize) /\ Len(got[c]) =< MaxBlock
        BY <1>0 DEF Types, ClientInv
      <4>2. Len(got[c]) \in Blocks
        BY <3>2, <4>1, TftpAssumption DEF Blocks
      <4>3. d = [from |-> c, op |-> "ACK", block |-> Len(got[c])]
        BY <3>2 DEF Ack
      <4>4. QED
        BY <4>2, <4>3 DEF FromClient, RequestOK, RequestIn
    <3>3. QED
      BY <3>1, <3>2
  <2> HIDE DEF d
  <2>3. ServerInv' /\ \A n \in 1..Len(queue) : RequestIn(queue[n], asks', port', size')
    BY <2>1, ServerUntouched
  <2>4. queue' \in Seq(FromClient) /\ QueueInv'
    BY <2>1, <2>2, <2>3, QueueGrows
  <2>5. resends' \in 0..MaxResends
    BY <1>0, <2>1, TftpAssumption DEF Types
  <2>6. QED
    BY <1>0, <2>1, <2>3, <2>4, <2>5 DEF TypeInv, Types, ClientInv, DataOK, DataFits
<1>5. CASE LoseToServer
  <2>1. /\ queue # <<>> /\ queue' = Tail(queue) /\ robbed' \subseteq robbed \cup {Head(queue).from}
        /\ UNCHANGED <<srv, inbox, client, size, got, port, asks, resends, served, slips>>
    BY <1>5 DEF LoseToServer, Rob, clientVars, history
  <2>2. queue' \in Seq(FromClient) /\ QueueInv' /\ Head(queue) \in FromClient
    BY <2>1, QueueShrinks
  <2>3. Head(queue).from \in Clients
    BY <2>2 DEF FromClient
  <2>4. QED
    BY <1>0, <2>1, <2>2, <2>3 DEF TypeInv, Types, ServerInv, ClientInv, DataOK, DataFits
<1>6. CASE TakeError(c)
  <2>1. /\ inbox' = [inbox EXCEPT ![c] = <<>>] /\ client' = [client EXCEPT ![c] = "refused"]
        /\ robbed' \subseteq robbed
        /\ UNCHANGED <<srv, queue, size, got, port, asks, resends, served, slips>>
    BY <1>6 DEF TakeError, Close
  <2>2. QED
    BY <1>0, <2>1 DEF TypeInv, Types, ServerInv, QueueInv, RequestOK, RequestIn, ClientInv, DataOK, DataFits
<1>7. QED
  BY <1>1, <1>2, <1>3, <1>4, <1>5, <1>6

\* Every step keeps the types.
LEMMA TypeStep == TypeInv /\ [Next]_vars => TypeInv'
<1> SUFFICES ASSUME TypeInv, [Next]_vars PROVE TypeInv'
  OBVIOUS
<1>1. CASE ServerStep
  BY <1>1, ServerTyped
<1>2. ASSUME NEW c \in Clients,
             Ask(c) \/ Accept(c) \/ PassOver(c) \/ TakeError(c) \/ Resend(c) \/ LoseToClient(c) \/ LoseToServer
      PROVE  TypeInv'
  BY <1>2, ClientTyped
<1>3. CASE LoseToServer
  <2>1. queue # <<>> /\ queue \in Seq(FromClient)
    BY <1>3 DEF LoseToServer, TypeInv, Types
  <2>2. Head(queue).from \in Clients
    BY <2>1, TailFacts DEF FromClient
  <2>3. QED
    BY <1>2, <1>3, <2>2
<1>4. CASE UNCHANGED vars
  BY <1>4 DEF vars, clientVars, history, TypeInv, Types, ServerInv, QueueInv, RequestOK, RequestIn, ClientInv, DataOK, DataFits
<1>5. QED
  BY <1>1, <1>2, <1>3, <1>4 DEF Next, ClientStep

\* The first state is typed.
LEMMA InitTyped == Init => TypeInv
BY TftpAssumption DEF Init, TypeInv, Types, ServerInv, QueueInv, ClientInv

\* Server, clients and datagrams are always well typed; no client holds more than
\* the file it asked for.
THEOREM TypeCorrect == Spec => []TypeOK
<1>1. QED
  BY InitTyped, TypeStep, TypedAsStated, PTL DEF Spec

-----------------------------------------------------------------------------
(* The account of a transfer                                               *)

\* The server works for the last request of client c.
Busy(c) == srv # Idle /\ srv.to = c /\ srv.port = port[c]

\* Chunk k went out to the client the server works for.
Sent(k) == k < srv.chunk \/ (srv.mode = "wait" /\ k = srv.chunk)

Chunks(c) == {n \in 1..Len(inbox[c]) : inbox[c][n].op = "DATA"}

\* No block is further behind its chunk than the chunks that slipped.
Bounded(c) ==
  /\ Busy(c) => srv.chunk =< srv.block + slips[c]
  /\ \A n \in Chunks(c) : inbox[c][n].chunk =< inbox[c][n].block + slips[c]
  /\ client[c] = "done" => size[c] =< Len(got[c]) + slips[c]

\* A request not served yet has brought nothing.
Fresh(c) ==
  /\ ~Busy(c) /\ Chunks(c) = {} /\ got[c] = <<>>
  /\ slips[c] = 0 /\ client[c] # "done"

\* The server's place in the file and the chunks on their way, in a request
\* served once: the chunks come in the order of the file, and the last of them
\* is behind by exactly what slipped.
Flow(c) ==
  /\ Busy(c) => /\ srv.chunk = srv.block + slips[c]
                /\ \A m \in 1..Len(got[c]) : Sent(got[c][m])
                /\ \A n \in Chunks(c) : Sent(inbox[c][n].chunk)
  /\ \A n \in Chunks(c) : inbox[c][n].chunk = size[c] => size[c] = inbox[c][n].block + slips[c]
  /\ \A m, n \in Chunks(c) : m < n => inbox[c][m].chunk < inbox[c][n].chunk

\* What the client has accepted is before what it still gets.
Taken(c) ==
  /\ \A m, n \in 1..Len(got[c]) : m < n => got[c][m] < got[c][n]
  /\ \A m \in 1..Len(got[c]), n \in Chunks(c) : got[c][m] < inbox[c][n].chunk
  /\ client[c] = "done" => /\ Len(got[c]) # 0 /\ got[c][Len(got[c])] = size[c]
                           /\ size[c] = Len(got[c]) + slips[c]

Accounted(c) ==
  /\ Bounded(c)
  /\ served[c] = 0 => Fresh(c)
  /\ served[c] = 1 => Flow(c) /\ Taken(c)

AccountInv == TypeInv /\ \A c \in Clients : Accounted(c)

\* The invariant is the account of every transfer that is over.
LEMMA AccountAsStated == AccountInv => ChunksAccounted
<1> SUFFICES ASSUME AccountInv, NEW c \in Clients, client[c] = "done"
             PROVE  /\ size[c] =< Len(got[c]) + slips[c]
                    /\ served[c] = 1 =>
                         /\ size[c] = Len(got[c]) + slips[c]
                         /\ \A m, n \in 1..Len(got[c]) : m < n => got[c][m] < got[c][n]
  BY DEF ChunksAccounted
<1>1. Accounted(c)
  BY DEF AccountInv
<1>2. QED
  BY <1>1 DEF Accounted, Bounded, Taken

\* What the account is about are numbers.
LEMMA AccountTypes ==
  ASSUME TypeInv, NEW c \in Clients
  PROVE  /\ Len(got[c]) \in Nat /\ \A n \in 1..Len(got[c]) : got[c][n] \in 1..MaxSize
         /\ Len(inbox[c]) \in Nat
         /\ \A n \in Chunks(c) : /\ n \in 1..Len(inbox[c])
                                 /\ inbox[c][n].chunk \in Nat /\ inbox[c][n].block \in Nat
                                 /\ inbox[c][n].chunk =< size[c]
         /\ slips[c] \in Nat /\ size[c] \in Nat /\ served[c] \in Nat
         /\ Busy(c) => /\ srv \in Serving /\ srv.chunk \in Nat /\ srv.block \in Nat
                       /\ srv.last = size[c] /\ srv.chunk =< size[c]
<1>1. Types /\ ServerInv /\ ClientInv
  BY DEF TypeInv
<1>2. got[c] \in Seq(1..MaxSize) /\ inbox[c] \in Seq(FromServer)
  BY <1>1 DEF Types
<1>3. /\ slips[c] \in Nat /\ size[c] \in Nat /\ served[c] \in Nat
      /\ Len(got[c]) \in Nat /\ Len(inbox[c]) \in Nat
      /\ \A n \in 1..Len(got[c]) : got[c][n] \in 1..MaxSize
  <2>1. slips[c] \in Nat /\ size[c] \in Nat /\ served[c] \in Nat
    BY <1>1 DEF Types
  <2>2. Len(got[c]) \in Nat /\ \A n \in 1..Len(got[c]) : got[c][n] \in 1..MaxSize
    BY <1>2, SeqFacts
  <2>3. Len(inbox[c]) \in Nat
    BY <1>2, SeqFacts
  <2>4. QED
    BY <2>1, <2>2, <2>3
<1>4. ASSUME NEW n \in Chunks(c)
      PROVE  /\ n \in 1..Len(inbox[c])
             /\ inbox[c][n].chunk \in Nat /\ inbox[c][n].block \in Nat
             /\ inbox[c][n].chunk =< size[c]
  <2>1. n \in 1..Len(inbox[c]) /\ inbox[c][n].op = "DATA" /\ inbox[c][n] \in FromServer
    BY <1>2, <1>4 DEF Chunks
  <2>2. inbox[c][n].chunk \in 1..MaxSize /\ inbox[c][n].block \in Blocks
    BY <2>1 DEF FromServer
  <2>3. QED
    BY <1>1, <2>1, <2>2, TftpAssumption DEF ClientInv, DataOK, DataFits, Blocks
<1>5. ASSUME Busy(c)
      PROVE  /\ srv \in Serving /\ srv.chunk \in Nat /\ srv.block \in Nat
             /\ srv.last = size[c] /\ srv.chunk =< size[c]
  <2>1. srv \in Serving
    BY <1>1, <1>5 DEF Busy, Types
  <2>2. srv.chunk \in Nat /\ srv.block \in Nat
    BY <2>1, TftpAssumption DEF Serving
  <2>3. QED
    BY <1>1, <1>5, <2>1, <2>2 DEF ServerInv, Busy
<1>6. QED
  BY <1>3, <1>4, <1>5

\* A client that loses some of its oldest datagrams, and whose transfer does not
\* go on meanwhile, keeps its account.
LEMMA FewerAccounted ==
  ASSUME TypeInv, NEW c \in Clients, Accounted(c), NEW k \in Nat,
         UNCHANGED <<size[c], got[c], served[c], slips[c]>>,
         client'[c] = "done" => client[c] = "done",
         Busy(c)' => Busy(c) /\ srv' = srv,
         \A n \in 1..Len(inbox'[c]) : n + k \in 1..Len(inbox[c]) /\ inbox'[c][n] = inbox[c][n + k],
         Len(inbox'[c]) \in Nat
  PROVE  Accounted(c)'
<1>1. \A n \in Chunks(c)' : n \in Nat /\ n + k \in Chunks(c) /\ inbox'[c][n] = inbox[c][n + k]
  BY DEF Chunks
<1>2. Bounded(c)'
  BY <1>1 DEF Bounded, Accounted
<1>3. ASSUME served[c] = 0 PROVE Fresh(c)'
  BY <1>1, <1>3 DEF Fresh, Accounted
<1>4. ASSUME served[c] = 1 PROVE Flow(c)'
  <2>1. Flow(c)
    BY <1>4 DEF Accounted
  <2>2. ASSUME Busy(c)'
        PROVE  /\ srv'.chunk = srv'.block + slips'[c]
               /\ (\A m \in 1..Len(got[c]) : Sent(got[c][m]))'
               /\ (\A n \in Chunks(c) : Sent(inbox[c][n].chunk))'
    BY <1>1, <2>1, <2>2 DEF Flow, Sent
  <2>3. \A n \in Chunks(c)' : inbox'[c][n].chunk = size'[c] => size'[c] = inbox'[c][n].block + slips'[c]
    BY <1>1, <2>1 DEF Flow
  <2>4. \A m, n \in Chunks(c)' : m < n => inbox'[c][m].chunk < inbox'[c][n].chunk
    <3>1. SUFFICES ASSUME NEW m \in Chunks(c)', NEW n \in Chunks(c)', m < n
                   PROVE  inbox'[c][m].chunk < inbox'[c][n].chunk
      OBVIOUS
    <3>2. m + k \in Chunks(c) /\ n + k \in Chunks(c) /\ m + k < n + k
      BY <1>1, <3>1
    <3>3. QED
      BY <1>1, <2>1, <3>2 DEF Flow
  <2>5. QED
    BY <2>2, <2>3, <2>4 DEF Flow
<1>5. ASSUME served[c] = 1 PROVE Taken(c)'
  BY <1>1, <1>5 DEF Taken, Accounted
<1>6. QED
  BY <1>2, <1>3, <1>4, <1>5 DEF Accounted

\* So does a client nothing happens to.
LEMMA SameAccounted ==
  ASSUME TypeInv, NEW c \in Clients, Accounted(c),
         UNCHANGED <<size[c], got[c], served[c], slips[c], inbox[c], client[c]>>,
         Busy(c)' => Busy(c) /\ srv' = srv
  PROVE  Accounted(c)'
<1>1. Len(inbox[c]) \in Nat
  BY AccountTypes
<1>2. \A n \in 1..Len(inbox'[c]) : n + 0 \in 1..Len(inbox[c]) /\ inbox'[c][n] = inbox[c][n + 0]
  BY <1>1
<1>3. 0 \in Nat /\ Len(inbox'[c]) \in Nat
  BY <1>1
<1>4. QED
  BY <1>2, <1>3, FewerAccounted

\* And a client whose oldest datagram leaves, or whose port is closed.
LEMMA TailAccounted ==
  ASSUME TypeInv, NEW c \in Clients, Accounted(c), inbox[c] # <<>>,
         UNCHANGED <<srv, port, size, got, served, slips>>,
         client'[c] = "done" => client[c] = "done",
         inbox'[c] = Tail(inbox[c]) \/ inbox'[c] = <<>>
  PROVE  Accounted(c)'
<1>1. inbox[c] \in Seq(FromServer)
  BY DEF TypeInv, Types
<1>2. Busy(c)' => Busy(c) /\ srv' = srv
  BY DEF Busy
<1>3. CASE inbox'[c] = <<>>
  <2>1. 0 \in Nat /\ Len(inbox'[c]) = 0
    BY <1>3
  <2>2. \A n \in 1..Len(inbox'[c]) : n + 0 \in 1..Len(inbox[c]) /\ inbox'[c][n] = inbox[c][n + 0]
    BY <2>1
  <2>3. QED
    BY <1>2, <2>1, <2>2, FewerAccounted
<1>4. CASE inbox'[c] = Tail(inbox[c])
  <2>1. \A n \in 1..Len(inbox'[c]) : n + 1 \in 1..Len(inbox[c]) /\ inbox'[c][n] = inbox[c][n + 1]
    BY <1>1, <1>4, TailFacts
  <2>2. Len(inbox'[c]) \in Nat /\ 1 \in Nat
    BY <1>1, <1>4, TailFacts
  <2>3. QED
    BY <1>2, <2>1, <2>2, FewerAccounted
<1>5. QED
  BY <1>3, <1>4

\* The datagram the server sends, or an error, joins what is on its way.
LEMMA SendAccounted ==
  ASSUME TypeInv, NEW c \in Clients, Accounted(c), NEW d \in FromServer,
         UNCHANGED <<port, size, got, served, slips, client>>,
         inbox'[c] = inbox[c] \/ inbox'[c] = Append(inbox[c], d),
         \/ d.op = "ERROR" /\ srv' = srv
         \/ /\ Busy(c) /\ srv.mode = "send" /\ d.op = "DATA"
            /\ d.chunk = srv.chunk /\ d.block = srv.block
            /\ srv' = [srv EXCEPT !.mode = "wait"]
  PROVE  Accounted(c)'
<1>1. inbox[c] \in Seq(FromServer)
  BY DEF TypeInv, Types
<1>2. /\ Busy(c)' = Busy(c)
      /\ Busy(c) => srv'.chunk = srv.chunk /\ srv'.block = srv.block
      /\ \A k : Busy(c) /\ Sent(k) => Sent(k)'
      /\ d.op = "DATA" => Busy(c) /\ srv.mode = "send" /\ srv'.mode = "wait"
                          /\ d.chunk = srv.chunk /\ d.block = srv.block
  <2>1. CASE d.op = "ERROR"
    BY <2>1 DEF Busy, Sent
  <2>2. CASE d.op # "ERROR"
    <3>1. srv \in Serving /\ srv' = [srv EXCEPT !.mode = "wait"] /\ srv # Idle /\ srv.mode = "send" /\ Busy(c)
      BY <2>2, AccountTypes DEF Busy
    <3>2. /\ srv'.mode = "wait" /\ srv'.chunk = srv.chunk /\ srv'.block = srv.block
          /\ srv'.to = srv.to /\ srv'.port = srv.port /\ srv' # Idle
      BY <3>1 DEF Serving, Idle
    <3>3. Busy(c)'
      BY <3>1, <3>2 DEF Busy
    <3>4. \A k : Sent(k) => Sent(k)'
      BY <3>1, <3>2 DEF Sent
    <3>5. QED
      BY <2>2, <3>1, <3>2, <3>3, <3>4
  <2>3. QED
    BY <2>1, <2>2
<1>3. CASE inbox'[c] = inbox[c]
  <2>1. Chunks(c)' = Chunks(c)
    BY <1>3 DEF Chunks
  <2>2. Bounded(c)'
    BY <1>2, <1>3, <2>1 DEF Bounded, Accounted
  <2>3. served[c] = 0 => Fresh(c)'
    BY <1>2, <1>3, <2>1 DEF Fresh, Accounted
  <2>4. served[c] = 1 => Flow(c)'
    BY <1>2, <1>3, <2>1 DEF Flow, Accounted
  <2>5. served[c] = 1 => Taken(c)'
    BY <1>2, <1>3, <2>1 DEF Taken, Accounted
  <2>6. QED
    BY <2>2, <2>3, <2>4, <2>5 DEF Accounted
<1>4. CASE inbox'[c] = Append(inbox[c], d)
  <2> DEFINE l == Len(inbox[c])
  <2>1. /\ Len(inbox'[c]) = l + 1 /\ l \in Nat /\ inbox'[c][l + 1] = d
        /\ \A n \in 1..l : inbox'[c][n] = inbox[c][n]
    BY <1>1, <1>4, AppendFacts
  <2>2. \A n \in Chunks(c)' : \/ n \in Chunks(c) /\ n \in 1..l /\ inbox'[c][n] = inbox[c][n]
                              \/ n = l + 1 /\ inbox'[c][n] = d /\ d.op = "DATA"
    BY <2>1 DEF Chunks
  <2> HIDE DEF l
  <2>3. Busy(c) => srv.chunk \in Nat /\ srv.block \in Nat /\ srv.chunk =< size[c]
    BY AccountTypes
  <2>4. Bounded(c)'
    <3>1. Bounded(c)
      BY DEF Accounted
    <3>2. \A n \in Chunks(c)' : inbox'[c][n].chunk =< inbox'[c][n].block + slips'[c]
      BY <1>2, <2>2, <3>1 DEF Bounded
    <3>3. QED
      BY <1>2, <3>1, <3>2 DEF Bounded
  <2>5. served[c] = 0 => Fresh(c)'
    <3>1. SUFFICES ASSUME served[c] = 0 PROVE Fresh(c)'
      OBVIOUS
    <3>2. Fresh(c) /\ ~Busy(c)
      BY <3>1 DEF Accounted, Fresh
    <3>3. Chunks(c)' = {}
      BY <1>2, <2>2, <3>2 DEF Fresh
    <3>4. QED
      BY <1>2, <3>2, <3>3 DEF Fresh
  <2>6. served[c] = 1 => Flow(c)'
    <3>1. SUFFICES ASSUME served[c] = 1 PROVE Flow(c)'
      OBVIOUS
    <3>2. Flow(c)
      BY <3>1 DEF Accounted
    <3>3. d.op = "DATA" => /\ d.chunk = d.block + slips[c] /\ Sent(d.chunk)'
                           /\ \A n \in Chunks(c) : inbox[c][n].chunk < d.chunk
      BY <1>2, <3>2 DEF Flow, Sent
    <3>4. ASSUME Busy(c)'
          PROVE  /\ srv'.chunk = srv'.block + slips'[c]
                 /\ (\A m \in 1..Len(got[c]) : Sent(got[c][m]))'
                 /\ (\A n \in Chunks(c) : Sent(inbox[c][n].chunk))'
      <4>1. srv'.chunk = srv'.block + slips'[c]
        BY <1>2, <3>2, <3>4 DEF Flow
      <4>2. \A m \in 1..Len(got'[c]) : (Sent(got[c][m]))'
        BY <1>2, <3>2, <3>4 DEF Flow, Sent
      <4>3. \A n \in Chunks(c)' : (Sent(inbox[c][n].chunk))'
        BY <1>2, <2>2, <3>2, <3>3, <3>4 DEF Flow, Sent
      <4>4. QED
        BY <4>1, <4>2, <4>3
    <3>5. \A n \in Chunks(c)' : inbox'[c][n].chunk = size'[c] => size'[c] = inbox'[c][n].block + slips'[c]
      BY <2>2, <3>2, <3>3 DEF Flow
    <3>6. \A m, n \in Chunks(c)' : m < n => inbox'[c][m].chunk < inbox'[c][n].chunk
      BY <2>1, <2>2, <3>2, <3>3 DEF Flow
    <3>7. QED
      BY <3>4, <3>5, <3>6 DEF Flow
  <2>7. served[c] = 1 => Taken(c)'
    <3>1. SUFFICES ASSUME served[c] = 1 PROVE Taken(c)'
      OBVIOUS
    <3>2. Taken(c) /\ Flow(c)
      BY <3>1 DEF Accounted
    <3>3. d.op = "DATA" => \A m \in 1..Len(got[c]) : got[c][m] < d.chunk
      BY <1>2, <3>2 DEF Flow, Sent
    <3>4. \A m \in 1..Len(got[c]), n \in Chunks(c)' : got[c][m] < inbox'[c][n].chunk
      BY <2>2, <3>2, <3>3 DEF Taken
    <3>5. QED
      BY <3>2, <3>4 DEF Taken
  <2>8. QED
    BY <2>4, <2>5, <2>6, <2>7 DEF Accounted
<1>5. QED
  BY <1>3, <1>4

\* The server goes on: the block number grows with the chunk, or the chunk slips.
LEMMA OnwardAccounted ==
  ASSUME TypeInv, NEW c \in Clients, Accounted(c), srv.mode = "wait",
         NEW b, b = srv.block \/ b = srv.block + 1, NextChunk(b),
         UNCHANGED <<inbox, client, size, got, port, served>>
  PROVE  Accounted(c)'
<1>1. srv \in Serving /\ srv # Idle /\ slips \in [Clients -> Nat]
  BY DEF TypeInv, Types, Idle, Serving
<1>2. CASE srv.chunk = srv.last
  <2>1. srv' = Idle /\ slips' = slips
    BY <1>2 DEF NextChunk
  <2>2. QED
    BY <2>1, SameAccounted DEF Busy
<1>3. CASE srv.chunk # srv.last
  <2>1. /\ srv' = [srv EXCEPT !.mode = "send", !.chunk = srv.chunk + 1, !.block = b]
        /\ IF b = srv.block THEN Slip ELSE slips' = slips
    BY <1>3 DEF NextChunk
  <2>2. /\ srv'.to = srv.to /\ srv'.port = srv.port /\ srv'.mode = "send"
        /\ srv'.chunk = srv.chunk + 1 /\ srv'.block = b
    BY <1>1, <2>1 DEF Serving
  <2>3. CASE ~Busy(c)
    <3>1. ~Busy(c)'
      BY <1>1, <2>2, <2>3 DEF Busy
    <3>2. slips'[c] = slips[c]
      BY <1>1, <2>1, <2>3 DEF Busy, Slip, Serving
    <3>3. QED
      BY <3>1, <3>2, SameAccounted
  <2>4. CASE Busy(c)
    <3>1. /\ srv.chunk \in Nat /\ srv.block \in Nat /\ slips[c] \in Nat /\ size[c] \in Nat
          /\ srv.chunk < size[c]
      BY <1>3, <2>4, AccountTypes
    <3>2. \/ b = srv.block /\ slips'[c] = slips[c] + 1
          \/ b = srv.block + 1 /\ slips'[c] = slips[c]
      BY <1>1, <2>1, <2>4, <3>1 DEF Busy, Slip
    <3>3. slips'[c] \in Nat /\ slips'[c] >= slips[c] /\ b + slips'[c] = srv.block + slips[c] + 1
      BY <3>1, <3>2
    <3>4. /\ Chunks(c)' = Chunks(c)
          /\ \A n \in Chunks(c) : inbox[c][n].chunk \in Nat /\ inbox[c][n].block \in Nat
          /\ Len(got[c]) \in Nat /\ \A n \in 1..Len(got[c]) : got[c][n] \in Nat
      BY AccountTypes, TftpAssumption DEF Chunks
    <3>5. Bounded(c)'
      <4>1. Bounded(c)
        BY DEF Accounted
      <4>2. srv'.chunk =< srv'.block + slips'[c]
        BY <2>2, <2>4, <3>1, <3>3, <4>1 DEF Bounded
      <4>3. \A n \in Chunks(c) : inbox[c][n].chunk =< inbox[c][n].block + slips'[c]
        BY <3>1, <3>3, <3>4, <4>1 DEF Bounded
      <4>4. client[c] = "done" => size[c] =< Len(got[c]) + slips'[c]
        BY <3>1, <3>3, <3>4, <4>1 DEF Bounded
      <4>5. QED
        BY <3>4, <4>2, <4>3, <4>4 DEF Bounded
    <3>6. served[c] # 0
      BY <2>4 DEF Accounted, Fresh
    <3>7. ASSUME served[c] = 1 PROVE Flow(c)' /\ Taken(c)'
      <4>1. Flow(c) /\ Taken(c)
        BY <3>7 DEF Accounted
      <4>2. \A k \in Nat : Sent(k) => k < size[c] /\ k < srv'.chunk
        BY <2>2, <3>1 DEF Sent
      <4>3. /\ \A n \in Chunks(c) : inbox[c][n].chunk < size[c] /\ inbox[c][n].chunk < srv'.chunk
            /\ \A m \in 1..Len(got[c]) : got[c][m] < size[c] /\ got[c][m] < srv'.chunk
        BY <2>4, <3>4, <4>1, <4>2 DEF Flow
      <4>4. srv'.chunk = srv'.block + slips'[c]
        BY <2>2, <2>4, <3>1, <3>3, <4>1 DEF Flow
      <4>5. Flow(c)'
        BY <3>1, <3>4, <4>1, <4>3, <4>4 DEF Flow, Sent
      <4>6. client[c] # "done"
        <5>1. SUFFICES ASSUME client[c] = "done" PROVE FALSE
          OBVIOUS
        <5>2. Len(got[c]) \in 1..Len(got[c]) /\ got[c][Len(got[c])] = size[c]
          BY <3>4, <4>1, <5>1 DEF Taken
        <5>3. QED
          BY <3>1, <4>3, <5>2
      <4>7. Taken(c)'
        BY <3>4, <4>1, <4>6 DEF Taken
      <4>8. QED
        BY <4>5, <4>7
    <3>8. QED
      BY <3>5, <3>6, <3>7 DEF Accounted
  <2>5. QED
    BY <2>3, <2>4
<1>4. QED
  BY <1>2, <1>3

\* A request opens a new account.
LEMMA AskAccounted ==
  ASSUME TypeInv, NEW c \in Clients, Ask(c), \A k \in Clients : Accounted(k), NEW k \in Clients
  PROVE  Accounted(k)'
<1>0. Types /\ ServerInv /\ Accounted(k)
  BY DEF TypeInv
<1>1. /\ UNCHANGED srv /\ asks' = asks + 1 /\ asks \in Nat
      /\ client' = [client EXCEPT ![c] = "asked"] /\ got' = [got EXCEPT ![c] = <<>>]
      /\ port' = [port EXCEPT ![c] = asks'] /\ inbox' = [inbox EXCEPT ![c] = <<>>]
      /\ served' = [served EXCEPT ![c] = 0] /\ slips' = [slips EXCEPT ![c] = 0]
      /\ \E n \in 0..MaxSize : size' = [size EXCEPT ![c] = n]
  <2>1. asks \in Nat
    BY <1>0, TftpAssumption DEF Types
  <2>2. QED
    BY <2>1 DEF Ask
<1>2. CASE k = c
  <2>1. /\ client'[c] = "asked" /\ got'[c] = <<>> /\ port'[c] = asks + 1 /\ inbox'[c] = <<>>
        /\ served'[c] = 0 /\ slips'[c] = 0
    BY <1>0, <1>1 DEF Types
  <2>2. ~Busy(c)'
    <3>1. CASE srv = Idle
      BY <1>1, <3>1 DEF Busy
    <3>2. CASE srv # Idle
      <4>1. srv.port \in Nat /\ srv.port =< asks
        BY <1>0, <3>2, TftpAssumption DEF Types, Serving, ServerInv
      <4>2. QED
        BY <1>1, <2>1, <4>1 DEF Busy
    <3>3. QED
      BY <3>1, <3>2
  <2>3. Chunks(c)' = {}
    BY <2>1 DEF Chunks
  <2>4. QED
    BY <1>2, <2>1, <2>2, <2>3 DEF Accounted, Bounded, Fresh
<1>3. CASE k # c
  <2>1. UNCHANGED <<size[k], got[k], served[k], slips[k], inbox[k], client[k], port[k]>>
    BY <1>0, <1>1, <1>3 DEF Types
  <2>2. Busy(k)' => Busy(k) /\ srv' = srv
    BY <1>1, <2>1 DEF Busy
  <2>3. QED
    BY <1>0, <2>1, <2>2, SameAccounted
<1>4. QED
  BY <1>2, <1>3

\* A request is served from the start of the file, which is the start of its
\* account when it is served the first time.
LEMMA ServeAccounted ==
  ASSUME TypeInv, Serve, NEW c \in Clients, Accounted(c)
  PROVE  Accounted(c)'
<1> DEFINE d == Head(queue)
<1>0. Types /\ QueueInv
  BY DEF TypeInv
<1>1. /\ srv = Idle /\ queue # <<>> /\ d.op = "RRQ"
      /\ srv' = [mode |-> "send", to |-> d.from, port |-> d.port, last |-> d.size, chunk |-> 1, block |-> 1]
      /\ served' = IF d.port = port[d.from] THEN [served EXCEPT ![d.from] = @ + 1] ELSE served
      /\ UNCHANGED <<inbox, client, size, got, port, slips>>
  BY DEF Serve, clientVars
<1>2. d.from \in Clients
  <2>1. queue \in Seq(FromClient)
    BY <1>0 DEF Types
  <2>2. d \in FromClient
    BY <1>1, <2>1, TailFacts
  <2>3. QED
    BY <2>2 DEF FromClient
<1> HIDE DEF d
<1>3. ~Busy(c)
  BY <1>1 DEF Busy
<1>4. srv'.to = d.from /\ srv'.port = d.port /\ srv'.chunk = 1 /\ srv'.block = 1 /\ srv'.mode = "send"
  BY <1>1
<1>5. CASE ~(c = d.from /\ d.port = port[c])
  <2>1. ~Busy(c)' /\ served'[c] = served[c]
    BY <1>0, <1>1, <1>2, <1>4, <1>5 DEF Busy, Types
  <2>2. QED
    BY <1>1, <2>1, SameAccounted
<1>6. CASE c = d.from /\ d.port = port[c]
  <2>1. served'[c] = served[c] + 1 /\ served[c] \in Nat /\ slips[c] \in Nat
    BY <1>0, <1>1, <1>2, <1>6 DEF Types
  <2>2. Bounded(c)'
    BY <1>1, <1>4, <2>1 DEF Bounded, Accounted, Chunks
  <2>3. ASSUME served[c] = 0 PROVE Flow(c)' /\ Taken(c)'
    <3>1. Fresh(c)
      BY <2>3 DEF Accounted
    <3>2. Chunks(c)' = {} /\ Len(got[c]) = 0 /\ got' = got /\ slips'[c] = 0 /\ client'[c] # "done"
      BY <1>1, <3>1 DEF Fresh, Chunks
    <3>3. QED
      BY <1>4, <3>2 DEF Flow, Taken
  <2>4. QED
    BY <2>1, <2>2, <2>3 DEF Accounted
<1>7. QED
  BY <1>5, <1>6

\* The chunk a client accepts comes after those it has and before those on their
\* way; the last one closes the account.
LEMMA AcceptAccounted ==
  ASSUME TypeInv, NEW c \in Clients, Accept(c), Accounted(c)
  PROVE  Accounted(c)'
<1> DEFINE d == Head(inbox[c])
<1>0. Types /\ ClientInv
  BY DEF TypeInv
<1>1. /\ client[c] = "asked" /\ inbox[c] # <<>> /\ d.op = "DATA" /\ d.block = Len(got[c]) + 1
      /\ got' = [got EXCEPT ![c] = Append(@, d.chunk)]
      /\ UNCHANGED <<srv, size, port, served, slips>>
      /\ \/ d.chunk # size[c] /\ inbox' = [inbox EXCEPT ![c] = Tail(@)] /\ client' = client
         \/ /\ d.chunk = size[c] /\ inbox' = [inbox EXCEPT ![c] = <<>>]
            /\ client' = [client EXCEPT ![c] = "done"]
  BY DEF Accept, Close
<1>2. inbox[c] \in Seq(FromServer) /\ got[c] \in Seq(1..MaxSize)
  BY <1>0 DEF Types
<1>3. /\ d = inbox[c][1] /\ Len(inbox[c]) \in Nat /\ Len(inbox[c]) >= 1
      /\ Tail(inbox[c]) \in Seq(FromServer)
      /\ \A n \in 1..Len(Tail(inbox[c])) : Tail(inbox[c])[n] = inbox[c][n + 1] /\ n + 1 \in 1..Len(inbox[c])
  BY <1>1, <1>2, TailFacts, SeqFacts
<1>4. 1 \in Chunks(c)
  BY <1>1, <1>3 DEF Chunks
<1>5. d.chunk \in 1..MaxSize /\ d.block \in Nat /\ d.chunk =< size[c] /\ size[c] \in Nat /\ slips[c] \in Nat
  <2>1. d.chunk \in Nat /\ d.block \in Nat /\ d.chunk =< size[c] /\ size[c] \in Nat /\ slips[c] \in Nat
    BY <1>3, <1>4, AccountTypes
  <2>2. d \in FromServer
    BY <1>1, <1>2, TailFacts
  <2>3. QED
    BY <1>1, <2>1, <2>2 DEF FromServer
<1>6. inbox'[c] = Tail(inbox[c]) \/ inbox'[c] = <<>>
  BY <1>0, <1>1 DEF Types
<1>7. \A n \in Chunks(c)' : n \in Nat \ {0} /\ n + 1 \in Chunks(c) /\ inbox'[c][n] = inbox[c][n + 1]
  <2>1. CASE inbox'[c] = Tail(inbox[c])
    BY <1>3, <2>1 DEF Chunks
  <2>2. CASE inbox'[c] = <<>>
    BY <2>2 DEF Chunks
  <2>3. QED
    BY <1>6, <2>1, <2>2
<1>8. got'[c] = Append(got[c], d.chunk)
  BY <1>0, <1>1 DEF Types
<1> HIDE DEF d
<1>9. /\ Len(got'[c]) = Len(got[c]) + 1 /\ got'[c][Len(got[c]) + 1] = d.chunk
      /\ \A n \in 1..Len(got[c]) : got'[c][n] = got[c][n]
      /\ Len(got[c]) \in Nat
  BY <1>2, <1>5, <1>8, AppendFacts, SeqFacts
<1>10. \A n \in 1..Len(got'[c]) : \/ n \in 1..Len(got[c]) /\ got'[c][n] = got[c][n]
                                  \/ n = Len(got[c]) + 1 /\ got'[c][n] = d.chunk
  BY <1>9
<1>11. (Busy(c)' = Busy(c)) /\ \A k : Sent(k)' = Sent(k)
  BY <1>1 DEF Busy, Sent
<1>12. client'[c] = "done" => d.chunk = size[c]
  BY <1>0, <1>1 DEF Types
<1>13. Bounded(c)'
  <2>1. Bounded(c)
    BY DEF Accounted
  <2>2. client'[c] = "done" => size[c] =< Len(got'[c]) + slips[c]
    BY <1>1, <1>3, <1>4, <1>9, <1>12, <2>1 DEF Bounded
  <2>3. \A n \in Chunks(c)' : inbox'[c][n].chunk =< inbox'[c][n].block + slips[c]
    BY <1>7, <2>1 DEF Bounded
  <2>4. QED
    BY <1>1, <1>11, <2>1, <2>2, <2>3 DEF Bounded
<1>14. served[c] # 0
  BY <1>4 DEF Accounted, Fresh
<1>15. ASSUME served[c] = 1 PROVE Flow(c)' /\ Taken(c)'
  <2>1. Flow(c) /\ Taken(c)
    BY <1>15 DEF Accounted
  <2>2. /\ \A m \in 1..Len(got[c]) : got[c][m] < d.chunk
        /\ \A n \in Chunks(c) : n > 1 => d.chunk < inbox[c][n].chunk
        /\ d.chunk = size[c] => size[c] = d.block + slips[c]
        /\ Busy(c) => Sent(d.chunk)
    BY <1>3, <1>4, <2>1 DEF Flow, Taken, Chunks
  <2>3. \A n \in Chunks(c)' : d.chunk < inbox'[c][n].chunk
    BY <1>7, <2>2
  <2>4. Flow(c)'
    <3>1. ASSUME Busy(c)'
          PROVE  /\ srv'.chunk = srv'.block + slips'[c]
                 /\ (\A m \in 1..Len(got[c]) : Sent(got[c][m]))'
                 /\ (\A n \in Chunks(c) : Sent(inbox[c][n].chunk))'
      <4>1. \A m \in 1..Len(got'[c]) : Sent(got[c][m])'
        BY <1>1, <1>10, <1>11, <2>1, <2>2, <3>1 DEF Flow, Sent
      <4>2. \A n \in Chunks(c)' : Sent(inbox[c][n].chunk)'
        BY <1>1, <1>7, <1>11, <2>1, <3>1 DEF Flow, Sent
      <4>3. QED
        BY <1>1, <1>11, <2>1, <3>1, <4>1, <4>2 DEF Flow
    <3>2. \A n \in Chunks(c)' : inbox'[c][n].chunk = size'[c] => size'[c] = inbox'[c][n].block + slips'[c]
      BY <1>1, <1>7, <2>1 DEF Flow
    <3>3. \A m, n \in Chunks(c)' : m < n => inbox'[c][m].chunk < inbox'[c][n].chunk
      BY <1>7, <2>1 DEF Flow
    <3>4. QED
      BY <3>1, <3>2, <3>3 DEF Flow
  <2>5. Taken(c)'
    <3>1. \A m, n \in 1..Len(got'[c]) : m < n => got'[c][m] < got'[c][n]
      BY <1>9, <1>10, <2>1, <2>2 DEF Taken
    <3>2. \A m \in 1..Len(got'[c]), n \in Chunks(c)' : got'[c][m] < inbox'[c][n].chunk
      BY <1>7, <1>10, <2>1, <2>3 DEF Taken
    <3>3. client'[c] = "done" => /\ Len(got'[c]) # 0 /\ got'[c][Len(got'[c])] = size'[c]
                                 /\ size'[c] = Len(got'[c]) + slips'[c]
      BY <1>1, <1>9, <1>12, <2>2
    <3>4. QED
      BY <3>1, <3>2, <3>3 DEF Taken
  <2>6. QED
    BY <2>4, <2>5
<1>16. QED
  BY <1>1, <1>13, <1>14, <1>15 DEF Accounted

\* Every step keeps every account.
LEMMA AccountStep == AccountInv /\ [Next]_vars => AccountInv'
<1> SUFFICES ASSUME AccountInv, [Next]_vars, NEW c \in Clients PROVE Accounted(c)'
  BY TypeStep DEF AccountInv
<1>0. TypeInv /\ Types /\ QueueInv /\ Accounted(c) /\ \A k \in Clients : Accounted(k)
  BY DEF AccountInv, TypeInv
<1>1. CASE Serve
  BY <1>0, <1>1, ServeAccounted
<1>2. CASE Refuse
  <2> DEFINE d == [op |-> "ERROR"]
  <2>1. /\ Deliver(Head(queue).from, Head(queue).port, d) /\ d \in FromServer /\ d.op = "ERROR"
        /\ UNCHANGED <<srv, port, size, got, served, slips, client>>
    BY <1>2 DEF Refuse, clientVars, history, FromServer
  <2> HIDE DEF d
  <2>2. inbox'[c] = inbox[c] \/ inbox'[c] = Append(inbox[c], d)
    BY <1>0, <2>1 DEF Deliver, Types
  <2>3. QED
    BY <1>0, <2>1, <2>2, SendAccounted
<1>3. CASE CannotOpen \/ DropStray
  BY <1>0, <1>3, SameAccounted DEF CannotOpen, DropStray, clientVars, history, Busy
<1>4. CASE SendChunk
  <2> DEFINE d == [op |-> "DATA", block |-> srv.block, chunk |-> srv.chunk]
  <2>1. /\ srv.mode = "send" /\ srv.block =< MaxBlock /\ Deliver(srv.to, srv.port, d)
        /\ srv' = [srv EXCEPT !.mode = "wait"]
        /\ UNCHANGED <<port, size, got, served, slips, client>>
    BY <1>4 DEF SendChunk, clientVars, history
  <2>2. srv \in Serving /\ srv # Idle
    BY <1>0, <2>1 DEF Types, Idle, Serving
  <2>3. d \in FromServer /\ d.op = "DATA" /\ d.chunk = srv.chunk /\ d.block = srv.block
    BY <2>1, <2>2, TftpAssumption DEF FromServer, Serving, Blocks
  <2> HIDE DEF d
  <2>4. CASE Busy(c)
    <3>1. inbox'[c] = inbox[c] \/ inbox'[c] = Append(inbox[c], d)
      BY <1>0, <2>1, <2>4 DEF Deliver, Types
    <3>2. QED
      BY <1>0, <2>1, <2>3, <2>4, <3>1, SendAccounted
  <2>5. CASE ~Busy(c)
    <3>1. inbox'[c] = inbox[c]
      BY <1>0, <2>1, <2>2, <2>5 DEF Deliver, Types, Busy
    <3>2. ~Busy(c)'
      BY <2>1, <2>2, <2>5 DEF Busy, Serving
    <3>3. QED
      BY <1>0, <2>1, <3>1, <3>2, SameAccounted
  <2>6. QED
    BY <2>4, <2>5
<1>5. CASE BlockOverflow
  BY <1>0, <1>5, SameAccounted DEF BlockOverflow, clientVars, history, Busy
<1>6. CASE Receive
  <2>1. srv.mode = "wait" /\ UNCHANGED <<inbox, client, size, got, port, served>>
    BY <1>6 DEF Receive, clientVars
  <2>2. \E b : (b = srv.block \/ b = srv.block + 1) /\ NextChunk(b)
    BY <1>6 DEF Receive
  <2>3. QED
    BY <1>0, <2>1, <2>2, OnwardAccounted
<1>7. CASE Timeout
  <2>1. srv.mode = "wait" /\ NextChunk(srv.block) /\ UNCHANGED <<inbox, client, size, got, port, served>>
    BY <1>7 DEF Timeout, clientVars
  <2>2. QED
    BY <1>0, <2>1, OnwardAccounted
<1>8. ASSUME NEW k \in Clients, Ask(k) PROVE Accounted(c)'
  BY <1>0, <1>8, AskAccounted
<1>9. ASSUME NEW k \in Clients, Accept(k) PROVE Accounted(c)'
  <2>1. CASE k = c
    BY <1>0, <1>9, <2>1, AcceptAccounted
  <2>2. CASE k # c
    <3>1. /\ UNCHANGED <<srv, size[c], served[c], slips[c], port>>
          /\ UNCHANGED <<got[c], inbox[c], client[c]>>
      BY <1>0, <1>9, <2>2 DEF Accept, Close, Types
    <3>2. QED
      BY <1>0, <3>1, SameAccounted DEF Busy
  <2>3. QED
    BY <2>1, <2>2
<1>10. ASSUME NEW k \in Clients, PassOver(k) \/ LoseToClient(k) \/ TakeError(k) PROVE Accounted(c)'
  <2>1. /\ UNCHANGED <<srv, port, size, got, served, slips>> /\ inbox[k] # <<>>
        /\ inbox' = [inbox EXCEPT ![k] = Tail(@)] \/ inbox' = [inbox EXCEPT ![k] = <<>>]
        /\ client' = client \/ client' = [client EXCEPT ![k] = "refused"]
    BY <1>10 DEF PassOver, LoseToClient, TakeError, Close, clientVars, history
  <2>2. CASE k = c
    <3>1. (inbox'[c] = Tail(inbox[c]) \/ inbox'[c] = <<>>) /\ (client'[c] = "done" => client[c] = "done")
      BY <1>0, <2>1, <2>2 DEF Types
    <3>2. QED
      BY <1>0, <2>1, <2>2, <3>1, TailAccounted
  <2>3. CASE k # c
    <3>1. UNCHANGED <<inbox[c], client[c]>>
      BY <1>0, <2>1, <2>3 DEF Types
    <3>2. QED
      BY <1>0, <2>1, <3>1, SameAccounted DEF Busy
  <2>4. QED
    BY <2>2, <2>3
<1>11. ASSUME NEW k \in Clients, Resend(k) PROVE Accounted(c)'
  BY <1>0, <1>11, SameAccounted DEF Resend, history, Busy
<1>12. CASE LoseToServer
  BY <1>0, <1>12, SameAccounted DEF LoseToServer, clientVars, Busy
<1>13. CASE UNCHANGED vars
  BY <1>0, <1>13, SameAccounted DEF vars, clientVars, history, Busy
<1>14. QED
  BY <1>1, <1>2, <1>3, <1>4, <1>5, <1>6, <1>7, <1>8, <1>9, <1>10, <1>11, <1>12, <1>13
     DEF Next, ServerStep, ClientStep

\* No account is open at the start.
LEMMA InitAccounted == Init => AccountInv
<1> SUFFICES ASSUME Init, NEW c \in Clients PROVE Accounted(c)
  BY InitTyped DEF AccountInv
<1>1. /\ srv = Idle /\ inbox[c] = <<>> /\ client[c] = "off" /\ got[c] = <<>> /\ served[c] = 0 /\ slips[c] = 0
  BY DEF Init
<1>2. QED
  BY <1>1 DEF Accounted, Bounded, Fresh, Busy, Chunks

\* However the transfers of several clients, lost, late and repeated datagrams
\* meet: a transfer that ended misses exactly the chunks the server went past
\* without an answer to them, has the others in order, and none twice.
THEOREM ChunksAccountedHolds == Spec => []ChunksAccounted
<1>1. QED
  BY InitAccounted, AccountStep, AccountAsStated, PTL DEF Spec

=============================================================================
