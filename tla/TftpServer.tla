----------------------------- MODULE TftpServer -----------------------------
(***************************************************************************)
(* experiment/gha-test/tftp_server.py: one socket, one thread, one         *)
(* transfer at a time.  handle_rrq sends a chunk, waits for one datagram   *)
(* (or two seconds) and goes on with the next chunk whatever it received:  *)
(* the block number grows only when the expected ACK came, the position in *)
(* the file always.  Any datagram that arrives meanwhile, from whichever   *)
(* client, is taken for the answer.  So the chunk after an answer that did *)
(* not come, or was not the expected one, goes out under the old number,   *)
(* and the client passes one of the two over.                              *)
(*                                                                         *)
(* A file is a number of chunks, the last one shorter than 512 bytes; the  *)
(* content of a chunk is its number.  The clients (U-Boot in the DUTs) are *)
(* external: they follow RFC 1350.                                         *)
(***************************************************************************)
EXTENDS Naturals, Sequences

CONSTANTS
  Clients,
  MaxSize,    \* bound: chunks of the longest file
  MaxBlock,   \* the largest block number struct.pack("!HH") takes (65535)
  MaxAsks,    \* bound: requests of the clients
  MaxResends, \* bound: datagrams the clients send again
  Lossy,      \* datagrams may be lost
  Slow        \* an answer may take longer than the two seconds

ASSUME TftpAssumption ==
  /\ MaxSize \in Nat /\ MaxBlock \in Nat \ {0}
  /\ MaxAsks \in Nat /\ MaxResends \in Nat
  /\ Lossy \in BOOLEAN /\ Slow \in BOOLEAN

VARIABLES
  srv,     \* the server: what it does, for whom, next chunk, block number
  queue,   \* datagrams in the server's socket, oldest first
  inbox,   \* inbox[c]: datagrams on their way to client c
  client,  \* client[c]: "off", "asked", "done" or "refused"
  size,    \* size[c]: chunks of the file c asks for, 0 when it cannot be read
  got,     \* got[c]: the chunks c has accepted, in order
  port,    \* port[c]: the port c listens on since its last request
  asks,    \* requests the clients have made
  resends, \* datagrams the clients have sent again
  served,  \* history: transfers begun for the last request of each client
  slips,   \* history: chunks of them the server has gone past without a new block
  robbed   \* history: clients still waiting whose transfer has slipped, or missed a
           \* datagram, lost by the network or consumed as the answer to another one

clientVars == <<client, size, got, port, asks, resends>>
history == <<served, slips, robbed>>
vars == <<srv, queue, inbox, clientVars, history>>

Idle == [mode |-> "idle"]

(* A read request: who sent it from which port (a new one each time), and  *)
(* how many chunks the file has.                                           *)
Request(c) == [from |-> c, op |-> "RRQ", port |-> port[c], size |-> size[c]]

Blocks == 1..MaxBlock
FromClient == [from : Clients, op : {"RRQ"}, port : 1..MaxAsks, size : 0..MaxSize]
                \cup [from : Clients, op : {"ACK"}, block : Blocks]
FromServer == [op : {"DATA"}, block : Blocks, chunk : 1..MaxSize] \cup {[op |-> "ERROR"]}

TypeOK ==
  /\ srv \in {Idle} \cup [mode : {"send", "wait"}, to : Clients, port : 1..MaxAsks,
                           last : 1..MaxSize, chunk : 1..MaxSize, block : 1..MaxBlock + 1]
  /\ \A n \in 1..Len(queue) : queue[n] \in FromClient
  /\ \A c \in Clients :
        /\ \A n \in 1..Len(inbox[c]) : inbox[c][n] \in FromServer
        /\ client[c] \in {"off", "asked", "done", "refused"}
        /\ size[c] \in 0..MaxSize
        /\ Len(got[c]) =< size[c]
        /\ port[c] \in 0..asks
  /\ asks =< MaxAsks /\ resends =< MaxResends
  /\ \A c \in Clients : served[c] \in Nat /\ slips[c] \in Nat
  /\ robbed \subseteq Clients

Init ==
  /\ srv = Idle
  /\ queue = <<>>
  /\ inbox = [c \in Clients |-> <<>>]
  /\ client = [c \in Clients |-> "off"]
  /\ size = [c \in Clients |-> 0]
  /\ got = [c \in Clients |-> <<>>]
  /\ port = [c \in Clients |-> 0]
  /\ asks = 0
  /\ resends = 0
  /\ served = [c \in Clients |-> 0]
  /\ slips = [c \in Clients |-> 0]
  /\ robbed = {}

Rob(cs) == robbed' = {c \in robbed \cup cs : client[c] = "asked"}

(* sendto the port a request came from.  A client that has asked again     *)
(* since then listens on another port, one that has ended on none.         *)
Deliver(c, p, d) ==
  inbox' = IF p = port[c] /\ client[c] = "asked" THEN [inbox EXCEPT ![c] = Append(@, d)] ELSE inbox
-----------------------------------------------------------------------------
(* main: a read request is served at once, its error answered at once,     *)
(* anything else is dropped.                                               *)
Serve ==
  /\ srv = Idle
  /\ queue # <<>>
  /\ Head(queue).op = "RRQ"
  /\ Head(queue).size > 0
  /\ LET d == Head(queue)
     IN /\ srv' = [mode |-> "send", to |-> d.from, port |-> d.port, last |-> d.size,
                   chunk |-> 1, block |-> 1]
        /\ served' = IF d.port = port[d.from] THEN [served EXCEPT ![d.from] = @ + 1] ELSE served
  /\ queue' = Tail(queue)
  /\ UNCHANGED <<inbox, clientVars, slips, robbed>>

(* os.path.exists says no.                                                 *)
Refuse ==
  /\ srv = Idle
  /\ queue # <<>>
  /\ Head(queue).op = "RRQ"
  /\ Head(queue).size = 0
  /\ Deliver(Head(queue).from, Head(queue).port, [op |-> "ERROR"])
  /\ queue' = Tail(queue)
  /\ UNCHANGED <<srv, clientVars, history>>

(* The path exists but open() raises, for a directory or a file without    *)
(* permission: the exception is only printed, and no datagram is sent.     *)
CannotOpen ==
  /\ srv = Idle
  /\ queue # <<>>
  /\ Head(queue).op = "RRQ"
  /\ Head(queue).size = 0
  /\ queue' = Tail(queue)
  /\ UNCHANGED <<srv, inbox, clientVars, history>>

DropStray ==
  /\ srv = Idle
  /\ queue # <<>>
  /\ Head(queue).op # "RRQ"
  /\ queue' = Tail(queue)
  /\ UNCHANGED <<srv, inbox, clientVars, history>>

\* Mutant: the block number is put into the packet whatever its size.
SendChunk_Unchecked ==
  /\ srv.mode = "send"
  /\ Deliver(srv.to, srv.port, [op |-> "DATA", block |-> srv.block, chunk |-> srv.chunk])
  /\ srv' = [srv EXCEPT !.mode = "wait"]
  /\ UNCHANGED <<queue, clientVars, history>>

(* struct.pack and sendto of the chunk just read.                          *)
SendChunk ==
  /\ srv.mode = "send"
  /\ srv.block =< MaxBlock
  /\ Deliver(srv.to, srv.port, [op |-> "DATA", block |-> srv.block, chunk |-> srv.chunk])
  /\ srv' = [srv EXCEPT !.mode = "wait"]
  /\ UNCHANGED <<queue, clientVars, history>>

\* Mutant: the last block number is refused already.
BlockOverflow_OffByOne ==
  /\ srv.mode = "send"
  /\ srv.block >= MaxBlock
  /\ srv' = Idle
  /\ UNCHANGED <<queue, inbox, clientVars, history>>

(* The block number no longer fits 16 bits: struct.error ends the transfer.*)
BlockOverflow ==
  /\ srv.mode = "send"
  /\ srv.block > MaxBlock
  /\ srv' = Idle
  /\ UNCHANGED <<queue, inbox, clientVars, history>>

(* The server goes past a chunk that was not acknowledged to it.           *)
Slip ==
  slips' = IF srv.port = port[srv.to] THEN [slips EXCEPT ![srv.to] = @ + 1] ELSE slips

Slipped == {c \in Clients : slips'[c] # slips[c]}

(* The end of the loop body: a short chunk was the last one, otherwise the *)
(* next chunk is read, b is the block number it gets.                      *)
NextChunk(b) ==
  \/ /\ srv.chunk = srv.last
     /\ srv' = Idle
     /\ UNCHANGED slips
  \/ /\ srv.chunk # srv.last
     /\ srv' = [srv EXCEPT !.mode = "send", !.chunk = @ + 1, !.block = b]
     /\ IF b = srv.block THEN Slip ELSE UNCHANGED slips

\* The answer of the client served to the chunk it was sent.
Expected(d) == d.from = srv.to /\ d.op = "ACK" /\ d.block = srv.block

\* Mutant: an acknowledged chunk is followed by two reads of the file.
Receive_ReadsTwice ==
  /\ srv.mode = "wait"
  /\ queue # <<>>
  /\ LET d == Head(queue)
         acked == d.op = "ACK" /\ d.block = srv.block
     IN /\ srv' = IF srv.chunk + 1 >= srv.last THEN Idle
                  ELSE [srv EXCEPT !.mode = "send", !.chunk = @ + 2,
                                   !.block = IF acked THEN @ + 1 ELSE @]
        /\ IF acked \/ srv.chunk = srv.last THEN UNCHANGED slips ELSE Slip
        /\ Rob(Slipped \cup IF Expected(d) THEN {} ELSE {d.from})
  /\ queue' = Tail(queue)
  /\ UNCHANGED <<inbox, clientVars, served>>

(* recvfrom returns: only the ACK of the current block moves the block     *)
(* number; the sender is not compared with the client served.              *)
Receive ==
  /\ srv.mode = "wait"
  /\ queue # <<>>
  /\ LET d == Head(queue)
         acked == d.op = "ACK" /\ d.block = srv.block
     IN /\ NextChunk(IF acked THEN srv.block + 1 ELSE srv.block)
        /\ Rob(Slipped \cup IF Expected(d) THEN {} ELSE {d.from})
  /\ queue' = Tail(queue)
  /\ UNCHANGED <<inbox, clientVars, served>>

\* Mutant: an unanswered chunk is sent again, without end.
Timeout_Retransmits ==
  /\ srv.mode = "wait"
  /\ queue = <<>>
  /\ Slow \/ inbox[srv.to] = <<>>
  /\ srv' = [srv EXCEPT !.mode = "send"]
  /\ UNCHANGED <<queue, inbox, clientVars, history>>

(* socket.timeout after two seconds without a datagram.  Unless Slow, the  *)
(* client has had the time to answer all it received.                      *)
Timeout ==
  /\ srv.mode = "wait"
  /\ queue = <<>>
  /\ Slow \/ inbox[srv.to] = <<>>
  /\ NextChunk(srv.block)
  /\ Rob(Slipped)
  /\ UNCHANGED <<queue, inbox, clientVars, served>>
-----------------------------------------------------------------------------
(* The clients (external).                                                 *)
Ask(c) ==
  /\ client[c] # "asked"
  /\ asks < MaxAsks
  /\ client' = [client EXCEPT ![c] = "asked"]
  /\ \E n \in 0..MaxSize : size' = [size EXCEPT ![c] = n]
  /\ got' = [got EXCEPT ![c] = <<>>]
  /\ asks' = asks + 1
  /\ port' = [port EXCEPT ![c] = asks']
  /\ queue' = Append(queue, Request(c)')
  /\ inbox' = [inbox EXCEPT ![c] = <<>>]
  /\ served' = [served EXCEPT ![c] = 0]
  /\ slips' = [slips EXCEPT ![c] = 0]
  /\ robbed' = robbed \ {c}
  /\ UNCHANGED <<srv, resends>>

(* The transfer is over for the client, whatever the server still sends.   *)
Close(c, how) ==
  /\ client' = [client EXCEPT ![c] = how]
  /\ inbox' = [inbox EXCEPT ![c] = <<>>]
  /\ robbed' = robbed \ {c}

Ack(c, b) == [from |-> c, op |-> "ACK", block |-> b]

(* The block awaited: accepted and acknowledged, the short one ends it.    *)
Accept(c) ==
  /\ client[c] = "asked"
  /\ inbox[c] # <<>>
  /\ Head(inbox[c]).op = "DATA"
  /\ Head(inbox[c]).block = Len(got[c]) + 1
  /\ LET d == Head(inbox[c]) IN
       /\ got' = [got EXCEPT ![c] = Append(@, d.chunk)]
       /\ queue' = Append(queue, Ack(c, d.block))
       /\ IF d.chunk = size[c] THEN Close(c, "done")
          ELSE inbox' = [inbox EXCEPT ![c] = Tail(@)] /\ UNCHANGED <<client, robbed>>
  /\ UNCHANGED <<srv, size, port, asks, resends, served, slips>>

(* Any other block is passed over.                                         *)
PassOver(c) ==
  /\ inbox[c] # <<>>
  /\ Head(inbox[c]).op = "DATA"
  /\ Head(inbox[c]).block # Len(got[c]) + 1
  /\ inbox' = [inbox EXCEPT ![c] = Tail(@)]
  /\ UNCHANGED <<srv, queue, clientVars, history>>

TakeError(c) ==
  /\ client[c] = "asked"
  /\ inbox[c] # <<>>
  /\ Head(inbox[c]).op = "ERROR"
  /\ Close(c, "refused")
  /\ UNCHANGED <<srv, queue, size, got, port, asks, resends, served, slips>>

(* The client's own timer: its last datagram is sent again.  Unless Slow,  *)
(* the server is not about to answer.                                      *)
Resend(c) ==
  /\ client[c] = "asked"
  /\ inbox[c] = <<>>
  /\ resends < MaxResends
  /\ Slow \/ (queue = <<>> /\ srv = Idle)
  /\ resends' = resends + 1
  /\ queue' = Append(queue, IF got[c] = <<>> THEN Request(c) ELSE Ack(c, Len(got[c])))
  /\ UNCHANGED <<srv, inbox, client, size, got, port, asks, history>>

(* The network (external).                                                 *)
LoseToServer ==
  /\ Lossy
  /\ queue # <<>>
  /\ queue' = Tail(queue)
  /\ Rob({Head(queue).from})
  /\ UNCHANGED <<srv, inbox, clientVars, served, slips>>

LoseToClient(c) ==
  /\ Lossy
  /\ inbox[c] # <<>>
  /\ inbox' = [inbox EXCEPT ![c] = Tail(@)]
  /\ Rob({c})
  /\ UNCHANGED <<srv, queue, clientVars, served, slips>>

ServerStep ==
  \/ Serve \/ Refuse \/ CannotOpen \/ DropStray
  \/ SendChunk \/ BlockOverflow \/ Receive \/ Timeout
ClientStep(c) == Ask(c) \/ Accept(c) \/ PassOver(c) \/ TakeError(c) \/ Resend(c)

Next ==
  \/ ServerStep
  \/ \E c \in Clients : ClientStep(c) \/ LoseToClient(c)
  \/ LoseToServer

Spec == Init /\ [][Next]_vars

(* The server's thread runs, and U-Boot answers what it receives.          *)
FairSpec == /\ Spec
            /\ WF_vars(ServerStep)
            /\ \A c \in Clients : WF_vars(Accept(c) \/ PassOver(c) \/ TakeError(c))
-----------------------------------------------------------------------------
(* What a client holds when its transfer ended.  Each chunk before the last*)
(* that the server went past because the answer was late, lost or mistaken,*)
(* whoever sent what it took for it, costs the client exactly one chunk of *)
(* the file, and nothing else costs it any: the file is whole iff there was*)
(* none.  The chunks that came are in the order of the file, none twice.   *)
(* Only when a request the client repeated was served again may a chunk    *)
(* come twice; what is missing is accounted for even then.                 *)
ChunksAccounted ==
  \A c \in Clients : client[c] = "done" =>
    /\ size[c] =< Len(got[c]) + slips[c]
    /\ served[c] = 1 =>
         /\ size[c] = Len(got[c]) + slips[c]
         /\ \A m, n \in 1..Len(got[c]) : m < n => got[c][m] < got[c][n]

(* A file whose blocks can be numbered arrives, unless the network loses a *)
(* datagram of the transfer, the server takes one of the client's for the  *)
(* answer to another chunk, or it goes on without the client's answer.     *)
FilesArrive ==
  \A c \in Clients :
     client[c] = "asked" /\ size[c] \in 1..MaxBlock
       ~> client[c] = "done" \/ c \in robbed

(* A client that vanishes, or whose answers are lost, holds the only       *)
(* thread for a bounded time: the server always returns to its requests.   *)
ServerComesBack == srv # Idle ~> srv = Idle
=============================================================================
