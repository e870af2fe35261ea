------------------------------- MODULE Server -------------------------------
(***************************************************************************)
(* The connections of the server (server/server.cpp, request_handle.cpp,   *)
(* net_service.cpp, loginer.cpp): one poll thread accepts clients, logs    *)
(* them in, reads commands and sends what the write caches hold; workers   *)
(* execute queries and post the packets of the answers.  A RequestHandle   *)
(* belongs to the connection (m_self) and to the plans that run for it.    *)
(*                                                                         *)
(* Clients keep to the MySQL protocol: one command at a time.  They may    *)
(* leave at any moment, and need not read what they are sent: the sockets  *)
(* are blocking.  The bytes in the caches are BufferCache's, the           *)
(* scheduling of the workers ThreadPool's: here a packet is a unit with a  *)
(* size, and a task waits in a queue.                                      *)
(***************************************************************************)
EXTENDS Integers, Sequences, FiniteSets

CONSTANTS
  Client,
  Worker,
  MaxClients,  \* max_client_count
  CacheSize,   \* capacity of a write cache
  PacketBytes, \* sizes of the packets
  Answers,     \* lengths of the answers to queries, in packets
  MaxCommands  \* bound of the model: commands a client sends

ASSUME ServerAssumption ==
  /\ MaxClients \in Nat /\ CacheSize \in Nat /\ MaxCommands \in Nat
  /\ Answers \subseteq Nat \ {0} /\ PacketBytes \subseteq Nat \ {0}
  /\ IsFiniteSet(Client)

VARIABLES
  side,     \* side[c]: the client: "outside", "login", "idle", "wait" or "gone"
  conn,     \* conn[c]: its socket at the server: "none", "login", "open",
            \* "rejected", "leaked" (neither closed nor served), "closing"
            \* (within close_connection) or "closed"
  inbox,    \* inbox[c]: what the client has sent and the server not read
  clients,  \* m_clients
  up,       \* the process is there
  writing,  \* the net_write the poll thread is in: its client and packet, or {}
  exists,   \* exists[c]: the RequestHandle is there
  self,     \* self[c]: m_self refers to it
  seq,      \* seq[c]
  cache,    \* cache[c]: the packets in m_write_cache
  stored,   \* stored[c]: its size(), the bytes between m_head and m_tail
  moved,    \* moved[c]: its m_head is not 0 any more
  tasks,    \* the queue of the thread pool
  job,      \* job[w]: the query worker w executes, or none
  got,      \* got[c]: packets the client has of its current answer
  sent,     \* sent[c]: commands the client has sent, the number of the current
  dropped,  \* history: the answers of which a packet was dropped
  freed     \* history: the clients whose handle was used after it was freed

netVars == <<side, conn, inbox, clients, up, writing>>
cacheVars == <<cache, stored, moved>>
handleVars == <<exists, self, seq, cacheVars>>
vars == <<netVars, handleVars, tasks, job, got, sent, dropped, freed>>

\* What clients send.  "direct" commands (COM_PING, COM_INIT_DB, what is not
\* supported) are answered by the poll thread; a "query" becomes a task; a
\* "refused" one gets an answer before there is a plan.
Command ==
  [kind : {"direct", "refused"}, length : {1}] \cup [kind : {"query"}, length : Answers]
Auth == [kind |-> "auth", length |-> 0]

Packet == [cmd : Nat, seq : Nat, last : BOOLEAN, bytes : Nat]

\* An answer of which a packet was lost, with its bytes up to that packet
Answer == [client : Client, cmd : Nat, bytes : Nat]

\* thd: whether the plan counts a reference to the handle ("held"), or the
\* worker is within the copy of m_self ("copying")
Job == [client : Client, cmd : Nat, kind : {"query", "refused"}, length : Nat,
        posted : Nat, bytes : Nat, begun : BOOLEAN, thd : {"none", "copying", "held"}]

Init ==
  /\ side = [c \in Client |-> "outside"]
  /\ conn = [c \in Client |-> "none"]
  /\ inbox = [c \in Client |-> <<>>]
  /\ clients = 0 /\ up = TRUE /\ writing = {}
  /\ exists = [c \in Client |-> FALSE]
  /\ self = [c \in Client |-> FALSE]
  /\ seq = [c \in Client |-> 0]
  /\ cache = [c \in Client |-> <<>>]
  /\ stored = [c \in Client |-> 0]
  /\ moved = [c \in Client |-> FALSE]
  /\ tasks = <<>>
  /\ job = [w \in Worker |-> {}]
  /\ got = [c \in Client |-> <<>>]
  /\ sent = [c \in Client |-> 0]
  /\ dropped = {} /\ freed = {}

-----------------------------------------------------------------------------
(* The clients.                                                             *)

Connect(c) ==
  /\ side[c] = "outside"
  /\ side' = [side EXCEPT ![c] = "login"]
  /\ UNCHANGED <<conn, inbox, clients, up, writing, handleVars, tasks, job, got, sent, dropped, freed>>

\* The answer to the handshake
Authenticate(c) ==
  /\ side[c] = "login" /\ conn[c] = "login" /\ inbox[c] = <<>>
  /\ inbox' = [inbox EXCEPT ![c] = <<Auth>>]
  /\ UNCHANGED <<side, conn, clients, up, writing, handleVars, tasks, job, got, sent, dropped, freed>>

Send(c, command) ==
  /\ side[c] = "idle" /\ sent[c] < MaxCommands
  /\ side' = [side EXCEPT ![c] = "wait"]
  /\ inbox' = [inbox EXCEPT ![c] = Append(@, command)]
  /\ got' = [got EXCEPT ![c] = <<>>]
  /\ sent' = [sent EXCEPT ![c] = @ + 1]
  /\ UNCHANGED <<conn, clients, up, writing, handleVars, tasks, job, dropped, freed>>

Leave(c) ==
  /\ side[c] \in {"login", "idle", "wait"}
  /\ side' = [side EXCEPT ![c] = "gone"]
  /\ UNCHANGED <<conn, inbox, clients, up, writing, handleVars, tasks, job, got, sent, dropped, freed>>

-----------------------------------------------------------------------------
(* The poll thread: one handler after the other, NetService::poll.  A login *)
(* blocks it until the client has answered or left, and a write until the   *)
(* client has read enough or left.                                          *)

Polling == writing = {} /\ \A c \in Client : conn[c] \notin {"login", "closing"}

\* mutant: the poll thread goes on while a client logs in
AcceptAsync(c) ==
  /\ conn[c] = "none" /\ side[c] # "outside"
  /\ IF clients >= MaxClients
     THEN /\ conn' = [conn EXCEPT ![c] = "rejected"]
          /\ side' = [side EXCEPT ![c] = "gone"]
     ELSE conn' = [conn EXCEPT ![c] = "login"] /\ UNCHANGED side
  /\ UNCHANGED <<inbox, clients, up, writing, handleVars, tasks, job, got, sent, dropped, freed>>

\* ServerService::new_connection, and Loginer::handshake
Accept(c) ==
  /\ Polling /\ conn[c] = "none" /\ side[c] # "outside"
  /\ IF clients >= MaxClients
     THEN /\ conn' = [conn EXCEPT ![c] = "rejected"]
          /\ side' = [side EXCEPT ![c] = "gone"]
     ELSE conn' = [conn EXCEPT ![c] = "login"] /\ UNCHANGED side
  /\ UNCHANGED <<inbox, clients, up, writing, handleVars, tasks, job, got, sent, dropped, freed>>

\* do_login: the handle is made and registered
LoginDone(c) ==
  /\ conn[c] = "login" /\ inbox[c] # <<>>
  /\ inbox' = [inbox EXCEPT ![c] = <<>>]
  /\ conn' = [conn EXCEPT ![c] = "open"]
  /\ side' = [side EXCEPT ![c] = IF @ = "login" THEN "idle" ELSE @]
  /\ clients' = clients + 1
  /\ exists' = [exists EXCEPT ![c] = TRUE]
  /\ self' = [self EXCEPT ![c] = TRUE]
  /\ UNCHANGED <<up, writing, seq, cacheVars, tasks, job, got, sent, dropped, freed>>

\* mutant: the end of the stream is not noticed
LoginFailedBlind(c) ==
  /\ conn[c] = "login" /\ inbox[c] # <<>> /\ side[c] = "gone"
  /\ conn' = [conn EXCEPT ![c] = "leaked"]
  /\ UNCHANGED <<side, inbox, clients, up, writing, handleVars, tasks, job, got, sent, dropped, freed>>

\* do_login: the client has left before its answer was read, or has reset
\* the connection; the socket stays open
LoginFailed(c) ==
  /\ conn[c] = "login" /\ side[c] = "gone"
  /\ conn' = [conn EXCEPT ![c] = "leaked"]
  /\ inbox' = [inbox EXCEPT ![c] = <<>>]
  /\ UNCHANGED <<side, clients, up, writing, handleVars, tasks, job, got, sent, dropped, freed>>

\* post_packet: packet p of an answer, of which there were before bytes, goes
\* into the write cache; or it takes up the last byte there is, m_tail meets
\* m_head and all the cache held is lost with it (with m_head at 0 m_tail
\* stands at the end of the buffer, and nothing is lost); or it is dropped.
\* is_full refuses in none of these cases, for no packet is a byte long.
Posted(c, p, before) ==
  LET room == CacheSize - stored[c]
      lost == dropped \cup {[client |-> c, cmd |-> p.cmd, bytes |-> before + p.bytes]}
  IN /\ \/ /\ p.bytes < room \/ (p.bytes = room /\ ~moved[c])
           /\ cache' = [cache EXCEPT ![c] = Append(@, p)]
           /\ stored' = [stored EXCEPT ![c] = @ + p.bytes]
           /\ UNCHANGED dropped
        \/ /\ p.bytes = room /\ moved[c]
           /\ cache' = [cache EXCEPT ![c] = <<>>]
           /\ stored' = [stored EXCEPT ![c] = 0]
           /\ dropped' = lost
        \/ /\ p.bytes > room
           /\ dropped' = lost
           /\ UNCHANGED <<cache, stored>>
     /\ UNCHANGED moved

\* read_socket and handle_request
ReadSocket(c) ==
  /\ Polling /\ conn[c] = "open" /\ inbox[c] # <<>>
  /\ inbox' = [inbox EXCEPT ![c] = Tail(@)]
  /\ LET command == Head(inbox[c]) IN
     IF command.kind = "direct"
     THEN /\ seq' = [seq EXCEPT ![c] = 1]
          /\ \E b \in PacketBytes :
               Posted(c, [cmd |-> sent[c], seq |-> 1, last |-> TRUE, bytes |-> b], 0)
          /\ UNCHANGED tasks
     ELSE /\ seq' = [seq EXCEPT ![c] = 0]
          /\ tasks' = Append(tasks, [client |-> c, cmd |-> sent[c], kind |-> command.kind,
                                     length |-> command.length, posted |-> 0, bytes |-> 0,
                                     begun |-> FALSE, thd |-> "none"])
          /\ UNCHANGED <<cacheVars, dropped>>
  /\ UNCHANGED <<side, conn, clients, up, writing, exists, self, job, got, sent, freed>>

\* Is there a plan, other than that of worker w, that holds the handle of c?
HeldBesides(c, w) == \E v \in Worker \ {w} : \E j \in job[v] : j.client = c /\ j.thd = "held"
Held(c) == \E v \in Worker : \E j \in job[v] : j.client = c /\ j.thd = "held"

\* mutant: m_self is kept
CloseKeeps(c) ==
  /\ Polling /\ conn[c] = "open" /\ side[c] = "gone"
  /\ conn' = [conn EXCEPT ![c] = "closing"]
  /\ inbox' = [inbox EXCEPT ![c] = <<>>]
  /\ clients' = clients - 1
  /\ UNCHANGED <<side, up, writing, handleVars, tasks, job, got, sent, dropped, freed>>

\* read_socket at the end of the stream, or when the client has reset the
\* connection and what it had sent is lost: RequestHandle::close_connection,
\* as far as m_self is swapped with a local pointer
Close(c) ==
  /\ Polling /\ conn[c] = "open" /\ side[c] = "gone"
  /\ conn' = [conn EXCEPT ![c] = "closing"]
  /\ inbox' = [inbox EXCEPT ![c] = <<>>]
  /\ clients' = clients - 1
  /\ self' = [self EXCEPT ![c] = FALSE]
  /\ UNCHANGED <<side, up, writing, exists, seq, cacheVars, tasks, job, got, sent, dropped, freed>>

\* mutant: the handle is deleted whoever holds it
ReleaseDeletes(c) ==
  /\ conn[c] = "closing"
  /\ conn' = [conn EXCEPT ![c] = "closed"]
  /\ exists' = [exists EXCEPT ![c] = FALSE]
  /\ UNCHANGED <<side, inbox, clients, up, writing, self, seq, cacheVars, tasks, job, got, sent, dropped, freed>>

\* and its end: the local pointer is destroyed
Release(c) ==
  /\ conn[c] = "closing"
  /\ conn' = [conn EXCEPT ![c] = "closed"]
  /\ exists' = [exists EXCEPT ![c] = self[c] \/ Held(c)]
  /\ UNCHANGED <<side, inbox, clients, up, writing, self, seq, cacheVars, tasks, job, got, sent, dropped, freed>>

\* write_socket: the next packet of the cache is written
WriteSocket(c) ==
  /\ Polling /\ conn[c] = "open" /\ cache[c] # <<>>
  /\ writing' = {[client |-> c, packet |-> Head(cache[c])]}
  /\ UNCHANGED <<side, conn, inbox, clients, up, handleVars, tasks, job, got, sent, dropped, freed>>

\* net_write returns, and read removes as many bytes from the cache.  These
\* are the packet's, unless all was lost while it was written: then it cuts
\* what has come since, of which the model keeps nothing.  The client has the
\* packet; it goes on after the last one if it has missed none.  One that has
\* left takes no notice.
WriteReturns(c) ==
  \E x \in writing :
    LET p == x.packet
        whole == cache[c] # <<>> /\ Head(cache[c]) = p
    IN /\ x.client = c
       /\ writing' = {}
       /\ cache' = [cache EXCEPT ![c] = IF whole THEN Tail(@) ELSE <<>>]
       /\ stored' = [stored EXCEPT ![c] = IF whole THEN @ - p.bytes ELSE 0]
       /\ moved' = [moved EXCEPT ![c] = TRUE]
       /\ IF side[c] = "gone" THEN UNCHANGED <<side, got>>
          ELSE /\ got' = [got EXCEPT ![c] = Append(@, p)]
               /\ side' = [side EXCEPT ![c] = IF p.last /\ p.seq = Len(got[c]) + 1 THEN "idle" ELSE @]
       /\ UNCHANGED <<conn, inbox, clients, up, exists, self, seq, tasks, job, sent, dropped, freed>>

\* A write to a client that has left may fail: SIGPIPE is not ignored, and
\* write_socket takes the -1 of net_write for a length.  The process is gone.
WriteFails(c) ==
  /\ side[c] = "gone"
  /\ \/ conn[c] = "login" /\ inbox[c] # <<>>
     \/ \E x \in writing : x.client = c
  /\ up' = FALSE
  /\ UNCHANGED <<side, conn, inbox, clients, writing, handleVars, tasks, job, got, sent, dropped, freed>>

-----------------------------------------------------------------------------
(* The workers: do_cmd_query.                                               *)

Take(w) ==
  /\ job[w] = {} /\ tasks # <<>>
  /\ job' = [job EXCEPT ![w] = {Head(tasks)}]
  /\ tasks' = Tail(tasks)
  /\ UNCHANGED <<netVars, handleVars, got, sent, dropped, freed>>

\* The handle is gone: what its memory holds now is not modelled, the worker
\* leaves the model's sight.
UseFreed(w) ==
  \E j \in job[w] :
    /\ ~exists[j.client] /\ (~j.begun \/ j.thd = "copying" \/ j.posted < j.length)
    /\ freed' = freed \cup {j.client}
    /\ job' = [job EXCEPT ![w] = {}]
    /\ UNCHANGED <<netVars, handleVars, tasks, got, sent, dropped>>

\* parse_sql; a plan begins to copy m_self, an answer without a plan does not
Begin(w) ==
  \E j \in job[w] :
    /\ exists[j.client] /\ ~j.begun
    /\ job' = [job EXCEPT ![w] =
         {[j EXCEPT !.begun = TRUE,
                    !.thd = IF self[j.client] /\ j.kind = "query" THEN "copying" ELSE "none"]}]
    /\ UNCHANGED <<netVars, handleVars, tasks, got, sent, dropped, freed>>

\* The copy is made, without a lock: the pointer to the count, and then one
\* more in the count.  If close_connection has swapped m_self since, either
\* was read before, or there was none to read and nothing is counted, although
\* the pointer to the handle may have been copied.
Hold(w) ==
  \E j \in job[w] :
    /\ exists[j.client] /\ j.thd = "copying"
    /\ \E held \in BOOLEAN :
         /\ self[j.client] => held
         /\ job' = [job EXCEPT ![w] = {[j EXCEPT !.thd = IF held THEN "held" ELSE "none"]}]
    /\ UNCHANGED <<netVars, handleVars, tasks, got, sent, dropped, freed>>

\* mutant: packets are numbered by the worker, from 0
PostFromZero(w) ==
  \E j \in job[w] : \E b \in PacketBytes :
    LET c == j.client IN
    /\ exists[c] /\ j.begun /\ j.thd # "copying" /\ j.posted < j.length
    /\ seq' = [seq EXCEPT ![c] = j.posted]
    /\ Posted(c, [cmd |-> j.cmd, seq |-> j.posted, last |-> j.posted = j.length, bytes |-> b], j.bytes)
    /\ job' = [job EXCEPT ![w] = {[j EXCEPT !.posted = @ + 1, !.bytes = @ + b]}]
    /\ UNCHANGED <<netVars, exists, self, tasks, got, sent, freed>>

\* post_packet(packet, ++seq), once per packet of the answer
Post(w) ==
  \E j \in job[w] : \E b \in PacketBytes :
    LET c == j.client
        n == seq[c] + 1
    IN /\ exists[c] /\ j.begun /\ j.thd # "copying" /\ j.posted < j.length
       /\ seq' = [seq EXCEPT ![c] = n]
       /\ Posted(c, [cmd |-> j.cmd, seq |-> n, last |-> n = j.length, bytes |-> b], j.bytes)
       /\ job' = [job EXCEPT ![w] = {[j EXCEPT !.posted = @ + 1, !.bytes = @ + b]}]
       /\ UNCHANGED <<netVars, exists, self, tasks, got, sent, freed>>

\* mutant: the plan deletes the handle it holds
FinishDeletes(w) ==
  \E j \in job[w] :
    /\ j.begun /\ j.thd # "copying" /\ j.posted = j.length
    /\ job' = [job EXCEPT ![w] = {}]
    /\ exists' = [exists EXCEPT ![j.client] = @ /\ j.thd # "held"]
    /\ UNCHANGED <<netVars, self, seq, cacheVars, tasks, got, sent, dropped, freed>>

\* do_cmd_query returns; the plan and its reference to the handle go, and the
\* handle with them unless it is held by m_self, by the local pointer of
\* close_connection or by another plan
Finish(w) ==
  \E j \in job[w] :
    LET c == j.client IN
    /\ j.begun /\ j.thd # "copying" /\ j.posted = j.length
    /\ job' = [job EXCEPT ![w] = {}]
    /\ exists' = [exists EXCEPT ![c] =
         @ /\ (j.thd # "held" \/ self[c] \/ conn[c] = "closing" \/ HeldBesides(c, w))]
    /\ UNCHANGED <<netVars, self, seq, cacheVars, tasks, got, sent, dropped, freed>>

-----------------------------------------------------------------------------
PollStep(c) ==
  \/ Accept(c) \/ LoginDone(c) \/ LoginFailed(c)
  \/ ReadSocket(c) \/ Close(c) \/ Release(c)
  \/ WriteSocket(c) \/ WriteReturns(c) \/ WriteFails(c)
WorkerStep(w) == Take(w) \/ UseFreed(w) \/ Begin(w) \/ Hold(w) \/ Post(w) \/ Finish(w)

Next ==
  /\ up
  /\ \/ \E c \in Client : Connect(c) \/ Authenticate(c) \/ Leave(c)
     \/ \E c \in Client, command \in Command : Send(c, command)
     \/ \E c \in Client : PollStep(c)
     \/ \E w \in Worker : WorkerStep(w)

Spec == Init /\ [][Next]_vars

\* While the process is there its threads go on; the poll loop serves every
\* descriptor that is ready in each of its turns, and a write to a client that
\* has left does not block.
ServerFair ==
  /\ \A c \in Client :
       /\ WF_vars(up /\ Accept(c))
       /\ WF_vars(up /\ (LoginDone(c) \/ LoginFailed(c)))
       /\ WF_vars(up /\ ReadSocket(c))
       /\ WF_vars(up /\ Close(c))
       /\ WF_vars(up /\ Release(c))
       /\ WF_vars(up /\ side[c] = "gone" /\ (WriteReturns(c) \/ WriteFails(c)))
  /\ \A w \in Worker : WF_vars(up /\ WorkerStep(w))

\* What the server needs of each of its clients: one that has connected
\* authenticates or leaves, and one that is served reads what it is sent, so
\* that there is room in its socket, or leaves.
ClientsFair ==
  \A c \in Client :
    /\ WF_vars(up /\ Authenticate(c))
    /\ WF_vars(up /\ WriteSocket(c))
    /\ WF_vars(up /\ WriteReturns(c))

FairSpec == Spec /\ ServerFair /\ ClientsFair

-----------------------------------------------------------------------------
\* A client gets the answer to the command it waits for, packet after packet
\* with the numbers 1, 2, ... the protocol asks for, and nothing of another
\* answer: seq is reset by the poll thread and counted by a worker.  Packets
\* are lost (refused, or by a write that fills the cache) only of an answer
\* that is as long as the cache: nothing of an earlier one takes up its room.
AnswerIntact ==
  /\ \A a \in dropped : a.bytes >= CacheSize
  /\ \A c \in Client :
    (\A a \in dropped : ~(a.client = c /\ a.cmd = sent[c])) =>
      /\ \A i \in 1 .. Len(got[c]) :
           /\ got[c][i].cmd = sent[c]
           /\ got[c][i].seq = i
           /\ got[c][i].last => i = Len(got[c])
      /\ side[c] = "idle" /\ sent[c] > 0 => got[c][Len(got[c])].last

\* m_clients counts the connections that are served, and never exceeds the
\* limit although it is read before the login and raised after it.
ClientsCounted ==
  /\ clients = Cardinality({c \in Client : conn[c] = "open"})
  /\ clients <= MaxClients

\* A plan that has counted its reference keeps the handle it answers through,
\* whenever the client leaves and whichever plans of other workers end.  (A
\* plan that copies m_self while it is swapped may count none, and is then as
\* bare as its task.)
PlanKeepsHandle == \A w \in Worker : \A j \in job[w] : j.thd = "held" => exists[j.client]

\* The bare handle bound into a task, or one of which the copy came too late,
\* is used after it was freed only for a client that left while a command of
\* its was unanswered.
FreedForLeaversOnly == \A c \in freed : side[c] = "gone"

\* If every client answers the handshake and reads, or leaves, then every
\* command is answered, unless its client leaves, its answer fills the write
\* cache, or a write to somebody who has left ends the process.
AllAnswered ==
  \A c \in Client :
    (side[c] = "wait") ~>
      \/ side[c] \in {"idle", "gone"} \/ ~up
      \/ \E a \in dropped : a.client = c /\ a.cmd = sent[c]

\* If every client answers the handshake and reads, or leaves, then a client
\* that leaves is noticed, its place becomes free, and its handle is deleted
\* although the plans of its queries hold it too.
LeaverFreed ==
  \A c \in Client :
    (conn[c] = "open" /\ side[c] = "gone") ~> ((conn[c] = "closed" /\ ~exists[c]) \/ ~up)
=============================================================================
