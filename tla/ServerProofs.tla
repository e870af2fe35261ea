---------------------------- MODULE ServerProofs ----------------------------
(***************************************************************************)
(* Connections for any number of clients and workers, any limit, any cache *)
(* and any sizes of packets: answers are whole and in order unless they    *)
(* fill the cache, handles outlive the plans that count a reference to     *)
(* them, and the clients are counted right.                                *)
(***************************************************************************)
EXTENDS Server, SequenceTheorems, FiniteSetTheorems, TLAPS

Served == {"open", "closing", "closed"}

Types ==
  /\ side \in [Client -> {"outside", "login", "idle", "wait", "gone"}]
  /\ conn \in [Client -> {"none", "login", "open", "rejected", "leaked", "closing", "closed"}]
  /\ inbox \in [Client -> Seq(Command \cup {Auth})]
  /\ clients \in Int /\ up \in BOOLEAN
  /\ writing \in SUBSET [client : Client, packet : Packet]
  /\ exists \in [Client -> BOOLEAN] /\ self \in [Client -> BOOLEAN]
  /\ seq \in [Client -> Nat]
  /\ cache \in [Client -> Seq(Packet)]
  /\ stored \in [Client -> Int] /\ moved \in [Client -> BOOLEAN]
  /\ tasks \in Seq(Job)
  /\ job \in [Worker -> SUBSET Job]
  /\ got \in [Client -> Seq(Packet)]
  /\ sent \in [Client -> Nat]
  /\ dropped \in SUBSET Answer /\ freed \in SUBSET Client

-----------------------------------------------------------------------------
(* The two ends of a connection.                                            *)

\* The poll thread is in one handler at a time
Places ==
  /\ \A c \in Client :
       /\ side[c] = "outside" => conn[c] = "none"
       /\ side[c] = "login" => conn[c] \in {"none", "login"}
       /\ side[c] \in {"idle", "wait"} => conn[c] = "open"
       /\ conn[c] \in {"rejected", "leaked", "closing", "closed"} => side[c] = "gone"
       /\ conn[c] \notin {"login", "open"} => inbox[c] = <<>>
  /\ \A c, d \in Client :
       conn[c] \in {"login", "closing"} /\ conn[d] \in {"login", "closing"} => c = d
  /\ \A x \in writing :
       /\ conn[x.client] = "open"
       /\ \A c \in Client : conn[c] \notin {"login", "closing"}
  /\ \A x, y \in writing : x = y

Open == {c \in Client : conn[c] = "open"}
Counted ==
  /\ clients = Cardinality(Open)
  /\ clients <= MaxClients
  /\ (\E c \in Client : conn[c] = "login") => clients < MaxClients

-----------------------------------------------------------------------------
(* A command is in one place only: the inbox, the queue, or a worker that   *)
(* has not posted its whole answer yet.                                     *)

Live(j) == ~j.begun \/ j.posted < j.length
Sent(c) == conn[c] = "open" /\ inbox[c] # <<>>
Queued(c) == \E i \in 1 .. Len(tasks) : tasks[i].client = c
Running(c) == \E w \in Worker : \E j \in job[w] : j.client = c /\ Live(j)

\* The answer to the current command of c has lost a packet
Lost(c) == \E a \in dropped : a.client = c /\ a.cmd = sent[c]

SentOK(c) ==
  Sent(c) => /\ Len(inbox[c]) = 1 /\ inbox[c][1] \in Command
             /\ side[c] \in {"wait", "gone"}
             /\ cache[c] = <<>>
             /\ side[c] = "wait" => got[c] = <<>>
             /\ ~Queued(c) /\ ~Running(c)

QueuedOK ==
  /\ \A i \in 1 .. Len(tasks) :
       LET j == tasks[i] IN
       /\ j.posted = 0 /\ ~j.begun /\ j.thd = "none" /\ j.length > 0
       /\ j.cmd = sent[j.client] /\ seq[j.client] = 0
       /\ side[j.client] \in {"wait", "gone"} /\ conn[j.client] \in Served
       /\ ~Running(j.client)
  /\ \A i, k \in 1 .. Len(tasks) : tasks[i].client = tasks[k].client => i = k

\* The cache holds no more of an answer than was posted of it
RunningOK ==
  /\ \A w \in Worker : \A j, k \in job[w] : j = k
  /\ \A w \in Worker : \A j \in job[w] :
       /\ j.length > 0 /\ j.posted <= j.length
       /\ ~j.begun => j.posted = 0 /\ j.thd = "none"
       /\ j.thd = "copying" => j.posted = 0
       /\ conn[j.client] \in Served
       /\ Live(j) => /\ j.cmd = sent[j.client] /\ seq[j.client] = j.posted
                     /\ side[j.client] \in {"wait", "gone"}
                     /\ stored[j.client] <= j.bytes
  /\ \A v, w \in Worker : \A j \in job[v], k \in job[w] :
       j.client = k.client /\ Live(j) /\ Live(k) => v = w

\* A packet that is written is the first of the cache still, unless all was lost
WritingOK ==
  \A x \in writing :
    /\ x.packet.cmd = sent[x.client] /\ side[x.client] \in {"wait", "gone"}
    /\ ~Sent(x.client) /\ ~Queued(x.client)
    /\ x.packet.last => ~Running(x.client) /\ cache[x.client] = <<x.packet>>
    /\ ~Lost(x.client) => cache[x.client] # <<>> /\ cache[x.client][1] = x.packet

\* What the cache and the client have of an answer
CacheOK(c) ==
  /\ Len(cache[c]) <= seq[c]
  /\ cache[c] # <<>> => conn[c] \in Served /\ side[c] \in {"wait", "gone"}
  /\ \A i \in 1 .. Len(cache[c]) :
       /\ cache[c][i].cmd = sent[c]
       /\ cache[c][i].last => i = Len(cache[c]) /\ ~Running(c)
       /\ ~Lost(c) /\ side[c] # "gone" => cache[c][i].seq = Len(got[c]) + i
  /\ ~Lost(c) /\ side[c] # "gone" /\ ~Sent(c) => Len(got[c]) + Len(cache[c]) = seq[c]

GotOK(c) ==
  /\ side[c] \in {"outside", "login"} => sent[c] = 0
  /\ sent[c] = 0 => got[c] = <<>>
  /\ side[c] = "wait" => sent[c] > 0
  /\ ~Lost(c) =>
       /\ \A i \in 1 .. Len(got[c]) :
            /\ got[c][i].cmd = sent[c]
            /\ got[c][i].seq = i
            /\ got[c][i].last => i = Len(got[c]) /\ side[c] \in {"idle", "gone"}
       /\ side[c] = "idle" /\ sent[c] > 0 => got[c] # <<>> /\ got[c][Len(got[c])].last

Flow ==
  /\ \A c \in Client : SentOK(c) /\ CacheOK(c) /\ GotOK(c)
  /\ QueuedOK /\ RunningOK /\ WritingOK
  /\ \A a \in dropped : a.bytes >= CacheSize

\* n is the number of bytes of the packets in s: f has its sums
Holds(s, n) ==
  \E f \in [0 .. Len(s) -> Int] :
    /\ f[0] = 0 /\ f[Len(s)] = n
    /\ \A i \in 1 .. Len(s) : f[i] = f[i - 1] + s[i].bytes

Sized == \A c \in Client : Holds(cache[c], stored[c])

Handles ==
  /\ \A c \in Client : /\ self[c] = (conn[c] = "open")
                       /\ conn[c] \in {"open", "closing"} => exists[c]
  /\ PlanKeepsHandle
  /\ FreedForLeaversOnly

IInv == Types /\ Places /\ Counted /\ Flow /\ Sized /\ Handles
-----------------------------------------------------------------------------
(* What a step changes.                                                     *)

\* Packet p goes to the end of the cache of c
Added(c, p) ==
  /\ dropped' = dropped
  /\ \A d \in Client : d # c => cache'[d] = cache[d] /\ stored'[d] = stored[d]
  /\ cache'[c] = Append(cache[c], p)
  /\ stored'[c] = stored[c] + p.bytes

\* or is lost, perhaps with all the cache holds, and the answer is noted
Missed(c, p, before) ==
  /\ \E a \in Answer : /\ a.client = c /\ a.cmd = p.cmd /\ a.bytes = before + p.bytes
                       /\ dropped' = dropped \cup {a}
  /\ CacheSize <= stored[c] + p.bytes
  /\ \A d \in Client : d # c => cache'[d] = cache[d] /\ stored'[d] = stored[d]
  /\ \/ cache'[c] = cache[c] /\ stored'[c] = stored[c]
     \/ cache'[c] = <<>> /\ stored'[c] = 0

LEMMA PostedWhat ==
  ASSUME Types, NEW c \in Client, NEW p \in Packet, NEW n \in Nat, Posted(c, p, n)
  PROVE  /\ cache' \in [Client -> Seq(Packet)] /\ stored' \in [Client -> Int]
         /\ dropped' \in SUBSET Answer /\ moved' = moved
         /\ Added(c, p) \/ Missed(c, p, n)
<1> DEFINE a == [client |-> c, cmd |-> p.cmd, bytes |-> n + p.bytes]
<1>1. /\ cache \in [Client -> Seq(Packet)] /\ stored \in [Client -> Int]
      /\ dropped \in SUBSET Answer /\ cache[c] \in Seq(Packet) /\ stored[c] \in Int
      /\ CacheSize \in Nat /\ moved' = moved
  BY ServerAssumption DEF Types, Posted
<1>2. p.bytes \in Nat /\ p.cmd \in Nat
  BY DEF Packet
<1>3. a \in Answer /\ a.client = c /\ a.cmd = p.cmd /\ a.bytes = n + p.bytes
  BY <1>2 DEF Answer
<1>4. CASE /\ cache' = [cache EXCEPT ![c] = Append(@, p)]
           /\ stored' = [stored EXCEPT ![c] = @ + p.bytes]
           /\ UNCHANGED dropped
  <2>1. Append(cache[c], p) \in Seq(Packet)
    BY <1>1
  <2> QED BY <1>1, <1>2, <1>4, <2>1 DEF Added
<1>5. CASE /\ p.bytes = CacheSize - stored[c]
           /\ cache' = [cache EXCEPT ![c] = <<>>]
           /\ stored' = [stored EXCEPT ![c] = 0]
           /\ dropped' = dropped \cup {a}
  <2>1. <<>> \in Seq(Packet)
    OBVIOUS
  <2>2. CacheSize <= stored[c] + p.bytes
    BY <1>1, <1>2, <1>5
  <2> HIDE DEF a
  <2> QED BY <1>1, <1>3, <1>5, <2>1, <2>2 DEF Missed
<1>6. CASE /\ p.bytes > CacheSize - stored[c]
           /\ dropped' = dropped \cup {a}
           /\ UNCHANGED <<cache, stored>>
  <2>1. CacheSize <= stored[c] + p.bytes
    BY <1>1, <1>2, <1>6
  <2> HIDE DEF a
  <2> QED BY <1>1, <1>3, <1>6, <2>1 DEF Missed
<1> HIDE DEF a
<1> QED BY <1>4, <1>5, <1>6 DEF Posted, a

LEMMA CommandLength == ASSUME NEW m \in Command PROVE m.length \in Nat \ {0}
<1>1. CASE m \in [kind : {"direct", "refused"}, length : {1}]
  BY <1>1
<1>2. CASE m \in [kind : {"query"}, length : Answers]
  BY <1>2, ServerAssumption
<1> QED BY <1>1, <1>2 DEF Command

LEMMA CommandKind ==
  ASSUME NEW m \in Command PROVE m.kind # "direct" => m.kind \in {"query", "refused"}
<1>1. CASE m \in [kind : {"direct", "refused"}, length : {1}]
  BY <1>1
<1>2. CASE m \in [kind : {"query"}, length : Answers]
  BY <1>2
<1> QED BY <1>1, <1>2 DEF Command

NewJob(c, n, m) ==
  [client |-> c, cmd |-> n, kind |-> m.kind, length |-> m.length, posted |-> 0, bytes |-> 0,
   begun |-> FALSE, thd |-> "none"]
OnePosted(j, b) == [j EXCEPT !.posted = j.posted + 1, !.bytes = j.bytes + b]
Begun(j, t) == [j EXCEPT !.begun = TRUE, !.thd = t]
Copied(j, t) == [j EXCEPT !.thd = t]
Thd == {"none", "copying", "held"}

LEMMA JobTypes ==
  /\ \A c \in Client, n \in Nat, m \in Command : m.kind # "direct" => NewJob(c, n, m) \in Job
  /\ \A j \in Job, b \in Nat : OnePosted(j, b) \in Job
  /\ \A j \in Job, t \in Thd : Begun(j, t) \in Job
  /\ \A j \in Job, t \in Thd : Copied(j, t) \in Job
<1>1. ASSUME NEW c \in Client, NEW n \in Nat, NEW m \in Command, m.kind # "direct"
      PROVE  NewJob(c, n, m) \in Job
  <2>1. m.length \in Nat /\ m.kind \in {"query", "refused"}
    BY <1>1, CommandLength, CommandKind
  <2> QED BY <2>1 DEF Job, NewJob
<1>2. ASSUME NEW j \in Job, NEW b \in Nat PROVE OnePosted(j, b) \in Job
  <2>1. j.posted + 1 \in Nat /\ j.bytes + b \in Nat
    BY DEF Job
  <2> QED BY <2>1 DEF Job, OnePosted
<1>3. ASSUME NEW j \in Job, NEW t \in Thd PROVE Begun(j, t) \in Job /\ Copied(j, t) \in Job
  BY DEF Job, Thd, Begun, Copied
<1> QED BY <1>1, <1>2, <1>3

LEMMA JobFields ==
  ASSUME NEW j \in Job, NEW b \in Nat
  PROVE  /\ j.client \in Client /\ j.cmd \in Nat /\ j.length \in Nat /\ j.posted \in Nat
         /\ j.bytes \in Nat /\ j.begun \in BOOLEAN /\ j.thd \in Thd
         /\ OnePosted(j, b).client = j.client /\ OnePosted(j, b).cmd = j.cmd
         /\ OnePosted(j, b).length = j.length /\ OnePosted(j, b).posted = j.posted + 1
         /\ OnePosted(j, b).bytes = j.bytes + b
         /\ OnePosted(j, b).begun = j.begun /\ OnePosted(j, b).thd = j.thd
BY DEF Job, OnePosted, Thd

LEMMA BegunFields ==
  ASSUME NEW j \in Job, NEW t \in Thd
  PROVE  /\ Begun(j, t).client = j.client /\ Begun(j, t).cmd = j.cmd
         /\ Begun(j, t).length = j.length /\ Begun(j, t).posted = j.posted
         /\ Begun(j, t).bytes = j.bytes
         /\ Begun(j, t).begun = TRUE /\ Begun(j, t).thd = t
BY DEF Job, Begun

LEMMA CopiedFields ==
  ASSUME NEW j \in Job, NEW t \in Thd
  PROVE  /\ Copied(j, t).client = j.client /\ Copied(j, t).cmd = j.cmd
         /\ Copied(j, t).length = j.length /\ Copied(j, t).posted = j.posted
         /\ Copied(j, t).bytes = j.bytes
         /\ Copied(j, t).begun = j.begun /\ Copied(j, t).thd = t
BY DEF Job, Copied

LEMMA JobsTyped ==
  ASSUME Types
  PROVE  /\ \A w \in Worker : \A j \in job[w] : j \in Job /\ j.client \in Client
         /\ \A i \in 1 .. Len(tasks) : tasks[i] \in Job /\ tasks[i].client \in Client
<1>1. ASSUME NEW w \in Worker, NEW j \in job[w] PROVE j \in Job
  BY DEF Types
<1>2. ASSUME NEW i \in 1 .. Len(tasks) PROVE tasks[i] \in Job
  <2>1. tasks \in Seq(Job)
    BY DEF Types
  <2> QED BY <2>1, ElementOfSeq
<1>3. 0 \in Nat
  OBVIOUS
<1> QED BY <1>1, <1>2, <1>3, JobFields

LEMMA WritesTyped ==
  ASSUME Types, NEW x \in writing
  PROVE  x.client \in Client /\ x.packet \in Packet /\ x.packet.bytes \in Nat
<1>1. x \in [client : Client, packet : Packet]
  BY DEF Types
<1>2. x.client \in Client /\ x.packet \in Packet
  BY <1>1
<1> QED BY <1>2 DEF Packet

LEMMA BytesTyped == ASSUME NEW b \in PacketBytes PROVE b \in Nat /\ b > 0
  BY ServerAssumption

-----------------------------------------------------------------------------
(* What the worker and the poll thread pick for their steps.                *)

\* The queue without its first task
LEMMA Taken ==
  ASSUME Types, NEW w \in Worker, Take(w)
  PROVE  /\ Len(tasks) \in Nat \ {0} /\ Head(tasks) = tasks[1]
         /\ Len(tasks') = Len(tasks) - 1
         /\ \A i \in 1 .. Len(tasks') : tasks'[i] = tasks[i + 1]
         /\ job' = [job EXCEPT ![w] = {tasks[1]}] /\ job[w] = {}
         /\ UNCHANGED <<netVars, handleVars, got, sent, dropped, freed>>
<1>1. tasks \in Seq(Job) /\ tasks # <<>> /\ tasks' = Tail(tasks)
  BY DEF Types, Take
<1>2. Len(tasks) \in Nat \ {0} /\ Head(tasks) = tasks[1]
  BY <1>1, EmptySeq
<1>3. Len(tasks') = Len(tasks) - 1 /\ \A i \in 1 .. Len(tasks') : tasks'[i] = tasks[i + 1]
  BY <1>1, HeadTailProperties
<1> QED BY <1>2, <1>3 DEF Take

LEMMA PickedUseFreed ==
  ASSUME Types, Flow, NEW w \in Worker, UseFreed(w)
  PROVE  \E j \in job[w] :
           /\ j \in Job /\ j.client \in Client /\ Live(j) /\ ~exists[j.client]
           /\ freed' = freed \cup {j.client} /\ job' = [job EXCEPT ![w] = {}]
           /\ UNCHANGED <<netVars, handleVars, tasks, got, sent, dropped>>
<1>1. PICK j \in job[w] :
        /\ ~exists[j.client] /\ (~j.begun \/ j.thd = "copying" \/ j.posted < j.length)
        /\ freed' = freed \cup {j.client} /\ job' = [job EXCEPT ![w] = {}]
        /\ UNCHANGED <<netVars, handleVars, tasks, got, sent, dropped>>
  BY DEF UseFreed
<1>2. j \in Job /\ j.client \in Client
  BY JobsTyped
<1>3. Live(j)
  BY <1>1 DEF Flow, RunningOK, Live
<1> QED BY <1>1, <1>2, <1>3

LEMMA PickedBegin ==
  ASSUME Types, NEW w \in Worker, Begin(w)
  PROVE  \E j \in job[w] : \E t \in {"none", "copying"} :
           /\ j \in Job /\ j.client \in Client /\ exists[j.client] /\ ~j.begun
           /\ job' = [job EXCEPT ![w] = {Begun(j, t)}]
           /\ UNCHANGED <<netVars, handleVars, tasks, got, sent, dropped, freed>>
<1>1. PICK j \in job[w] :
           /\ exists[j.client] /\ ~j.begun
           /\ job' = [job EXCEPT ![w] =
                {Begun(j, IF self[j.client] /\ j.kind = "query" THEN "copying" ELSE "none")}]
           /\ UNCHANGED <<netVars, handleVars, tasks, got, sent, dropped, freed>>
  BY DEF Begin, Begun
<1>2. PICK t \in {"none", "copying"} :
        t = IF self[j.client] /\ j.kind = "query" THEN "copying" ELSE "none"
  OBVIOUS
<1> QED BY <1>1, <1>2, JobsTyped

LEMMA PickedHold ==
  ASSUME Types, NEW w \in Worker, Hold(w)
  PROVE  \E j \in job[w] : \E t \in {"none", "held"} :
           /\ j \in Job /\ j.client \in Client /\ exists[j.client] /\ j.thd = "copying"
           /\ job' = [job EXCEPT ![w] = {Copied(j, t)}]
           /\ UNCHANGED <<netVars, handleVars, tasks, got, sent, dropped, freed>>
<1>1. PICK j \in job[w] : \E held \in BOOLEAN :
           /\ exists[j.client] /\ j.thd = "copying"
           /\ job' = [job EXCEPT ![w] = {Copied(j, IF held THEN "held" ELSE "none")}]
           /\ UNCHANGED <<netVars, handleVars, tasks, got, sent, dropped, freed>>
  BY DEF Hold, Copied
<1>2. PICK held \in BOOLEAN :
           /\ exists[j.client] /\ j.thd = "copying"
           /\ job' = [job EXCEPT ![w] = {Copied(j, IF held THEN "held" ELSE "none")}]
           /\ UNCHANGED <<netVars, handleVars, tasks, got, sent, dropped, freed>>
  BY <1>1
<1>3. PICK t \in {"none", "held"} : t = IF held THEN "held" ELSE "none"
  OBVIOUS
<1> QED BY <1>2, <1>3, JobsTyped

NewPacket(j, n, b) == [cmd |-> j.cmd, seq |-> n, last |-> n = j.length, bytes |-> b]

LEMMA PickedPost ==
  ASSUME Types, NEW w \in Worker, Post(w)
  PROVE  \E j \in job[w] : \E b \in PacketBytes :
           /\ j \in Job /\ j.client \in Client /\ exists[j.client]
           /\ j.begun /\ j.thd # "copying" /\ j.posted < j.length
           /\ seq' = [seq EXCEPT ![j.client] = seq[j.client] + 1]
           /\ Posted(j.client, NewPacket(j, seq[j.client] + 1, b), j.bytes)
           /\ job' = [job EXCEPT ![w] = {OnePosted(j, b)}]
           /\ UNCHANGED <<netVars, exists, self, tasks, got, sent, freed>>
BY JobsTyped DEF Post, OnePosted, NewPacket

LEMMA PacketFields ==
  ASSUME NEW j \in Job, NEW n \in Nat, NEW b \in Nat
  PROVE  /\ NewPacket(j, n, b) \in Packet
         /\ NewPacket(j, n, b).cmd = j.cmd /\ NewPacket(j, n, b).seq = n
         /\ NewPacket(j, n, b).last <=> n = j.length
         /\ NewPacket(j, n, b).bytes = b
BY JobFields DEF NewPacket, Packet

LEMMA PickedFinish ==
  ASSUME Types, NEW w \in Worker, Finish(w)
  PROVE  \E j \in job[w] :
           /\ j \in Job /\ j.client \in Client /\ j.begun /\ j.posted = j.length
           /\ job' = [job EXCEPT ![w] = {}]
           /\ exists' = [exists EXCEPT ![j.client] =
                @ /\ (j.thd # "held" \/ self[j.client] \/ conn[j.client] = "closing"
                      \/ HeldBesides(j.client, w))]
           /\ UNCHANGED <<netVars, self, seq, cacheVars, tasks, got, sent, dropped, freed>>
BY JobsTyped DEF Finish

\* What is left of the cache when x has been written
Rest(x) == IF cache[x.client] # <<>> /\ Head(cache[x.client]) = x.packet
           THEN Tail(cache[x.client]) ELSE <<>>
RestBytes(x) == IF cache[x.client] # <<>> /\ Head(cache[x.client]) = x.packet
                THEN stored[x.client] - x.packet.bytes ELSE 0

LEMMA PickedReturn ==
  ASSUME Types, NEW c \in Client, WriteReturns(c)
  PROVE  \E x \in writing :
           /\ x.client = c /\ x.packet \in Packet /\ writing' = {}
           /\ cache' = [cache EXCEPT ![c] = Rest(x)]
           /\ stored' = [stored EXCEPT ![c] = RestBytes(x)]
           /\ moved' = [moved EXCEPT ![c] = TRUE]
           /\ Rest(x) \in Seq(Packet) /\ RestBytes(x) \in Int
           /\ IF side[c] = "gone" THEN UNCHANGED <<side, got>>
              ELSE /\ got' = [got EXCEPT ![c] = Append(@, x.packet)]
                   /\ side' = [side EXCEPT ![c] =
                        IF x.packet.last /\ x.packet.seq = Len(got[c]) + 1 THEN "idle" ELSE @]
           /\ UNCHANGED <<conn, inbox, clients, up, exists, self, seq, tasks, job, sent, dropped, freed>>
<1>1. PICK x \in writing :
           /\ x.client = c /\ writing' = {}
           /\ cache' = [cache EXCEPT ![c] = Rest(x)]
           /\ stored' = [stored EXCEPT ![c] = RestBytes(x)]
           /\ moved' = [moved EXCEPT ![c] = TRUE]
           /\ IF side[c] = "gone" THEN UNCHANGED <<side, got>>
              ELSE /\ got' = [got EXCEPT ![c] = Append(@, x.packet)]
                   /\ side' = [side EXCEPT ![c] =
                        IF x.packet.last /\ x.packet.seq = Len(got[c]) + 1 THEN "idle" ELSE @]
           /\ UNCHANGED <<conn, inbox, clients, up, exists, self, seq, tasks, job, sent, dropped, freed>>
  BY Zenon DEF WriteReturns, Rest, RestBytes
<1>2. x.packet \in Packet /\ x.packet.bytes \in Nat
  BY WritesTyped
<1>3. Rest(x) \in Seq(Packet)
  <2>1. cache[c] \in Seq(Packet) /\ <<>> \in Seq(Packet)
    BY DEF Types
  <2> QED BY <1>1, <2>1, HeadTailProperties DEF Rest
<1>4. RestBytes(x) \in Int
  BY <1>1, <1>2 DEF RestBytes, Types
<1> QED BY <1>1, <1>2, <1>3, <1>4

-----------------------------------------------------------------------------
(* The types.                                                               *)

\* The command a connection reads next
LEMMA NextCommand ==
  ASSUME IInv, NEW c \in Client, ReadSocket(c)
  PROVE  /\ Head(inbox[c]) \in Command /\ Tail(inbox[c]) = <<>>
         /\ inbox' = [inbox EXCEPT ![c] = <<>>]
         /\ Sent(c)
<1>1. Sent(c) /\ inbox[c] \in Seq(Command \cup {Auth})
  BY DEF IInv, Types, ReadSocket, Sent
<1>2. Len(inbox[c]) = 1 /\ inbox[c][1] \in Command
  BY <1>1 DEF IInv, Flow, SentOK
<1>3. Head(inbox[c]) = inbox[c][1]
  BY <1>1, <1>2
<1>4. Tail(inbox[c]) = <<>>
  <2> DEFINE q == inbox[c]
  <2>1. q \in Seq(Command \cup {Auth}) /\ Len(q) = 1 /\ q # <<>>
    BY <1>1, <1>2
  <2> HIDE DEF q
  <2>2. Tail(q) \in Seq(Command \cup {Auth}) /\ Len(Tail(q)) = 0
    BY <2>1, HeadTailProperties
  <2> QED BY <2>2, EmptySeq DEF q
<1> QED BY <1>1, <1>2, <1>3, <1>4 DEF ReadSocket

\* The one packet of a direct answer
LEMMA ReadPosts ==
  ASSUME IInv, NEW c \in Client, ReadSocket(c), Head(inbox[c]).kind = "direct"
  PROVE  \E p \in Packet : Posted(c, p, 0) /\ p.cmd = sent[c] /\ p.seq = 1
<1>1. PICK b \in PacketBytes :
        Posted(c, [cmd |-> sent[c], seq |-> 1, last |-> TRUE, bytes |-> b], 0)
  BY DEF ReadSocket
<1>2. b \in Nat /\ sent[c] \in Nat
  BY BytesTyped DEF IInv, Types
<1>3. [cmd |-> sent[c], seq |-> 1, last |-> TRUE, bytes |-> b] \in Packet
  BY <1>2 DEF Packet
<1> QED BY <1>1, <1>3

LEMMA TypesKept == ASSUME IInv, Next PROVE Types'
<1> USE DEF IInv
<1>1. ASSUME NEW c \in Client, Connect(c) \/ Authenticate(c) \/ Leave(c) PROVE Types'
  <2>1. CASE Connect(c)
    BY <2>1 DEF Types, Connect, handleVars, cacheVars
  <2>2. CASE Authenticate(c)
    <3>1. <<Auth>> \in Seq(Command \cup {Auth})
      OBVIOUS
    <3> QED BY <2>2, <3>1 DEF Types, Authenticate, handleVars, cacheVars
  <2>3. CASE Leave(c)
    BY <2>3 DEF Types, Leave, handleVars, cacheVars
  <2> QED BY <1>1, <2>1, <2>2, <2>3
<1>2. ASSUME NEW c \in Client, NEW m \in Command, Send(c, m) PROVE Types'
  BY <1>2 DEF Types, Send, handleVars, cacheVars
<1>3. ASSUME NEW c \in Client, Accept(c) PROVE Types'
  BY <1>3 DEF Types, Accept, handleVars, cacheVars
<1>4. ASSUME NEW c \in Client, LoginDone(c) \/ LoginFailed(c) PROVE Types'
  <2>1. inbox' = [inbox EXCEPT ![c] = <<>>] /\ <<>> \in Seq(Command \cup {Auth})
    BY <1>4 DEF LoginDone, LoginFailed
  <2>2. inbox' \in [Client -> Seq(Command \cup {Auth})]
    BY <2>1 DEF Types
  <2>3. CASE LoginDone(c)
    BY <2>2, <2>3 DEF Types, LoginDone, cacheVars
  <2>4. CASE LoginFailed(c)
    BY <2>2, <2>4 DEF Types, LoginFailed, handleVars, cacheVars
  <2> QED BY <1>4, <2>3, <2>4
<1>5. ASSUME NEW c \in Client, ReadSocket(c) PROVE Types'
  <2> DEFINE m == Head(inbox[c])
  <2>1. m \in Command /\ inbox' = [inbox EXCEPT ![c] = <<>>]
    BY <1>5, NextCommand
  <2>2. inbox' \in [Client -> Seq(Command \cup {Auth})]
    <3>1. <<>> \in Seq(Command \cup {Auth})
      OBVIOUS
    <3> QED BY <2>1, <3>1 DEF Types
  <2>3. CASE m.kind = "direct"
    <3>1. PICK p \in Packet : Posted(c, p, 0)
      BY <1>5, <2>3, ReadPosts
    <3>2. /\ cache' \in [Client -> Seq(Packet)] /\ stored' \in [Client -> Int]
          /\ dropped' \in SUBSET Answer /\ moved' = moved
      BY <3>1, PostedWhat
    <3>3. /\ seq' = [seq EXCEPT ![c] = 1] /\ tasks' = tasks
          /\ UNCHANGED <<side, conn, clients, up, writing, exists, self, job, got, sent, freed>>
      BY <1>5, <2>3 DEF ReadSocket
    <3> QED BY <2>2, <3>2, <3>3 DEF Types
  <2>4. CASE m.kind # "direct"
    <3>1. NewJob(c, sent[c], m) \in Job
      BY <2>1, <2>4, JobTypes DEF Types
    <3>2. /\ tasks' = Append(tasks, NewJob(c, sent[c], m))
          /\ UNCHANGED <<cache, stored, moved, dropped>>
          /\ seq' = [seq EXCEPT ![c] = 0]
          /\ UNCHANGED <<side, conn, clients, up, writing, exists, self, job, got, sent, freed>>
      BY <1>5, <2>4 DEF ReadSocket, NewJob, cacheVars
    <3>3. tasks' \in Seq(Job)
      BY <3>1, <3>2 DEF Types
    <3> QED BY <2>2, <3>2, <3>3, SMTT(30) DEF Types
  <2> QED BY <2>3, <2>4
<1>6. ASSUME NEW c \in Client, Close(c) \/ Release(c) PROVE Types'
  <2>1. <<>> \in Seq(Command \cup {Auth}) /\ (self[c] \/ Held(c)) \in BOOLEAN
    OBVIOUS
  <2>2. CASE Close(c)
    <3>1. inbox' \in [Client -> Seq(Command \cup {Auth})]
      BY <2>1, <2>2 DEF Types, Close
    <3> QED BY <2>2, <3>1 DEF Types, Close, cacheVars
  <2>3. CASE Release(c)
    <3>1. exists' \in [Client -> BOOLEAN]
      BY <2>1, <2>3 DEF Types, Release
    <3> QED BY <2>3, <3>1 DEF Types, Release, cacheVars
  <2> QED BY <1>6, <2>2, <2>3
<1>7. ASSUME NEW c \in Client, WriteSocket(c) PROVE Types'
  <2>1. cache[c] \in Seq(Packet) /\ cache[c] # <<>>
    BY <1>7 DEF Types, WriteSocket
  <2>2. Head(cache[c]) \in Packet
    BY <2>1
  <2>3. writing' \in SUBSET [client : Client, packet : Packet]
    BY <1>7, <2>2 DEF WriteSocket
  <2> QED BY <1>7, <2>3 DEF Types, WriteSocket, handleVars, cacheVars
<1>8. ASSUME NEW c \in Client, WriteFails(c) PROVE Types'
  BY <1>8 DEF Types, WriteFails, handleVars, cacheVars
<1>9. ASSUME NEW w \in Worker, Take(w) PROVE Types'
  <2>1. tasks \in Seq(Job) /\ tasks # <<>>
    BY <1>9 DEF Types, Take
  <2>2. Head(tasks) \in Job /\ Tail(tasks) \in Seq(Job)
    BY <2>1
  <2> QED BY <1>9, <2>2 DEF Types, Take, netVars, handleVars, cacheVars
<1>10. ASSUME NEW w \in Worker, UseFreed(w) PROVE Types'
  <2>1. PICK j \in job[w] :
          /\ j.client \in Client
          /\ freed' = freed \cup {j.client}
          /\ job' = [job EXCEPT ![w] = {}]
          /\ UNCHANGED <<netVars, handleVars, tasks, got, sent, dropped>>
    BY <1>10, PickedUseFreed
  <2>2. job' \in [Worker -> SUBSET Job]
    BY <2>1 DEF Types
  <2> QED BY <2>1, <2>2 DEF Types, netVars, handleVars, cacheVars
<1>11. ASSUME NEW w \in Worker, Begin(w) \/ Hold(w) PROVE Types'
  <2>1. PICK k \in Job :
          /\ job' = [job EXCEPT ![w] = {k}]
          /\ UNCHANGED <<netVars, handleVars, tasks, got, sent, dropped, freed>>
    BY <1>11, PickedBegin, PickedHold, JobTypes DEF Thd
  <2> QED BY <2>1 DEF Types, netVars, handleVars, cacheVars
<1>12. ASSUME NEW w \in Worker, Post(w) PROVE Types'
  <2>1. PICK j \in job[w] : \E b \in PacketBytes :
           /\ j \in Job /\ j.client \in Client
           /\ seq' = [seq EXCEPT ![j.client] = seq[j.client] + 1]
           /\ Posted(j.client, NewPacket(j, seq[j.client] + 1, b), j.bytes)
           /\ job' = [job EXCEPT ![w] = {OnePosted(j, b)}]
           /\ UNCHANGED <<netVars, exists, self, tasks, got, sent, freed>>
    BY <1>12, PickedPost
  <2>2. PICK b \in PacketBytes :
           /\ seq' = [seq EXCEPT ![j.client] = seq[j.client] + 1]
           /\ Posted(j.client, NewPacket(j, seq[j.client] + 1, b), j.bytes)
           /\ job' = [job EXCEPT ![w] = {OnePosted(j, b)}]
           /\ UNCHANGED <<netVars, exists, self, tasks, got, sent, freed>>
    BY <2>1
  <2>3. seq[j.client] + 1 \in Nat /\ b \in Nat
    BY <2>1, BytesTyped DEF Types
  <2>4. PICK p \in Packet : Posted(j.client, p, j.bytes)
    BY <2>1, <2>2, <2>3, PacketFields
  <2>5. /\ cache' \in [Client -> Seq(Packet)] /\ stored' \in [Client -> Int]
        /\ dropped' \in SUBSET Answer /\ moved' = moved
    BY <2>1, <2>3, <2>4, JobFields, PostedWhat
  <2>6. OnePosted(j, b) \in Job
    BY <2>1, <2>3, JobTypes
  <2> QED BY <2>2, <2>3, <2>5, <2>6 DEF Types, netVars
<1>13. ASSUME NEW w \in Worker, Finish(w) PROVE Types'
  <2>1. PICK j \in job[w] :
          /\ job' = [job EXCEPT ![w] = {}]
          /\ exists' = [exists EXCEPT ![j.client] =
               @ /\ (j.thd # "held" \/ self[j.client] \/ conn[j.client] = "closing"
                     \/ HeldBesides(j.client, w))]
          /\ UNCHANGED <<netVars, self, seq, cacheVars, tasks, got, sent, dropped, freed>>
    BY <1>13, PickedFinish
  <2> DEFINE still == /\ exists[j.client]
                      /\ \/ j.thd # "held" \/ self[j.client] \/ conn[j.client] = "closing"
                         \/ HeldBesides(j.client, w)
  <2>2. exists' = [exists EXCEPT ![j.client] = still] /\ still \in BOOLEAN
    BY <2>1
  <2>3. exists' \in [Client -> BOOLEAN]
    <3> HIDE DEF still
    <3> QED BY <2>2 DEF Types
  <2>4. job' \in [Worker -> SUBSET Job]
    BY <2>1 DEF Types
  <2> QED BY <2>1, <2>3, <2>4 DEF Types, netVars, cacheVars
<1>14. ASSUME NEW c \in Client, WriteReturns(c) PROVE Types'
  <2>1. PICK x \in writing :
           /\ x.packet \in Packet /\ writing' = {}
           /\ cache' = [cache EXCEPT ![c] = Rest(x)]
           /\ stored' = [stored EXCEPT ![c] = RestBytes(x)]
           /\ moved' = [moved EXCEPT ![c] = TRUE]
           /\ Rest(x) \in Seq(Packet) /\ RestBytes(x) \in Int
           /\ IF side[c] = "gone" THEN UNCHANGED <<side, got>>
              ELSE /\ got' = [got EXCEPT ![c] = Append(@, x.packet)]
                   /\ side' = [side EXCEPT ![c] =
                        IF x.packet.last /\ x.packet.seq = Len(got[c]) + 1 THEN "idle" ELSE @]
           /\ UNCHANGED <<conn, inbox, clients, up, exists, self, seq, tasks, job, sent, dropped, freed>>
    BY <1>14, PickedReturn
  <2>2. got' \in [Client -> Seq(Packet)]
    <3>1. Append(got[c], x.packet) \in Seq(Packet)
      BY <2>1 DEF Types
    <3>2. got' = got \/ got' = [got EXCEPT ![c] = Append(got[c], x.packet)]
      BY <2>1
    <3> QED BY <3>1, <3>2 DEF Types
  <2>3. side' \in [Client -> {"outside", "login", "idle", "wait", "gone"}]
    BY <2>1 DEF Types
  <2>4. /\ cache' \in [Client -> Seq(Packet)] /\ stored' \in [Client -> Int]
        /\ moved' \in [Client -> BOOLEAN]
    BY <2>1 DEF Types
  <2> QED BY <2>1, <2>2, <2>3, <2>4 DEF Types
<1>15. ASSUME NEW c \in Client, PollStep(c) PROVE Types'
  BY <1>3, <1>4, <1>5, <1>6, <1>7, <1>8, <1>14, <1>15 DEF PollStep
<1>16. ASSUME NEW w \in Worker, WorkerStep(w) PROVE Types'
  BY <1>9, <1>10, <1>11, <1>12, <1>13, <1>16 DEF WorkerStep
<1> QED BY <1>1, <1>2, <1>15, <1>16 DEF Next
-----------------------------------------------------------------------------
(* The two ends agree.                                                      *)

LEMMA PlacesKept == ASSUME IInv, Next PROVE Places'
<1>1. /\ side \in [Client -> {"outside", "login", "idle", "wait", "gone"}]
      /\ conn \in [Client -> {"none", "login", "open", "rejected", "leaked", "closing", "closed"}]
      /\ DOMAIN inbox = Client
      /\ \A x \in writing : x.client \in Client
      /\ Places
  BY WritesTyped DEF IInv, Types
<1>2. ASSUME NEW c \in Client, Connect(c) \/ Authenticate(c) \/ Leave(c) PROVE Places'
  BY <1>1, <1>2 DEF Places, Connect, Authenticate, Leave
<1>3. ASSUME NEW c \in Client, NEW m \in Command, Send(c, m) PROVE Places'
  BY <1>1, <1>3 DEF Places, Send
<1>4. ASSUME NEW c \in Client, Accept(c) PROVE Places'
  <2>1. writing' = {} /\ \A d \in Client : conn[d] \notin {"login", "closing"}
    BY <1>4 DEF Accept, Polling
  <2> QED BY <1>1, <1>4, <2>1 DEF Places, Accept
<1>5. ASSUME NEW c \in Client, LoginDone(c) \/ LoginFailed(c) \/ Release(c) PROVE Places'
  <2>1. writing' = {}
    BY <1>1, <1>5 DEF Places, LoginDone, LoginFailed, Release
  <2> QED BY <1>1, <1>5, <2>1 DEF Places, LoginDone, LoginFailed, Release
<1>6. ASSUME NEW c \in Client, ReadSocket(c) PROVE Places'
  <2>1. /\ inbox' = [inbox EXCEPT ![c] = Tail(@)] /\ conn[c] = "open"
        /\ UNCHANGED <<side, conn, writing>>
    BY <1>6 DEF ReadSocket
  <2> QED BY <1>1, <2>1 DEF Places
<1>7. ASSUME NEW c \in Client, Close(c) PROVE Places'
  <2>1. writing' = {} /\ \A d \in Client : conn[d] \notin {"login", "closing"}
    BY <1>7 DEF Close, Polling
  <2> QED BY <1>1, <1>7, <2>1 DEF Places, Close
<1>8. ASSUME NEW c \in Client, WriteSocket(c) PROVE Places'
  <2>1. /\ UNCHANGED <<side, conn, inbox>> /\ conn[c] = "open"
        /\ \A d \in Client : conn[d] \notin {"login", "closing"}
        /\ writing' = {[client |-> c, packet |-> Head(cache[c])]}
    BY <1>8 DEF WriteSocket, Polling
  <2>2. \A x \in writing' : x.client = c
    BY <2>1
  <2>3. \A x, y \in writing' : x = y
    BY <2>1
  <2> QED BY <1>1, <2>1, <2>2, <2>3 DEF Places
<1>9. ASSUME UNCHANGED netVars PROVE Places'
  BY <1>1, <1>9 DEF Places, netVars
<1>10. ASSUME NEW c \in Client, WriteFails(c) PROVE Places'
  BY <1>1, <1>10 DEF Places, WriteFails
<1>11. ASSUME NEW w \in Worker, WorkerStep(w) PROVE UNCHANGED netVars
  BY <1>11 DEF WorkerStep, Take, UseFreed, Begin, Hold, Post, Finish
<1>12. ASSUME NEW c \in Client, WriteReturns(c) PROVE Places'
  <2>1. /\ UNCHANGED <<conn, inbox>> /\ conn[c] = "open" /\ writing' = {}
        /\ side' = side \/ side' = [side EXCEPT ![c] = "idle"]
    BY <1>1, <1>12, PickedReturn DEF IInv, Places
  <2> QED BY <1>1, <2>1 DEF Places
<1>13. ASSUME NEW c \in Client, PollStep(c) PROVE Places'
  BY <1>4, <1>5, <1>6, <1>7, <1>8, <1>10, <1>12, <1>13 DEF PollStep
<1> QED BY <1>2, <1>3, <1>9, <1>11, <1>13 DEF Next

-----------------------------------------------------------------------------
(* Counting the connections.                                                *)

LEMMA OpenFinite == IsFiniteSet(Open) /\ Cardinality(Open) \in Nat
<1>1. Open \subseteq Client
  BY DEF Open
<1> QED BY <1>1, ServerAssumption, FS_Subset, FS_CardinalityType

LEMMA CountedKept == ASSUME IInv, Next PROVE Counted'
<1>1. /\ conn \in [Client -> {"none", "login", "open", "rejected", "leaked", "closing", "closed"}]
      /\ clients \in Int /\ MaxClients \in Nat
      /\ \A c, d \in Client :
           conn[c] \in {"login", "closing"} /\ conn[d] \in {"login", "closing"} => c = d
      /\ Counted
  BY ServerAssumption DEF IInv, Types, Places
<1>2. ASSUME UNCHANGED <<conn, clients>> PROVE Counted'
  BY <1>1, <1>2 DEF Counted, Open
<1>3. ASSUME NEW c \in Client, Accept(c) PROVE Counted'
  <2>1. Open' = Open /\ clients' = clients
    BY <1>1, <1>3 DEF Accept, Open
  <2>2. (\E d \in Client : conn'[d] = "login") => clients < MaxClients
    BY <1>1, <1>3 DEF Accept, Polling, Counted
  <2> QED BY <1>1, <2>1, <2>2 DEF Counted
<1>4. ASSUME NEW c \in Client, LoginDone(c) PROVE Counted'
  <2>1. conn[c] = "login" /\ conn' = [conn EXCEPT ![c] = "open"] /\ clients' = clients + 1
    BY <1>4 DEF LoginDone
  <2>2. /\ Open' = Open \cup {c} /\ c \notin Open /\ clients < MaxClients
        /\ \A d \in Client : conn'[d] # "login"
    BY <1>1, <2>1 DEF Open, Counted
  <2>3. Cardinality(Open \cup {c}) = Cardinality(Open) + 1
    BY <2>2, OpenFinite, FS_AddElement
  <2> QED BY <1>1, <2>1, <2>2, <2>3 DEF Counted
<1>5. ASSUME NEW c \in Client, LoginFailed(c) \/ Release(c) PROVE Counted'
  <2>1. /\ Open' = Open /\ clients' = clients
        /\ \A d \in Client : conn'[d] = "login" => conn[d] = "login"
    BY <1>1, <1>5 DEF LoginFailed, Release, Open
  <2> QED BY <1>1, <2>1 DEF Counted
<1>6. ASSUME NEW c \in Client, Close(c) PROVE Counted'
  <2>1. /\ conn[c] = "open" /\ conn' = [conn EXCEPT ![c] = "closing"]
        /\ clients' = clients - 1
    BY <1>6 DEF Close
  <2>2. /\ Open' = Open \ {c} /\ c \in Open
        /\ \A d \in Client : conn'[d] = "login" => conn[d] = "login"
    BY <1>1, <2>1 DEF Open
  <2>3. Cardinality(Open \ {c}) = Cardinality(Open) - 1
    BY <2>2, OpenFinite, FS_RemoveElement
  <2> QED BY <1>1, <2>1, <2>2, <2>3 DEF Counted
<1>7. ASSUME NEW c \in Client,
             \/ Connect(c) \/ Authenticate(c) \/ Leave(c)
             \/ ReadSocket(c) \/ WriteSocket(c) \/ WriteReturns(c) \/ WriteFails(c)
      PROVE  UNCHANGED <<conn, clients>>
  BY <1>7 DEF Connect, Authenticate, Leave, ReadSocket, WriteSocket, WriteReturns, WriteFails
<1>8. ASSUME NEW c \in Client, NEW m \in Command, Send(c, m) PROVE UNCHANGED <<conn, clients>>
  BY <1>8 DEF Send
<1>9. ASSUME NEW w \in Worker, WorkerStep(w) PROVE UNCHANGED <<conn, clients>>
  BY <1>9 DEF WorkerStep, Take, UseFreed, Begin, Hold, Post, Finish, netVars
<1> QED
  BY <1>2, <1>3, <1>4, <1>5, <1>6, <1>7, <1>8, <1>9 DEF Next, PollStep

-----------------------------------------------------------------------------
(* The handles.                                                             *)

LEMMA HandlesKept == ASSUME IInv, Next PROVE Handles'
<1>1. /\ side \in [Client -> {"outside", "login", "idle", "wait", "gone"}]
      /\ conn \in [Client -> {"none", "login", "open", "rejected", "leaked", "closing", "closed"}]
      /\ exists \in [Client -> BOOLEAN] /\ self \in [Client -> BOOLEAN]
      /\ DOMAIN job = Worker /\ freed \subseteq Client
      /\ \A c \in Client : self[c] = (conn[c] = "open")
      /\ \A c \in Client : conn[c] \in {"open", "closing"} => exists[c]
      /\ \A w \in Worker : \A j \in job[w] :
           j \in Job /\ j.client \in Client /\ (j.thd = "held" => exists[j.client])
      /\ \A c \in freed : side[c] = "gone"
      /\ Types
  BY JobsTyped DEF IInv, Types, Handles, PlanKeepsHandle, FreedForLeaversOnly
<1>2. ASSUME UNCHANGED <<conn, exists, self, job, freed>>,
             \A c \in Client : side[c] = "gone" => side'[c] = "gone"
      PROVE  Handles'
  BY <1>1, <1>2 DEF Handles, PlanKeepsHandle, FreedForLeaversOnly
<1>3. ASSUME NEW c \in Client,
             \/ Connect(c) \/ Authenticate(c) \/ Leave(c)
             \/ ReadSocket(c) \/ WriteSocket(c) \/ WriteReturns(c) \/ WriteFails(c)
      PROVE  /\ UNCHANGED <<conn, exists, self, job, freed>>
             /\ \A d \in Client : side[d] = "gone" => side'[d] = "gone"
  <2>1. CASE Connect(c) \/ Authenticate(c) \/ Leave(c)
    BY <1>1, <2>1 DEF Connect, Authenticate, Leave, handleVars
  <2>2. CASE ReadSocket(c)
    BY <2>2 DEF ReadSocket
  <2>3. CASE WriteSocket(c) \/ WriteFails(c)
    BY <1>1, <2>3 DEF WriteSocket, WriteFails, handleVars
  <2>4. CASE WriteReturns(c)
    BY <1>1, <2>4, PickedReturn
  <2> QED BY <1>3, <2>1, <2>2, <2>3, <2>4
<1>4. ASSUME NEW c \in Client, NEW m \in Command, Send(c, m)
      PROVE  /\ UNCHANGED <<conn, exists, self, job, freed>>
             /\ \A d \in Client : side[d] = "gone" => side'[d] = "gone"
  BY <1>1, <1>4 DEF Send, handleVars
<1>5. ASSUME NEW c \in Client, Accept(c) \/ LoginFailed(c) PROVE Handles'
  <2>1. /\ \A d \in Client : conn'[d] \in {"open", "closing"} => conn'[d] = conn[d]
        /\ \A d \in Client : (conn'[d] = "open") = (conn[d] = "open")
        /\ \A d \in Client : side[d] = "gone" => side'[d] = "gone"
        /\ UNCHANGED <<exists, self, job, freed>>
    BY <1>1, <1>5 DEF Accept, LoginFailed, handleVars
  <2> QED BY <1>1, <2>1 DEF Handles, PlanKeepsHandle, FreedForLeaversOnly
<1>6. ASSUME NEW c \in Client, LoginDone(c) PROVE Handles'
  <2>1. /\ \A d \in Client : side[d] = "gone" => side'[d] = "gone"
        /\ conn' = [conn EXCEPT ![c] = "open"]
        /\ exists' = [exists EXCEPT ![c] = TRUE] /\ self' = [self EXCEPT ![c] = TRUE]
        /\ UNCHANGED <<job, freed>>
    BY <1>1, <1>6 DEF LoginDone
  <2>2. \A d \in Client : /\ self'[d] = (conn'[d] = "open")
                          /\ conn'[d] \in {"open", "closing"} => exists'[d]
    BY <1>1, <2>1
  <2>3. PlanKeepsHandle' /\ FreedForLeaversOnly'
    BY <1>1, <2>1 DEF PlanKeepsHandle, FreedForLeaversOnly
  <2> QED BY <2>2, <2>3 DEF Handles
<1>7. ASSUME NEW c \in Client, Close(c) PROVE Handles'
  <2>1. /\ conn[c] = "open" /\ conn' = [conn EXCEPT ![c] = "closing"]
        /\ self' = [self EXCEPT ![c] = FALSE]
        /\ UNCHANGED <<side, exists, job, freed>>
    BY <1>7 DEF Close
  <2>2. \A d \in Client : /\ self'[d] = (conn'[d] = "open")
                          /\ conn'[d] \in {"open", "closing"} => exists'[d]
    BY <1>1, <2>1
  <2> QED BY <1>1, <2>1, <2>2 DEF Handles, PlanKeepsHandle, FreedForLeaversOnly
<1>8. ASSUME NEW c \in Client, Release(c) PROVE Handles'
  <2>1. /\ conn[c] = "closing" /\ conn' = [conn EXCEPT ![c] = "closed"]
        /\ exists' = [exists EXCEPT ![c] = Held(c)] /\ Held(c) \in BOOLEAN
        /\ UNCHANGED <<side, self, job, freed>>
    BY <1>1, <1>8 DEF Release, Held
  <2>2. \A d \in Client : /\ self'[d] = (conn'[d] = "open")
                          /\ conn'[d] \in {"open", "closing"} => exists'[d]
    BY <1>1, <2>1
  <2>3. ASSUME NEW w \in Worker, NEW j \in job[w], j.thd = "held" PROVE exists'[j.client]
    <3>1. j.client = c => Held(c)
      BY <2>3 DEF Held
    <3>2. j.client \in Client /\ exists[j.client]
      BY <1>1, <2>3
    <3> QED BY <1>1, <2>1, <3>1, <3>2
  <2> QED BY <1>1, <2>1, <2>2, <2>3 DEF Handles, PlanKeepsHandle, FreedForLeaversOnly
<1>9. ASSUME NEW w \in Worker, Take(w) PROVE Handles'
  <2>1. /\ job' = [job EXCEPT ![w] = {tasks[1]}] /\ Len(tasks) \in Nat \ {0}
        /\ UNCHANGED <<side, conn, exists, self, freed>>
    BY <1>1, <1>9, Taken DEF netVars, handleVars
  <2>2. tasks[1].thd = "none"
    BY <2>1 DEF IInv, Flow, QueuedOK
  <2> QED BY <1>1, <2>1, <2>2 DEF Handles, PlanKeepsHandle, FreedForLeaversOnly
<1>10. ASSUME NEW w \in Worker, UseFreed(w) PROVE Handles'
  <2>1. PICK j \in job[w] :
           /\ j \in Job /\ j.client \in Client /\ ~exists[j.client]
           /\ freed' = freed \cup {j.client} /\ job' = [job EXCEPT ![w] = {}]
           /\ UNCHANGED <<netVars, handleVars>>
    BY <1>1, <1>10, PickedUseFreed DEF IInv
  <2>2. conn[j.client] \in Served /\ conn[j.client] \notin {"open", "closing"}
    BY <1>1, <2>1 DEF IInv, Flow, RunningOK
  <2>3. side[j.client] = "gone"
    BY <2>1, <2>2 DEF IInv, Places, Served
  <2> QED BY <1>1, <2>1, <2>3 DEF Handles, PlanKeepsHandle, FreedForLeaversOnly, netVars, handleVars
<1>11. ASSUME NEW w \in Worker, Begin(w) \/ Hold(w) PROVE Handles'
  <2>1. PICK j \in job[w] : \E k \in Job :
           /\ j.client \in Client /\ exists[j.client] /\ k.client = j.client
           /\ job' = [job EXCEPT ![w] = {k}]
           /\ UNCHANGED <<netVars, handleVars, freed>>
    <3>1. CASE Begin(w)
      <4>1. PICK j \in job[w] : \E t \in {"none", "copying"} :
               /\ j \in Job /\ j.client \in Client /\ exists[j.client]
               /\ job' = [job EXCEPT ![w] = {Begun(j, t)}]
               /\ UNCHANGED <<netVars, handleVars, freed>>
        BY <1>1, <3>1, PickedBegin
      <4>2. PICK t \in Thd : job' = [job EXCEPT ![w] = {Begun(j, t)}]
        BY <4>1 DEF Thd
      <4>3. Begun(j, t) \in Job /\ Begun(j, t).client = j.client
        BY <4>1, JobTypes, BegunFields
      <4> QED BY <4>1, <4>2, <4>3
    <3>2. CASE Hold(w)
      <4>1. PICK j \in job[w] : \E t \in {"none", "held"} :
               /\ j \in Job /\ j.client \in Client /\ exists[j.client]
               /\ job' = [job EXCEPT ![w] = {Copied(j, t)}]
               /\ UNCHANGED <<netVars, handleVars, freed>>
        BY <1>1, <3>2, PickedHold
      <4>2. PICK t \in Thd : job' = [job EXCEPT ![w] = {Copied(j, t)}]
        BY <4>1 DEF Thd
      <4>3. Copied(j, t) \in Job /\ Copied(j, t).client = j.client
        BY <4>1, JobTypes, CopiedFields
      <4> QED BY <4>1, <4>2, <4>3
    <3> QED BY <1>11, <3>1, <3>2
  <2>2. PlanKeepsHandle'
    BY <1>1, <2>1 DEF PlanKeepsHandle, handleVars
  <2> QED BY <1>1, <2>1, <2>2 DEF Handles, FreedForLeaversOnly, netVars, handleVars
<1>12. ASSUME NEW w \in Worker, Post(w) PROVE Handles'
  <2>1. PICK j \in job[w], b \in PacketBytes :
           /\ j \in Job /\ j.client \in Client /\ exists[j.client]
           /\ job' = [job EXCEPT ![w] = {OnePosted(j, b)}]
           /\ UNCHANGED <<netVars, exists, self, freed>>
    BY <1>1, <1>12, PickedPost
  <2>2. OnePosted(j, b).client = j.client
    BY <2>1, BytesTyped, JobFields
  <2>3. PlanKeepsHandle'
    BY <1>1, <2>1, <2>2 DEF PlanKeepsHandle
  <2> QED BY <1>1, <2>1, <2>3 DEF Handles, FreedForLeaversOnly, netVars
<1>13. ASSUME NEW w \in Worker, Finish(w) PROVE Handles'
  <2>1. PICK j \in job[w] :
           /\ j \in Job /\ j.client \in Client
           /\ job' = [job EXCEPT ![w] = {}]
           /\ exists' = [exists EXCEPT ![j.client] =
                @ /\ (j.thd # "held" \/ self[j.client] \/ conn[j.client] = "closing"
                      \/ HeldBesides(j.client, w))]
           /\ UNCHANGED <<netVars, self, freed>>
    BY <1>1, <1>13, PickedFinish
  <2> DEFINE still == /\ exists[j.client]
                      /\ \/ j.thd # "held" \/ self[j.client] \/ conn[j.client] = "closing"
                         \/ HeldBesides(j.client, w)
  <2>2. /\ exists' = [exists EXCEPT ![j.client] = still] /\ still \in BOOLEAN
        /\ conn[j.client] \in {"open", "closing"} => still
    BY <1>1, <2>1
  <2>3. ASSUME NEW v \in Worker \ {w}, NEW k \in job[v], k.thd = "held", k.client = j.client
        PROVE  still
    BY <1>1, <2>3 DEF HeldBesides
  <2> HIDE DEF still
  <2>4. \A c \in Client : /\ self'[c] = (conn'[c] = "open")
                          /\ conn'[c] \in {"open", "closing"} => exists'[c]
    BY <1>1, <2>1, <2>2 DEF netVars
  <2>5. ASSUME NEW v \in Worker, NEW k \in job'[v], k.thd = "held" PROVE exists'[k.client]
    <3>1. v # w /\ k \in job[v]
      BY <1>1, <2>1
    <3>2. k.client \in Client /\ exists[k.client] /\ (k.client = j.client => still)
      BY <1>1, <2>3, <2>5, <3>1
    <3> QED BY <1>1, <2>1, <2>2, <3>2
  <2> QED BY <1>1, <2>1, <2>4, <2>5 DEF Handles, PlanKeepsHandle, FreedForLeaversOnly, netVars
<1>14. ASSUME NEW c \in Client, PollStep(c) PROVE Handles'
  BY <1>2, <1>3, <1>5, <1>6, <1>7, <1>8, <1>14 DEF PollStep
<1>15. ASSUME NEW w \in Worker, WorkerStep(w) PROVE Handles'
  BY <1>9, <1>10, <1>11, <1>12, <1>13, <1>15 DEF WorkerStep
<1> QED BY <1>2, <1>3, <1>4, <1>14, <1>15 DEF Next

-----------------------------------------------------------------------------
(* The bytes in the caches.                                                 *)

LEMMA HoldsEmpty ==
  ASSUME NEW s \in Seq(Packet), s = <<>>
  PROVE  Holds(s, 0) /\ \A n \in Int : Holds(s, n) => n = 0
<1>1. Len(s) = 0
  OBVIOUS
<1>2. Holds(s, 0)
  <2> DEFINE f == [i \in 0 .. Len(s) |-> 0]
  <2>1. f \in [0 .. Len(s) -> Int]
    OBVIOUS
  <2>2. f[0] = 0 /\ f[Len(s)] = 0
    BY <1>1
  <2>3. \A i \in 1 .. Len(s) : f[i] = f[i - 1] + s[i].bytes
    BY <1>1
  <2> HIDE DEF f
  <2> QED BY <2>1, <2>2, <2>3 DEF Holds
<1>3. ASSUME NEW n \in Int, Holds(s, n) PROVE n = 0
  BY <1>1, <1>3 DEF Holds
<1> QED BY <1>2, <1>3

LEMMA HoldsAppend ==
  ASSUME NEW s \in Seq(Packet), NEW p \in Packet, NEW n \in Int, Holds(s, n)
  PROVE  Holds(Append(s, p), n + p.bytes)
<1>1. PICK f \in [0 .. Len(s) -> Int] :
        /\ f[0] = 0 /\ f[Len(s)] = n
        /\ \A i \in 1 .. Len(s) : f[i] = f[i - 1] + s[i].bytes
  BY DEF Holds
<1>2. PICK m \in Nat, t \in Seq(Packet) :
        /\ m = Len(s) /\ t = Append(s, p)
        /\ Len(t) = m + 1 /\ t[m + 1] = p /\ \A i \in 1 .. m : t[i] = s[i]
  OBVIOUS
<1>3. PICK b \in Nat : b = p.bytes
  BY DEF Packet
<1> DEFINE g == [i \in 0 .. m + 1 |-> IF i <= m THEN f[i] ELSE n + b]
<1>4. g \in [0 .. Len(t) -> Int]
  BY <1>1, <1>2, <1>3
<1>5. g[0] = 0 /\ g[Len(t)] = n + b
  BY <1>1, <1>2
<1>6. ASSUME NEW i \in 1 .. Len(t) PROVE g[i] = g[i - 1] + t[i].bytes
  <2>1. CASE i \in 1 .. m
    BY <1>1, <1>2, <2>1
  <2>2. CASE i = m + 1
    <3>1. g[i] = n + b /\ g[i - 1] = n /\ t[i].bytes = b
      BY <1>1, <1>2, <1>3, <2>2
    <3> QED BY <3>1
  <2> QED BY <1>2, <2>1, <2>2
<1> HIDE DEF g
<1> QED BY <1>2, <1>3, <1>4, <1>5, <1>6 DEF Holds

LEMMA HoldsTail ==
  ASSUME NEW s \in Seq(Packet), NEW n \in Int, s # <<>>, Holds(s, n)
  PROVE  Holds(Tail(s), n - Head(s).bytes)
<1>1. PICK f \in [0 .. Len(s) -> Int] :
        /\ f[0] = 0 /\ f[Len(s)] = n
        /\ \A i \in 1 .. Len(s) : f[i] = f[i - 1] + s[i].bytes
  BY DEF Holds
<1>2. PICK m \in Nat, t \in Seq(Packet) :
        /\ m + 1 = Len(s) /\ t = Tail(s) /\ Head(s) = s[1] /\ s[1] \in Packet
        /\ Len(t) = m /\ \A i \in 1 .. m : t[i] = s[i + 1]
  <2>1. Len(s) \in Nat \ {0} /\ Len(s) - 1 \in Nat
    BY EmptySeq
  <2>2. /\ Tail(s) \in Seq(Packet) /\ Len(Tail(s)) = Len(s) - 1
        /\ \A i \in 1 .. Len(Tail(s)) : Tail(s)[i] = s[i + 1]
    BY HeadTailProperties
  <2>3. Head(s) = s[1] /\ s[1] \in Packet
    BY <2>1, ElementOfSeq
  <2>4. PICK m \in Nat, t \in Seq(Packet) : m = Len(s) - 1 /\ t = Tail(s)
    BY <2>1, <2>2
  <2>5. m + 1 = Len(s) /\ Len(t) = m /\ \A i \in 1 .. m : t[i] = s[i + 1]
    BY <2>1, <2>2, <2>4
  <2> QED BY <2>3, <2>4, <2>5
<1>3. PICK b \in Nat : b = s[1].bytes /\ f[1] = b
  <2>1. s[1].bytes \in Nat
    BY <1>2 DEF Packet
  <2>2. f[1] = f[0] + s[1].bytes
    BY <1>1, <1>2
  <2> QED BY <1>1, <2>1, <2>2
<1> DEFINE g == [i \in 0 .. m |-> f[i + 1] - b]
<1>4. g \in [0 .. Len(t) -> Int]
  BY <1>1, <1>2, <1>3
<1>5. g[0] = 0 /\ g[Len(t)] = n - b
  BY <1>1, <1>2, <1>3
<1>6. ASSUME NEW i \in 1 .. Len(t) PROVE g[i] = g[i - 1] + t[i].bytes
  <2>1. i + 1 \in 1 .. Len(s) /\ i \in 0 .. Len(s) /\ i \in 1 .. m
    BY <1>2
  <2>2. PICK u \in Int, v \in Int : u = f[i] /\ v = f[i + 1]
    <3>1. i + 1 \in 0 .. Len(s)
      BY <2>1
    <3>2. f[i] \in Int /\ f[i + 1] \in Int
      BY <2>1, <3>1
    <3> QED BY <3>2
  <2>3. g[i] = v - b /\ g[i - 1] = u - b
    BY <2>1, <2>2
  <2>4. s[i + 1] \in Packet
    BY <2>1, ElementOfSeq
  <2>5. PICK y \in Nat : y = s[i + 1].bytes
    BY <2>4 DEF Packet
  <2>6. v = u + y /\ t[i].bytes = y
    <3>1. f[i + 1] = f[(i + 1) - 1] + s[i + 1].bytes
      BY <1>1, <2>1
    <3>2. (i + 1) - 1 = i
      BY <2>1
    <3> QED BY <1>2, <2>1, <2>2, <2>5, <3>1, <3>2
  <2>7. v - b = (u - b) + y
    BY <1>3, <2>6
  <2> QED BY <2>3, <2>6, <2>7
<1> HIDE DEF g
<1> QED BY <1>2, <1>3, <1>4, <1>5, <1>6 DEF Holds

\* A packet is posted for c
LEMMA PostedSized ==
  ASSUME IInv, NEW c \in Client, NEW p \in Packet, NEW n \in Nat, Posted(c, p, n)
  PROVE  Sized'
<1>1. Added(c, p) \/ Missed(c, p, n)
  BY PostedWhat DEF IInv
<1>2. cache[c] \in Seq(Packet) /\ stored[c] \in Int /\ Holds(cache[c], stored[c])
  BY DEF IInv, Types, Sized
<1>3. Holds(cache'[c], stored'[c])
  <2>1. CASE Added(c, p)
    BY <1>2, <2>1, HoldsAppend DEF Added
  <2>2. CASE Missed(c, p, n)
    <3>1. <<>> \in Seq(Packet)
      OBVIOUS
    <3> QED BY <1>2, <2>2, <3>1, HoldsEmpty DEF Missed
  <2> QED BY <1>1, <2>1, <2>2
<1>4. \A d \in Client : d # c => cache'[d] = cache[d] /\ stored'[d] = stored[d]
  BY <1>1 DEF Added, Missed
<1> QED BY <1>3, <1>4 DEF IInv, Sized

LEMMA SizedKept == ASSUME IInv, Next PROVE Sized'
<1>1. ASSUME UNCHANGED <<cache, stored>> PROVE Sized'
  BY <1>1 DEF IInv, Sized
<1>2. ASSUME NEW c \in Client, ReadSocket(c) PROVE Sized'
  <2>1. CASE Head(inbox[c]).kind = "direct"
    <3>1. PICK p \in Packet : Posted(c, p, 0)
      BY <1>2, <2>1, ReadPosts
    <3> QED BY <3>1, PostedSized
  <2>2. CASE Head(inbox[c]).kind # "direct"
    BY <1>1, <1>2, <2>2 DEF ReadSocket, cacheVars
  <2> QED BY <2>1, <2>2
<1>3. ASSUME NEW w \in Worker, Post(w) PROVE Sized'
  <2>1. PICK j \in job[w] : \E b \in PacketBytes :
           /\ j \in Job /\ j.client \in Client
           /\ Posted(j.client, NewPacket(j, seq[j.client] + 1, b), j.bytes)
    BY <1>3, PickedPost DEF IInv
  <2>2. PICK b \in PacketBytes : Posted(j.client, NewPacket(j, seq[j.client] + 1, b), j.bytes)
    BY <2>1
  <2>3. seq[j.client] + 1 \in Nat /\ b \in Nat
    BY <2>1, BytesTyped DEF IInv, Types
  <2>4. PICK p \in Packet : Posted(j.client, p, j.bytes)
    BY <2>1, <2>2, <2>3, PacketFields
  <2>5. j.bytes \in Nat
    BY <2>1, <2>3, JobFields
  <2> QED BY <2>1, <2>4, <2>5, PostedSized
<1>4. ASSUME NEW c \in Client, WriteReturns(c) PROVE Sized'
  <2>1. PICK x \in writing :
           /\ x.client = c /\ x.packet \in Packet
           /\ cache' = [cache EXCEPT ![c] = Rest(x)]
           /\ stored' = [stored EXCEPT ![c] = RestBytes(x)]
    BY <1>4, PickedReturn DEF IInv
  <2>2. cache[c] \in Seq(Packet) /\ stored[c] \in Int /\ Holds(cache[c], stored[c])
    BY DEF IInv, Types, Sized
  <2>3. Holds(Rest(x), RestBytes(x))
    <3>1. <<>> \in Seq(Packet)
      OBVIOUS
    <3> QED BY <2>1, <2>2, <3>1, HoldsEmpty, HoldsTail DEF Rest, RestBytes
  <2>4. cache'[c] = Rest(x) /\ stored'[c] = RestBytes(x)
    BY <2>1 DEF IInv, Types
  <2>5. \A d \in Client : d # c => cache'[d] = cache[d] /\ stored'[d] = stored[d]
    BY <2>1 DEF IInv, Types
  <2> QED BY <2>3, <2>4, <2>5 DEF IInv, Sized
<1>5. ASSUME NEW c \in Client, PollStep(c) PROVE Sized'
  <2>1. ASSUME Accept(c) \/ LoginDone(c) \/ LoginFailed(c) PROVE UNCHANGED <<cache, stored>>
    BY <2>1 DEF Accept, LoginDone, LoginFailed, handleVars, cacheVars
  <2>2. ASSUME Close(c) \/ Release(c) \/ WriteSocket(c) \/ WriteFails(c)
        PROVE  UNCHANGED <<cache, stored>>
    BY <2>2 DEF Close, Release, WriteSocket, WriteFails, handleVars, cacheVars
  <2> QED BY <1>1, <1>2, <1>4, <1>5, <2>1, <2>2 DEF PollStep
<1>6. ASSUME NEW w \in Worker, WorkerStep(w) PROVE Sized'
  <2>1. ASSUME Take(w) \/ UseFreed(w) \/ Begin(w) \/ Hold(w) \/ Finish(w)
        PROVE  UNCHANGED <<cache, stored>>
    BY <2>1 DEF Take, UseFreed, Begin, Hold, Finish, handleVars, cacheVars
  <2> QED BY <1>1, <1>3, <1>6, <2>1 DEF WorkerStep
<1>7. ASSUME NEW c \in Client, Connect(c) \/ Authenticate(c) \/ Leave(c)
      PROVE  UNCHANGED <<cache, stored>>
  BY <1>7 DEF Connect, Authenticate, Leave, handleVars, cacheVars
<1>8. ASSUME NEW c \in Client, NEW m \in Command, Send(c, m) PROVE UNCHANGED <<cache, stored>>
  BY <1>8 DEF Send, handleVars, cacheVars
<1> QED BY <1>1, <1>5, <1>6, <1>7, <1>8 DEF Next

-----------------------------------------------------------------------------
(* The way of a command and of its answer.                                  *)

LEMMA FlowFacts ==
  ASSUME IInv
  PROVE  /\ Types /\ Places
         /\ side \in [Client -> {"outside", "login", "idle", "wait", "gone"}]
         /\ conn \in [Client -> {"none", "login", "open", "rejected", "leaked", "closing", "closed"}]
         /\ DOMAIN inbox = Client
         /\ seq \in [Client -> Nat] /\ sent \in [Client -> Nat]
         /\ cache \in [Client -> Seq(Packet)] /\ got \in [Client -> Seq(Packet)]
         /\ stored \in [Client -> Int]
         /\ DOMAIN job = Worker
         /\ \A x \in writing : x.client \in Client
         /\ \A w \in Worker : \A j \in job[w] : j \in Job /\ j.client \in Client
         /\ \A i \in 1 .. Len(tasks) : tasks[i] \in Job /\ tasks[i].client \in Client
         /\ Len(tasks) \in Nat
         /\ \A c \in Client : SentOK(c) /\ CacheOK(c) /\ GotOK(c)
         /\ QueuedOK /\ RunningOK /\ WritingOK
<1>1. tasks \in Seq(Job)
  BY DEF IInv, Types
<1>2. \A x \in writing : x.client \in Client
  BY WritesTyped DEF IInv
<1> QED BY <1>1, <1>2, JobsTyped DEF IInv, Types, Flow

\* The connection of d is not touched; its command may leave the queue or
\* the worker
LEMMA Bystander ==
  ASSUME NEW d \in Client, SentOK(d), CacheOK(d), GotOK(d),
         side'[d] = side[d], conn'[d] = conn[d], inbox'[d] = inbox[d], seq'[d] = seq[d],
         cache'[d] = cache[d], got'[d] = got[d], sent'[d] = sent[d],
         Lost(d) => Lost(d)', Running(d)' => Running(d), Queued(d)' => Queued(d)
  PROVE  SentOK(d)' /\ CacheOK(d)' /\ GotOK(d)'
<1>1. SentOK(d)'
  BY Zenon DEF SentOK, Sent
<1>2. CacheOK(d)'
  BY Zenon DEF CacheOK, Sent
<1>3. GotOK(d)'
  BY Zenon DEF GotOK, Sent
<1> QED BY <1>1, <1>2, <1>3

\* Only the two ends of connections change, and no command is delivered
LEMMA EndsOnly ==
  ASSUME IInv, UNCHANGED <<writing, seq, cache, stored, tasks, job, got, sent, dropped>>,
         \A c \in Client :
           /\ side[c] \in {"wait", "gone"} => side'[c] \in {"wait", "gone"}
           /\ side[c] \in {"idle", "gone"} => side'[c] \in {"idle", "gone"}
           /\ side'[c] = "wait" => side[c] = "wait"
           /\ side[c] = "gone" => side'[c] = "gone"
           /\ side'[c] \in {"outside", "login"} => side[c] \in {"outside", "login"}
           /\ side'[c] = "idle" => side[c] = "idle" \/ sent[c] = 0
           /\ conn[c] \in Served => conn'[c] \in Served
           /\ Sent(c)' => Sent(c) /\ inbox'[c] = inbox[c]
           /\ Sent(c) => Sent(c)' \/ side'[c] = "gone"
  PROVE  Flow'
<1>1. \A c \in Client : /\ Lost(c)' <=> Lost(c)
                        /\ Queued(c)' <=> Queued(c)
                        /\ Running(c)' <=> Running(c)
  BY DEF Lost, Queued, Running
<1>2. ASSUME NEW c \in Client PROVE SentOK(c)' /\ CacheOK(c)' /\ GotOK(c)'
  <2>1. SentOK(c) /\ CacheOK(c) /\ GotOK(c)
    BY FlowFacts
  <2>2. SentOK(c)'
    BY <1>1, <2>1 DEF SentOK
  <2>3. CacheOK(c)'
    BY <1>1, <2>1 DEF CacheOK
  <2>4. GotOK(c)'
    BY <1>1, <2>1 DEF GotOK
  <2> QED BY <2>2, <2>3, <2>4
<1>3. QueuedOK'
  BY <1>1, FlowFacts DEF QueuedOK
<1>4. RunningOK'
  BY <1>1, FlowFacts DEF RunningOK
<1>5. WritingOK'
  BY <1>1, FlowFacts DEF WritingOK
<1> QED BY <1>2, <1>3, <1>4, <1>5 DEF Flow, IInv

LEMMA EndsFlow ==
  ASSUME IInv, NEW c \in Client,
         \/ Connect(c) \/ Authenticate(c) \/ Leave(c) \/ Accept(c) \/ LoginDone(c)
         \/ LoginFailed(c) \/ Close(c) \/ Release(c) \/ WriteFails(c)
  PROVE  Flow'
<1>1. /\ side \in [Client -> {"outside", "login", "idle", "wait", "gone"}]
      /\ conn \in [Client -> {"none", "login", "open", "rejected", "leaked", "closing", "closed"}]
      /\ DOMAIN inbox = Client /\ Places
      /\ \A d \in Client : side[d] \in {"outside", "login"} => sent[d] = 0
  BY FlowFacts DEF GotOK
<1>2. CASE Connect(c) \/ Leave(c) \/ WriteFails(c)
  <2>1. /\ UNCHANGED <<conn, inbox, writing, seq, cache, stored, tasks, job, got, sent, dropped>>
        /\ \/ side' = side
           \/ side[c] = "outside" /\ side' = [side EXCEPT ![c] = "login"]
           \/ side[c] # "outside" /\ side' = [side EXCEPT ![c] = "gone"]
    BY <1>2 DEF Connect, Leave, WriteFails, handleVars, cacheVars
  <2> QED BY <1>1, <2>1, EndsOnly DEF Sent
<1>3. CASE Authenticate(c)
  BY <1>1, <1>3, EndsOnly DEF Authenticate, handleVars, cacheVars, Sent
<1>4. CASE Accept(c)
  BY <1>1, <1>4, EndsOnly DEF Accept, handleVars, cacheVars, Sent, Served, Places
<1>5. CASE LoginDone(c)
  BY <1>1, <1>5, EndsOnly DEF LoginDone, cacheVars, Sent, Served
<1>6. CASE LoginFailed(c)
  BY <1>1, <1>6, EndsOnly DEF LoginFailed, handleVars, cacheVars, Sent, Served
<1>7. CASE Close(c)
  BY <1>1, <1>7, EndsOnly DEF Close, cacheVars, Sent, Served
<1>8. CASE Release(c)
  BY <1>1, <1>8, EndsOnly DEF Release, cacheVars, Sent, Served
<1> QED BY <1>2, <1>3, <1>4, <1>5, <1>6, <1>7, <1>8


\* A worker takes on, begins or gives up a query while a packet is written
LEMMA WritingKept ==
  ASSUME IInv, UNCHANGED <<side, conn, inbox, writing, cache, sent, dropped>>,
         \A d \in Client : /\ Lost(d)' <=> Lost(d)
                           /\ Running(d)' => Running(d) \/ Queued(d)
                           /\ Queued(d)' => Queued(d)
  PROVE  WritingOK'
<1>1. \A x \in writing : x.client \in Client
  BY FlowFacts
<1> QED BY <1>1, FlowFacts DEF WritingOK, Sent

LEMMA TakeFlow == ASSUME IInv, NEW w \in Worker, Take(w) PROVE Flow'
<1> DEFINE t == tasks[1]
<1>1. /\ Len(tasks) \in Nat \ {0} /\ Len(tasks') = Len(tasks) - 1
      /\ \A i \in 1 .. Len(tasks') : tasks'[i] = tasks[i + 1]
      /\ job' = [job EXCEPT ![w] = {t}] /\ job[w] = {}
      /\ UNCHANGED <<side, conn, inbox, writing, seq, cache, stored, got, sent, dropped>>
  BY FlowFacts, Taken DEF netVars, handleVars, cacheVars
<1>2. /\ t \in Job /\ t.client \in Client
      /\ t.posted = 0 /\ ~t.begun /\ t.thd = "none" /\ t.length > 0 /\ t.length \in Nat
      /\ stored[t.client] <= t.bytes
      /\ t.cmd = sent[t.client] /\ seq[t.client] = 0
      /\ side[t.client] \in {"wait", "gone"} /\ conn[t.client] \in Served
      /\ ~Running(t.client) /\ Queued(t.client) /\ Live(t)
  <2>1. 1 \in 1 .. Len(tasks)
    BY <1>1
  <2>2. t \in Job /\ t.client \in Client
    BY <2>1, FlowFacts
  <2>3. t.length \in Nat /\ t.bytes \in Nat
    <3>1. 0 \in Nat
      OBVIOUS
    <3> QED BY <2>2, <3>1, JobFields
  <2>4. stored[t.client] <= t.bytes
    <3>1. seq[t.client] = 0 /\ CacheOK(t.client) /\ cache[t.client] \in Seq(Packet)
      BY <2>1, <2>2, FlowFacts DEF QueuedOK
    <3>2. stored[t.client] \in Int /\ Holds(cache[t.client], stored[t.client])
      BY <2>2, FlowFacts DEF IInv, Sized
    <3>3. cache[t.client] = <<>>
      BY <3>1, EmptySeq DEF CacheOK
    <3>4. stored[t.client] = 0
      BY <3>1, <3>2, <3>3, HoldsEmpty
    <3> QED BY <2>3, <3>4
  <2> QED BY <2>1, <2>2, <2>3, <2>4, FlowFacts DEF QueuedOK, Queued, Live
<1> HIDE DEF t
<1>3. \A d \in Client : /\ Lost(d)' <=> Lost(d)
                        /\ Running(d)' => Running(d) \/ d = t.client
                        /\ Running(d)' => Running(d) \/ Queued(d)
                        /\ Queued(d)' => Queued(d) /\ d # t.client
  <2>1. \A d \in Client : Lost(d)' <=> Lost(d)
    BY <1>1 DEF Lost
  <2>2. \A d \in Client : Running(d)' => Running(d) \/ d = t.client
    BY <1>1, FlowFacts DEF Running
  <2>3. \A d \in Client : Running(d)' => Running(d) \/ Queued(d)
    BY <1>2, <2>2
  <2>4. ASSUME NEW d \in Client, Queued(d)' PROVE Queued(d) /\ d # t.client
    <3>1. PICK i \in 1 .. Len(tasks') : tasks'[i].client = d
      BY <2>4 DEF Queued
    <3>2. tasks[i + 1].client = d /\ i + 1 \in 1 .. Len(tasks) /\ 1 \in 1 .. Len(tasks) /\ i + 1 # 1
      BY <1>1, <3>1
    <3>3. tasks[i + 1].client # tasks[1].client
      BY <3>2, FlowFacts DEF QueuedOK
    <3> QED BY <3>2, <3>3 DEF Queued, t
  <2> QED BY <2>1, <2>2, <2>4, <2>3
<1>4. ASSUME NEW d \in Client PROVE SentOK(d)' /\ CacheOK(d)' /\ GotOK(d)'
  <2>1. /\ SentOK(d) /\ CacheOK(d) /\ GotOK(d) /\ Len(cache[d]) \in Nat
        /\ cache[d] \in Seq(Packet)
    <3>1. cache[d] \in Seq(Packet)
      BY FlowFacts
    <3> QED BY <3>1, FlowFacts
  <2>2. CASE d # t.client
    BY <1>1, <1>3, <2>1, <2>2, Bystander
  <2>3. CASE d = t.client
    <3>1. ~Sent(d) /\ ~Sent(d)'
      BY <1>1, <1>2, <2>1, <2>3 DEF SentOK, Sent
    <3>2. Len(cache[d]) = 0
      BY <1>2, <2>1, <2>3 DEF CacheOK
    <3>3. SentOK(d)' /\ GotOK(d)'
      BY <1>1, <1>3, <2>1, <3>1 DEF SentOK, GotOK
    <3>4. CacheOK(d)'
      BY <1>1, <1>3, <2>1, <3>1, <3>2 DEF CacheOK
    <3> QED BY <3>3, <3>4
  <2> QED BY <2>2, <2>3
<1>5. QueuedOK'
  <2>1. ASSUME NEW i \in 1 .. Len(tasks')
        PROVE  LET j == tasks'[i] IN
               /\ j.posted = 0 /\ ~j.begun /\ j.thd = "none" /\ j.length > 0
               /\ j.cmd = sent[j.client] /\ seq[j.client] = 0
               /\ side[j.client] \in {"wait", "gone"} /\ conn[j.client] \in Served
               /\ \A v \in Worker : \A k \in job'[v] : ~(k.client = j.client /\ Live(k))
    <3>1. i + 1 \in 1 .. Len(tasks) /\ tasks'[i] = tasks[i + 1]
      BY <1>1
    <3>2. PICK d \in Client : d = tasks'[i].client
      BY <3>1, FlowFacts
    <3>3. ~Running(d)'
      BY <1>3, <3>1, <3>2, FlowFacts DEF QueuedOK, Queued
    <3> QED BY <1>1, <3>1, <3>2, <3>3, FlowFacts DEF QueuedOK, Running, Live
  <2>2. ASSUME NEW i \in 1 .. Len(tasks'), NEW k \in 1 .. Len(tasks'),
               tasks'[i].client = tasks'[k].client
        PROVE  i = k
    <3>1. i + 1 \in 1 .. Len(tasks) /\ k + 1 \in 1 .. Len(tasks)
          /\ tasks[i + 1].client = tasks[k + 1].client
      BY <1>1, <2>2, SMTT(30)
    <3>2. i + 1 = k + 1
      BY <3>1, FlowFacts DEF QueuedOK
    <3> QED BY <3>2
  <2> QED BY <1>1, <2>1, <2>2 DEF QueuedOK, Running, Live
<1>6. RunningOK'
  <2>1. \A v \in Worker : \A j, k \in job'[v] : j = k
    BY <1>1, FlowFacts DEF RunningOK
  <2>2. \A v \in Worker : \A j \in job'[v] : (j = t /\ v = w) \/ j \in job[v]
    BY <1>1, FlowFacts
  <2>3. \A v \in Worker : \A j \in job'[v] :
       /\ j.length > 0 /\ j.posted <= j.length
       /\ ~j.begun => j.posted = 0 /\ j.thd = "none"
       /\ j.thd = "copying" => j.posted = 0
       /\ conn[j.client] \in Served
       /\ Live(j) => /\ j.cmd = sent[j.client] /\ seq[j.client] = j.posted
                     /\ side[j.client] \in {"wait", "gone"}
                     /\ stored[j.client] <= j.bytes
    BY <1>2, <2>2, FlowFacts DEF RunningOK
  <2>4. ASSUME NEW v \in Worker, NEW u \in Worker, NEW j \in job'[v], NEW k \in job'[u],
               j.client = k.client, Live(j), Live(k)
        PROVE  v = u
    BY <1>2, <2>2, <2>4, FlowFacts DEF RunningOK, Running
  <2> QED BY <1>1, <2>1, <2>3, <2>4 DEF RunningOK, Live
<1>7. WritingOK'
  BY <1>1, <1>3, WritingKept
<1> QED BY <1>1, <1>4, <1>5, <1>6, <1>7 DEF Flow, IInv


\* A worker gives up its query, done or not
LEMMA DoneFlow ==
  ASSUME IInv, NEW w \in Worker, job' = [job EXCEPT ![w] = {}],
         UNCHANGED <<side, conn, inbox, writing, seq, cache, stored, tasks, got, sent, dropped>>
  PROVE  Flow'
<1>1. \A v \in Worker : \A j \in job'[v] : j \in job[v]
  BY FlowFacts
<1>2. \A d \in Client : /\ Lost(d)' <=> Lost(d)
                        /\ Running(d)' => Running(d)
                        /\ Queued(d)' <=> Queued(d)
  BY <1>1 DEF Lost, Running, Queued, Live
<1>3. ASSUME NEW d \in Client PROVE SentOK(d)' /\ CacheOK(d)' /\ GotOK(d)'
  BY <1>2, FlowFacts, Bystander
<1>4. QueuedOK'
  BY <1>2, FlowFacts DEF QueuedOK
<1>5. RunningOK'
  BY <1>1, FlowFacts DEF RunningOK, Live
<1>6. WritingOK'
  BY <1>2, WritingKept
<1> QED BY <1>3, <1>4, <1>5, <1>6 DEF Flow, IInv

\* Job k takes the place of j, as begun or with its copy made
Same(j, k) ==
  /\ k.client = j.client /\ k.cmd = j.cmd /\ k.length = j.length
  /\ k.posted = j.posted /\ k.bytes = j.bytes /\ k.begun

LEMMA StartFlow ==
  ASSUME IInv, NEW w \in Worker, NEW j \in job[w], NEW k \in Job, Live(j), j.posted = 0,
         Same(j, k), job' = [job EXCEPT ![w] = {k}],
         UNCHANGED <<netVars, handleVars, tasks, got, sent, dropped>>
  PROVE  Flow'
<1>1. j \in Job /\ j.client \in Client
  BY FlowFacts
<1>2. UNCHANGED <<side, conn, inbox, writing, seq, cache, stored, tasks, got, sent, dropped>>
  BY DEF netVars, handleVars, cacheVars
<1>3. /\ k.client = j.client /\ k.cmd = j.cmd /\ k.length = j.length /\ k.posted = j.posted
      /\ k.bytes = j.bytes /\ k.begun
  BY DEF Same
<1>4. /\ j.length > 0 /\ j.posted = 0 /\ j.length \in Nat /\ conn[j.client] \in Served
      /\ Live(j) /\ Live(k)
      /\ j.cmd = sent[j.client] /\ seq[j.client] = j.posted
      /\ side[j.client] \in {"wait", "gone"} /\ stored[j.client] <= j.bytes
  <2>1. j.length \in Nat
    <3>1. 0 \in Nat
      OBVIOUS
    <3> QED BY <1>1, <3>1, JobFields
  <2> QED BY <1>1, <1>3, <2>1, FlowFacts DEF RunningOK, Live
<1>5. \A v \in Worker : \A i \in job'[v] : (i = k /\ v = w) \/ i \in job[v]
  BY FlowFacts
<1>6. \A d \in Client : /\ Lost(d)' <=> Lost(d)
                        /\ Running(d)' => Running(d)
                        /\ Queued(d)' <=> Queued(d)
  <2>1. \A d \in Client : (Lost(d)' <=> Lost(d)) /\ (Queued(d)' <=> Queued(d))
    BY <1>2 DEF Lost, Queued
  <2>2. ASSUME NEW d \in Client, Running(d)' PROVE Running(d)
    <3>1. PICK v \in Worker : \E i \in job'[v] : i.client = d /\ Live(i)
      BY <2>2 DEF Running, Live
    <3> QED BY <1>3, <1>4, <1>5, <3>1 DEF Running
  <2> QED BY <2>1, <2>2
<1>7. ASSUME NEW d \in Client PROVE SentOK(d)' /\ CacheOK(d)' /\ GotOK(d)'
  BY <1>2, <1>6, FlowFacts, Bystander
<1>8. QueuedOK'
  BY <1>2, <1>6, FlowFacts DEF QueuedOK
<1>9. RunningOK'
  <2>1. \A v \in Worker : \A i, h \in job'[v] : i = h
    BY FlowFacts DEF RunningOK
  <2>2. \A v \in Worker : \A i \in job'[v] :
       /\ i.length > 0 /\ i.posted <= i.length
       /\ ~i.begun => i.posted = 0 /\ i.thd = "none"
       /\ i.thd = "copying" => i.posted = 0
       /\ conn[i.client] \in Served
       /\ Live(i) => /\ i.cmd = sent[i.client] /\ seq[i.client] = i.posted
                     /\ side[i.client] \in {"wait", "gone"}
                     /\ stored[i.client] <= i.bytes
    BY <1>3, <1>4, <1>5, FlowFacts DEF RunningOK
  <2>3. ASSUME NEW v \in Worker, NEW u \in Worker, NEW i \in job'[v], NEW h \in job'[u],
               i.client = h.client, Live(i), Live(h)
        PROVE  v = u
    BY <1>3, <1>4, <1>5, <2>3, FlowFacts DEF RunningOK
  <2> QED BY <1>2, <2>1, <2>2, <2>3 DEF RunningOK, Live
<1>10. WritingOK'
  BY <1>2, <1>6, WritingKept
<1> QED BY <1>2, <1>7, <1>8, <1>9, <1>10 DEF Flow, IInv

LEMMA BeginFlow == ASSUME IInv, NEW w \in Worker, Begin(w) PROVE Flow'
<1>1. PICK j \in job[w] : \E t \in {"none", "copying"} :
           /\ j \in Job /\ j.client \in Client /\ ~j.begun
           /\ job' = [job EXCEPT ![w] = {Begun(j, t)}]
           /\ UNCHANGED <<netVars, handleVars, tasks, got, sent, dropped>>
  BY FlowFacts, PickedBegin
<1>2. PICK t \in Thd : job' = [job EXCEPT ![w] = {Begun(j, t)}]
  BY <1>1 DEF Thd
<1>3. Begun(j, t) \in Job /\ Same(j, Begun(j, t))
  BY <1>1, JobTypes, BegunFields DEF Same
<1>4. Live(j) /\ j.posted = 0
  BY <1>1, FlowFacts DEF RunningOK, Live
<1> QED BY <1>1, <1>2, <1>3, <1>4, StartFlow

LEMMA HoldFlow == ASSUME IInv, NEW w \in Worker, Hold(w) PROVE Flow'
<1>1. PICK j \in job[w] : \E t \in {"none", "held"} :
           /\ j \in Job /\ j.client \in Client /\ j.thd = "copying"
           /\ job' = [job EXCEPT ![w] = {Copied(j, t)}]
           /\ UNCHANGED <<netVars, handleVars, tasks, got, sent, dropped>>
  BY FlowFacts, PickedHold
<1>2. PICK t \in Thd : job' = [job EXCEPT ![w] = {Copied(j, t)}]
  BY <1>1 DEF Thd
<1>3. j.begun /\ j.posted = 0 /\ Live(j)
  <2>1. ~j.begun => j.thd = "none"
    BY FlowFacts DEF RunningOK
  <2>2. j.posted = 0 /\ j.length > 0
    BY <1>1, FlowFacts DEF RunningOK
  <2> QED BY <1>1, <2>1, <2>2 DEF Live
<1>4. Copied(j, t) \in Job /\ Same(j, Copied(j, t))
  BY <1>1, <1>3, JobTypes, CopiedFields DEF Same
<1> QED BY <1>1, <1>2, <1>3, <1>4, StartFlow

LEMMA PostFlow == ASSUME IInv, NEW w \in Worker, Post(w) PROVE Flow'
<1>1. PICK j \in job[w] : \E b \in PacketBytes :
           /\ j \in Job /\ j.client \in Client
           /\ j.begun /\ j.thd # "copying" /\ j.posted < j.length
           /\ seq' = [seq EXCEPT ![j.client] = seq[j.client] + 1]
           /\ Posted(j.client, NewPacket(j, seq[j.client] + 1, b), j.bytes)
           /\ job' = [job EXCEPT ![w] = {OnePosted(j, b)}]
           /\ UNCHANGED <<side, conn, inbox, writing, tasks, got, sent>>
  BY FlowFacts, PickedPost DEF netVars
<1>2. PICK b \in PacketBytes :
           /\ seq' = [seq EXCEPT ![j.client] = seq[j.client] + 1]
           /\ Posted(j.client, NewPacket(j, seq[j.client] + 1, b), j.bytes)
           /\ job' = [job EXCEPT ![w] = {OnePosted(j, b)}]
           /\ UNCHANGED <<side, conn, inbox, writing, tasks, got, sent>>
  BY <1>1
<1>3. PICK c \in Client : c = j.client
  BY <1>1
<1>4. b \in Nat /\ b > 0
  BY BytesTyped
<1> DEFINE k == OnePosted(j, b)
<1>5. /\ k.client = c /\ k.cmd = j.cmd /\ k.length = j.length /\ k.posted = j.posted + 1
      /\ k.bytes = j.bytes + b /\ k.begun = TRUE /\ k.thd = j.thd
      /\ j.length \in Nat /\ j.posted \in Nat /\ j.cmd \in Nat /\ j.bytes \in Nat
  BY <1>3, <1>1, <1>4, JobFields
<1>6. /\ conn[c] \in Served /\ Live(j) /\ Running(c)
      /\ j.cmd = sent[c] /\ seq[c] = j.posted /\ side[c] \in {"wait", "gone"}
      /\ stored[c] <= j.bytes
  BY <1>3, <1>1, FlowFacts DEF RunningOK, Live, Running
<1>7. /\ ~Sent(c) /\ ~Queued(c)
      /\ SentOK(c) /\ CacheOK(c) /\ GotOK(c)
      /\ cache[c] \in Seq(Packet) /\ Len(cache[c]) \in Nat /\ Len(got[c]) \in Nat
      /\ stored[c] \in Int
  <2>1. cache[c] \in Seq(Packet) /\ got[c] \in Seq(Packet) /\ stored[c] \in Int
    BY <1>6, FlowFacts
  <2>2. ~Queued(c)
    BY <1>6, FlowFacts DEF Queued, QueuedOK
  <2> QED BY <1>6, <2>1, <2>2, FlowFacts DEF SentOK
<1> DEFINE m == Len(cache[c])
<1>8. PICK p \in Packet :
        /\ Posted(c, p, j.bytes)
        /\ p.cmd = sent[c] /\ p.seq = seq[c] + 1 /\ p.bytes = b
        /\ p.last <=> seq[c] + 1 = j.length
  <2>1. seq[c] + 1 \in Nat
    BY <1>5, <1>6
  <2>2. Posted(c, NewPacket(j, seq[c] + 1, b), j.bytes)
    BY <1>3, <1>2
  <2> QED BY <1>1, <1>6, <1>4, <2>1, <2>2, PacketFields
<1>9. Added(c, p) \/ Missed(c, p, j.bytes)
  BY <1>5, <1>8, FlowFacts, PostedWhat
<1>10. Added(c, p) => /\ dropped' = dropped
                      /\ Len(cache'[c]) = m + 1 /\ cache'[c] # <<>>
                      /\ \A i \in 1 .. m : cache'[c][i] = cache[c][i]
                      /\ cache'[c][m + 1] = p
  BY <1>7 DEF Added
<1>11. \A d \in Client : d # c => cache'[d] = cache[d] /\ stored'[d] = stored[d]
  BY <1>9 DEF Added, Missed
<1> HIDE DEF k
<1>12. \A v \in Worker : \A i \in job'[v] : (i = k /\ v = w) \/ (i \in job[v] /\ v # w)
  BY <1>2, FlowFacts DEF k
<1>13. \A v \in Worker : \A i \in job'[v] : i.client = c /\ Live(i) => i = k /\ v = w
  BY <1>3, <1>1, <1>6, <1>12, FlowFacts DEF RunningOK
<1>14. \A d \in Client : /\ Lost(d) => Lost(d)'
                         /\ Queued(d)' <=> Queued(d)
                         /\ Running(d)' => Running(d)
  <2>1. \A d \in Client : (Lost(d) => Lost(d)') /\ (Queued(d)' <=> Queued(d))
    BY <1>2, <1>9 DEF Lost, Queued, Added, Missed
  <2>2. ASSUME NEW d \in Client, Running(d)' PROVE Running(d)
    <3>1. PICK v \in Worker : \E i \in job'[v] : i.client = d /\ Live(i)
      BY <2>2 DEF Running, Live
    <3> QED BY <1>5, <1>6, <1>12, <3>1 DEF Running
  <2> QED BY <2>1, <2>2
<1>15. Running(c)' => seq[c] + 1 < j.length
  <2>1. ASSUME Running(c)' PROVE Live(k)
    <3>1. PICK v \in Worker : \E i \in job'[v] : i.client = c /\ Live(i)
      BY <2>1 DEF Running, Live
    <3> QED BY <1>13, <3>1
  <2> QED BY <1>5, <1>6, <2>1 DEF Live
<1>16. seq'[c] = seq[c] + 1 /\ seq[c] \in Nat /\ \A d \in Client : d # c => seq'[d] = seq[d]
  BY <1>3, <1>2, <1>6, FlowFacts
<1>17. Missed(c, p, j.bytes) => Lost(c)' /\ (cache'[c] = cache[c] \/ cache'[c] = <<>>)
  BY <1>2, <1>8 DEF Missed, Lost
<1>18. ASSUME NEW d \in Client, d # c PROVE SentOK(d)' /\ CacheOK(d)' /\ GotOK(d)'
  BY <1>2, <1>11, <1>14, <1>18, <1>16, FlowFacts, Bystander
<1>19. SentOK(c)' /\ GotOK(c)' /\ ~Sent(c)'
  BY <1>2, <1>7, <1>14 DEF SentOK, GotOK, Sent
<1>20. CacheOK(c)'
  <2>1. CASE Added(c, p)
    <3>1. Lost(c)' <=> Lost(c)
      BY <1>2, <1>10, <2>1 DEF Lost
    <3>2. \A i \in 1 .. m : cache[c][i].cmd = sent[c] /\ ~cache[c][i].last
      BY <1>6, <1>7 DEF CacheOK
    <3>3. ~Lost(c) /\ side[c] # "gone" =>
            /\ Len(got[c]) + m = seq[c]
            /\ \A i \in 1 .. m : cache[c][i].seq = Len(got[c]) + i
      BY <1>7 DEF CacheOK
    <3>4. Len(cache'[c]) <= seq'[c]
      BY <1>7, <1>16, <1>10, <2>1 DEF CacheOK
    <3>5. ASSUME NEW i \in 1 .. Len(cache'[c])
          PROVE  /\ cache'[c][i].cmd = sent[c]
                 /\ cache'[c][i].last => i = Len(cache'[c]) /\ ~Running(c)'
                 /\ ~Lost(c)' /\ side[c] # "gone" => cache'[c][i].seq = Len(got[c]) + i
      <4>1. i \in 1 .. m \/ i = m + 1
        BY <1>7, <1>10, <2>1
      <4>2. CASE i \in 1 .. m
        BY <1>10, <2>1, <3>1, <3>2, <3>3, <4>2
      <4>3. CASE i = m + 1
        <5>1. ~Lost(c)' /\ side[c] # "gone" => Len(got[c]) + m = seq[c]
          BY <3>1, <3>3
        <5>2. /\ cache'[c][i].cmd = sent[c] /\ cache'[c][i].seq = seq[c] + 1
              /\ cache'[c][i].last <=> seq[c] + 1 = j.length
              /\ i = Len(cache'[c])
          BY <1>8, <1>10, <2>1, <4>3
        <5>3. ~Lost(c)' /\ side[c] # "gone" => cache'[c][i].seq = Len(got[c]) + i
          <6> SUFFICES ASSUME ~Lost(c)', side[c] # "gone"
                       PROVE  cache'[c][i].seq = Len(got[c]) + i
            OBVIOUS
          <6>1. PICK g \in Nat, n \in Nat : g = Len(got[c]) /\ n = m
            BY <1>7
          <6>2. g + n = seq[c] /\ cache'[c][i].seq = seq[c] + 1 /\ i = n + 1
            BY <4>3, <5>1, <5>2, <6>1
          <6>3. cache'[c][i].seq = g + i
            BY <6>2
          <6> QED BY <6>1, <6>3
        <5>4. cache'[c][i].last => ~Running(c)'
          BY <1>5, <1>15, <1>16, <5>2
        <5> QED BY <5>2, <5>3, <5>4
      <4> QED BY <4>1, <4>2, <4>3
    <3>6. ~Lost(c)' /\ side[c] # "gone" => Len(got[c]) + Len(cache'[c]) = seq'[c]
      <4> SUFFICES ASSUME ~Lost(c)', side[c] # "gone"
                   PROVE  Len(got[c]) + Len(cache'[c]) = seq'[c]
        OBVIOUS
      <4>1. Len(got[c]) + m = seq[c]
        BY <3>1, <3>3
      <4>2. Len(cache'[c]) = m + 1 /\ seq'[c] = seq[c] + 1
        BY <1>16, <1>10, <2>1
      <4>3. PICK g \in Nat, n \in Nat : g = Len(got[c]) /\ n = m
        BY <1>7
      <4>4. g + n = seq[c] /\ Len(cache'[c]) = n + 1
        BY <4>1, <4>2, <4>3
      <4>5. g + Len(cache'[c]) = seq'[c]
        BY <4>2, <4>4
      <4> QED BY <4>3, <4>5
    <3> QED BY <1>2, <1>6, <3>4, <3>5, <3>6 DEF CacheOK
  <2>2. CASE Missed(c, p, j.bytes)
    <3>1. Lost(c)'
      BY <1>17, <2>2
    <3>2. CASE cache'[c] = cache[c]
      <4>1. Len(cache[c]) <= seq'[c]
        BY <1>7, <1>16 DEF CacheOK
      <4> QED BY <1>2, <1>6, <1>7, <1>14, <3>1, <3>2, <4>1 DEF CacheOK
    <3>3. CASE cache'[c] = <<>>
      <4>1. Len(cache'[c]) = 0 /\ 0 <= seq'[c]
        BY <1>16, <3>3
      <4> QED BY <3>1, <3>3, <4>1 DEF CacheOK
    <3> QED BY <1>17, <2>2, <3>2, <3>3
  <2> QED BY <1>9, <2>1, <2>2
<1>21. QueuedOK'
  <2>1. \A i \in 1 .. Len(tasks) : tasks[i].client # c
    BY <1>7 DEF Queued
  <2> QED BY <1>2, <1>14, <1>16, <2>1, FlowFacts DEF QueuedOK
<1>22. stored'[c] \in Int /\ stored'[c] <= k.bytes
  BY <1>5, <1>6, <1>7, <1>4, <1>8, <1>9 DEF Added, Missed
<1>23. RunningOK'
  <2>1. \A v \in Worker : \A i, h \in job'[v] : i = h
    BY <1>2, FlowFacts DEF RunningOK, k
  <2>2. ASSUME NEW v \in Worker, NEW i \in job'[v]
        PROVE  /\ i.length > 0 /\ i.posted <= i.length
               /\ ~i.begun => i.posted = 0 /\ i.thd = "none"
               /\ i.thd = "copying" => i.posted = 0
               /\ conn[i.client] \in Served
               /\ Live(i) => /\ i.cmd = sent[i.client] /\ seq'[i.client] = i.posted
                             /\ side[i.client] \in {"wait", "gone"}
                             /\ stored'[i.client] <= i.bytes
    <3>1. CASE i = k
      BY <1>1, <1>5, <1>6, <1>16, <1>22, <3>1
    <3>2. CASE i \in job[v] /\ v # w
      <4>1. i.client \in Client /\ (Live(i) => i.client # c)
        BY <1>13, <2>2, <3>2, FlowFacts
      <4>2. Live(i) => seq'[i.client] = seq[i.client] /\ stored'[i.client] = stored[i.client]
        BY <1>11, <1>16, <4>1
      <4> QED BY <3>2, <4>2, FlowFacts DEF RunningOK
    <3> QED BY <1>12, <3>1, <3>2
  <2>3. ASSUME NEW v \in Worker, NEW u \in Worker, NEW i \in job'[v], NEW h \in job'[u],
               i.client = h.client, Live(i), Live(h)
        PROVE  v = u
    <3>1. CASE i.client = c
      BY <1>13, <2>3, <3>1
    <3>2. CASE i.client # c
      <4>1. i \in job[v] /\ h \in job[u]
        BY <1>5, <1>12, <2>3, <3>2
      <4> QED BY <2>3, <4>1, FlowFacts DEF RunningOK
    <3> QED BY <3>1, <3>2
  <2> QED BY <1>2, <2>1, <2>2, <2>3 DEF RunningOK, Live
<1>24. \A a \in dropped' : a.bytes >= CacheSize
  <2>1. CASE Added(c, p)
    BY <2>1 DEF Added, IInv, Flow
  <2>2. CASE Missed(c, p, j.bytes)
    <3>1. PICK a \in Answer : a.bytes = j.bytes + b /\ dropped' = dropped \cup {a}
      BY <1>8, <2>2 DEF Missed
    <3>2. CacheSize <= j.bytes + b
      BY <1>5, <1>6, <1>7, <1>4, <1>8, <2>2, ServerAssumption DEF Missed
    <3>3. a.bytes >= CacheSize
      BY <1>5, <1>4, <3>1, <3>2, ServerAssumption
    <3> QED BY <3>1, <3>3 DEF IInv, Flow
  <2> QED BY <1>9, <2>1, <2>2
<1>25. WritingOK'
  <2> SUFFICES ASSUME NEW x \in writing
               PROVE  /\ x.packet.cmd = sent[x.client] /\ side[x.client] \in {"wait", "gone"}
                      /\ ~Sent(x.client)' /\ ~Queued(x.client)'
                      /\ x.packet.last => ~Running(x.client)' /\ cache'[x.client] = <<x.packet>>
                      /\ ~Lost(x.client)' =>
                           cache'[x.client] # <<>> /\ cache'[x.client][1] = x.packet
    BY <1>2 DEF WritingOK
  <2>1. PICK d \in Client : d = x.client
    BY FlowFacts
  <2>2. /\ x.packet.cmd = sent[d] /\ side[d] \in {"wait", "gone"}
        /\ ~Sent(d) /\ ~Queued(d)
        /\ x.packet.last => ~Running(d) /\ cache[d] = <<x.packet>>
        /\ ~Lost(d) => cache[d] # <<>> /\ cache[d][1] = x.packet
    BY <2>1, FlowFacts DEF WritingOK
  <2>3. ~Sent(d)' /\ ~Queued(d)'
    BY <1>2, <1>14, <2>2 DEF Sent
  <2>4. x.packet.last => ~Running(d)' /\ cache'[d] = <<x.packet>>
    BY <1>6, <1>14, <1>11, <2>2
  <2>5. ~Lost(d)' => cache'[d] # <<>> /\ cache'[d][1] = x.packet
    <3>1. CASE d # c
      BY <1>14, <1>11, <2>2, <3>1
    <3>2. CASE d = c
      <4> SUFFICES ASSUME ~Lost(d)' PROVE cache'[d] # <<>> /\ cache'[d][1] = x.packet
        OBVIOUS
      <4>1. Added(c, p) /\ cache[d] # <<>> /\ cache[d][1] = x.packet
        BY <1>9, <1>14, <1>17, <2>2, <3>2
      <4>2. 1 \in 1 .. m
        BY <1>7, <3>2, <4>1, EmptySeq
      <4> QED BY <1>10, <3>2, <4>1, <4>2
    <3> QED BY <3>1, <3>2
  <2> QED BY <2>1, <2>2, <2>3, <2>4, <2>5
<1> QED BY <1>2, <1>18, <1>19, <1>20, <1>21, <1>23, <1>24, <1>25 DEF Flow


\* The poll thread begins to write the first packet of a cache
LEMMA WriteFlow == ASSUME IInv, NEW c \in Client, WriteSocket(c) PROVE Flow'
<1>1. PICK p : p = cache[c][1]
  OBVIOUS
<1>2. /\ cache[c] # <<>> /\ cache[c] \in Seq(Packet) /\ seq[c] \in Nat
      /\ SentOK(c) /\ CacheOK(c)
      /\ Len(cache[c]) \in Nat \ {0} /\ Head(cache[c]) = p
  <2>1. cache[c] # <<>> /\ cache[c] \in Seq(Packet) /\ seq[c] \in Nat /\ SentOK(c) /\ CacheOK(c)
    BY FlowFacts DEF WriteSocket
  <2> QED BY <1>1, <2>1, EmptySeq
<1>3. /\ UNCHANGED <<side, conn, inbox, seq, cache, stored, tasks, job, got, sent, dropped>>
      /\ writing' = {[client |-> c, packet |-> p]}
  BY <1>2 DEF WriteSocket, handleVars, cacheVars
<1>4. \A d \in Client : /\ Lost(d)' <=> Lost(d)
                        /\ Queued(d)' <=> Queued(d)
                        /\ Running(d)' <=> Running(d)
                        /\ Sent(d)' <=> Sent(d)
  BY <1>3 DEF Lost, Queued, Running, Sent
<1>5. ASSUME NEW d \in Client PROVE SentOK(d)' /\ CacheOK(d)' /\ GotOK(d)'
  BY <1>3, <1>4, FlowFacts, Bystander
<1>6. QueuedOK' /\ RunningOK'
  <2>1. QueuedOK'
    BY <1>3, <1>4, FlowFacts DEF QueuedOK
  <2>2. RunningOK'
    BY <1>3, FlowFacts DEF RunningOK, Live
  <2> QED BY <2>1, <2>2
<1>7. WritingOK'
  <2>1. 1 \in 1 .. Len(cache[c]) /\ Len(cache[c]) <= seq[c]
    BY <1>2 DEF CacheOK
  <2>2. p.cmd = sent[c] /\ side[c] \in {"wait", "gone"} /\ ~Sent(c)
    BY <1>1, <1>2, <2>1 DEF CacheOK, SentOK
  <2>3. ~Queued(c)
    <3>1. seq[c] # 0 /\ QueuedOK
      BY <1>2, <2>1, FlowFacts
    <3> QED BY <3>1 DEF Queued, QueuedOK
  <2>4. p.last => ~Running(c) /\ cache[c] = <<p>>
    <3> SUFFICES ASSUME p.last PROVE ~Running(c) /\ cache[c] = <<p>>
      OBVIOUS
    <3>1. ~Running(c) /\ 1 = Len(cache[c])
      BY <1>1, <1>2, <2>1 DEF CacheOK
    <3>2. cache[c] = <<p>>
      BY <1>1, <1>2, <3>1
    <3> QED BY <3>1, <3>2
  <2>5. \A x \in writing' : x.client = c /\ x.packet = p
    BY <1>3
  <2>6. UNCHANGED <<cache, sent, side>>
    BY <1>3
  <2> SUFFICES ASSUME NEW x \in writing'
               PROVE  /\ x.packet.cmd = sent[x.client] /\ side[x.client] \in {"wait", "gone"}
                      /\ ~Sent(x.client)' /\ ~Queued(x.client)'
                      /\ x.packet.last => ~Running(x.client)' /\ cache[x.client] = <<x.packet>>
                      /\ ~Lost(x.client)' => cache[x.client] # <<>> /\ cache[x.client][1] = x.packet
    BY <2>6 DEF WritingOK
  <2>7. x.client = c /\ x.packet = p
    BY <2>5
  <2> QED BY <1>1, <1>2, <1>4, <2>2, <2>3, <2>4, <2>7
<1> QED BY <1>3, <1>5, <1>6, <1>7 DEF Flow, IInv


\* The client reads it, and it is taken from the cache
LEMMA ReturnFlow == ASSUME IInv, NEW c \in Client, WriteReturns(c) PROVE Flow'
<1>1. PICK x \in writing :
        /\ x.client = c /\ x.packet \in Packet /\ writing' = {}
        /\ cache' = [cache EXCEPT ![c] = Rest(x)]
        /\ stored' = [stored EXCEPT ![c] = RestBytes(x)]
        /\ Rest(x) \in Seq(Packet) /\ RestBytes(x) \in Int
        /\ IF side[c] = "gone" THEN UNCHANGED <<side, got>>
           ELSE /\ got' = [got EXCEPT ![c] = Append(@, x.packet)]
                /\ side' = [side EXCEPT ![c] =
                     IF x.packet.last /\ x.packet.seq = Len(got[c]) + 1 THEN "idle" ELSE @]
        /\ UNCHANGED <<conn, inbox, seq, tasks, job, sent, dropped>>
  BY FlowFacts, PickedReturn
<1>2. PICK p \in Packet : p = x.packet
  BY <1>1
<1>3. /\ conn[c] = "open"
      /\ cache[c] \in Seq(Packet) /\ got[c] \in Seq(Packet) /\ stored[c] \in Int
      /\ Len(cache[c]) \in Nat /\ Len(got[c]) \in Nat
      /\ SentOK(c) /\ CacheOK(c) /\ GotOK(c)
      /\ seq[c] \in Nat
  <2>1. conn[c] = "open"
    BY <1>1, FlowFacts DEF Places
  <2>2. cache[c] \in Seq(Packet) /\ got[c] \in Seq(Packet) /\ stored[c] \in Int
    BY FlowFacts
  <2> QED BY <2>1, <2>2, FlowFacts
<1>4. /\ p.cmd = sent[c] /\ side[c] \in {"wait", "gone"} /\ ~Sent(c) /\ ~Queued(c)
      /\ p.last => ~Running(c) /\ cache[c] = <<p>>
      /\ ~Lost(c) => cache[c] # <<>> /\ cache[c][1] = p
  BY <1>1, <1>2, FlowFacts DEF WritingOK
<1>5. /\ UNCHANGED <<conn, inbox, seq, tasks, job, sent, dropped>> /\ writing' = {}
      /\ \A d \in Client : d # c => /\ cache'[d] = cache[d] /\ stored'[d] = stored[d]
                                    /\ got'[d] = got[d] /\ side'[d] = side[d]
      /\ side[c] = "gone" => side'[c] = "gone" /\ got'[c] = got[c]
      /\ side[c] = "wait" =>
           /\ got'[c] = Append(got[c], p)
           /\ side'[c] = IF p.last /\ p.seq = Len(got[c]) + 1 THEN "idle" ELSE "wait"
  BY <1>1, <1>2, FlowFacts
<1>6. cache'[c] = Rest(x) /\ cache'[c] \in Seq(Packet)
  BY <1>1, FlowFacts
<1>7. \/ /\ cache[c] # <<>> /\ cache[c][1] = p
         /\ Len(cache[c]) \in Nat \ {0} /\ Len(cache'[c]) = Len(cache[c]) - 1
         /\ \A i \in 1 .. Len(cache'[c]) : cache'[c][i] = cache[c][i + 1]
      \/ cache'[c] = <<>> /\ Lost(c)
  <2>1. CASE cache[c] # <<>> /\ Head(cache[c]) = p
    <3>1. cache'[c] = Tail(cache[c])
      BY <1>1, <1>2, <1>6, <2>1 DEF Rest
    <3>2. Len(cache[c]) \in Nat \ {0} /\ Head(cache[c]) = cache[c][1]
      BY <1>3, <2>1, EmptySeq
    <3> QED BY <1>3, <2>1, <3>1, <3>2, HeadTailProperties
  <2>2. CASE ~(cache[c] # <<>> /\ Head(cache[c]) = p)
    <3>1. cache'[c] = <<>>
      BY <1>1, <1>2, <1>6, <2>2 DEF Rest
    <3>2. cache[c] # <<>> => Head(cache[c]) = cache[c][1]
      BY <1>3, EmptySeq
    <3> QED BY <1>4, <2>2, <3>1, <3>2
  <2> QED BY <2>1, <2>2
<1>8. side[c] = "wait" => /\ Len(got'[c]) = Len(got[c]) + 1
                          /\ \A i \in 1 .. Len(got[c]) : got'[c][i] = got[c][i]
                          /\ got'[c][Len(got[c]) + 1] = p
  BY <1>2, <1>3, <1>5
<1>9. \A d \in Client : /\ Lost(d)' <=> Lost(d)
                        /\ Queued(d)' <=> Queued(d)
                        /\ Running(d)' <=> Running(d)
                        /\ Sent(d)' <=> Sent(d)
  BY <1>5 DEF Lost, Queued, Running, Sent
<1>10. ASSUME NEW d \in Client, d # c PROVE SentOK(d)' /\ CacheOK(d)' /\ GotOK(d)'
  BY <1>5, <1>9, <1>10, FlowFacts, Bystander
<1>11. SentOK(c)' /\ ~Sent(c)'
  BY <1>4, <1>9 DEF SentOK
<1>12. CacheOK(c)'
  <2>1. CASE cache'[c] = <<>> /\ Lost(c)
    <3>1. Len(cache'[c]) = 0 /\ 0 <= seq'[c] /\ Lost(c)'
      BY <1>3, <1>5, <1>9, <2>1
    <3> QED BY <2>1, <3>1 DEF CacheOK
  <2>2. CASE /\ cache[c] # <<>> /\ cache[c][1] = p
             /\ Len(cache[c]) \in Nat \ {0} /\ Len(cache'[c]) = Len(cache[c]) - 1
             /\ \A i \in 1 .. Len(cache'[c]) : cache'[c][i] = cache[c][i + 1]
    <3>1. PICK g \in Nat, n \in Nat : g = Len(got[c]) /\ n = Len(cache'[c])
      BY <1>3, <2>2
    <3>2. n + 1 = Len(cache[c]) /\ n + 1 <= seq[c]
      BY <1>3, <2>2, <3>1 DEF CacheOK
    <3>3. ASSUME NEW i \in 1 .. n
          PROVE  /\ cache'[c][i].cmd = sent[c]
                 /\ cache'[c][i].last => i = n /\ ~Running(c)
                 /\ ~Lost(c) /\ side[c] # "gone" => cache'[c][i].seq = g + (i + 1)
      <4>1. cache'[c][i] = cache[c][i + 1] /\ i + 1 \in 1 .. Len(cache[c])
        BY <2>2, <3>1, <3>2
      <4>2. cache[c][i + 1].last => i + 1 = Len(cache[c]) /\ ~Running(c)
        BY <1>3, <4>1 DEF CacheOK
      <4>3. cache[c][i + 1].cmd = sent[c]
        BY <1>3, <4>1 DEF CacheOK
      <4>4. ~Lost(c) /\ side[c] # "gone" => cache[c][i + 1].seq = Len(got[c]) + (i + 1)
        BY <1>3, <4>1 DEF CacheOK
      <4>5. cache'[c][i].last => i = n /\ ~Running(c)
        BY <3>2, <4>1, <4>2
      <4> QED BY <3>1, <4>1, <4>3, <4>4, <4>5
    <3>4. side'[c] # "gone" => side[c] = "wait" /\ Len(got'[c]) = g + 1
      BY <1>4, <1>5, <1>8, <3>1
    <3>5. cache'[c] # <<>> => side'[c] \in {"wait", "gone"}
      <4>1. ASSUME p.last PROVE cache'[c] = <<>>
        <5>1. Len(cache[c]) = 1
          <6>1. cache[c] = <<p>>
            BY <1>4, <4>1
          <6>2. Len(<<p>>) = 1
            OBVIOUS
          <6> QED BY <6>1, <6>2
        <5>2. Len(cache'[c]) = 0
          BY <2>2, <5>1
        <5> QED BY <1>6, <5>2, EmptySeq
      <4> QED BY <1>4, <1>5, <4>1
    <3>6. ASSUME NEW i \in 1 .. n, ~Lost(c)', side'[c] # "gone"
          PROVE  cache'[c][i].seq = Len(got'[c]) + i
      <4>1. side[c] # "gone" /\ Len(got'[c]) = g + 1
        BY <3>4, <3>6
      <4>2. cache'[c][i].seq = g + (i + 1)
        BY <1>9, <3>3, <3>6, <4>1
      <4> QED BY <4>1, <4>2
    <3>7. ASSUME ~Lost(c)', side'[c] # "gone" PROVE Len(got'[c]) + n = seq[c]
      <4>1. side[c] # "gone" /\ Len(got'[c]) = g + 1
        BY <3>4, <3>7
      <4>2. g + (n + 1) = seq[c]
        BY <1>3, <1>4, <1>9, <3>1, <3>2, <3>7, <4>1 DEF CacheOK
      <4> QED BY <4>1, <4>2
    <3>8. n <= seq[c]
      BY <1>3, <3>2
    <3> QED
      BY <1>3, <1>5, <1>9, <3>1, <3>3, <3>5, <3>6, <3>7, <3>8 DEF CacheOK, Served
  <2> QED BY <1>7, <2>1, <2>2
<1>13. GotOK(c)'
  <2>1. CASE side[c] = "gone"
    BY <1>3, <1>5, <1>9, <2>1 DEF GotOK
  <2>2. CASE side[c] = "wait"
    <3>1. /\ side'[c] \in {"idle", "wait"} /\ sent[c] > 0
          /\ side'[c] = "idle" <=> p.last /\ p.seq = Len(got[c]) + 1
      BY <1>3, <1>5, <2>2 DEF GotOK
    <3>2. PICK g \in Nat : g = Len(got[c])
      BY <1>3
    <3>3. ~Lost(c) => p.seq = g + 1
      <4>1. ~Lost(c) => cache[c][1] = p /\ 1 \in 1 .. Len(cache[c])
        BY <1>3, <1>7
      <4> QED BY <1>3, <2>2, <3>2, <4>1 DEF CacheOK
    <3>4. ASSUME NEW i \in 1 .. g + 1, ~Lost(c)
          PROVE  /\ got'[c][i].cmd = sent[c] /\ got'[c][i].seq = i
                 /\ got'[c][i].last => i = g + 1 /\ side'[c] \in {"idle", "gone"}
      <4>1. CASE i \in 1 .. g
        BY <1>3, <1>8, <2>2, <3>2, <3>4, <4>1 DEF GotOK
      <4>2. CASE i = g + 1
        BY <1>4, <1>8, <2>2, <3>1, <3>2, <3>3, <3>4, <4>2
      <4> QED BY <4>1, <4>2
    <3>5. Len(got'[c]) = g + 1 /\ got'[c][g + 1] = p /\ got'[c] # <<>>
      BY <1>2, <1>3, <1>5, <1>8, <2>2, <3>2
    <3> QED BY <1>5, <1>9, <3>1, <3>4, <3>5 DEF GotOK
  <2> QED BY <1>4, <2>1, <2>2
<1>14. QueuedOK'
  <2>1. \A i \in 1 .. Len(tasks) : tasks[i].client # c
    BY <1>4 DEF Queued
  <2> QED BY <1>5, <1>9, <2>1, FlowFacts DEF QueuedOK
<1>15. RunningOK'
  <2>1. ASSUME NEW w \in Worker, NEW j \in job[w], Live(j)
        PROVE  side'[j.client] \in {"wait", "gone"} /\ stored'[j.client] <= j.bytes
    <3>1. /\ j.client \in Client /\ side[j.client] \in {"wait", "gone"} /\ Running(j.client)
          /\ stored[j.client] <= j.bytes
      BY <2>1, FlowFacts DEF RunningOK, Running
    <3>2. CASE j.client # c
      BY <1>5, <3>1, <3>2
    <3>3. CASE j.client = c
      <4>1. side'[c] \in {"wait", "gone"}
        BY <1>4, <1>5, <3>1, <3>3
      <4>2. j.bytes \in Nat /\ p.bytes \in Nat
        <5>1. j \in Job /\ 0 \in Nat
          BY FlowFacts
        <5> QED BY <5>1, JobFields DEF Packet
      <4>3. stored'[c] = RestBytes(x) /\ RestBytes(x) \in {stored[c] - p.bytes, 0}
        BY <1>1, <1>2, FlowFacts DEF RestBytes
      <4>4. stored'[c] <= j.bytes
        BY <1>3, <3>1, <3>3, <4>2, <4>3
      <4> QED BY <3>3, <4>1, <4>4
    <3> QED BY <3>2, <3>3
  <2>2. \A w \in Worker : \A j \in job[w] :
       /\ j.length > 0 /\ j.posted <= j.length
       /\ ~j.begun => j.posted = 0 /\ j.thd = "none"
       /\ j.thd = "copying" => j.posted = 0
       /\ conn[j.client] \in Served
       /\ Live(j) => /\ j.cmd = sent[j.client] /\ seq[j.client] = j.posted
                     /\ side'[j.client] \in {"wait", "gone"}
                     /\ stored'[j.client] <= j.bytes
    BY <2>1, FlowFacts DEF RunningOK
  <2>3. UNCHANGED <<job, conn, sent, seq>>
    BY <1>5
  <2> QED BY <2>2, <2>3, FlowFacts DEF RunningOK, Live
<1>16. WritingOK'
  BY <1>5 DEF WritingOK
<1> QED BY <1>5, <1>10, <1>11, <1>12, <1>13, <1>14, <1>15, <1>16 DEF Flow, IInv


LEMMA SendFlow == ASSUME IInv, NEW c \in Client, NEW m \in Command, Send(c, m) PROVE Flow'
<1>1. /\ side[c] = "idle" /\ conn[c] = "open"
      /\ SentOK(c) /\ CacheOK(c) /\ GotOK(c) /\ seq[c] \in Nat /\ sent[c] \in Nat
      /\ cache[c] \in Seq(Packet)
  BY FlowFacts DEF Send, Places
<1>2. inbox[c] = <<>> /\ cache[c] = <<>>
  BY <1>1 DEF SentOK, CacheOK, Sent
<1>3. ~Queued(c) /\ ~Running(c)
  BY <1>1, FlowFacts DEF Queued, QueuedOK, Running, RunningOK
<1>4. /\ UNCHANGED <<conn, writing, seq, cache, stored, tasks, job, dropped>>
      /\ \A d \in Client : d # c => /\ inbox'[d] = inbox[d] /\ got'[d] = got[d]
                                    /\ side'[d] = side[d] /\ sent'[d] = sent[d]
      /\ inbox'[c] = <<m>> /\ got'[c] = <<>> /\ side'[c] = "wait" /\ sent'[c] = sent[c] + 1
  BY <1>2, FlowFacts DEF Send, handleVars, cacheVars
<1>5. \A d \in Client : /\ d # c => (Lost(d)' <=> Lost(d))
                        /\ Queued(d)' <=> Queued(d)
                        /\ Running(d)' <=> Running(d)
  BY <1>4 DEF Lost, Queued, Running
<1>6. ASSUME NEW d \in Client, d # c PROVE SentOK(d)' /\ CacheOK(d)' /\ GotOK(d)'
  BY <1>4, <1>5, <1>6, FlowFacts, Bystander
<1>7. SentOK(c)' /\ Sent(c)'
  <2>1. inbox'[c] # <<>> /\ Len(inbox'[c]) = 1 /\ inbox'[c][1] = m
    BY <1>4
  <2> QED BY <1>1, <1>2, <1>3, <1>4, <1>5, <2>1 DEF SentOK, Sent
<1>8. CacheOK(c)'
  <2>1. Len(cache'[c]) = 0 /\ cache'[c] = <<>>
    BY <1>2, <1>4
  <2> QED BY <1>1, <1>4, <1>7, <2>1 DEF CacheOK
<1>9. GotOK(c)'
  <2>1. Len(got'[c]) = 0 /\ sent'[c] > 0
    BY <1>1, <1>4
  <2> QED BY <1>4, <2>1 DEF GotOK
<1>10. QueuedOK'
  <2>1. \A i \in 1 .. Len(tasks) : tasks[i].client # c
    BY <1>3 DEF Queued
  <2> QED BY <1>4, <1>5, <2>1, FlowFacts DEF QueuedOK
<1>11. RunningOK'
  <2>1. \A w \in Worker : \A j \in job[w] : Live(j) => j.client # c
    BY <1>3 DEF Running
  <2> QED BY <1>4, <2>1, FlowFacts DEF RunningOK, Live
<1>12. WritingOK'
  <2>1. \A x \in writing : x.client \in Client /\ x.client # c
    BY <1>1, FlowFacts DEF WritingOK
  <2>2. \A d \in Client : d # c => (Sent(d)' <=> Sent(d))
    BY <1>4 DEF Sent
  <2> QED BY <1>4, <1>5, <2>1, <2>2, FlowFacts DEF WritingOK
<1> QED BY <1>4, <1>6, <1>7, <1>8, <1>9, <1>10, <1>11, <1>12 DEF Flow, IInv

LEMMA ReadFlow == ASSUME IInv, NEW c \in Client, ReadSocket(c) PROVE Flow'
<1> DEFINE m == Head(inbox[c])
<1>1. /\ m \in Command /\ inbox' = [inbox EXCEPT ![c] = <<>>] /\ Sent(c)
      /\ m.length \in Nat \ {0}
      /\ UNCHANGED <<side, conn, writing, job, got, sent>> /\ writing = {}
  BY NextCommand, CommandLength DEF ReadSocket, Polling
<1>2. /\ conn[c] = "open" /\ side[c] \in {"wait", "gone"}
      /\ cache[c] = <<>> /\ ~Queued(c) /\ ~Running(c)
      /\ side[c] = "wait" => got[c] = <<>>
      /\ GotOK(c) /\ seq[c] \in Nat /\ sent[c] \in Nat
  BY <1>1, FlowFacts DEF SentOK, Sent
<1>3. stored[c] = 0 /\ cache[c] \in Seq(Packet)
  BY <1>2, FlowFacts, HoldsEmpty DEF IInv, Sized
<1>4. WritingOK'
  BY <1>1 DEF WritingOK
<1>5. CASE m.kind = "direct"
  <2>1. seq' = [seq EXCEPT ![c] = 1] /\ tasks' = tasks
    BY <1>5 DEF ReadSocket
  <2>2. PICK p \in Packet : Posted(c, p, 0) /\ p.cmd = sent[c] /\ p.seq = 1
    BY <1>5, ReadPosts
  <2>3. Added(c, p) \/ Missed(c, p, 0)
    BY <2>2, FlowFacts, PostedWhat
  <2>4. /\ \A d \in Client : d # c => cache'[d] = cache[d] /\ stored'[d] = stored[d]
        /\ Missed(c, p, 0) => Lost(c)' /\ cache'[c] = <<>>
        /\ Added(c, p) => /\ dropped' = dropped /\ Len(cache'[c]) = 1
                          /\ cache'[c][1].cmd = sent[c] /\ cache'[c][1].seq = 1
    <3>1. Added(c, p) => Len(cache'[c]) = 1 /\ cache'[c][1] = p
      <4> SUFFICES ASSUME Added(c, p) PROVE Len(cache'[c]) = 1 /\ cache'[c][1] = p
        OBVIOUS
      <4>1. cache'[c] = Append(<<>>, p)
        BY <1>2 DEF Added
      <4> QED BY <4>1
    <3> QED BY <1>1, <1>2, <2>2, <2>3, <3>1 DEF Added, Missed, Lost
  <2>5. \A d \in Client : /\ Lost(d) => Lost(d)'
                          /\ Queued(d)' <=> Queued(d)
                          /\ Running(d)' <=> Running(d)
    BY <1>1, <2>1, <2>3 DEF Lost, Queued, Running, Added, Missed
  <2>6. ASSUME NEW d \in Client, d # c PROVE SentOK(d)' /\ CacheOK(d)' /\ GotOK(d)'
    BY <1>1, <2>1, <2>4, <2>5, <2>6, FlowFacts, Bystander
  <2>7. SentOK(c)' /\ GotOK(c)' /\ seq'[c] = 1
    BY <1>1, <1>2, <2>1, <2>5, FlowFacts DEF SentOK, Sent, GotOK
  <2>8. CacheOK(c)'
    <3>1. CASE Added(c, p)
      <4>1. side[c] # "gone" => Len(got[c]) = 0
        BY <1>2
      <4>2. Len(cache'[c]) = 1 /\ cache'[c][1].cmd = sent[c] /\ cache'[c][1].seq = 1
        BY <2>4, <3>1
      <4>3. \A i \in 1 .. Len(cache'[c]) : i = 1
        BY <4>2
      <4>4. ~Running(c)' /\ UNCHANGED <<side, conn, got, sent>> /\ conn[c] \in Served
        BY <1>1, <1>2, <2>5 DEF Served
      <4>5. ASSUME NEW i \in 1 .. Len(cache'[c])
            PROVE  /\ cache'[c][i].cmd = sent[c]
                   /\ i = Len(cache'[c])
                   /\ side[c] # "gone" => cache'[c][i].seq = Len(got[c]) + i
        <5>1. i = 1
          BY <4>3
        <5>2. side[c] # "gone" => Len(got[c]) + i = 1
          BY <4>1, <5>1
        <5> QED BY <4>2, <5>1, <5>2
      <4>6. Len(cache'[c]) <= seq'[c]
        BY <2>7, <4>2
      <4>7. side[c] # "gone" => Len(got[c]) + Len(cache'[c]) = seq'[c]
        BY <2>7, <4>1, <4>2
      <4> QED BY <1>2, <4>4, <4>5, <4>6, <4>7 DEF CacheOK
    <3>2. CASE Missed(c, p, 0)
      <4>1. Lost(c)' /\ Len(cache'[c]) = 0 /\ cache'[c] = <<>>
        BY <2>4, <3>2
      <4> QED BY <2>7, <4>1 DEF CacheOK
    <3> QED BY <2>3, <3>1, <3>2
  <2>9. QueuedOK'
    <3>1. \A i \in 1 .. Len(tasks) : tasks[i].client # c
      BY <1>2 DEF Queued
    <3> QED BY <1>1, <2>1, <2>5, <3>1, FlowFacts DEF QueuedOK
  <2>10. RunningOK'
    <3>1. \A w \in Worker : \A j \in job[w] : Live(j) => j.client # c
      BY <1>2 DEF Running
    <3> QED BY <1>1, <2>1, <2>4, <3>1, FlowFacts DEF RunningOK, Live
  <2>11. \A a \in dropped' : a.bytes >= CacheSize
    <3>1. CASE Added(c, p)
      BY <3>1 DEF Added, IInv, Flow
    <3>2. CASE Missed(c, p, 0)
      <4>1. p.bytes \in Nat
        BY DEF Packet
      <4>2. PICK a \in Answer : a.bytes = 0 + p.bytes /\ dropped' = dropped \cup {a}
        BY <3>2 DEF Missed
      <4>3. a.bytes >= CacheSize
        BY <1>3, <3>2, <4>1, <4>2, ServerAssumption DEF Missed
      <4> QED BY <4>2, <4>3 DEF IInv, Flow
    <3> QED BY <2>3, <3>1, <3>2
  <2> QED BY <1>4, <2>6, <2>7, <2>8, <2>9, <2>10, <2>11 DEF Flow
<1>6. CASE m.kind # "direct"
  <2> DEFINE j == NewJob(c, sent[c], m)
  <2>1. /\ seq' = [seq EXCEPT ![c] = 0] /\ tasks' = Append(tasks, j)
        /\ UNCHANGED <<cache, stored, dropped>>
    BY <1>6 DEF ReadSocket, NewJob, cacheVars
  <2>2. /\ j.client = c /\ j.cmd = sent[c] /\ j.length > 0 /\ j.posted = 0
        /\ ~j.begun /\ j.thd = "none"
    BY <1>1 DEF NewJob
  <2> HIDE DEF j
  <2>3. /\ Len(tasks') = Len(tasks) + 1 /\ tasks'[Len(tasks) + 1] = j
        /\ \A i \in 1 .. Len(tasks) : tasks'[i] = tasks[i]
    <3>1. tasks \in Seq(Job)
      BY FlowFacts DEF Types
    <3> QED BY <2>1, <3>1
  <2>4. /\ seq'[c] = 0 /\ \A d \in Client : d # c => seq'[d] = seq[d]
    BY <2>1, FlowFacts
  <2>5. \A d \in Client : /\ Lost(d)' <=> Lost(d)
                          /\ d # c => (Queued(d)' => Queued(d))
                          /\ Running(d)' <=> Running(d)
    <3>1. \A d \in Client : (Lost(d)' <=> Lost(d)) /\ (Running(d)' <=> Running(d))
      BY <1>1, <2>1 DEF Lost, Running
    <3>2. ASSUME NEW d \in Client, d # c, Queued(d)' PROVE Queued(d)
      <4>1. PICK i \in 1 .. Len(tasks') : tasks'[i].client = d
        BY <3>2 DEF Queued
      <4>2. i \in 1 .. Len(tasks)
        BY <2>2, <2>3, <3>2, <4>1, FlowFacts
      <4> QED BY <2>3, <4>1, <4>2 DEF Queued
    <3> QED BY <3>1, <3>2
  <2>6. ASSUME NEW d \in Client, d # c PROVE SentOK(d)' /\ CacheOK(d)' /\ GotOK(d)'
    BY <1>1, <2>1, <2>4, <2>5, <2>6, FlowFacts, Bystander
  <2>7. SentOK(c)' /\ GotOK(c)'
    BY <1>1, <1>2, <2>5, FlowFacts DEF SentOK, Sent, GotOK
  <2>8. CacheOK(c)'
    <3>1. Len(cache'[c]) = 0 /\ cache'[c] = <<>>
      BY <1>2, <2>1
    <3>2. side[c] # "gone" => Len(got[c]) + 0 = 0
      BY <1>2
    <3> QED BY <1>1, <2>4, <3>1, <3>2 DEF CacheOK
  <2>9. QueuedOK'
    <3>1. \A i \in 1 .. Len(tasks) : tasks[i].client # c
      BY <1>2 DEF Queued
    <3>2. ASSUME NEW i \in 1 .. Len(tasks')
          PROVE  LET k == tasks'[i] IN
                 /\ k.posted = 0 /\ ~k.begun /\ k.thd = "none" /\ k.length > 0
                 /\ k.cmd = sent[k.client] /\ seq'[k.client] = 0
                 /\ side[k.client] \in {"wait", "gone"} /\ conn[k.client] \in Served
                 /\ ~Running(k.client)
      <4>1. i \in 1 .. Len(tasks) \/ i = Len(tasks) + 1
        BY <2>3, FlowFacts
      <4>2. CASE i \in 1 .. Len(tasks)
        <5>1. tasks'[i] = tasks[i] /\ tasks[i].client \in Client /\ tasks[i].client # c
          BY <2>3, <3>1, <4>2, FlowFacts
        <5>2. seq'[tasks[i].client] = seq[tasks[i].client]
          BY <2>4, <5>1
        <5> QED BY <4>2, <5>1, <5>2, FlowFacts DEF QueuedOK
      <4>3. CASE i = Len(tasks) + 1
        BY <1>2, <2>2, <2>3, <2>4, <4>3 DEF Served
      <4> QED BY <4>1, <4>2, <4>3
    <3>3. ASSUME NEW i \in 1 .. Len(tasks'), NEW k \in 1 .. Len(tasks'),
                 tasks'[i].client = tasks'[k].client
          PROVE  i = k
      <4>1. Len(tasks) \in Nat
        BY FlowFacts
      <4>2. /\ i \in 1 .. Len(tasks) \/ i = Len(tasks) + 1
            /\ k \in 1 .. Len(tasks) \/ k = Len(tasks) + 1
        BY <2>3, <4>1
      <4>3. CASE i \in 1 .. Len(tasks) /\ k \in 1 .. Len(tasks)
        BY <2>3, <3>3, <4>3, FlowFacts DEF QueuedOK
      <4>4. \A h \in 1 .. Len(tasks) : tasks'[h].client # c
        BY <2>3, <3>1
      <4>5. tasks'[Len(tasks) + 1].client = c
        BY <2>2, <2>3
      <4> QED BY <3>3, <4>2, <4>3, <4>4, <4>5
    <3> QED BY <1>1, <3>2, <3>3 DEF QueuedOK, Running, Live
  <2>10. RunningOK'
    <3>1. \A w \in Worker : \A k \in job[w] : Live(k) => k.client # c
      BY <1>2 DEF Running
    <3> QED BY <1>1, <2>1, <2>4, <3>1, FlowFacts DEF RunningOK, Live
  <2> QED BY <1>4, <2>1, <2>6, <2>7, <2>8, <2>9, <2>10 DEF Flow, IInv
<1> QED BY <1>5, <1>6

LEMMA FlowKept == ASSUME IInv, Next PROVE Flow'
<1>1. ASSUME NEW w \in Worker, UseFreed(w) PROVE Flow'
  <2>1. /\ job' = [job EXCEPT ![w] = {}]
        /\ UNCHANGED <<netVars, handleVars, tasks, got, sent, dropped>>
    BY <1>1, PickedUseFreed DEF IInv
  <2> QED BY <2>1, DoneFlow DEF netVars, handleVars, cacheVars
<1>2. ASSUME NEW w \in Worker, Finish(w) PROVE Flow'
  <2>1. /\ job' = [job EXCEPT ![w] = {}]
        /\ UNCHANGED <<netVars, self, seq, cacheVars, tasks, got, sent, dropped>>
    BY <1>2, PickedFinish DEF IInv
  <2> QED BY <2>1, DoneFlow DEF netVars, cacheVars
<1>3. ASSUME NEW c \in Client, PollStep(c) PROVE Flow'
  BY <1>3, EndsFlow, ReadFlow, WriteFlow, ReturnFlow DEF PollStep
<1>4. ASSUME NEW w \in Worker, WorkerStep(w) PROVE Flow'
  BY <1>1, <1>2, <1>4, TakeFlow, BeginFlow, HoldFlow, PostFlow DEF WorkerStep
<1> QED BY <1>3, <1>4, EndsFlow, SendFlow DEF Next

-----------------------------------------------------------------------------
LEMMA InitOK == Init => IInv
<1> SUFFICES ASSUME Init PROVE IInv
  OBVIOUS
<1>1. Types
  <2>1. /\ <<>> \in Seq(Command \cup {Auth}) /\ <<>> \in Seq(Packet) /\ <<>> \in Seq(Job)
    OBVIOUS
  <2> QED BY <2>1 DEF Init, Types
<1>2. Places
  BY DEF Init, Places
<1>3. Counted
  <2>1. Open = {} /\ \A c \in Client : conn[c] # "login"
    BY DEF Init, Open
  <2> QED BY <2>1, FS_EmptySet, ServerAssumption DEF Init, Counted
<1>4. Handles
  BY DEF Init, Handles, PlanKeepsHandle, FreedForLeaversOnly
<1>5. Flow
  <2>1. \A c \in Client : SentOK(c) /\ CacheOK(c) /\ GotOK(c)
    BY DEF Init, SentOK, CacheOK, GotOK, Sent
  <2>2. QueuedOK /\ RunningOK /\ WritingOK
    BY DEF Init, QueuedOK, RunningOK, WritingOK
  <2> QED BY <2>1, <2>2 DEF Init, Flow
<1>6. Sized
  <2>1. <<>> \in Seq(Packet)
    OBVIOUS
  <2> QED BY <2>1, HoldsEmpty DEF Init, Sized
<1> QED BY <1>1, <1>2, <1>3, <1>4, <1>5, <1>6 DEF IInv

LEMMA Stutters == ASSUME IInv, UNCHANGED vars PROVE IInv'
<1>1. Types' /\ Places'
  BY DEF vars, netVars, handleVars, cacheVars, IInv, Types, Places
<1>2. Counted' /\ Handles' /\ Sized'
  BY DEF vars, netVars, handleVars, cacheVars, IInv, Counted, Open, Handles, Sized,
         PlanKeepsHandle, FreedForLeaversOnly
<1>3. Flow'
  BY EndsOnly DEF vars, netVars, handleVars, cacheVars, Sent
<1> QED BY <1>1, <1>2, <1>3 DEF IInv

\* The invariant of the connections: the two ends of each agree, a command is
\* in one place only, and what an answer has lost is known.
THEOREM Inductive == Spec => []IInv
<1>1. ASSUME IInv, [Next]_vars PROVE IInv'
  <2>1. CASE Next
    BY <1>1, <2>1, TypesKept, PlacesKept, CountedKept, FlowKept, SizedKept, HandlesKept
    DEF IInv
  <2>2. CASE UNCHANGED vars
    BY <1>1, <2>2, Stutters
  <2> QED BY <1>1, <2>1, <2>2
<1> QED BY <1>1, InitOK, PTL DEF Spec

\* m_clients is the number of connections that are served and never exceeds
\* max_client_count, although the limit is read before the login and the
\* counter raised after it: the poll thread logs in one client at a time.
THEOREM CountsClients == Spec => []ClientsCounted
<1>1. IInv => ClientsCounted
  BY DEF IInv, Counted, Open, ClientsCounted
<1> QED BY <1>1, Inductive, PTL

\* A plan that has counted a reference to the handle it answers through keeps
\* it, whenever its client leaves, wherever close_connection stands and
\* whatever the other workers do.  (A plan of which the copy of m_self came
\* too late counts none: nothing is claimed of it.)
THEOREM HandlesOutlivePlans == Spec => []PlanKeepsHandle
<1>1. IInv => PlanKeepsHandle
  BY DEF IInv, Handles
<1> QED BY <1>1, Inductive, PTL

\* The bare handle in a task, or one of which the copy came too late, is used
\* after it was freed only for a client that has left before its command was
\* answered.
THEOREM OnlyLeaversFreed == Spec => []FreedForLeaversOnly
<1>1. IInv => FreedForLeaversOnly
  BY DEF IInv, Handles
<1> QED BY <1>1, Inductive, PTL

\* The answer a client reads is that of the command it waits for, its packets
\* numbered 1, 2, ... whoever counts them, and packets are lost (refused, or
\* by a write that fills the cache) only of an answer that is, with them, at
\* least as long as the write cache: no byte of an earlier answer is left in it.
THEOREM AnswersWhole == Spec => []AnswerIntact
<1>1. ASSUME IInv PROVE AnswerIntact
  <2>1. \A a \in dropped : a.bytes >= CacheSize
    BY <1>1 DEF IInv, Flow
  <2>2. ASSUME NEW c \in Client, ~Lost(c)
        PROVE  /\ \A i \in 1 .. Len(got[c]) :
                    /\ got[c][i].cmd = sent[c]
                    /\ got[c][i].seq = i
                    /\ got[c][i].last => i = Len(got[c])
               /\ side[c] = "idle" /\ sent[c] > 0 => got[c][Len(got[c])].last
    BY <1>1, <2>2 DEF IInv, Flow, GotOK
  <2> QED BY <2>1, <2>2 DEF AnswerIntact, Lost
<1> QED BY <1>1, Inductive, PTL

=============================================================================
