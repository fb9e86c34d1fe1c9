---------------------------- MODULE SocketServer ----------------------------
(***************************************************************************)
(* utils/socket_server.c on utils/event/ae.c and ae_select.c: the main     *)
(* thread runs the event loop, which accepts connections and reads         *)
(* requests; a complete request is handed to the thread pool with its      *)
(* fd_state, and the worker that runs it answers on the socket and then    *)
(* gives the fd_state back to the loop (keepAlive) or closes and frees it. *)
(* Loop and workers share the event table, maxfd and fd_s->readFlag with   *)
(* no lock.                                                                *)
(*                                                                         *)
(* A step is what one thread does between two accesses another thread may  *)
(* interfere with.  The pool is the FIFO of TaskPool with NumThreads       *)
(* threads; a connection to the database is taken from the head of the     *)
(* list of mysql_connection_pool.c and put back at its tail.               *)
(***************************************************************************)
EXTENDS Naturals, SequencesExt

CONSTANTS
  LastFd,        \* client sockets get descriptors 1..LastFd
  SetSize,       \* eventLoop->setsize: larger descriptors are refused
  Slots,         \* addresses MALLOC returns for an fd_state
  Conns,         \* database connections the pool may open
  NumThreads,    \* threads of the pool
  Requests,      \* the requests clients may send
  Traffics,      \* what to expect of the clients: the requests they send, and the
                 \* values of keepAlive with which send() to them may fail
  NoSlot, NoConn, NoRequest

Listener == 0
Fds == 1..LastFd

ASSUME SocketServerAssumption ==
  /\ LastFd \in Nat /\ SetSize \in Nat /\ NumThreads \in Nat \ {0}
  /\ NoSlot \notin Slots /\ NoConn \notin Conns /\ NoRequest \notin Requests
  /\ Requests \subseteq [type : {"json", "stream", "undefined", "garbled"},
                         keepAlive : BOOLEAN, parses : BOOLEAN, members : BOOLEAN,
                         route : BOOLEAN]
  /\ Traffics \subseteq [requests : SUBSET Requests, sendMayFail : SUBSET BOOLEAN]

VARIABLES
  traffic,       \* the clients of this behaviour, a constant of it
  wronged,       \* history: open sockets on which a wrong request came
  open,          \* client sockets that are open
  events,        \* per descriptor, clientData if AE_READABLE is set, or NoSlot
  maxfd,         \* eventLoop->maxfd
  heap,          \* fd_states that are allocated
  fd_s,          \* their fields
  lpc,           \* where the loop is
  rfds,          \* descriptors select() watches
  fired,         \* descriptors of eventLoop->fired still to be dispatched
  cur,           \* the fd_state the loop's callback was called with
  queue,         \* fd_states in the pool's task list
  wpc,           \* where the worker that handles an fd_state is
  scan,          \* result j of that worker's scan in aeDeleteFileEvent
  sql_list       \* idle database connections

loop   == <<lpc, rfds, fired, cur>>
work   == <<queue, wpc, scan, sql_list>>
vars   == <<traffic, wronged, open, events, maxfd, heap, fd_s, loop, work>>

\* memset(fd_s, 0, sizeof(fd_state)) and the descriptor.
NewState(fd) == [fd |-> fd, readFlag |-> 0, req |-> NoRequest, keepAlive |-> FALSE,
                 errcode |-> FALSE, fd_sql |-> NoConn]

\* FREE: what the block holds then is nobody's, and MALLOC clears it.
FreeState(s) ==
  /\ heap' = heap \ {s}
  /\ fd_s' = [fd_s EXCEPT ![s] = NewState(Listener)]

Init ==
  /\ traffic \in Traffics
  /\ wronged = {}
  /\ open = {} /\ heap = {} /\ maxfd = Listener
  /\ events = [f \in Fds |-> NoSlot]
  /\ fd_s = [s \in Slots |-> NewState(Listener)]
  /\ lpc = "poll" /\ rfds = {} /\ fired = {} /\ cur = NoSlot
  /\ queue = <<>> /\ sql_list = <<>>
  /\ wpc = [s \in Slots |-> "idle"]
  /\ scan = [s \in Slots |-> Listener]

-----------------------------------------------------------------------------
(* ae.c and ae_select.c                                                    *)

Registered(table) == {Listener} \cup {f \in Fds : table[f] # NoSlot}

\* The scan of aeDeleteFileEvent for the next highest descriptor.
HighestBelow(table, f) == Max({g \in Registered(table) : g < f})

\* aeCreateFileEvent, on the loop's thread.
Register(f, s) ==
  /\ events' = [events EXCEPT ![f] = s]
  /\ maxfd' = IF f > maxfd THEN f ELSE maxfd

\* aeDeleteFileEvent, on the loop's thread.
Unregister_KeepsMaxfd(f) ==                                         \* MUTANT
  /\ events' = [events EXCEPT ![f] = NoSlot]
  /\ UNCHANGED maxfd

Unregister(f) ==
  /\ events' = [events EXCEPT ![f] = NoSlot]
  /\ maxfd' = IF f = maxfd /\ events[f] # NoSlot THEN HighestBelow(events', f) ELSE maxfd

\* aeApiPoll copies rfds; select() looks at the descriptors up to maxfd.
Select ==
  /\ lpc = "poll"
  /\ rfds' = {f \in Registered(events) : f <= maxfd}
  /\ lpc' = "select"
  /\ UNCHANGED <<traffic, wronged, open, events, maxfd, heap, fd_s, fired, cur, work>>

\* select() returns: any of the open sockets it watches may be readable, and a
\* timeout or an error fires nothing.  A descriptor is fired only if it is
\* still registered.
SelectReturns ==
  /\ lpc = "select"
  /\ \E ready \in SUBSET (rfds \cap (open \cup {Listener})) :
       fired' = {f \in ready \cap Registered(events) : f <= maxfd}
  /\ lpc' = "dispatch" /\ rfds' = {}
  /\ UNCHANGED <<traffic, wronged, open, events, maxfd, heap, fd_s, cur, work>>

\* The descriptor aeProcessEvents looks at: fired is in ascending order.
Firing(f) == lpc = "dispatch" /\ fired # {} /\ f = Min(fired)

AllDispatched ==
  /\ lpc = "dispatch" /\ fired = {}
  /\ lpc' = "poll"
  /\ UNCHANGED <<traffic, wronged, open, events, maxfd, heap, fd_s, rfds, fired, cur, work>>

\* "so we check if the event is still valid" (fe->mask & mask & AE_READABLE)
StillRegistered(f) == events[f] # NoSlot

Skip(f) ==
  /\ Firing(f) /\ f # Listener /\ ~ StillRegistered(f)
  /\ fired' = fired \ {f}
  /\ UNCHANGED <<traffic, wronged, open, events, maxfd, heap, fd_s, lpc, rfds, cur, work>>

Call(f) ==
  /\ Firing(f) /\ f # Listener /\ StillRegistered(f)
  /\ cur' = events[f]
  /\ lpc' = "call"
  /\ UNCHANGED <<traffic, wronged, open, events, maxfd, heap, fd_s, rfds, fired, work>>

Returns(f) == lpc' = "dispatch" /\ fired' = fired \ {f} /\ cur' = NoSlot

-----------------------------------------------------------------------------
(* aeDoAccept                                                              *)

\* accept() fails, or returns a descriptor the loop has no room for, which is
\* closed and its fd_state freed at once.
AcceptRefused ==
  /\ Firing(Listener)
  /\ Returns(Listener)
  /\ UNCHANGED <<traffic, wronged, open, events, maxfd, heap, fd_s, rfds, work>>

Accept(f, s) ==
  /\ Firing(Listener)
  /\ f \notin open /\ f < SetSize /\ s \notin heap
  /\ open' = open \cup {f}
  /\ heap' = heap \cup {s}
  /\ fd_s' = [fd_s EXCEPT ![s] = NewState(f)]
  /\ Register(f, s)
  /\ Returns(Listener)
  /\ UNCHANGED <<traffic, wronged, rfds, work>>

-----------------------------------------------------------------------------
(* aeSocketRead, called with fd_s = cur                                    *)

Reading(f) == lpc = "recv" /\ f = Min(fired)

\* A worker frees an fd_state as it pleases: when the loop then looks into the
\* block the behaviour of the program is undefined, and the model stays there.
Allocated == lpc = "call" /\ cur \in heap

LooksIntoFreed == lpc = "call" /\ cur \notin heap /\ UNCHANGED vars

\* The request before is still with a worker.
ReadFlagSet_Ignored == FALSE                                        \* MUTANT
ReadFlagSet == fd_s[cur].readFlag # 0

ReadRefused ==
  /\ Allocated /\ ReadFlagSet
  /\ Returns(Min(fired))
  /\ UNCHANGED <<traffic, wronged, open, events, maxfd, heap, fd_s, rfds, work>>

ReadStarts ==
  /\ Allocated /\ ~ ReadFlagSet
  /\ lpc' = "recv"
  /\ UNCHANGED <<traffic, wronged, open, events, maxfd, heap, fd_s, rfds, fired, cur, work>>

\* The request is not complete and recv() would block.
RecvIncomplete(f) ==
  /\ Reading(f)
  /\ Returns(f)
  /\ UNCHANGED <<traffic, wronged, open, events, maxfd, heap, fd_s, rfds, work>>

\* The peer has closed, recv() fails or the data is no request.
RecvFails(f) ==
  /\ Reading(f)
  /\ Unregister(f)
  /\ FreeState(cur)
  /\ open' = open \ {f}
  /\ wronged' = wronged \ {f}
  /\ Returns(f)
  /\ UNCHANGED <<traffic, rfds, work>>

\* A request the handler sets errcode for.
IsBad(r) == \/ r.type \in {"undefined", "garbled"}
            \/ r.type = "json" /\ ~ r.parses
            \/ ~ r.route

HandOver_KeepsEvent(f, r) ==                                        \* MUTANT
  /\ Reading(f)
  /\ UNCHANGED <<events, maxfd>>
  /\ fd_s' = [fd_s EXCEPT ![cur].readFlag = 1, ![cur].req = r]
  /\ queue' = Append(queue, cur)
  /\ wpc' = [wpc EXCEPT ![cur] = "queued"]
  /\ wronged' = IF IsBad(r) THEN wronged \cup {f} ELSE wronged
  /\ Returns(f)
  /\ UNCHANGED <<traffic, open, heap, rfds, scan, sql_list>>

\* A complete request: it is handed to the pool, which is open as long as the
\* loop runs, with its fd_state; a connection not kept alive leaves the loop.
HandOver(f, r) ==
  /\ Reading(f)
  /\ IF r.keepAlive THEN UNCHANGED <<events, maxfd>> ELSE Unregister(f)
  /\ fd_s' = [fd_s EXCEPT ![cur].readFlag = 1, ![cur].req = r]
  /\ queue' = Append(queue, cur)
  /\ wpc' = [wpc EXCEPT ![cur] = "queued"]
  /\ wronged' = IF IsBad(r) THEN wronged \cup {f} ELSE wronged
  /\ Returns(f)
  /\ UNCHANGED <<traffic, open, heap, rfds, scan, sql_list>>

-----------------------------------------------------------------------------
(* handle_received_data, on a thread of the pool                           *)

Busy == {s \in Slots : wpc[s] \notin {"idle", "queued"}}

Start_Last ==                                                       \* MUTANT
  /\ queue # <<>> /\ Cardinality(Busy) < NumThreads
  /\ wpc' = [wpc EXCEPT ![Last(queue)] = "handle"]
  /\ queue' = Front(queue)
  /\ UNCHANGED <<traffic, wronged, open, events, maxfd, heap, fd_s, loop, scan, sql_list>>

Start ==
  /\ queue # <<>> /\ Cardinality(Busy) < NumThreads
  /\ wpc' = [wpc EXCEPT ![Head(queue)] = "handle"]
  /\ queue' = Tail(queue)
  /\ UNCHANGED <<traffic, wronged, open, events, maxfd, heap, fd_s, loop, scan, sql_list>>

Step(s, from, to) == wpc[s] = from /\ wpc' = [wpc EXCEPT ![s] = to]

\* parseRecvBuff fails: the error code is the answer.
HandleGarbled(s) ==
  /\ Step(s, "handle", "send")
  /\ fd_s[s].req.type = "garbled"
  /\ fd_s' = [fd_s EXCEPT ![s].errcode = TRUE, ![s].keepAlive = fd_s[s].req.keepAlive]
  /\ UNCHANGED <<traffic, wronged, open, events, maxfd, heap, loop, queue, scan, sql_list>>

\* undefined_handle
HandleUndefined(s) ==
  /\ Step(s, "handle", "send")
  /\ fd_s[s].req.type = "undefined"
  /\ fd_s' = [fd_s EXCEPT ![s].errcode = TRUE, ![s].keepAlive = FALSE]
  /\ UNCHANGED <<traffic, wronged, open, events, maxfd, heap, loop, queue, scan, sql_list>>

\* The JSON does not parse: no connection is taken.
HandleBadJson(s) ==
  /\ Step(s, "handle", "release")
  /\ fd_s[s].req.type = "json" /\ ~ fd_s[s].req.parses
  /\ fd_s' = [fd_s EXCEPT ![s].errcode = TRUE, ![s].keepAlive = fd_s[s].req.keepAlive]
  /\ UNCHANGED <<traffic, wronged, open, events, maxfd, heap, loop, queue, scan, sql_list>>

ConnsHeld == {fd_s[s].fd_sql : s \in {t \in Slots : wpc[t] = "release"}}
ConnsIdle == {sql_list[k] : k \in DOMAIN sql_list}

\* mysqlConnectionPool_GetOneConn: the first idle connection, or a new one.
GetOneConn(c) ==
  \/ /\ sql_list # <<>>
     /\ c = Head(sql_list)
     /\ sql_list' = Tail(sql_list)
  \/ /\ sql_list = <<>>
     /\ c \in Conns \ ConnsHeld
     /\ UNCHANGED sql_list

\* The JSON has no "route" or no "prm": json_handle uses the NULL it gets for
\* it, which ends the process.
Ended == \E s \in Slots : /\ wpc[s] = "handle" /\ fd_s[s].req.type = "json"
                         /\ fd_s[s].req.parses /\ ~ fd_s[s].req.members

\* json_handle or stream_handle: take a connection and run the route's function.
HandleRoute(s) ==
  /\ Step(s, "handle", "release")
  /\ \/ fd_s[s].req.type = "json" /\ fd_s[s].req.parses
     \/ fd_s[s].req.type = "stream"
  /\ \E c \in Conns :
       /\ GetOneConn(c)
       /\ fd_s' = [fd_s EXCEPT ![s].fd_sql = c,
                               ![s].keepAlive = fd_s[s].req.keepAlive,
                               ![s].errcode = IF fd_s[s].req.route THEN @ ELSE TRUE]
  /\ UNCHANGED <<traffic, wronged, open, events, maxfd, heap, loop, queue, scan>>

HoldsConn_Assumed(s) == TRUE                                        \* MUTANT
HoldsConn(s) == fd_s[s].req.type = "stream" \/ fd_s[s].fd_sql # NoConn

Release_Twice(s) ==                                                  \* MUTANT
  /\ Step(s, "release", "send")
  /\ sql_list' = sql_list \o <<fd_s[s].fd_sql, fd_s[s].fd_sql>>
  /\ UNCHANGED <<traffic, wronged, open, events, maxfd, heap, fd_s, loop, queue, scan>>

\* mysqlConnectionPool_FreeOneConn; fd_s->fd_sql is left as it is.
Release(s) ==
  /\ Step(s, "release", "send")
  /\ sql_list' = IF HoldsConn(s) THEN Append(sql_list, fd_s[s].fd_sql) ELSE sql_list
  /\ UNCHANGED <<traffic, wronged, open, events, maxfd, heap, fd_s, loop, queue, scan>>

-----------------------------------------------------------------------------
(* socketWrite                                                             *)

\* The fd_state goes back to the loop; readFlag is cleared last.
SendKeeps(s) ==
  /\ fd_s[s].keepAlive
  /\ Step(s, "send", "idle")
  /\ fd_s' = [fd_s EXCEPT ![s].readFlag = 0, ![s].req = NoRequest]
  /\ UNCHANGED <<traffic, wronged, open, events, maxfd, heap, loop, queue, scan, sql_list>>

SendCloses_NotFreed(s) ==                                           \* MUTANT
  /\ ~ fd_s[s].keepAlive
  /\ Step(s, "send", "idle")
  /\ UNCHANGED <<traffic, wronged, open, events, maxfd, heap, fd_s, loop, queue, scan, sql_list>>

SendCloses(s) ==
  /\ ~ fd_s[s].keepAlive
  /\ Step(s, "send", "close")
  /\ UNCHANGED <<traffic, wronged, open, events, maxfd, heap, fd_s, loop, queue, scan, sql_list>>

SendFails(s) ==
  /\ fd_s[s].keepAlive \in traffic.sendMayFail
  /\ Step(s, "send", "delete")
  /\ UNCHANGED <<traffic, wronged, open, events, maxfd, heap, fd_s, loop, queue, scan, sql_list>>

\* aeDeleteFileEvent on the worker's thread: the scan and the assignment to
\* maxfd are not one step.
WorkerDelete(s) ==
  LET f == fd_s[s].fd IN
  /\ wpc[s] = "delete"
  /\ events' = [events EXCEPT ![f] = NoSlot]
  /\ IF events[f] # NoSlot /\ f = maxfd
     THEN Step(s, "delete", "maxfd") /\ scan' = [scan EXCEPT ![s] = HighestBelow(events', f)]
     ELSE Step(s, "delete", "close") /\ UNCHANGED scan
  /\ UNCHANGED <<traffic, wronged, open, maxfd, heap, fd_s, loop, queue, sql_list>>

WorkerMaxfd(s) ==
  /\ Step(s, "maxfd", "close")
  /\ maxfd' = scan[s]
  /\ scan' = [scan EXCEPT ![s] = Listener]
  /\ UNCHANGED <<traffic, wronged, open, events, heap, fd_s, loop, queue, sql_list>>

SocketClose(s) ==
  /\ Step(s, "close", "free")
  /\ open' = open \ {fd_s[s].fd}
  /\ wronged' = wronged \ {fd_s[s].fd}
  /\ UNCHANGED <<traffic, events, maxfd, heap, fd_s, loop, queue, scan, sql_list>>

Free(s) ==
  /\ Step(s, "free", "idle")
  /\ FreeState(s)
  /\ UNCHANGED <<traffic, wronged, open, events, maxfd, loop, queue, scan, sql_list>>

-----------------------------------------------------------------------------
LoopStep ==
  \/ Select \/ SelectReturns \/ AllDispatched
  \/ AcceptRefused \/ ReadRefused \/ ReadStarts
  \/ \E f \in Fds : Skip(f) \/ Call(f) \/ RecvIncomplete(f) \/ RecvFails(f)
  \/ \E f \in Fds, s \in Slots : Accept(f, s)
  \/ \E f \in Fds, r \in traffic.requests : HandOver(f, r)

WorkerStep(s) ==
  \/ HandleGarbled(s) \/ HandleUndefined(s) \/ HandleBadJson(s) \/ HandleRoute(s)
  \/ Release(s)
  \/ SendKeeps(s) \/ SendCloses(s) \/ SendFails(s)
  \/ WorkerDelete(s) \/ WorkerMaxfd(s) \/ SocketClose(s) \/ Free(s)

Next ==
  \/ /\ ~ Ended
     /\ LoopStep \/ Start \/ LooksIntoFreed \/ \E s \in Slots : WorkerStep(s)
  \/ Ended /\ UNCHANGED vars

Spec == Init /\ [][Next]_vars

\* Threads that can run do run; clients and the network owe nothing.
Fairness ==
  /\ WF_vars(~ Ended /\ LoopStep) /\ WF_vars(~ Ended /\ Start)
  /\ \A s \in Slots : WF_vars(~ Ended /\ WorkerStep(s))
FairSpec == Spec /\ Fairness

-----------------------------------------------------------------------------
(* Properties                                                              *)

\* The variables stay in their ranges; in particular fd_sql is set whenever it is
\* given back to the list of connections, which takes no NULL.
TypeOK ==
  /\ wronged \subseteq Fds
  /\ open \subseteq Fds /\ heap \subseteq Slots
  /\ events \in [Fds -> Slots \cup {NoSlot}]
  /\ maxfd \in {Listener} \cup Fds
  /\ fd_s \in [Slots -> [fd : {Listener} \cup Fds, readFlag : {0, 1},
                         req : Requests \cup {NoRequest}, keepAlive : BOOLEAN,
                         errcode : BOOLEAN, fd_sql : Conns \cup {NoConn}]]
  /\ lpc \in {"poll", "select", "dispatch", "call", "recv"}
  /\ rfds \subseteq {Listener} \cup Fds /\ fired \subseteq {Listener} \cup Fds
  /\ cur \in Slots \cup {NoSlot}
  /\ queue \in Seq(Slots) /\ sql_list \in Seq(Conns)
  /\ wpc \in [Slots -> {"idle", "queued", "handle", "release", "send", "delete",
                        "maxfd", "close", "free"}]
  /\ scan \in [Slots -> {Listener} \cup Fds]

\* An fd_state is never with the loop and with a worker at once: readFlag, which
\* no lock guards, is enough for the loop to stay out of a buffer a worker uses,
\* and no request enters the pool while the one before is in it.
OneOwner ==
  /\ lpc = "recv" => wpc[cur] = "idle"
  /\ \A j, k \in DOMAIN queue : queue[j] = queue[k] => j = k
  /\ \A s \in Slots : wpc[s] # "idle" => fd_s[s].readFlag = 1

\* A client that keeps its connection takes its answers.
KeptAnswersArrive == TRUE \notin traffic.sendMayFail

\* As long as the answers on kept connections can be sent, no thread reaches a
\* freed fd_state or a socket that is not its own: what is
\* queued, handled, registered or being read is allocated, two live fd_states
\* never have the same open socket, and a registered socket is open.
NoDangling == KeptAnswersArrive =>
  /\ \A s \in Slots : wpc[s] # "idle" => s \in heap
  /\ lpc \in {"call", "recv"} => cur \in heap
  /\ \A f \in Fds : events[f] # NoSlot =>
       f \in open /\ events[f] \in heap /\ fd_s[events[f]].fd = f
  /\ \A s, t \in heap : fd_s[s].fd = fd_s[t].fd /\ s # t =>
       wpc[s] = "free" \/ wpc[t] = "free"

\* Nothing is left behind either: an open socket is registered with the loop or
\* in the hands of a worker that will close it.
NoLeak ==
  \A f \in open : events[f] # NoSlot \/
    \E s \in heap : fd_s[s].fd = f /\ wpc[s] \notin {"idle", "free"}

\* While only the loop updates the event table, maxfd is the highest registered
\* descriptor whatever order connections come and go in.
MaxfdHighest == KeptAnswersArrive => maxfd = Max(Registered(events))

\* ae.c:403-405: when a callback is called for a fired descriptor, its event
\* "is still valid".
CalledWhileValid == lpc = "call" => events[Min(fired)] = cur

\* socket_server.c:126,152: a handler releases the one connection it got, so
\* that no connection is idle and in use, used by two workers or idle twice.
ConnExclusive ==
  /\ \A j, k \in DOMAIN sql_list : sql_list[j] = sql_list[k] => j = k
  /\ \A s, t \in Slots :
       /\ wpc[s] = "release" /\ fd_s[s].fd_sql # NoConn => fd_s[s].fd_sql \notin ConnsIdle
       /\ (wpc[s] = "release" /\ wpc[t] = "release" /\ s # t
             /\ fd_s[s].fd_sql = fd_s[t].fd_sql) => fd_s[s].fd_sql = NoConn

\* A wrong request is answered with an error, and an error is the answer only on
\* a connection that has sent a wrong request itself, now or before (errcode is
\* not reset while a connection is kept): whichever sockets, descriptors and
\* fd_states are used again, nobody is told of another's errors.
AnswerIsOwn ==
  \A s \in Slots : wpc[s] = "send" =>
    /\ IsBad(fd_s[s].req) => fd_s[s].errcode
    /\ fd_s[s].errcode => fd_s[s].fd \in wronged

\* Every request that was handed to the pool is answered or its connection is
\* closed, however many other requests arrive.
EveryRequestEnds == \A s \in Slots : (wpc[s] = "queued") ~> (wpc[s] = "idle")
=============================================================================
