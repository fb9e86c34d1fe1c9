------------------------- MODULE SocketServerProofs -------------------------
(***************************************************************************)
(* What SocketServer promises, for any number of descriptors, fd_states,   *)
(* database connections and threads.                                       *)
(*                                                                         *)
(* Types and ownership (ReadInv, WorkInv, QueueInv) hold whatever clients  *)
(* send.  The rest is about what an fd_state that is kept carries over to  *)
(* its next request, and needs conditions on the requests that ask to be   *)
(* kept: KeptParses for the database connection, KeptDefined for the event *)
(* (handle_received_data keeps or drops a connection by fd_s->keepAlive,   *)
(* aeSocketRead by the request).                                           *)
(* The code does not enforce them.                                         *)
(***************************************************************************)
EXTENDS SocketServer, Extremes, SequenceTheorems, TLAPS

\* What is so whatever the clients do: a worker has only what is allocated and marked
\* as taken, the loop reads only what no worker has.
ReadInv ==
  /\ lpc \in {"call", "recv"} => cur # NoSlot
  /\ lpc = "recv" => cur \in heap /\ wpc[cur] = "idle"

\* A worker has only what is allocated and marked as taken; what it releases it got.
WorkInv ==
  /\ \A s \in heap : fd_s[s].fd \in Fds
  /\ \A s \in Slots : wpc[s] # "idle" =>
       s \in heap /\ fd_s[s].readFlag = 1 /\ fd_s[s].req \in traffic.requests
  /\ \A s \in Slots : wpc[s] = "release" /\ fd_s[s].req.type = "stream" => fd_s[s].fd_sql # NoConn

\* The pool has each queued fd_state once.
QueueInv ==
  /\ \A k \in DOMAIN queue : wpc[queue[k]] = "queued"
  /\ \A j, k \in DOMAIN queue : queue[j] = queue[k] => j = k

OwnerInv == traffic \in Traffics /\ ReadInv /\ WorkInv /\ QueueInv

\* A worker keeps a connection alive only if its request asks for it.
KeepInv ==
  \A s \in Slots : wpc[s] \in {"release", "send"} /\ fd_s[s].keepAlive => fd_s[s].req.keepAlive

\* Where a client may keep its connection, JSON parses.
KeptParses == \A q, r \in traffic.requests : q.keepAlive /\ r.type = "json" => r.parses

\* fd_sql is left over from the request before only on a connection that was kept.
StaleInv ==
  \A s \in Slots : wpc[s] \in {"idle", "queued", "handle"} /\ fd_s[s].fd_sql # NoConn =>
    \E q \in traffic.requests : q.keepAlive

\* An undefined request does not ask to keep the connection: undefined_handle drops it.
KeptDefined == \A r \in traffic.requests : r.type = "undefined" => ~ r.keepAlive

\* A registered socket is open, and its fd_state allocated and about this socket.
TableInv ==
  \A f \in Fds : events[f] # NoSlot => f \in open /\ events[f] \in heap /\ fd_s[events[f]].fd = f

\* An fd_state has its socket to itself until it has closed it.
SocketInv ==
  /\ \A s \in heap : wpc[s] # "free" => fd_s[s].fd \in open
  /\ \A s, t \in heap : fd_s[s].fd = fd_s[t].fd /\ s # t => wpc[s] = "free" \/ wpc[t] = "free"

\* Whether the event of an fd_state is registered, by where its worker is.
EventOf(s) ==
  /\ wpc[s] = "idle" => events[fd_s[s].fd] = s
  /\ wpc[s] \in {"queued", "handle"} => events[fd_s[s].fd] = IF fd_s[s].req.keepAlive THEN s ELSE NoSlot
  /\ wpc[s] \in {"release", "send"} => events[fd_s[s].fd] = IF fd_s[s].keepAlive THEN s ELSE NoSlot
  /\ wpc[s] \in {"maxfd", "close"} => events[fd_s[s].fd] = NoSlot
  /\ wpc[s] = "free" => events[fd_s[s].fd] # s

EventInv == \A s \in heap : EventOf(s)

\* The callback is called with the fd_state of the descriptor that fired.
CurInv == lpc \in {"call", "recv"} /\ cur \in heap => fd_s[cur].fd = Min(fired)

PlaceInv == TableInv /\ SocketInv /\ EventInv /\ NoLeak

\* An fd_state knows of no error but those of its own socket: one that is set, or that
\* the request at hand will set.
ErrorOf(s) == wpc[s] # "free" =>
  /\ fd_s[s].errcode => fd_s[s].fd \in wronged
  /\ wpc[s] \in {"queued", "handle"} /\ IsBad(fd_s[s].req) => fd_s[s].fd \in wronged
  /\ wpc[s] \in {"release", "send"} /\ IsBad(fd_s[s].req) => fd_s[s].errcode

ErrorInv == \A s \in heap : ErrorOf(s)

\* What only the loop writes to is as the loop left it.
LoopOnlyInv ==
  /\ \A s \in Slots : wpc[s] # "maxfd" /\ (wpc[s] = "delete" => events[fd_s[s].fd] = NoSlot)
  /\ lpc = "call" => Min(fired) \in Fds /\ events[Min(fired)] = cur
  /\ maxfd = Max(Registered(events))

-----------------------------------------------------------------------------
(* The types.                                                              *)

\* The scan of aeDeleteFileEvent finds a registered descriptor, the listener if no other.
LEMMA ScanInRange ==
  ASSUME NEW table, NEW f \in Fds
  PROVE  HighestBelow(table, f) \in Registered(table) /\ HighestBelow(table, f) < f
<1> DEFINE S == {g \in Registered(table) : g < f}
<1>1. LastFd \in Nat /\ f \in Nat \ {0}
  BY SocketServerAssumption DEF Fds
<1>2. S \in SUBSET Nat /\ \A g \in S : g <= f
  BY <1>1 DEF Registered, Fds, Listener
<1>3. Listener \in S
  BY <1>1 DEF Registered, Listener
<1>4. Max(S) \in S
  BY <1>1, <1>2, <1>3, MaxIsGreatest
<1> QED BY <1>4 DEF HighestBelow

States == [fd : {Listener} \cup Fds, readFlag : {0, 1}, req : Requests \cup {NoRequest},
           keepAlive : BOOLEAN, errcode : BOOLEAN, fd_sql : Conns \cup {NoConn}]

\* What MALLOC and memset make is an fd_state.
LEMMA NewStateType == \A f \in {Listener} \cup Fds : NewState(f) \in States
BY DEF NewState, States

\* aeDeleteFileEvent leaves the table and maxfd in range.
LEMMA UnregisterType ==
  ASSUME TypeOK, NEW f \in Fds, Unregister(f)
  PROVE  events' \in [Fds -> Slots \cup {NoSlot}] /\ maxfd' \in {Listener} \cup Fds
<1>1. events' \in [Fds -> Slots \cup {NoSlot}]
  BY DEF Unregister, TypeOK
<1>2. HighestBelow(events', f) \in Registered(events') /\ Registered(events') \subseteq {Listener} \cup Fds
  BY ScanInRange DEF Registered
<1>3. maxfd' \in {Listener} \cup Fds
  <2>1. maxfd' = HighestBelow(events', f) \/ maxfd' = maxfd
    BY DEF Unregister
  <2> QED BY <2>1, <1>2 DEF TypeOK
<1> QED BY <1>1, <1>3

\* So does what json_handle and stream_handle write to an fd_state.
LEMMA RouteType ==
  ASSUME NEW f \in [Slots -> States], NEW s \in Slots, NEW c \in Conns,
         NEW k \in BOOLEAN, NEW e \in BOOLEAN
  PROVE  [f EXCEPT ![s].fd_sql = c, ![s].keepAlive = k, ![s].errcode = e] \in [Slots -> States]
<1> DEFINE old == f[s]
           new == [old EXCEPT !.fd_sql = c, !.keepAlive = k, !.errcode = e]
<1>1. old \in States
  OBVIOUS
<1> HIDE DEF old
<1>2. new \in States
  BY <1>1 DEF States
<1>3. [f EXCEPT ![s].fd_sql = c, ![s].keepAlive = k, ![s].errcode = e] = [f EXCEPT ![s] = new]
  BY <1>1 DEF old
<1> HIDE DEF new
<1> QED BY <1>2, <1>3

\* What a worker is at is a request, of the kinds clients send.
LEMMA AtRequest ==
  ASSUME OwnerInv, NEW s \in Slots, wpc[s] # "idle"
  PROVE  fd_s[s].req \in Requests /\ fd_s[s].req.keepAlive \in BOOLEAN
<1>1. traffic \in Traffics /\ fd_s[s].req \in traffic.requests
  BY DEF OwnerInv, ReadInv, WorkInv
<1>2. traffic.requests \subseteq Requests
  BY <1>1, SocketServerAssumption
<1> QED BY <1>1, <1>2, SocketServerAssumption

\* Every step keeps the types.
LEMMA TypeNext ==
  ASSUME TypeOK, OwnerInv, [Next]_vars
  PROVE  TypeOK'
<1>1. /\ fd_s \in [Slots -> States]
      /\ \A r \in traffic.requests : r \in Requests
  BY SocketServerAssumption DEF States, OwnerInv, ReadInv, WorkInv, TypeOK
<1>2. CASE Select
  BY <1>2 DEF Select, Registered, work, TypeOK
<1>3. CASE SelectReturns
  BY <1>3 DEF SelectReturns, work, TypeOK
<1>4. CASE AllDispatched
  BY <1>4 DEF AllDispatched, work, TypeOK
<1>5. CASE AcceptRefused
  BY <1>5 DEF AcceptRefused, Returns, work, TypeOK
<1>6. CASE ReadRefused
  BY <1>6 DEF ReadRefused, Returns, work, TypeOK
<1>7. CASE ReadStarts
  BY <1>7 DEF ReadStarts, work, TypeOK
<1>8. ASSUME NEW f \in Fds, Skip(f)
      PROVE  TypeOK'
  BY <1>8 DEF Skip, work, TypeOK
<1>9. ASSUME NEW f \in Fds, Call(f)
      PROVE  TypeOK'
  BY <1>9 DEF Call, work, TypeOK
<1>10. ASSUME NEW f \in Fds, RecvIncomplete(f)
       PROVE  TypeOK'
  BY <1>10 DEF RecvIncomplete, Returns, work, TypeOK
<1>11. ASSUME NEW f \in Fds, RecvFails(f)
       PROVE  TypeOK'
  <2>1. events' \in [Fds -> Slots \cup {NoSlot}] /\ maxfd' \in {Listener} \cup Fds
    BY <1>11, UnregisterType DEF RecvFails, TypeOK
  <2>2. fd_s' \in [Slots -> States]
    BY <1>1, <1>11, NewStateType DEF RecvFails, FreeState
  <2> QED BY <1>11, <2>1, <2>2 DEF RecvFails, FreeState, Returns, work, States, TypeOK
<1>12. ASSUME NEW f \in Fds, NEW s \in Slots, Accept(f, s)
       PROVE  TypeOK'
  <2>1. fd_s' \in [Slots -> States]
    BY <1>1, <1>12, NewStateType DEF Accept
  <2> QED BY <1>12, <2>1 DEF Accept, Register, Returns, work, States, TypeOK
<1>13. ASSUME NEW f \in Fds, NEW r \in traffic.requests, HandOver(f, r)
       PROVE  TypeOK'
  <2>1. cur \in Slots
    BY <1>13 DEF HandOver, Reading, OwnerInv, ReadInv, WorkInv, TypeOK
  <2>2. events' \in [Fds -> Slots \cup {NoSlot}] /\ maxfd' \in {Listener} \cup Fds
    BY <1>13, UnregisterType DEF HandOver, TypeOK
  <2>3a. fd_s' = [fd_s EXCEPT ![cur].readFlag = 1, ![cur].req = r]
    BY <1>13 DEF HandOver
  <2>3. fd_s' \in [Slots -> States]
    BY <1>1, <2>1, <2>3a DEF States
  <2>4. queue' \in Seq(Slots)
    BY <1>13, <2>1 DEF HandOver, TypeOK
  <2> QED BY <1>13, <2>1, <2>2, <2>3, <2>4 DEF HandOver, Returns, States, TypeOK
<1>14. CASE Start
  <2>1. Head(queue) \in Slots /\ Tail(queue) \in Seq(Slots)
    BY <1>14 DEF Start, TypeOK
  <2> QED BY <1>14, <2>1 DEF Start, loop, TypeOK
<1>15. ASSUME NEW s \in Slots, WorkerStep(s)
       PROVE  TypeOK'
  <2>1. CASE HandleGarbled(s)
    <3>1. wpc[s] # "idle"
      BY <2>1 DEF HandleGarbled, Step, TypeOK
    <3>2. fd_s[s].req.keepAlive \in BOOLEAN
      BY <3>1, AtRequest
    <3>3a. fd_s' = [fd_s EXCEPT ![s].errcode = TRUE, ![s].keepAlive = fd_s[s].req.keepAlive]
      BY <2>1 DEF HandleGarbled
    <3>3. fd_s' \in [Slots -> States]
      BY <1>1, <3>3a, <3>2 DEF States
    <3> QED BY <2>1, <3>3 DEF HandleGarbled, Step, loop, States, TypeOK
  <2>2. CASE HandleUndefined(s)
    <3>1a. fd_s' = [fd_s EXCEPT ![s].errcode = TRUE, ![s].keepAlive = FALSE]
      BY <2>2 DEF HandleUndefined
    <3>1. fd_s' \in [Slots -> States]
      BY <1>1, <3>1a DEF States
    <3> QED BY <2>2, <3>1 DEF HandleUndefined, Step, loop, States, TypeOK
  <2>3. CASE HandleBadJson(s)
    <3>1. wpc[s] # "idle"
      BY <2>3 DEF HandleBadJson, Step, TypeOK
    <3>2. fd_s[s].req.keepAlive \in BOOLEAN
      BY <3>1, AtRequest
    <3>3a. fd_s' = [fd_s EXCEPT ![s].errcode = TRUE, ![s].keepAlive = fd_s[s].req.keepAlive]
      BY <2>3 DEF HandleBadJson
    <3>3. fd_s' \in [Slots -> States]
      BY <1>1, <3>3a, <3>2 DEF States
    <3> QED BY <2>3, <3>3 DEF HandleBadJson, Step, loop, States, TypeOK
  <2>4. CASE HandleRoute(s)
    <3>1. wpc[s] # "idle"
      BY <2>4 DEF HandleRoute, Step, TypeOK
    <3>2. fd_s[s].req.keepAlive \in BOOLEAN
      BY <3>1, AtRequest
    <3> DEFINE e == IF fd_s[s].req.route THEN fd_s[s].errcode ELSE TRUE
    <3>3. \E c \in Conns :
            /\ GetOneConn(c)
            /\ fd_s' = [fd_s EXCEPT ![s].fd_sql = c, ![s].keepAlive = fd_s[s].req.keepAlive,
                                    ![s].errcode = e]
      BY <2>4 DEF HandleRoute
    <3>e. e \in BOOLEAN
      <4>1. fd_s[s].errcode \in BOOLEAN
        BY <1>1 DEF States
      <4>2. CASE fd_s[s].req.route
        BY <4>1, <4>2
      <4>3. CASE ~ fd_s[s].req.route
        BY <4>3
      <4> QED BY <4>2, <4>3
    <3> HIDE DEF e
    <3>c. PICK c \in Conns :
            fd_s' = [fd_s EXCEPT ![s].fd_sql = c, ![s].keepAlive = fd_s[s].req.keepAlive,
                                    ![s].errcode = e]
      BY <3>3
    <3>4. fd_s' \in [Slots -> States]
      BY <1>1, <3>2, <3>c, <3>e, RouteType
    <3>5. sql_list' \in Seq(Conns)
      <4>1. PICK c2 \in Conns : GetOneConn(c2)
        BY <3>3
      <4>2. sql_list \in Seq(Conns)
        BY DEF TypeOK
      <4>3. CASE sql_list = <<>>
        BY <4>1, <4>2, <4>3 DEF GetOneConn
      <4>4. CASE sql_list # <<>>
        <5>1. sql_list' = Tail(sql_list)
          BY <4>1, <4>4 DEF GetOneConn
        <5> QED BY <4>2, <4>4, <5>1, HeadTailProperties
      <4> QED BY <4>3, <4>4
    <3>6. wpc' = [wpc EXCEPT ![s] = "release"] /\ UNCHANGED <<wronged, open, events, maxfd, heap, loop, queue, scan>>
      BY <2>4 DEF HandleRoute, Step
    <3> QED BY <3>4, <3>5, <3>6 DEF loop, States, TypeOK
  <2>5. CASE Release(s)
    <3>1. HoldsConn(s) => fd_s[s].fd_sql \in Conns
      BY <1>1, <2>5 DEF Release, Step, HoldsConn, OwnerInv, ReadInv, WorkInv, States, TypeOK
    <3>2. sql_list' \in Seq(Conns)
      BY <2>5, <3>1 DEF Release, TypeOK
    <3> QED BY <2>5, <3>2 DEF Release, Step, loop, TypeOK
  <2>6. CASE SendKeeps(s)
    <3>1a. fd_s' = [fd_s EXCEPT ![s].readFlag = 0, ![s].req = NoRequest]
      BY <2>6 DEF SendKeeps
    <3>1. fd_s' \in [Slots -> States]
      BY <1>1, <3>1a DEF States
    <3> QED BY <2>6, <3>1 DEF SendKeeps, Step, loop, States, TypeOK
  <2>7. CASE SendCloses(s)
    BY <2>7 DEF SendCloses, Step, loop, TypeOK
  <2>8. CASE SendFails(s)
    BY <2>8 DEF SendFails, Step, loop, TypeOK
  <2>9. CASE WorkerDelete(s)
    <3>1. fd_s[s].fd \in Fds
      BY <2>9 DEF WorkerDelete, OwnerInv, ReadInv, WorkInv, TypeOK
    <3>2. HighestBelow(events', fd_s[s].fd) \in {Listener} \cup Fds
      BY <3>1, ScanInRange DEF Registered, TypeOK
    <3> QED BY <2>9, <3>1, <3>2 DEF WorkerDelete, Step, loop, TypeOK
  <2>10. CASE WorkerMaxfd(s)
    BY <2>10 DEF WorkerMaxfd, Step, loop, TypeOK
  <2>11. CASE SocketClose(s)
    BY <2>11 DEF SocketClose, Step, loop, TypeOK
  <2>12. CASE Free(s)
    <3>1. fd_s' \in [Slots -> States]
      BY <1>1, <2>12, NewStateType DEF Free, FreeState
    <3> QED BY <2>12, <3>1 DEF Free, FreeState, Step, loop, States, TypeOK
  <2> QED BY <1>15, <2>1, <2>2, <2>3, <2>4, <2>5, <2>6, <2>7, <2>8, <2>9, <2>10, <2>11, <2>12 DEF WorkerStep
<1>16. CASE UNCHANGED vars
  BY <1>16 DEF vars, loop, work, TypeOK
<1> QED
  BY <1>2, <1>3, <1>4, <1>5, <1>6, <1>7, <1>8, <1>9, <1>10, <1>11, <1>12, <1>13, <1>14, <1>15, <1>16
     DEF Next, LoopStep, LooksIntoFreed

-----------------------------------------------------------------------------
(* What the steps that write to an fd_state do to it.                      *)

\* A step is about the fd_state s and its worker only.
Others(s) == \A t \in Slots : t # s => fd_s'[t] = fd_s[t] /\ wpc'[t] = wpc[t]

\* The fields a handler does not write.
Kept(s) == /\ fd_s'[s].fd = fd_s[s].fd
           /\ fd_s'[s].readFlag = fd_s[s].readFlag
           /\ fd_s'[s].req = fd_s[s].req

\* The loop hands over an idle fd_state, with the request in it.
LEMMA HandOverFields ==
  ASSUME TypeOK, OwnerInv, NEW f \in Fds, NEW r \in traffic.requests, HandOver(f, r)
  PROVE  /\ cur \in heap /\ cur \in Slots /\ wpc[cur] = "idle" /\ wpc'[cur] = "queued"
         /\ Others(cur)
         /\ fd_s'[cur].fd = fd_s[cur].fd /\ fd_s'[cur].readFlag = 1 /\ fd_s'[cur].req = r
         /\ fd_s'[cur].keepAlive = fd_s[cur].keepAlive /\ fd_s'[cur].errcode = fd_s[cur].errcode
         /\ fd_s'[cur].fd_sql = fd_s[cur].fd_sql
<1>1. cur \in heap /\ cur \in Slots /\ wpc[cur] = "idle"
  BY DEF HandOver, Reading, OwnerInv, ReadInv, WorkInv, TypeOK
<1>2. /\ fd_s' = [fd_s EXCEPT ![cur].readFlag = 1, ![cur].req = r]
      /\ wpc' = [wpc EXCEPT ![cur] = "queued"]
  BY DEF HandOver
<1>3. fd_s \in [Slots -> States] /\ wpc = [t \in Slots |-> wpc[t]]
  BY DEF TypeOK, States
<1> QED BY ONLY <1>1, <1>2, <1>3 DEF States, Others

\* HandleGarbled writes errcode and keepAlive.
LEMMA GarbledFields ==
  ASSUME TypeOK, NEW s \in Slots, HandleGarbled(s)
  PROVE  /\ wpc[s] = "handle" /\ wpc'[s] = "send" /\ Others(s) /\ Kept(s)
         /\ fd_s'[s].keepAlive = fd_s[s].req.keepAlive /\ fd_s'[s].errcode = TRUE
         /\ fd_s'[s].fd_sql = fd_s[s].fd_sql
<1>2. /\ fd_s' = [fd_s EXCEPT ![s].errcode = TRUE, ![s].keepAlive = fd_s[s].req.keepAlive]
      /\ wpc[s] = "handle" /\ wpc' = [wpc EXCEPT ![s] = "send"]
  BY DEF HandleGarbled, Step
<1>3. fd_s \in [Slots -> States] /\ wpc = [t \in Slots |-> wpc[t]]
  BY DEF TypeOK, States
<1> QED BY ONLY <1>2, <1>3, s \in Slots DEF States, Others, Kept

\* HandleUndefined writes errcode and drops keepAlive.
LEMMA UndefinedFields ==
  ASSUME TypeOK, NEW s \in Slots, HandleUndefined(s)
  PROVE  /\ wpc[s] = "handle" /\ wpc'[s] = "send" /\ Others(s) /\ Kept(s)
         /\ fd_s'[s].keepAlive = FALSE /\ fd_s'[s].errcode = TRUE
         /\ fd_s'[s].fd_sql = fd_s[s].fd_sql
<1>2. /\ fd_s' = [fd_s EXCEPT ![s].errcode = TRUE, ![s].keepAlive = FALSE]
      /\ wpc[s] = "handle" /\ wpc' = [wpc EXCEPT ![s] = "send"]
  BY DEF HandleUndefined, Step
<1>3. fd_s \in [Slots -> States] /\ wpc = [t \in Slots |-> wpc[t]]
  BY DEF TypeOK, States
<1> QED BY ONLY <1>2, <1>3, s \in Slots DEF States, Others, Kept

\* HandleBadJson writes errcode and keepAlive.
LEMMA BadJsonFields ==
  ASSUME TypeOK, NEW s \in Slots, HandleBadJson(s)
  PROVE  /\ wpc[s] = "handle" /\ wpc'[s] = "release" /\ Others(s) /\ Kept(s)
         /\ fd_s'[s].keepAlive = fd_s[s].req.keepAlive /\ fd_s'[s].errcode = TRUE
         /\ fd_s'[s].fd_sql = fd_s[s].fd_sql
<1>2. /\ fd_s' = [fd_s EXCEPT ![s].errcode = TRUE, ![s].keepAlive = fd_s[s].req.keepAlive]
      /\ wpc[s] = "handle" /\ wpc' = [wpc EXCEPT ![s] = "release"]
  BY DEF HandleBadJson, Step
<1>3. fd_s \in [Slots -> States] /\ wpc = [t \in Slots |-> wpc[t]]
  BY DEF TypeOK, States
<1> QED BY ONLY <1>2, <1>3, s \in Slots DEF States, Others, Kept

\* HandleRoute gets a connection, and sets errcode if there is no such route.
LEMMA RouteFields ==
  ASSUME TypeOK, NEW s \in Slots, HandleRoute(s)
  PROVE  /\ wpc[s] = "handle" /\ wpc'[s] = "release" /\ Others(s) /\ Kept(s)
         /\ fd_s'[s].keepAlive = fd_s[s].req.keepAlive
         /\ fd_s[s].req.route => fd_s'[s].errcode = fd_s[s].errcode
         /\ ~ fd_s[s].req.route => fd_s'[s].errcode = TRUE
         /\ fd_s'[s].fd_sql \in Conns /\ GetOneConn(fd_s'[s].fd_sql)
<1> DEFINE e == IF fd_s[s].req.route THEN fd_s[s].errcode ELSE TRUE
<1>1. PICK c \in Conns :
        /\ GetOneConn(c)
        /\ fd_s' = [fd_s EXCEPT ![s].fd_sql = c, ![s].keepAlive = fd_s[s].req.keepAlive,
                                ![s].errcode = e]
  BY DEF HandleRoute
<1>2. wpc[s] = "handle" /\ wpc' = [wpc EXCEPT ![s] = "release"]
  BY DEF HandleRoute, Step
<1>3. fd_s \in [Slots -> States] /\ wpc = [t \in Slots |-> wpc[t]]
  BY DEF TypeOK, States
<1>4. /\ fd_s[s].req.route => e = fd_s[s].errcode
      /\ ~ fd_s[s].req.route => e = TRUE
  OBVIOUS
<1> HIDE DEF e
<1>5. fd_s' = [fd_s EXCEPT ![s].fd_sql = c, ![s].keepAlive = fd_s[s].req.keepAlive, ![s].errcode = e]
  BY <1>1
<1>6. /\ Others(s) /\ Kept(s) /\ wpc'[s] = "release"
      /\ fd_s'[s].keepAlive = fd_s[s].req.keepAlive
      /\ fd_s'[s].errcode = e /\ fd_s'[s].fd_sql = c
  BY ONLY <1>2, <1>3, <1>5, s \in Slots DEF States, Others, Kept
<1> QED BY <1>1, <1>2, <1>4, <1>6

\* SendKeeps clears readFlag and the request only.
LEMMA KeepsFields ==
  ASSUME TypeOK, NEW s \in Slots, SendKeeps(s)
  PROVE  /\ wpc[s] = "send" /\ wpc'[s] = "idle" /\ Others(s) /\ fd_s[s].keepAlive
         /\ fd_s'[s].fd = fd_s[s].fd /\ fd_s'[s].readFlag = 0
         /\ fd_s'[s].keepAlive = fd_s[s].keepAlive /\ fd_s'[s].errcode = fd_s[s].errcode
         /\ fd_s'[s].fd_sql = fd_s[s].fd_sql
<1>2. /\ fd_s' = [fd_s EXCEPT ![s].readFlag = 0, ![s].req = NoRequest]
      /\ wpc[s] = "send" /\ wpc' = [wpc EXCEPT ![s] = "idle"] /\ fd_s[s].keepAlive
  BY DEF SendKeeps, Step
<1>3. fd_s \in [Slots -> States] /\ wpc = [t \in Slots |-> wpc[t]]
  BY DEF TypeOK, States
<1> QED BY ONLY <1>2, <1>3, s \in Slots DEF States, Others

\* A freed block is cleared.
LEMMA FreeFields ==
  ASSUME TypeOK, NEW s \in Slots, FreeState(s)
  PROVE  /\ heap' = heap \ {s}
         /\ fd_s' = [fd_s EXCEPT ![s] = NewState(Listener)]
         /\ \A t \in Slots : t # s => fd_s'[t] = fd_s[t]
         /\ fd_s'[s].fd_sql = NoConn /\ fd_s'[s].errcode = FALSE
BY DEF FreeState, NewState, TypeOK

\* Accept takes a block no worker has.
LEMMA AcceptFields ==
  ASSUME TypeOK, OwnerInv, NEW f \in Fds, NEW s \in Slots, Accept(f, s)
  PROVE  /\ s \notin heap /\ heap' = heap \cup {s} /\ wpc[s] = "idle" /\ wpc'[s] = "idle"
         /\ Others(s)
         /\ fd_s'[s].fd = f /\ fd_s'[s].fd_sql = NoConn /\ ~ fd_s'[s].errcode
<1>1. s \notin heap /\ heap' = heap \cup {s} /\ fd_s' = [fd_s EXCEPT ![s] = NewState(f)] /\ wpc' = wpc
  BY DEF Accept, work
<1>2. wpc[s] = "idle"
  BY <1>1 DEF OwnerInv, ReadInv, WorkInv
<1> QED BY <1>1, <1>2 DEF NewState, TypeOK, Others

-----------------------------------------------------------------------------
(* The queue.                                                              *)

\* What Start takes is queued.
LEMMA HeadQueued ==
  ASSUME TypeOK, OwnerInv, queue # <<>>
  PROVE  Head(queue) \in Slots /\ wpc[Head(queue)] = "queued"
<1>1. Len(queue) \in Nat /\ Len(queue) # 0 /\ DOMAIN queue = 1..Len(queue)
      /\ Head(queue) = queue[1] /\ Head(queue) \in Slots
  BY EmptySeq, LenProperties, HeadTailProperties DEF TypeOK
<1>2. 1 \in DOMAIN queue
  BY <1>1
<1> QED BY <1>1, <1>2 DEF OwnerInv, QueueInv

\* Every step keeps the queue free of repetition, and what is in it marked as queued.
LEMMA QueueNext ==
  ASSUME TypeOK, OwnerInv, [Next]_vars
  PROVE  QueueInv'
<1>1. queue \in Seq(Slots) /\ QueueInv
  BY DEF TypeOK, OwnerInv
<1>2. DOMAIN queue = 1..Len(queue) /\ Len(queue) \in Nat
  BY <1>1, LenProperties
<1>3. ASSUME NEW f \in Fds, NEW r \in traffic.requests, HandOver(f, r)
      PROVE  QueueInv'
  <2>1. /\ queue' = Append(queue, cur) /\ cur \in Slots
        /\ wpc[cur] = "idle" /\ wpc' = [wpc EXCEPT ![cur] = "queued"]
    BY <1>3, HandOverFields DEF HandOver
  <2>2. /\ DOMAIN queue' = (DOMAIN queue) \cup {Len(queue) + 1}
        /\ \A k \in DOMAIN queue : queue'[k] = queue[k]
        /\ queue'[Len(queue) + 1] = cur
    BY <1>1, <1>2, <2>1, AppendProperties, LenProperties
  <2>3. \A k \in DOMAIN queue : queue[k] \in Slots /\ queue[k] # cur
    BY <1>1, <2>1 DEF QueueInv
  <2> QED BY <1>1, <2>1, <2>2, <2>3 DEF QueueInv, TypeOK
<1>4. CASE Start
  <2>1. /\ queue # <<>> /\ queue' = Tail(queue)
        /\ wpc' = [wpc EXCEPT ![Head(queue)] = "handle"]
    BY <1>4 DEF Start
  <2>2. /\ DOMAIN queue' = 1..Len(queue) - 1 /\ Head(queue) = queue[1]
        /\ \A k \in DOMAIN queue' : queue'[k] = queue[k + 1]
    BY <1>1, <2>1, HeadTailProperties, LenProperties
  <2>3. Len(queue) # 0
    BY <1>1, <2>1, EmptySeq
  <2>4. \A k \in DOMAIN queue' : k + 1 \in DOMAIN queue /\ 1 \in DOMAIN queue /\ k + 1 # 1
    BY <1>2, <2>2, <2>3
  <2>5. \A k \in DOMAIN queue' : wpc'[queue'[k]] = "queued"
    <3> SUFFICES ASSUME NEW k \in DOMAIN queue' PROVE wpc'[queue'[k]] = "queued"
      OBVIOUS
    <3>1. queue[k + 1] # queue[1] /\ wpc[queue[k + 1]] = "queued"
      BY <1>1, <2>4 DEF QueueInv
    <3>2. queue[k + 1] \in Slots
      BY <1>1, <2>4
    <3> QED BY <2>1, <2>2, <3>1, <3>2 DEF TypeOK
  <2>6. \A j, k \in DOMAIN queue' : queue'[j] = queue'[k] => j = k
    <3> SUFFICES ASSUME NEW j \in DOMAIN queue', NEW k \in DOMAIN queue', queue'[j] = queue'[k]
                 PROVE  j = k
      OBVIOUS
    <3>1. j + 1 = k + 1
      BY <1>1, <2>2, <2>4 DEF QueueInv
    <3> QED BY <2>2, <3>1, <1>2
  <2> QED BY <2>5, <2>6 DEF QueueInv
<1>5. ASSUME NEW s \in Slots, wpc[s] # "queued", NEW p, wpc' = [wpc EXCEPT ![s] = p], queue' = queue
      PROVE  QueueInv'
  <2>1. \A k \in DOMAIN queue : queue[k] \in Slots /\ queue[k] # s
    BY <1>1, <1>5 DEF QueueInv
  <2> QED BY <1>1, <1>5, <2>1 DEF QueueInv, TypeOK
<1>6. ASSUME NEW s \in Slots, WorkerStep(s)
      PROVE  QueueInv'
  <2>1. queue' = queue /\ wpc[s] # "queued" /\ \E p : wpc' = [wpc EXCEPT ![s] = p]
    BY <1>6 DEF WorkerStep, HandleGarbled, HandleUndefined, HandleBadJson, HandleRoute, Release,
         SendKeeps, SendCloses, SendFails, WorkerDelete, WorkerMaxfd, SocketClose, Free, Step
  <2> QED BY <1>5, <2>1
<1>7. ASSUME queue' = queue, wpc' = wpc
      PROVE  QueueInv'
  BY <1>1, <1>7 DEF QueueInv
<1>8. ASSUME LoopStep, \A f \in Fds, r \in traffic.requests : ~ HandOver(f, r)
      PROVE  queue' = queue /\ wpc' = wpc
  BY <1>8 DEF LoopStep, Select, SelectReturns, AllDispatched, AcceptRefused, ReadRefused, ReadStarts,
       Skip, Call, RecvIncomplete, RecvFails, Accept, work
<1> QED BY <1>3, <1>4, <1>6, <1>7, <1>8 DEF Next, LooksIntoFreed, vars, work

-----------------------------------------------------------------------------
(* Who has an fd_state.                                                    *)

\* The clients of a behaviour stay what they are.
LEMMA TrafficNext ==
  ASSUME [Next]_vars
  PROVE  traffic' = traffic
BY DEF Next, LoopStep, Select, SelectReturns, AllDispatched, AcceptRefused, ReadRefused, ReadStarts,
     Skip, Call, RecvIncomplete, RecvFails, Accept, HandOver, Start, LooksIntoFreed, WorkerStep,
     HandleGarbled, HandleUndefined, HandleBadJson, HandleRoute, Release, SendKeeps, SendCloses,
     SendFails, WorkerDelete, WorkerMaxfd, SocketClose, Free, vars

\* The steps of the loop that neither take nor free an fd_state.
LEMMA LoopQuiet ==
  ASSUME LoopStep, \A f \in Fds : ~ RecvFails(f),
         \A f \in Fds, s \in Slots : ~ Accept(f, s), \A f \in Fds, r \in traffic.requests : ~ HandOver(f, r)
  PROVE  UNCHANGED <<open, events, maxfd, heap, fd_s, work>>
BY DEF LoopStep, Select, SelectReturns, AllDispatched, AcceptRefused, ReadRefused, ReadStarts,
       Skip, Call, RecvIncomplete, work

\* The loop reads what it saw to be free, and no worker takes it from it.
LEMMA ReadNext ==
  ASSUME TypeOK, OwnerInv, [Next]_vars
  PROVE  ReadInv'
<1>1. ReadInv /\ WorkInv
  BY DEF OwnerInv
<1>2. CASE LoopStep
  <2>1. CASE lpc' \notin {"call", "recv"}
    BY <2>1 DEF ReadInv
  <2>2. ASSUME NEW f \in Fds, Call(f)
        PROVE  ReadInv'
    BY <2>2 DEF Call, StillRegistered, ReadInv
  <2>3. CASE ReadStarts
    <3>1. cur \in Slots /\ wpc[cur] = "idle"
      BY <1>1, <2>3 DEF ReadStarts, Allocated, ReadFlagSet, ReadInv, WorkInv, TypeOK
    <3> QED BY <1>1, <2>3, <3>1 DEF ReadStarts, Allocated, ReadInv, work
  <2>4. ASSUME NEW f \in Fds, Skip(f)
        PROVE  lpc' = "dispatch"
    BY <2>4 DEF Skip, Firing
  <2> QED BY <1>2, <2>1, <2>2, <2>3, <2>4 DEF LoopStep, Select, SelectReturns, AllDispatched,
       AcceptRefused, ReadRefused, RecvIncomplete, RecvFails, Accept, HandOver, Returns
<1>3. CASE Start
  <2>1. /\ queue # <<>> /\ wpc' = [wpc EXCEPT ![Head(queue)] = "handle"]
        /\ UNCHANGED <<lpc, cur, heap>>
    BY <1>3 DEF Start, loop
  <2>2. wpc[Head(queue)] = "queued"
    BY <2>1, HeadQueued
  <2> QED BY <1>1, <2>1, <2>2 DEF ReadInv, TypeOK
<1>4. ASSUME NEW s \in Slots, WorkerStep(s)
      PROVE  ReadInv'
  <2>1. UNCHANGED <<lpc, cur>> /\ wpc[s] # "idle" /\ heap \ {s} \subseteq heap'
        /\ \E p : wpc' = [wpc EXCEPT ![s] = p]
    BY <1>4 DEF WorkerStep, HandleGarbled, HandleUndefined, HandleBadJson, HandleRoute, Release,
         SendKeeps, SendCloses, SendFails, WorkerDelete, WorkerMaxfd, SocketClose, Free, FreeState, Step, loop
  <2> QED BY <1>1, <2>1 DEF ReadInv, TypeOK
<1>5. CASE UNCHANGED vars
  BY <1>1, <1>5 DEF ReadInv, vars, loop, work
<1> QED BY <1>2, <1>3, <1>4, <1>5 DEF Next, LooksIntoFreed

\* A step that is about one fd_state only.
LEMMA WorkOne ==
  ASSUME WorkInv, heap \subseteq Slots, traffic' = traffic, NEW s \in Slots,
         \A t \in Slots : t # s => fd_s'[t] = fd_s[t] /\ wpc'[t] = wpc[t],
         heap' = heap \/ heap' = heap \ {s} \/ heap' = heap \cup {s},
         s \in heap' => fd_s'[s].fd \in Fds,
         wpc'[s] # "idle" => s \in heap' /\ fd_s'[s].readFlag = 1 /\ fd_s'[s].req \in traffic.requests,
         wpc'[s] = "release" /\ fd_s'[s].req.type = "stream" => fd_s'[s].fd_sql # NoConn
  PROVE  WorkInv'
<1>1. \A t \in heap' : fd_s'[t].fd \in Fds
  BY DEF WorkInv
<1>2. \A t \in Slots : wpc'[t] # "idle" => t \in heap' /\ fd_s'[t].readFlag = 1 /\ fd_s'[t].req \in traffic.requests
  <2> SUFFICES ASSUME NEW t \in Slots, t # s, wpc'[t] # "idle"
               PROVE  t \in heap' /\ fd_s'[t].readFlag = 1 /\ fd_s'[t].req \in traffic.requests
    OBVIOUS
  <2>1. fd_s'[t] = fd_s[t] /\ wpc[t] # "idle"
    OBVIOUS
  <2> QED BY <2>1 DEF WorkInv
<1>3. \A t \in Slots : wpc'[t] = "release" /\ fd_s'[t].req.type = "stream" => fd_s'[t].fd_sql # NoConn
  <2> SUFFICES ASSUME NEW t \in Slots, t # s, wpc'[t] = "release", fd_s'[t].req.type = "stream"
               PROVE  fd_s'[t].fd_sql # NoConn
    OBVIOUS
  <2>1. fd_s'[t] = fd_s[t] /\ wpc[t] = "release"
    OBVIOUS
  <2> QED BY <2>1 DEF WorkInv
<1> QED BY <1>1, <1>2, <1>3 DEF WorkInv

\* Every step keeps what workers have allocated and marked.
LEMMA WorkNext ==
  ASSUME TypeOK, OwnerInv, [Next]_vars
  PROVE  WorkInv'
<1>1. WorkInv /\ traffic' = traffic /\ heap \subseteq Slots
  BY TrafficNext DEF OwnerInv, TypeOK
<1>a. \A s \in Slots : wpc[s] # "idle" =>
        s \in heap /\ fd_s[s].readFlag = 1 /\ fd_s[s].req \in traffic.requests /\ fd_s[s].fd \in Fds
  BY <1>1 DEF WorkInv
<1>b. ASSUME NEW s \in Slots, NEW p, wpc' = [wpc EXCEPT ![s] = p]
      PROVE  \A t \in Slots : wpc'[t] = IF t = s THEN p ELSE wpc[t]
  BY <1>b DEF TypeOK
<1>2. CASE UNCHANGED <<heap, fd_s, wpc>>
  BY <1>1, <1>2 DEF WorkInv
<1>3. ASSUME NEW f \in Fds, RecvFails(f)
      PROVE  WorkInv'
  <2>1. cur \in Slots /\ wpc[cur] = "idle" /\ wpc' = wpc /\ FreeState(cur)
    BY <1>3 DEF RecvFails, Reading, OwnerInv, ReadInv, TypeOK, work
  <2>2. heap' = heap \ {cur} /\ \A t \in Slots : t # cur => fd_s'[t] = fd_s[t]
    BY <2>1, FreeFields
  <2> QED BY <1>1, <2>1, <2>2, WorkOne
<1>4. ASSUME NEW f \in Fds, NEW s \in Slots, Accept(f, s)
      PROVE  WorkInv'
  <2>1. heap' = heap \cup {s} /\ fd_s'[s].fd = f /\ wpc'[s] = "idle" /\ Others(s)
    BY <1>4, AcceptFields
  <2> QED BY <1>1, <2>1, WorkOne DEF Others
<1>5. ASSUME NEW f \in Fds, NEW r \in traffic.requests, HandOver(f, r)
      PROVE  WorkInv'
  <2>1. heap' = heap
    BY <1>5 DEF HandOver
  <2>2. fd_s'[cur].fd \in Fds
    BY <1>1, <1>5, HandOverFields DEF WorkInv
  <2>3. /\ cur \in Slots /\ cur \in heap /\ wpc'[cur] = "queued"
        /\ fd_s'[cur].readFlag = 1 /\ fd_s'[cur].req = r
        /\ \A t \in Slots : t # cur => fd_s'[t] = fd_s[t] /\ wpc'[t] = wpc[t]
    BY <1>5, HandOverFields DEF Others
  <2> QED BY <1>1, <1>5, <2>1, <2>2, <2>3, WorkOne
<1>6. CASE Start
  <2>1. /\ queue # <<>> /\ wpc' = [wpc EXCEPT ![Head(queue)] = "handle"]
        /\ UNCHANGED <<heap, fd_s>>
    BY <1>6 DEF Start, loop
  <2>2. wpc[Head(queue)] = "queued" /\ Head(queue) \in Slots
    BY <2>1, HeadQueued
  <2>3. wpc'[Head(queue)] = "handle" /\ \A t \in Slots : t # Head(queue) => wpc'[t] = wpc[t]
    <3>1. wpc = [t \in Slots |-> wpc[t]]
      BY DEF TypeOK
    <3> QED BY <3>1, <2>1, <2>2
  <2> QED BY <1>1, <1>a, <2>1, <2>2, <2>3, WorkOne
<1>7. ASSUME NEW s \in Slots, WorkerStep(s)
      PROVE  WorkInv'
  <2>0. ASSUME wpc[s] # "idle", heap' = heap, Others(s), Kept(s), wpc'[s] # "release"
        PROVE  WorkInv'
    BY <1>1, <1>a, <2>0, WorkOne DEF Others, Kept
  <2>1. CASE HandleGarbled(s)
    <3>1. heap' = heap
      BY <2>1 DEF HandleGarbled
    <3> QED BY <2>0, <2>1, <3>1, GarbledFields
  <2>2. CASE HandleUndefined(s)
    <3>1. heap' = heap
      BY <2>2 DEF HandleUndefined
    <3> QED BY <2>0, <2>2, <3>1, UndefinedFields
  <2>3. CASE HandleBadJson(s)
    <3>1. heap' = heap /\ fd_s[s].req.type = "json"
      BY <2>3 DEF HandleBadJson
    <3>2. wpc[s] # "idle" /\ fd_s'[s].req.type # "stream" /\ Kept(s) /\ Others(s)
      BY <2>3, <3>1, BadJsonFields DEF Kept
    <3> QED BY <1>1, <1>a, <3>1, <3>2, WorkOne DEF Kept, Others
  <2>4. CASE HandleRoute(s)
    <3>1. heap' = heap
      BY <2>4 DEF HandleRoute
    <3>2. wpc[s] # "idle" /\ fd_s'[s].fd_sql # NoConn /\ Kept(s) /\ Others(s)
      BY <2>4, RouteFields, SocketServerAssumption
    <3> QED BY <1>1, <1>a, <3>1, <3>2, WorkOne DEF Kept, Others
  <2>5. CASE Release(s) \/ SendCloses(s) \/ SendFails(s) \/ WorkerDelete(s) \/ WorkerMaxfd(s) \/ SocketClose(s)
    <3>1. /\ UNCHANGED <<heap, fd_s>> /\ wpc[s] # "idle"
          /\ \E p \in {"send", "delete", "maxfd", "close", "free"} : wpc' = [wpc EXCEPT ![s] = p]
      BY <2>5 DEF Release, SendCloses, SendFails, WorkerDelete, WorkerMaxfd, SocketClose, Step
    <3>2. Others(s) /\ Kept(s) /\ wpc'[s] # "release"
      BY <1>b, <3>1 DEF Others, Kept
    <3> QED BY <2>0, <3>1, <3>2
  <2>6. CASE SendKeeps(s)
    <3>1. heap' = heap
      BY <2>6 DEF SendKeeps
    <3> QED BY <1>1, <1>a, <2>6, <3>1, KeepsFields, WorkOne DEF Others
  <2>7. CASE Free(s)
    <3>1. wpc' = [wpc EXCEPT ![s] = "idle"] /\ FreeState(s)
      BY <2>7 DEF Free, Step
    <3>2. \A t \in Slots : wpc'[t] = IF t = s THEN "idle" ELSE wpc[t]
      BY <1>b, <3>1
    <3>3. heap' = heap \ {s} /\ \A t \in Slots : t # s => fd_s'[t] = fd_s[t]
      BY <3>1, FreeFields
    <3> QED BY <1>1, <3>2, <3>3, WorkOne
  <2> QED BY <1>7, <2>1, <2>2, <2>3, <2>4, <2>5, <2>6, <2>7 DEF WorkerStep
<1> QED BY <1>2, <1>3, <1>4, <1>5, <1>6, <1>7, LoopQuiet DEF Next, LooksIntoFreed, vars, work

\* The program starts with nothing allocated.
LEMMA InitOwner == Init => TypeOK /\ OwnerInv
<1> SUFFICES ASSUME Init PROVE TypeOK /\ OwnerInv
  OBVIOUS
<1>1. /\ open \subseteq Fds /\ heap \subseteq Slots /\ events \in [Fds -> Slots \cup {NoSlot}]
      /\ maxfd \in {Listener} \cup Fds /\ rfds \subseteq {Listener} \cup Fds
      /\ fired \subseteq {Listener} \cup Fds /\ cur \in Slots \cup {NoSlot} /\ lpc = "poll"
      /\ queue \in Seq(Slots) /\ sql_list \in Seq(Conns) /\ DOMAIN queue = {}
  BY EmptySeq DEF Init
<1>2. fd_s \in [Slots -> States]
  BY NewStateType DEF Init
<1>3. TypeOK
  BY <1>1, <1>2 DEF Init, TypeOK, States
<1>4. ReadInv /\ QueueInv
  BY <1>1 DEF ReadInv, QueueInv
<1>5. WorkInv
  BY DEF Init, WorkInv
<1> QED BY <1>3, <1>4, <1>5 DEF OwnerInv, Init

\* Types and ownership are inductive together, for whatever clients there are.
LEMMA Owner == Spec => [](TypeOK /\ OwnerInv)
<1>1. TypeOK /\ OwnerInv /\ [Next]_vars => (TypeOK /\ OwnerInv)'
  <2> SUFFICES ASSUME TypeOK, OwnerInv, [Next]_vars PROVE TypeOK' /\ OwnerInv'
    OBVIOUS
  <2>1. traffic' \in Traffics
    BY TrafficNext DEF OwnerInv
  <2> QED BY <2>1, TypeNext, ReadNext, WorkNext, QueueNext DEF OwnerInv
<1> QED BY <1>1, InitOwner, PTL DEF Spec

-----------------------------------------------------------------------------
(* What a worker keeps.                                                    *)

\* A step that is about one fd_state only.
LEMMA KeepOne ==
  ASSUME KeepInv, NEW s \in Slots,
         \A t \in Slots : t # s => fd_s'[t] = fd_s[t] /\ wpc'[t] = wpc[t],
         wpc'[s] \in {"release", "send"} /\ fd_s'[s].keepAlive => fd_s'[s].req.keepAlive
  PROVE  KeepInv'
<1> SUFFICES ASSUME NEW t \in Slots, t # s, wpc'[t] \in {"release", "send"}, fd_s'[t].keepAlive
             PROVE  fd_s'[t].req.keepAlive
  BY DEF KeepInv
<1> QED BY DEF KeepInv

\* A worker sets keepAlive only to what the request at hand asks for.
LEMMA KeepNext ==
  ASSUME TypeOK, OwnerInv, KeepInv, [Next]_vars
  PROVE  KeepInv'
<1>b. ASSUME NEW s \in Slots, NEW p, wpc' = [wpc EXCEPT ![s] = p]
      PROVE  \A t \in Slots : wpc'[t] = IF t = s THEN p ELSE wpc[t]
  BY <1>b DEF TypeOK
<1>2. CASE UNCHANGED <<fd_s, wpc>>
  BY <1>2 DEF KeepInv
<1>3. ASSUME NEW f \in Fds, RecvFails(f)
      PROVE  KeepInv'
  <2>1. cur \in Slots /\ wpc[cur] = "idle" /\ wpc' = wpc /\ FreeState(cur)
    BY <1>3 DEF RecvFails, Reading, OwnerInv, ReadInv, TypeOK, work
  <2>2. \A t \in Slots : t # cur => fd_s'[t] = fd_s[t]
    BY <2>1, FreeFields
  <2> QED BY <2>1, <2>2, KeepOne
<1>4. ASSUME NEW f \in Fds, NEW s \in Slots, Accept(f, s)
      PROVE  KeepInv'
  <2>1. wpc'[s] = "idle" /\ Others(s)
    BY <1>4, AcceptFields
  <2> QED BY <2>1, KeepOne DEF Others
<1>5. ASSUME NEW f \in Fds, NEW r \in traffic.requests, HandOver(f, r)
      PROVE  KeepInv'
  <2>1. cur \in Slots /\ wpc'[cur] = "queued" /\ Others(cur)
    BY <1>5, HandOverFields
  <2> QED BY <2>1, KeepOne DEF Others
<1>6. CASE Start
  <2>1. /\ queue # <<>> /\ wpc' = [wpc EXCEPT ![Head(queue)] = "handle"]
        /\ UNCHANGED fd_s
    BY <1>6 DEF Start
  <2>2. Head(queue) \in Slots
    BY <2>1, HeadQueued
  <2>3. \A t \in Slots : wpc'[t] \in {"release", "send"} => wpc'[t] = wpc[t]
    BY <1>b, <2>1, <2>2
  <2> QED BY <2>1, <2>3 DEF KeepInv
<1>7. ASSUME NEW s \in Slots, WorkerStep(s)
      PROVE  KeepInv'
  <2>1. CASE HandleGarbled(s)
    BY <2>1, GarbledFields, KeepOne DEF Others, Kept
  <2>2. CASE HandleUndefined(s)
    BY <2>2, UndefinedFields, KeepOne DEF Others, Kept
  <2>3. CASE HandleBadJson(s)
    BY <2>3, BadJsonFields, KeepOne DEF Others, Kept
  <2>4. CASE HandleRoute(s)
    BY <2>4, RouteFields, KeepOne DEF Others, Kept
  <2>5. CASE Release(s)
    <3>1. UNCHANGED fd_s /\ wpc[s] = "release" /\ wpc' = [wpc EXCEPT ![s] = "send"]
      BY <2>5 DEF Release, Step
    <3>2. fd_s[s].keepAlive => fd_s[s].req.keepAlive
      BY <3>1 DEF KeepInv
    <3>3. \A t \in Slots : wpc'[t] = IF t = s THEN "send" ELSE wpc[t]
      BY <1>b, <3>1
    <3> QED BY <3>1, <3>2, <3>3, KeepOne
  <2>6. CASE SendKeeps(s)
    <3>1. wpc'[s] = "idle" /\ Others(s)
      BY <2>6, KeepsFields
    <3> QED BY <3>1, KeepOne DEF Others
  <2>7. CASE SendCloses(s) \/ SendFails(s) \/ WorkerDelete(s) \/ WorkerMaxfd(s) \/ SocketClose(s)
    <3>1. UNCHANGED fd_s /\ \E p \in {"delete", "maxfd", "close", "free"} : wpc' = [wpc EXCEPT ![s] = p]
      BY <2>7 DEF SendCloses, SendFails, WorkerDelete, WorkerMaxfd, SocketClose, Step
    <3> QED BY <1>b, <3>1, KeepOne
  <2>8. CASE Free(s)
    <3>1. wpc' = [wpc EXCEPT ![s] = "idle"] /\ FreeState(s)
      BY <2>8 DEF Free, Step
    <3>2. \A t \in Slots : wpc'[t] = IF t = s THEN "idle" ELSE wpc[t]
      BY <1>b, <3>1
    <3>3. \A t \in Slots : t # s => fd_s'[t] = fd_s[t]
      BY <3>1, FreeFields
    <3> QED BY <3>2, <3>3, KeepOne
  <2> QED BY <1>7, <2>1, <2>2, <2>3, <2>4, <2>5, <2>6, <2>7, <2>8 DEF WorkerStep
<1> QED BY <1>2, <1>3, <1>4, <1>5, <1>6, <1>7, LoopQuiet DEF Next, LooksIntoFreed, vars, work

\* Types: every variable stays in its range, whatever the clients send.
THEOREM TypeCorrect == Spec => []TypeOK
BY Owner, PTL

\* readFlag is enough, for whatever clients: the loop never reads into an fd_state a
\* worker has, and no fd_state is in the pool twice.
THEOREM OwnerCorrect == Spec => []OneOwner
<1>1. TypeOK /\ OwnerInv => OneOwner
  BY DEF OwnerInv, ReadInv, WorkInv, QueueInv, OneOwner
<1> QED BY <1>1, Owner, PTL

\* A worker never keeps a connection that was not to be kept.
LEMMA KeepAlways == Spec => []KeepInv
<1>1. Init => KeepInv
  BY DEF Init, KeepInv
<1>2. TypeOK /\ OwnerInv /\ KeepInv /\ [Next]_vars => KeepInv'
  BY KeepNext
<1> QED BY <1>1, <1>2, Owner, PTL DEF Spec

-----------------------------------------------------------------------------
(* Connections.                                                            *)

\* A step that leaves no connection in an fd_state that is not kept.
LEMMA StaleOne ==
  ASSUME StaleInv, traffic' = traffic, NEW s \in Slots,
         \A t \in Slots : t # s => fd_s'[t] = fd_s[t] /\ wpc'[t] = wpc[t],
         wpc'[s] \in {"idle", "queued", "handle"} /\ fd_s'[s].fd_sql # NoConn =>
           \E q \in traffic.requests : q.keepAlive
  PROVE  StaleInv'
<1> SUFFICES ASSUME NEW t \in Slots, t # s, wpc'[t] \in {"idle", "queued", "handle"},
                    fd_s'[t].fd_sql # NoConn
             PROVE  \E q \in traffic.requests : q.keepAlive
  BY DEF StaleInv
<1>1. fd_s'[t] = fd_s[t] /\ wpc'[t] = wpc[t]
  OBVIOUS
<1> QED BY <1>1 DEF StaleInv

\* A step that takes and gives back no connection.
LEMMA ConnOne ==
  ASSUME ConnExclusive, sql_list' = sql_list, NEW s \in Slots,
         \A t \in Slots : t # s => fd_s'[t] = fd_s[t] /\ wpc'[t] = wpc[t],
         wpc'[s] = "release" => fd_s'[s].fd_sql = NoConn
  PROVE  ConnExclusive'
<1>0. ASSUME NEW t \in Slots, wpc'[t] = "release", fd_s'[t].fd_sql # NoConn
      PROVE  t # s /\ wpc[t] = "release" /\ fd_s'[t] = fd_s[t]
  BY <1>0
<1>1. ConnsIdle' = ConnsIdle
  BY DEF ConnsIdle
<1> QED BY <1>0, <1>1 DEF ConnExclusive

\* What HandleRoute takes was idle or new; what is left in the list is not it.
LEMMA GetFields ==
  ASSUME TypeOK, ConnExclusive, NEW c \in Conns, GetOneConn(c)
  PROVE  /\ \A j, k \in DOMAIN sql_list' : sql_list'[j] = sql_list'[k] => j = k
         /\ c \notin ConnsIdle' /\ ConnsIdle' \subseteq ConnsIdle
         /\ \A t \in Slots : wpc[t] = "release" => fd_s[t].fd_sql # c
<1>1. sql_list \in Seq(Conns) /\ \A j, k \in DOMAIN sql_list : sql_list[j] = sql_list[k] => j = k
  BY DEF TypeOK, ConnExclusive
<1>2. CASE sql_list = <<>>
  <2>1. sql_list' = sql_list /\ c \notin ConnsHeld
    BY <1>2 DEF GetOneConn
  <2>2. DOMAIN sql_list = {}
    BY <1>2, EmptySeq
  <2> QED BY <2>1, <2>2 DEF ConnsIdle, ConnsHeld
<1>3. CASE sql_list # <<>>
  <2>1. c = Head(sql_list) /\ sql_list' = Tail(sql_list)
    BY <1>3 DEF GetOneConn
  <2>2. /\ DOMAIN sql_list' = 1..Len(sql_list) - 1 /\ Head(sql_list) = sql_list[1]
        /\ \A k \in DOMAIN sql_list' : sql_list'[k] = sql_list[k + 1]
        /\ DOMAIN sql_list = 1..Len(sql_list) /\ Len(sql_list) \in Nat /\ Len(sql_list) # 0
    BY <1>1, <1>3, <2>1, HeadTailProperties, LenProperties, EmptySeq
  <2>3. /\ 1 \in DOMAIN sql_list
        /\ \A k \in DOMAIN sql_list' : k \in Nat /\ k + 1 \in DOMAIN sql_list /\ k + 1 # 1
    BY <2>2
  <2>4. \A j, k \in DOMAIN sql_list' : sql_list'[j] = sql_list'[k] => j = k
    <3> SUFFICES ASSUME NEW j \in DOMAIN sql_list', NEW k \in DOMAIN sql_list',
                        sql_list'[j] = sql_list'[k]
                 PROVE  j = k
      OBVIOUS
    <3>1. j + 1 = k + 1
      BY <1>1, <2>2, <2>3
    <3> QED BY <2>3, <3>1
  <2>5. \A k \in DOMAIN sql_list' : sql_list'[k] # c
    BY <1>1, <2>1, <2>2, <2>3
  <2>6. c \in ConnsIdle
    BY <2>1, <2>2, <2>3 DEF ConnsIdle
  <2>7. \A t \in Slots : wpc[t] = "release" => fd_s[t].fd_sql # c
    BY <2>6, SocketServerAssumption DEF ConnExclusive
  <2>8. c \notin ConnsIdle' /\ ConnsIdle' \subseteq ConnsIdle
    BY <2>2, <2>3, <2>5 DEF ConnsIdle
  <2> QED BY <2>4, <2>7, <2>8
<1> QED BY <1>2, <1>3

\* Taking a connection keeps connections exclusive.
LEMMA ConnRoute ==
  ASSUME TypeOK, ConnExclusive, NEW s \in Slots, HandleRoute(s)
  PROVE  ConnExclusive'
<1> DEFINE c == fd_s'[s].fd_sql
<1>1. c \in Conns /\ GetOneConn(c) /\ wpc[s] = "handle" /\ Others(s)
  BY RouteFields
<1>2. /\ \A j, k \in DOMAIN sql_list' : sql_list'[j] = sql_list'[k] => j = k
      /\ c \notin ConnsIdle' /\ ConnsIdle' \subseteq ConnsIdle
      /\ \A t \in Slots : wpc[t] = "release" => fd_s[t].fd_sql # c
  BY <1>1, GetFields
<1>3. ASSUME NEW t \in Slots, t # s, wpc'[t] = "release"
      PROVE  wpc[t] = "release" /\ fd_s'[t] = fd_s[t] /\ fd_s'[t].fd_sql # c
  BY <1>1, <1>2, <1>3 DEF Others
<1>4. \A t \in Slots : wpc'[t] = "release" /\ fd_s'[t].fd_sql # NoConn => fd_s'[t].fd_sql \notin ConnsIdle'
  <2> SUFFICES ASSUME NEW t \in Slots, t # s, wpc'[t] = "release", fd_s'[t].fd_sql # NoConn
               PROVE  fd_s'[t].fd_sql \notin ConnsIdle'
    BY <1>2
  <2>1. wpc[t] = "release" /\ fd_s'[t] = fd_s[t]
    BY <1>3
  <2> QED BY <1>2, <2>1 DEF ConnExclusive
<1>5. ASSUME NEW t \in Slots, NEW u \in Slots, wpc'[t] = "release", wpc'[u] = "release", t # u,
             fd_s'[t].fd_sql = fd_s'[u].fd_sql
      PROVE  fd_s'[t].fd_sql = NoConn
  <2>1. t # s /\ u # s
    BY <1>3, <1>5
  <2>2. /\ wpc[t] = "release" /\ wpc[u] = "release"
        /\ fd_s'[t] = fd_s[t] /\ fd_s'[u] = fd_s[u]
    BY <1>3, <1>5, <2>1
  <2> QED BY <1>5, <2>2 DEF ConnExclusive
<1> QED BY <1>2, <1>4, <1>5 DEF ConnExclusive

\* So does giving it back: its holder is the only one.
LEMMA ConnRelease ==
  ASSUME TypeOK, OwnerInv, ConnExclusive, NEW s \in Slots, Release(s)
  PROVE  ConnExclusive'
<1>1. /\ wpc[s] = "release" /\ wpc' = [wpc EXCEPT ![s] = "send"] /\ fd_s' = fd_s
  BY DEF Release, Step
<1>2. \A t \in Slots : wpc'[t] = "release" => t # s /\ wpc[t] = "release"
  BY <1>1 DEF TypeOK
<1>3. CASE ~ HoldsConn(s)
  <2>1. sql_list' = sql_list
    BY <1>3 DEF Release
  <2> QED BY <1>1, <1>2, <2>1 DEF ConnExclusive, ConnsIdle
<1>4. CASE HoldsConn(s)
  <2> DEFINE c == fd_s[s].fd_sql
  <2>1. c # NoConn
    BY <1>1, <1>4 DEF HoldsConn, OwnerInv, WorkInv
  <2>2. c \in Conns
    <3>1. fd_s \in [Slots -> States]
      BY DEF TypeOK, States
    <3> QED BY <2>1, <3>1 DEF States
  <2>3. c \notin ConnsIdle /\ \A t \in Slots : t # s /\ wpc[t] = "release" => fd_s[t].fd_sql # c
    BY <1>1, <2>1 DEF ConnExclusive
  <2>4. sql_list' = Append(sql_list, c) /\ sql_list \in Seq(Conns)
    BY <1>4 DEF Release, TypeOK
  <2> HIDE DEF c
  <2>5. /\ DOMAIN sql_list' = (DOMAIN sql_list) \cup {Len(sql_list) + 1}
        /\ \A k \in DOMAIN sql_list : sql_list'[k] = sql_list[k]
        /\ sql_list'[Len(sql_list) + 1] = c
    BY <2>2, <2>4, AppendProperties, LenProperties
  <2>6. \A k \in DOMAIN sql_list : sql_list[k] # c
    BY <2>3 DEF ConnsIdle
  <2>7. \A j, k \in DOMAIN sql_list' : sql_list'[j] = sql_list'[k] => j = k
    BY <2>5, <2>6 DEF ConnExclusive
  <2>8. ConnsIdle' = ConnsIdle \cup {c}
    BY <2>5 DEF ConnsIdle
  <2>9. ASSUME NEW t \in Slots, wpc'[t] = "release"
        PROVE  wpc[t] = "release" /\ fd_s'[t].fd_sql = fd_s[t].fd_sql /\ fd_s[t].fd_sql # c
    BY <1>1, <1>2, <2>3, <2>9
  <2>10. \A t \in Slots : wpc'[t] = "release" /\ fd_s'[t].fd_sql # NoConn => fd_s'[t].fd_sql \notin ConnsIdle'
    BY <2>8, <2>9 DEF ConnExclusive
  <2>11. \A t, u \in Slots : (wpc'[t] = "release" /\ wpc'[u] = "release" /\ t # u
             /\ fd_s'[t].fd_sql = fd_s'[u].fd_sql) => fd_s'[t].fd_sql = NoConn
    BY <2>9 DEF ConnExclusive
  <2> QED BY <2>7, <2>10, <2>11 DEF ConnExclusive
<1> QED BY <1>3, <1>4

ConnInv == StaleInv /\ (KeptParses => ConnExclusive)

\* So does every step, where JSON parses: an fd_sql that is left over is not released twice.
LEMMA ConnNext ==
  ASSUME TypeOK, OwnerInv, KeepInv, ConnInv, [Next]_vars
  PROVE  ConnInv'
<1>1. traffic' = traffic /\ StaleInv
  BY TrafficNext DEF ConnInv
<1>a. \A s \in Slots : wpc[s] # "idle" => fd_s[s].req \in traffic.requests
  BY DEF OwnerInv, WorkInv
<1>b. ASSUME NEW s \in Slots, NEW p, wpc' = [wpc EXCEPT ![s] = p]
      PROVE  \A t \in Slots : wpc'[t] = IF t = s THEN p ELSE wpc[t]
  BY <1>b DEF TypeOK
<1>c. \A s \in Slots : wpc[s] \in {"idle", "queued", "handle"} /\ fd_s[s].fd_sql # NoConn =>
        \E q \in traffic.requests : q.keepAlive
  BY <1>1 DEF StaleInv
<1>d. KeptParses' <=> KeptParses
  BY <1>1 DEF KeptParses
<1>e. ASSUME NEW s \in Slots, sql_list' = sql_list,
             \A t \in Slots : t # s => fd_s'[t] = fd_s[t] /\ wpc'[t] = wpc[t],
             wpc'[s] \in {"idle", "queued", "handle"} /\ fd_s'[s].fd_sql # NoConn =>
               \E q \in traffic.requests : q.keepAlive,
             KeptParses /\ wpc'[s] = "release" => fd_s'[s].fd_sql = NoConn
      PROVE  ConnInv'
  <2>1. StaleInv'
    BY <1>1, <1>e, StaleOne
  <2>2. KeptParses => ConnExclusive'
    BY <1>e, ConnOne DEF ConnInv
  <2> QED BY <1>d, <2>1, <2>2 DEF ConnInv
<1>2. CASE UNCHANGED <<fd_s, wpc, sql_list>>
  BY <1>1, <1>2 DEF ConnInv, StaleInv, KeptParses, ConnExclusive, ConnsIdle
<1>3. ASSUME NEW f \in Fds, RecvFails(f)
      PROVE  ConnInv'
  <2>1. cur \in Slots /\ wpc[cur] = "idle" /\ wpc' = wpc /\ FreeState(cur) /\ sql_list' = sql_list
    BY <1>3 DEF RecvFails, Reading, OwnerInv, ReadInv, TypeOK, work
  <2>2. fd_s'[cur].fd_sql = NoConn /\ \A t \in Slots : t # cur => fd_s'[t] = fd_s[t]
    BY <2>1, FreeFields
  <2> QED BY <1>e, <2>1, <2>2
<1>4. ASSUME NEW f \in Fds, NEW s \in Slots, Accept(f, s)
      PROVE  ConnInv'
  <2>1. fd_s'[s].fd_sql = NoConn /\ wpc'[s] = "idle" /\ Others(s)
    BY <1>4, AcceptFields
  <2>2. sql_list' = sql_list
    BY <1>4 DEF Accept, work
  <2> QED BY <1>e, <2>1, <2>2 DEF Others
<1>5. ASSUME NEW f \in Fds, NEW r \in traffic.requests, HandOver(f, r)
      PROVE  ConnInv'
  <2>1. /\ cur \in Slots /\ wpc[cur] = "idle" /\ wpc'[cur] = "queued"
        /\ \A t \in Slots : t # cur => fd_s'[t] = fd_s[t] /\ wpc'[t] = wpc[t]
        /\ fd_s'[cur].fd_sql = fd_s[cur].fd_sql
    BY <1>5, HandOverFields DEF Others
  <2>2. sql_list' = sql_list
    BY <1>5 DEF HandOver
  <2> QED BY <1>c, <1>e, <2>1, <2>2
<1>6. CASE Start
  <2> DEFINE h == Head(queue)
  <2>1. /\ queue # <<>> /\ wpc' = [wpc EXCEPT ![h] = "handle"]
        /\ UNCHANGED <<fd_s, sql_list>>
    BY <1>6 DEF Start
  <2>2. wpc[h] = "queued" /\ h \in Slots
    BY <2>1, HeadQueued
  <2> HIDE DEF h
  <2>3. wpc'[h] = "handle" /\ \A t \in Slots : t # h => wpc'[t] = wpc[t]
    <3>1. wpc = [t \in Slots |-> wpc[t]]
      BY DEF TypeOK
    <3> QED BY <3>1, <2>1, <2>2
  <2> QED BY <1>c, <1>e, <2>1, <2>2, <2>3
<1>7. ASSUME NEW s \in Slots, WorkerStep(s)
      PROVE  ConnInv'
  <2>0. ASSUME Others(s), sql_list' = sql_list, wpc'[s] \notin {"idle", "queued", "handle", "release"}
        PROVE  ConnInv'
    BY <1>e, <2>0 DEF Others
  <2>1. CASE HandleGarbled(s)
    <3>1. sql_list' = sql_list
      BY <2>1 DEF HandleGarbled
    <3> QED BY <2>0, <2>1, <3>1, GarbledFields
  <2>2. CASE HandleUndefined(s)
    <3>1. sql_list' = sql_list
      BY <2>2 DEF HandleUndefined
    <3> QED BY <2>0, <2>2, <3>1, UndefinedFields
  <2>3. CASE HandleBadJson(s)
    <3>1. sql_list' = sql_list /\ fd_s[s].req.type = "json" /\ ~ fd_s[s].req.parses
      BY <2>3 DEF HandleBadJson
    <3>2. wpc[s] = "handle" /\ wpc'[s] = "release" /\ fd_s'[s].fd_sql = fd_s[s].fd_sql /\ Others(s)
      BY <2>3, BadJsonFields
    <3>3. KeptParses => fd_s[s].fd_sql = NoConn
      BY <1>a, <1>c, <3>1, <3>2 DEF KeptParses
    <3> QED BY <1>e, <3>1, <3>2, <3>3 DEF Others
  <2>4. CASE HandleRoute(s)
    <3>1. KeptParses => ConnExclusive'
      BY <2>4, ConnRoute DEF ConnInv
    <3>2. wpc'[s] = "release" /\ Others(s)
      BY <2>4, RouteFields
    <3>3. StaleInv'
      BY <1>1, <3>2, StaleOne DEF Others
    <3> QED BY <1>d, <3>1, <3>3 DEF ConnInv
  <2>5. CASE Release(s)
    <3>1. KeptParses => ConnExclusive'
      BY <2>5, ConnRelease DEF ConnInv
    <3>2. fd_s' = fd_s /\ wpc' = [wpc EXCEPT ![s] = "send"]
      BY <2>5 DEF Release, Step
    <3>3. \A t \in Slots : wpc'[t] = IF t = s THEN "send" ELSE wpc[t]
      BY <1>b, <3>2
    <3>4. StaleInv'
      BY <1>1, <3>2, <3>3, StaleOne
    <3> QED BY <1>d, <3>1, <3>4 DEF ConnInv
  <2>6. CASE SendKeeps(s)
    <3>1. wpc[s] = "send" /\ fd_s[s].keepAlive /\ wpc'[s] = "idle" /\ Others(s)
      BY <2>6, KeepsFields
    <3>2. fd_s[s].req.keepAlive /\ fd_s[s].req \in traffic.requests
      BY <1>a, <3>1 DEF KeepInv
    <3>3. sql_list' = sql_list
      BY <2>6 DEF SendKeeps
    <3> QED BY <1>e, <3>1, <3>2, <3>3 DEF Others
  <2>7. CASE SendCloses(s) \/ SendFails(s) \/ WorkerDelete(s) \/ WorkerMaxfd(s) \/ SocketClose(s)
    <3>1. UNCHANGED <<fd_s, sql_list>> /\ \E p \in {"delete", "maxfd", "close", "free"} : wpc' = [wpc EXCEPT ![s] = p]
      BY <2>7 DEF SendCloses, SendFails, WorkerDelete, WorkerMaxfd, SocketClose, Step
    <3> QED BY <1>b, <2>0, <3>1 DEF Others
  <2>8. CASE Free(s)
    <3>1. wpc' = [wpc EXCEPT ![s] = "idle"] /\ FreeState(s) /\ sql_list' = sql_list
      BY <2>8 DEF Free, Step
    <3>2. \A t \in Slots : wpc'[t] = IF t = s THEN "idle" ELSE wpc[t]
      BY <1>b, <3>1
    <3>3. fd_s'[s].fd_sql = NoConn /\ \A t \in Slots : t # s => fd_s'[t] = fd_s[t]
      BY <3>1, FreeFields
    <3> QED BY <1>e, <3>1, <3>2, <3>3
  <2> QED BY <1>7, <2>1, <2>2, <2>3, <2>4, <2>5, <2>6, <2>7, <2>8 DEF WorkerStep
<1> QED BY <1>2, <1>3, <1>4, <1>5, <1>6, <1>7, LoopQuiet DEF Next, LooksIntoFreed, vars, work

\* Where the JSON of connections that are kept parses, a connection to the database is
\* never in the hands of two, nor in use and in the list, nor twice in it.
THEOREM ConnCorrect == Spec => [](KeptParses => ConnExclusive)
<1>1. Init => ConnInv
  <2> SUFFICES ASSUME Init PROVE ConnInv
    OBVIOUS
  <2>1. \A s \in Slots : wpc[s] = "idle" /\ fd_s[s].fd_sql = NoConn
    BY DEF Init, NewState
  <2>2. DOMAIN sql_list = {}
    BY EmptySeq DEF Init
  <2> QED BY <2>1, <2>2 DEF ConnInv, StaleInv, ConnExclusive
<1>2. TypeOK /\ OwnerInv /\ KeepInv /\ ConnInv /\ [Next]_vars => ConnInv'
  BY ConnNext
<1>3. ConnInv => (KeptParses => ConnExclusive)
  BY DEF ConnInv
<1> QED BY <1>1, <1>2, <1>3, Owner, KeepAlways, PTL DEF Spec

-----------------------------------------------------------------------------
(* Sockets, fd_states and events.                                          *)

\* A step of the worker of s that moves no socket, event or block.
LEMMA PlaceQuiet ==
  ASSUME TypeOK, OwnerInv, PlaceInv, UNCHANGED <<open, events, heap>>, NEW s \in heap,
         \A t \in Slots : t # s => fd_s'[t] = fd_s[t] /\ wpc'[t] = wpc[t],
         fd_s'[s].fd = fd_s[s].fd, wpc[s] # "free", wpc'[s] # "free", EventOf(s)'
  PROVE  PlaceInv'
<1>0. heap \subseteq Slots /\ fd_s[s].fd \in Fds
  BY DEF TypeOK, OwnerInv, WorkInv
<1>1. ASSUME NEW t \in heap
      PROVE  fd_s'[t].fd = fd_s[t].fd /\ (wpc'[t] = "free" <=> wpc[t] = "free")
  BY <1>0
<1>2. TableInv'
  BY <1>1 DEF PlaceInv, TableInv
<1>3. SocketInv'
  BY <1>1 DEF PlaceInv, SocketInv
<1>4. EventInv'
  <2> SUFFICES ASSUME NEW t \in heap, t # s PROVE EventOf(t)'
    BY DEF EventInv
  <2>1. EventOf(t) /\ fd_s'[t] = fd_s[t] /\ wpc'[t] = wpc[t]
    BY <1>0 DEF PlaceInv, EventInv
  <2> QED BY <2>1 DEF EventOf
<1>5. NoLeak'
  <2> SUFFICES ASSUME NEW f \in open, events[f] = NoSlot
               PROVE  \E t \in heap : fd_s'[t].fd = f /\ wpc'[t] \notin {"idle", "free"}
    BY DEF NoLeak
  <2>1. PICK t \in heap : fd_s[t].fd = f /\ wpc[t] \notin {"idle", "free"}
    BY DEF PlaceInv, NoLeak
  <2>2. CASE t # s
    BY <1>0, <2>1, <2>2
  <2>3. CASE t = s
    <3>1. wpc'[s] # "idle"
      BY <1>0, <2>1, <2>3, SocketServerAssumption DEF EventOf
    <3> QED BY <2>1, <2>3, <3>1
  <2> QED BY <2>2, <2>3
<1> QED BY <1>2, <1>3, <1>4, <1>5 DEF PlaceInv

\* A step that takes the event of s, which is not freed yet.
LEMMA PlaceUnregister ==
  ASSUME TypeOK, OwnerInv, PlaceInv, UNCHANGED <<open, heap>>, NEW s \in heap,
         \A t \in Slots : t # s => fd_s'[t] = fd_s[t] /\ wpc'[t] = wpc[t],
         fd_s'[s].fd = fd_s[s].fd, wpc[s] # "free",
         wpc'[s] \notin {"idle", "free"}, EventOf(s)',
         events' = [events EXCEPT ![fd_s[s].fd] = NoSlot]
  PROVE  PlaceInv'
<1>0. /\ heap \subseteq Slots /\ fd_s[s].fd \in Fds /\ open \subseteq Fds
      /\ \A f \in Fds : events'[f] = IF f = fd_s[s].fd THEN NoSlot ELSE events[f]
      /\ \A t \in heap : fd_s[t].fd \in Fds
  BY DEF TypeOK, OwnerInv, WorkInv
<1>1. ASSUME NEW t \in heap
      PROVE  fd_s'[t].fd = fd_s[t].fd /\ (wpc'[t] = "free" <=> wpc[t] = "free")
  BY <1>0
<1>2. TableInv'
  BY <1>0, <1>1 DEF PlaceInv, TableInv
<1>3. SocketInv'
  BY <1>1 DEF PlaceInv, SocketInv
<1>4. EventInv'
  <2> SUFFICES ASSUME NEW t \in heap, t # s PROVE EventOf(t)'
    BY DEF EventInv
  <2>1. EventOf(t) /\ fd_s'[t] = fd_s[t] /\ wpc'[t] = wpc[t] /\ t \in Slots
    BY <1>0 DEF PlaceInv, EventInv
  <2>2. CASE fd_s[t].fd = fd_s[s].fd
    <3>1. wpc[t] = "free"
      BY <2>2 DEF PlaceInv, SocketInv
    <3> QED BY <1>0, <2>1, <2>2, <3>1, SocketServerAssumption DEF EventOf
  <2>3. CASE fd_s[t].fd # fd_s[s].fd
    <3>1. events'[fd_s[t].fd] = events[fd_s[t].fd]
      BY <1>0, <2>3
    <3> QED BY <2>1, <3>1 DEF EventOf
  <2> QED BY <2>2, <2>3
<1>5. NoLeak'
  <2> SUFFICES ASSUME NEW f \in open, events'[f] = NoSlot
               PROVE  \E t \in heap : fd_s'[t].fd = f /\ wpc'[t] \notin {"idle", "free"}
    BY DEF NoLeak
  <2>1. CASE f = fd_s[s].fd
    BY <2>1
  <2>2. CASE f # fd_s[s].fd
    <3>1. events[f] = NoSlot
      BY <1>0, <2>2
    <3>2. PICK t \in heap : fd_s[t].fd = f /\ wpc[t] \notin {"idle", "free"}
      BY <3>1 DEF PlaceInv, NoLeak
    <3> QED BY <1>0, <2>2, <3>2
  <2> QED BY <2>1, <2>2
<1> QED BY <1>2, <1>3, <1>4, <1>5 DEF PlaceInv

\* aeSocketRead gives up the connection it is called for.
LEMMA PlaceRecvFails ==
  ASSUME TypeOK, OwnerInv, PlaceInv, CurInv, NEW f \in Fds, RecvFails(f)
  PROVE  PlaceInv'
<1>0. /\ heap \subseteq Slots /\ open \subseteq Fds /\ \A t \in heap : fd_s[t].fd \in Fds
  BY DEF TypeOK, OwnerInv, WorkInv
<1>1. /\ cur \in heap /\ wpc[cur] = "idle" /\ fd_s[cur].fd = f /\ events[f] = cur
  BY DEF RecvFails, Reading, OwnerInv, ReadInv, CurInv, PlaceInv, EventInv, EventOf
<1>2. /\ heap' = heap \ {cur} /\ \A t \in Slots : t # cur => fd_s'[t] = fd_s[t]
  BY <1>0, <1>1, FreeFields DEF RecvFails
<1>3. /\ open' = open \ {f} /\ wpc' = wpc
      /\ \A g \in Fds : events'[g] = IF g = f THEN NoSlot ELSE events[g]
  BY DEF RecvFails, Unregister, work, TypeOK
<1>4. ASSUME NEW t \in heap'
      PROVE  t \in heap /\ t # cur /\ t \in Slots /\ fd_s'[t] = fd_s[t] /\ wpc'[t] = wpc[t]
             /\ (wpc[t] # "free" => fd_s[t].fd # f)
  <2>1. t \in heap /\ t # cur /\ t \in Slots
    BY <1>0, <1>2
  <2>2. fd_s[t].fd = f => wpc[t] = "free"
    BY <1>1, <2>1 DEF PlaceInv, SocketInv
  <2> QED BY <1>2, <1>3, <2>1, <2>2
<1>5. TableInv'
  <2> SUFFICES ASSUME NEW g \in Fds, events'[g] # NoSlot
               PROVE  g \in open' /\ events'[g] \in heap' /\ fd_s'[events'[g]].fd = g
    BY DEF TableInv
  <2>1. g # f /\ events'[g] = events[g] /\ g \in open /\ events[g] \in heap /\ fd_s[events[g]].fd = g
    BY <1>3 DEF PlaceInv, TableInv
  <2> QED BY <1>1, <1>2, <1>3, <1>4, <2>1
<1>6. SocketInv'
  <2>1. \A t \in heap' : wpc'[t] # "free" => fd_s'[t].fd \in open'
    BY <1>3, <1>4 DEF PlaceInv, SocketInv
  <2>2. \A t, u \in heap' : fd_s'[t].fd = fd_s'[u].fd /\ t # u => wpc'[t] = "free" \/ wpc'[u] = "free"
    BY <1>4 DEF PlaceInv, SocketInv
  <2> QED BY <2>1, <2>2 DEF SocketInv
<1>7. EventInv'
  <2> SUFFICES ASSUME NEW t \in heap' PROVE EventOf(t)'
    BY DEF EventInv
  <2>1. EventOf(t) /\ fd_s'[t] = fd_s[t] /\ wpc'[t] = wpc[t] /\ t \in Slots /\ fd_s[t].fd \in Fds
    BY <1>0, <1>4 DEF PlaceInv, EventInv
  <2>2. CASE fd_s[t].fd = f
    BY <1>3, <1>4, <2>1, <2>2, SocketServerAssumption DEF EventOf
  <2>3. CASE fd_s[t].fd # f
    <3>1. events'[fd_s[t].fd] = events[fd_s[t].fd]
      BY <1>3, <2>1, <2>3
    <3> QED BY <2>1, <3>1 DEF EventOf
  <2> QED BY <2>2, <2>3
<1>8. NoLeak'
  <2> SUFFICES ASSUME NEW g \in open', events'[g] = NoSlot
               PROVE  \E t \in heap' : fd_s'[t].fd = g /\ wpc'[t] \notin {"idle", "free"}
    BY DEF NoLeak
  <2>1. g \in open /\ events[g] = NoSlot
    BY <1>0, <1>3
  <2>2. PICK t \in heap : fd_s[t].fd = g /\ wpc[t] \notin {"idle", "free"}
    BY <2>1 DEF PlaceInv, NoLeak
  <2>3. t \in heap'
    BY <1>1, <1>2, <2>2
  <2> QED BY <1>4, <2>2, <2>3
<1> QED BY <1>5, <1>6, <1>7, <1>8 DEF PlaceInv

\* A new socket is no other fd_state's, and its block no one's.
LEMMA PlaceAccept ==
  ASSUME TypeOK, OwnerInv, PlaceInv, NEW f \in Fds, NEW s \in Slots, Accept(f, s)
  PROVE  PlaceInv'
<1>0. /\ heap \subseteq Slots /\ open \subseteq Fds /\ \A t \in heap : fd_s[t].fd \in Fds
  BY DEF TypeOK, OwnerInv, WorkInv
<1>1. /\ s \notin heap /\ heap' = heap \cup {s} /\ wpc'[s] = "idle" /\ fd_s'[s].fd = f
      /\ \A t \in Slots : t # s => fd_s'[t] = fd_s[t] /\ wpc'[t] = wpc[t]
  BY AcceptFields DEF Others
<1>2. /\ f \notin open /\ open' = open \cup {f}
      /\ \A g \in Fds : events'[g] = IF g = f THEN s ELSE events[g]
  BY DEF Accept, Register, TypeOK
<1>4. ASSUME NEW t \in heap
      PROVE  t # s /\ t \in Slots /\ fd_s'[t] = fd_s[t] /\ wpc'[t] = wpc[t]
             /\ (wpc[t] # "free" => fd_s[t].fd # f)
  <2>1. t # s /\ t \in Slots
    BY <1>0, <1>1
  <2>2. wpc[t] # "free" => fd_s[t].fd # f
    BY <1>2 DEF PlaceInv, SocketInv
  <2> QED BY <1>1, <2>1, <2>2
<1>5. TableInv'
  BY <1>0, <1>1, <1>2, <1>4 DEF PlaceInv, TableInv
<1>6. SocketInv'
  <2>1. \A t \in heap' : wpc'[t] # "free" => fd_s'[t].fd \in open'
    BY <1>1, <1>2, <1>4 DEF PlaceInv, SocketInv
  <2>2. \A t, u \in heap' : fd_s'[t].fd = fd_s'[u].fd /\ t # u => wpc'[t] = "free" \/ wpc'[u] = "free"
    BY <1>1, <1>4 DEF PlaceInv, SocketInv
  <2> QED BY <2>1, <2>2 DEF SocketInv
<1>7. EventInv'
  <2> SUFFICES ASSUME NEW t \in heap' PROVE EventOf(t)'
    BY DEF EventInv
  <2>1. CASE t = s
    BY <1>1, <1>2, <2>1 DEF EventOf
  <2>2. CASE t # s
    <3>1. t \in heap
      BY <1>1, <2>2
    <3>2. EventOf(t) /\ fd_s'[t] = fd_s[t] /\ wpc'[t] = wpc[t] /\ t \in Slots /\ fd_s[t].fd \in Fds
      BY <1>0, <1>4, <3>1 DEF PlaceInv, EventInv
    <3>3. CASE fd_s[t].fd = f
      <4>1. wpc'[t] = "free" /\ events'[fd_s'[t].fd] = s
        BY <1>2, <1>4, <3>1, <3>2, <3>3
      <4> QED BY <2>2, <4>1 DEF EventOf
    <3>4. CASE fd_s[t].fd # f
      <4>1. events'[fd_s[t].fd] = events[fd_s[t].fd]
        BY <1>2, <3>2, <3>4
      <4> QED BY <3>2, <4>1 DEF EventOf
    <3> QED BY <3>3, <3>4
  <2> QED BY <2>1, <2>2
<1>8. NoLeak'
  <2> SUFFICES ASSUME NEW g \in open', events'[g] = NoSlot
               PROVE  \E t \in heap' : fd_s'[t].fd = g /\ wpc'[t] \notin {"idle", "free"}
    BY DEF NoLeak
  <2>1. g # f
    BY <1>2, SocketServerAssumption
  <2>2. g \in open /\ events[g] = NoSlot
    BY <1>0, <1>2, <2>1
  <2>3. PICK t \in heap : fd_s[t].fd = g /\ wpc[t] \notin {"idle", "free"}
    BY <2>2 DEF PlaceInv, NoLeak
  <2>4. t \in heap'
    BY <1>1, <2>3
  <2> QED BY <1>4, <2>3, <2>4
<1> QED BY <1>5, <1>6, <1>7, <1>8 DEF PlaceInv

\* Closing a socket whose event is gone leaves no event and no fd_state without socket.
LEMMA PlaceClose ==
  ASSUME TypeOK, OwnerInv, PlaceInv, NEW s \in Slots, SocketClose(s)
  PROVE  PlaceInv'
<1>0. /\ heap \subseteq Slots /\ open \subseteq Fds /\ \A t \in heap : fd_s[t].fd \in Fds
  BY DEF TypeOK, OwnerInv, WorkInv
<1>1. /\ wpc[s] = "close" /\ UNCHANGED <<heap, events, fd_s>> /\ open' = open \ {fd_s[s].fd}
      /\ \A t \in Slots : wpc'[t] = IF t = s THEN "free" ELSE wpc[t]
  BY DEF SocketClose, Step, TypeOK
<1>2. s \in heap /\ EventOf(s)
  BY <1>1 DEF OwnerInv, WorkInv, PlaceInv, EventInv
<1>3. events[fd_s[s].fd] = NoSlot
  BY <1>1, <1>2 DEF EventOf
<1>4. ASSUME NEW t \in heap, fd_s[t].fd = fd_s[s].fd, wpc[t] # "free"
      PROVE  t = s
  BY <1>1, <1>2, <1>4 DEF PlaceInv, SocketInv
<1>5. TableInv'
  BY <1>1, <1>3 DEF PlaceInv, TableInv
<1>6. SocketInv'
  <2>1. \A t \in heap : wpc'[t] # "free" => fd_s[t].fd \in open'
    <3> SUFFICES ASSUME NEW t \in heap, wpc'[t] # "free" PROVE fd_s[t].fd \in open'
      OBVIOUS
    <3>1. t # s /\ wpc[t] # "free"
      BY <1>0, <1>1
    <3> QED BY <1>1, <1>4, <3>1 DEF PlaceInv, SocketInv
  <2>2. \A t, u \in heap : fd_s[t].fd = fd_s[u].fd /\ t # u => wpc'[t] = "free" \/ wpc'[u] = "free"
    BY <1>0, <1>1 DEF PlaceInv, SocketInv
  <2> QED BY <1>1, <2>1, <2>2 DEF SocketInv
<1>7. EventInv'
  <2> SUFFICES ASSUME NEW t \in heap PROVE EventOf(t)'
    BY <1>1 DEF EventInv
  <2>1. CASE t = s
    BY <1>0, <1>1, <1>2, <1>3, <2>1, SocketServerAssumption DEF EventOf
  <2>2. CASE t # s
    <3>1. EventOf(t) /\ wpc'[t] = wpc[t] /\ fd_s' = fd_s /\ events' = events
      BY <1>0, <1>1, <2>2 DEF PlaceInv, EventInv
    <3> QED BY <3>1 DEF EventOf
  <2> QED BY <2>1, <2>2
<1>8. NoLeak'
  <2> SUFFICES ASSUME NEW g \in open', events[g] = NoSlot
               PROVE  \E t \in heap : fd_s[t].fd = g /\ wpc'[t] \notin {"idle", "free"}
    BY <1>1 DEF NoLeak
  <2>1. g \in open /\ g # fd_s[s].fd
    BY <1>1
  <2>2. PICK t \in heap : fd_s[t].fd = g /\ wpc[t] \notin {"idle", "free"}
    BY <2>1 DEF PlaceInv, NoLeak
  <2>3. t # s /\ wpc'[t] = wpc[t]
    BY <1>0, <1>1, <2>1, <2>2
  <2> QED BY <2>2, <2>3
<1> QED BY <1>5, <1>6, <1>7, <1>8 DEF PlaceInv

\* Freeing an fd_state whose socket is closed leaves no event with it.
LEMMA PlaceFree ==
  ASSUME TypeOK, OwnerInv, PlaceInv, NEW s \in Slots, Free(s)
  PROVE  PlaceInv'
<1>0. /\ heap \subseteq Slots /\ open \subseteq Fds /\ \A t \in heap : fd_s[t].fd \in Fds
  BY DEF TypeOK, OwnerInv, WorkInv
<1>1. /\ wpc[s] = "free" /\ UNCHANGED <<open, events>>
      /\ \A t \in Slots : wpc'[t] = IF t = s THEN "idle" ELSE wpc[t]
  BY DEF Free, Step, TypeOK
<1>2. heap' = heap \ {s} /\ \A t \in Slots : t # s => fd_s'[t] = fd_s[t]
  BY FreeFields DEF Free
<1>3. s \in heap /\ events[fd_s[s].fd] # s
  BY <1>1 DEF OwnerInv, WorkInv, PlaceInv, EventInv, EventOf
<1>4. ASSUME NEW t \in heap'
      PROVE  t \in heap /\ t # s /\ t \in Slots /\ fd_s'[t] = fd_s[t] /\ wpc'[t] = wpc[t]
  BY <1>0, <1>1, <1>2, <1>4
<1>5. TableInv'
  <2> SUFFICES ASSUME NEW g \in Fds, events[g] # NoSlot
               PROVE  g \in open /\ events[g] \in heap' /\ fd_s'[events[g]].fd = g
    BY <1>1 DEF TableInv
  <2>1. g \in open /\ events[g] \in heap /\ fd_s[events[g]].fd = g
    BY DEF PlaceInv, TableInv
  <2>2. events[g] # s
    BY <1>3, <2>1
  <2> QED BY <1>0, <1>2, <2>1, <2>2
<1>6. SocketInv'
  <2>1. \A t \in heap' : wpc'[t] # "free" => fd_s'[t].fd \in open
    BY <1>4 DEF PlaceInv, SocketInv
  <2>2. \A t, u \in heap' : fd_s'[t].fd = fd_s'[u].fd /\ t # u => wpc'[t] = "free" \/ wpc'[u] = "free"
    BY <1>4 DEF PlaceInv, SocketInv
  <2> QED BY <1>1, <2>1, <2>2 DEF SocketInv
<1>7. EventInv'
  <2> SUFFICES ASSUME NEW t \in heap' PROVE EventOf(t)'
    BY DEF EventInv
  <2>1. EventOf(t) /\ wpc'[t] = wpc[t] /\ fd_s'[t] = fd_s[t] /\ events' = events
    BY <1>1, <1>4 DEF PlaceInv, EventInv
  <2> QED BY <2>1 DEF EventOf
<1>8. NoLeak'
  <2> SUFFICES ASSUME NEW g \in open, events[g] = NoSlot
               PROVE  \E t \in heap' : fd_s'[t].fd = g /\ wpc'[t] \notin {"idle", "free"}
    BY <1>1 DEF NoLeak
  <2>1. PICK t \in heap : fd_s[t].fd = g /\ wpc[t] \notin {"idle", "free"}
    BY DEF PlaceInv, NoLeak
  <2>2. t \in heap'
    BY <1>1, <1>2, <2>1
  <2> QED BY <1>4, <2>1, <2>2
<1> QED BY <1>5, <1>6, <1>7, <1>8 DEF PlaceInv

\* Every step keeps the fd_state of the callback that of the fired descriptor.
LEMMA CurNext ==
  ASSUME TypeOK, OwnerInv, TableInv, CurInv, [Next]_vars
  PROVE  CurInv'
<1>1. CASE lpc' \notin {"call", "recv"}
  BY <1>1 DEF CurInv
<1>2. ASSUME NEW f \in Fds, Call(f)
      PROVE  CurInv'
  <2>1. f = Min(fired) /\ fired' = fired /\ cur' = events[f] /\ fd_s' = fd_s /\ events[f] # NoSlot
    BY <1>2 DEF Call, Firing, StillRegistered
  <2> QED BY <2>1 DEF TableInv, CurInv
<1>3. CASE ReadStarts
  BY <1>3 DEF ReadStarts, Allocated, CurInv
<1>4. ASSUME UNCHANGED <<lpc, fired, cur>>, cur \in heap' => cur \in heap /\ fd_s'[cur].fd = fd_s[cur].fd
      PROVE  CurInv'
  BY <1>4 DEF CurInv
<1>5. CASE LoopStep
  <2>1. ASSUME NEW f \in Fds, Skip(f)
        PROVE  lpc' \notin {"call", "recv"}
    BY <2>1 DEF Skip, Firing
  <2> QED BY <1>1, <1>2, <1>3, <1>5, <2>1 DEF LoopStep, Select, SelectReturns, AllDispatched,
       AcceptRefused, ReadRefused, RecvIncomplete, RecvFails, Accept, HandOver, Returns
<1>6. CASE Start
  BY <1>4, <1>6 DEF Start, loop
<1>7. ASSUME NEW s \in Slots, WorkerStep(s)
      PROVE  CurInv'
  <2>0. heap \subseteq Slots /\ cur \in heap => cur \in Slots
    BY DEF TypeOK
  <2>1. CASE Free(s)
    <3>1. /\ UNCHANGED <<lpc, fired, cur>> /\ heap' = heap \ {s}
          /\ \A t \in Slots : t # s => fd_s'[t] = fd_s[t]
      BY <2>1, FreeFields DEF Free, loop
    <3>2. cur \in heap' => cur \in heap /\ cur \in Slots /\ cur # s
      BY <3>1 DEF TypeOK
    <3> QED BY <1>4, <3>1, <3>2
  <2>2. ASSUME ~ Free(s)
        PROVE  UNCHANGED <<lpc, fired, cur, heap>>
    BY <1>7, <2>2 DEF WorkerStep, HandleGarbled, HandleUndefined, HandleBadJson, HandleRoute, Release,
         SendKeeps, SendCloses, SendFails, WorkerDelete, WorkerMaxfd, SocketClose, loop
  <2>3. CASE UNCHANGED fd_s /\ ~ Free(s)
    BY <1>4, <2>2, <2>3
  <2>4. CASE HandleGarbled(s) \/ HandleUndefined(s) \/ HandleBadJson(s) \/ HandleRoute(s) \/ SendKeeps(s)
    <3>1. UNCHANGED <<lpc, fired, cur, heap>>
      BY <2>4 DEF HandleGarbled, HandleUndefined, HandleBadJson, HandleRoute, SendKeeps, loop
    <3>2. Others(s) /\ fd_s'[s].fd = fd_s[s].fd
      BY <2>4, GarbledFields, UndefinedFields, BadJsonFields, RouteFields, KeepsFields DEF Kept
    <3>3. cur \in heap => fd_s'[cur].fd = fd_s[cur].fd
      BY <3>2 DEF Others, TypeOK
    <3> QED BY <1>4, <3>1, <3>3
  <2> QED BY <1>7, <2>1, <2>3, <2>4 DEF WorkerStep, Release, SendCloses, SendFails, WorkerDelete,
       WorkerMaxfd, SocketClose
<1> QED BY <1>4, <1>5, <1>6, <1>7 DEF Next, LooksIntoFreed, vars, loop

\* Every step keeps sockets, events and fd_states together.
LEMMA PlaceNext ==
  ASSUME TypeOK, OwnerInv, PlaceInv, CurInv, KeptDefined, [Next]_vars
  PROVE  PlaceInv'
<1>a. \A s \in Slots : wpc[s] # "idle" => s \in heap /\ fd_s[s].req \in traffic.requests /\ EventOf(s)
  BY DEF OwnerInv, WorkInv, PlaceInv, EventInv
<1>b. ASSUME NEW s \in Slots, NEW p, wpc' = [wpc EXCEPT ![s] = p]
      PROVE  \A t \in Slots : wpc'[t] = IF t = s THEN p ELSE wpc[t]
  BY <1>b DEF TypeOK
<1>2. CASE UNCHANGED <<open, events, heap, fd_s, wpc>>
  BY <1>2 DEF PlaceInv, TableInv, SocketInv, EventInv, EventOf, NoLeak
<1>3. ASSUME NEW f \in Fds, RecvFails(f)
      PROVE  PlaceInv'
  BY <1>3, PlaceRecvFails
<1>4. ASSUME NEW f \in Fds, NEW s \in Slots, Accept(f, s)
      PROVE  PlaceInv'
  BY <1>4, PlaceAccept
<1>5. ASSUME NEW f \in Fds, NEW r \in traffic.requests, HandOver(f, r)
      PROVE  PlaceInv'
  <2>0. PICK s \in Slots : s = cur
    BY <1>5, HandOverFields
  <2>1. /\ s \in heap /\ wpc[s] = "idle" /\ wpc'[s] = "queued"
        /\ \A t \in Slots : t # s => fd_s'[t] = fd_s[t] /\ wpc'[t] = wpc[t]
        /\ fd_s'[s].fd = fd_s[s].fd /\ fd_s'[s].req = r
    BY <1>5, <2>0, HandOverFields DEF Others
  <2>2. /\ UNCHANGED <<open, heap>> /\ lpc = "recv" /\ f = Min(fired)
        /\ r.keepAlive => UNCHANGED events
        /\ ~ r.keepAlive => events' = [events EXCEPT ![f] = NoSlot]
    BY <1>5 DEF HandOver, Reading, Unregister
  <2>3. fd_s[s].fd = f /\ events[f] = s
    BY <2>0, <2>1, <2>2 DEF CurInv, PlaceInv, EventInv, EventOf
  <2>4. CASE r.keepAlive
    <3>1. EventOf(s)'
      BY <2>1, <2>2, <2>3, <2>4 DEF EventOf
    <3> QED BY <2>1, <2>2, <2>4, <3>1, PlaceQuiet
  <2>5. CASE ~ r.keepAlive
    <3>1. events'[f] = NoSlot
      BY <2>2, <2>5 DEF TypeOK
    <3>2. EventOf(s)'
      BY <2>1, <2>3, <2>5, <3>1 DEF EventOf
    <3> QED BY <2>1, <2>2, <2>3, <2>5, <3>2, PlaceUnregister
  <2> QED BY <2>4, <2>5
<1>6. CASE Start
  <2>1. queue # <<>> /\ UNCHANGED <<open, events, heap, fd_s>>
    BY <1>6 DEF Start
  <2>2. PICK s \in Slots : s = Head(queue) /\ wpc[s] = "queued"
    BY <2>1, HeadQueued
  <2>3. wpc' = [wpc EXCEPT ![s] = "handle"]
    BY <1>6, <2>2 DEF Start
  <2>4. \A t \in Slots : wpc'[t] = IF t = s THEN "handle" ELSE wpc[t]
    BY <1>b, <2>3
  <2>5. s \in heap /\ EventOf(s)
    BY <1>a, <2>2
  <2>6. EventOf(s)'
    BY <2>1, <2>2, <2>4, <2>5 DEF EventOf
  <2> QED BY <2>1, <2>2, <2>4, <2>5, <2>6, PlaceQuiet
<1>7. ASSUME NEW s \in Slots, WorkerStep(s)
      PROVE  PlaceInv'
  <2>0. ASSUME UNCHANGED <<open, events, heap>>, Others(s), fd_s'[s].fd = fd_s[s].fd,
               wpc[s] \notin {"idle", "free"}, wpc'[s] # "free", EventOf(s)'
        PROVE  PlaceInv'
    <3>1. s \in heap /\ \A t \in Slots : t # s => fd_s'[t] = fd_s[t] /\ wpc'[t] = wpc[t]
      BY <1>a, <2>0 DEF Others
    <3> QED BY <2>0, <3>1, PlaceQuiet
  <2>1. CASE HandleGarbled(s)
    <3>1. UNCHANGED <<open, events, heap>>
      BY <2>1 DEF HandleGarbled
    <3>2. /\ wpc[s] = "handle" /\ wpc'[s] = "send" /\ Others(s) /\ fd_s'[s].fd = fd_s[s].fd
          /\ fd_s'[s].keepAlive = fd_s[s].req.keepAlive
      BY <2>1, GarbledFields DEF Kept
    <3>3. EventOf(s)'
      BY <1>a, <3>1, <3>2 DEF EventOf
    <3> QED BY <2>0, <3>1, <3>2, <3>3
  <2>2. CASE HandleUndefined(s)
    <3>1. UNCHANGED <<open, events, heap>> /\ fd_s[s].req.type = "undefined"
      BY <2>2 DEF HandleUndefined
    <3>2. /\ wpc[s] = "handle" /\ wpc'[s] = "send" /\ Others(s) /\ fd_s'[s].fd = fd_s[s].fd
          /\ fd_s'[s].keepAlive = FALSE
      BY <2>2, UndefinedFields DEF Kept
    <3>3. ~ fd_s[s].req.keepAlive
      BY <1>a, <3>1, <3>2 DEF KeptDefined
    <3>4. EventOf(s)'
      BY <1>a, <3>1, <3>2, <3>3 DEF EventOf
    <3> QED BY <2>0, <3>1, <3>2, <3>4
  <2>3. CASE HandleBadJson(s)
    <3>1. UNCHANGED <<open, events, heap>>
      BY <2>3 DEF HandleBadJson
    <3>2. /\ wpc[s] = "handle" /\ wpc'[s] = "release" /\ Others(s) /\ fd_s'[s].fd = fd_s[s].fd
          /\ fd_s'[s].keepAlive = fd_s[s].req.keepAlive
      BY <2>3, BadJsonFields DEF Kept
    <3>3. EventOf(s)'
      BY <1>a, <3>1, <3>2 DEF EventOf
    <3> QED BY <2>0, <3>1, <3>2, <3>3
  <2>4. CASE HandleRoute(s)
    <3>1. UNCHANGED <<open, events, heap>>
      BY <2>4 DEF HandleRoute
    <3>2. /\ wpc[s] = "handle" /\ wpc'[s] = "release" /\ Others(s) /\ fd_s'[s].fd = fd_s[s].fd
          /\ fd_s'[s].keepAlive = fd_s[s].req.keepAlive
      BY <2>4, RouteFields DEF Kept
    <3>3. EventOf(s)'
      BY <1>a, <3>1, <3>2 DEF EventOf
    <3> QED BY <2>0, <3>1, <3>2, <3>3
  <2>5. CASE Release(s)
    <3>1. /\ UNCHANGED <<open, events, heap, fd_s>> /\ wpc[s] = "release"
          /\ \A t \in Slots : wpc'[t] = IF t = s THEN "send" ELSE wpc[t]
      BY <1>b, <2>5 DEF Release, Step
    <3>2. EventOf(s)'
      BY <1>a, <3>1 DEF EventOf
    <3>3. Others(s)
      BY <3>1 DEF Others
    <3> QED BY <2>0, <3>1, <3>2, <3>3
  <2>6. CASE SendKeeps(s)
    <3>1. UNCHANGED <<open, events, heap>>
      BY <2>6 DEF SendKeeps
    <3>2. /\ wpc[s] = "send" /\ wpc'[s] = "idle" /\ Others(s) /\ fd_s'[s].fd = fd_s[s].fd
          /\ fd_s[s].keepAlive
      BY <2>6, KeepsFields
    <3>3. EventOf(s)'
      BY <1>a, <3>1, <3>2 DEF EventOf
    <3> QED BY <2>0, <3>1, <3>2, <3>3
  <2>7. CASE SendCloses(s)
    <3>1. /\ UNCHANGED <<open, events, heap, fd_s>> /\ wpc[s] = "send" /\ ~ fd_s[s].keepAlive
          /\ \A t \in Slots : wpc'[t] = IF t = s THEN "close" ELSE wpc[t]
      BY <1>b, <2>7 DEF SendCloses, Step
    <3>2. EventOf(s)'
      BY <1>a, <3>1 DEF EventOf
    <3>3. Others(s)
      BY <3>1 DEF Others
    <3> QED BY <2>0, <3>1, <3>2, <3>3
  <2>8. CASE SendFails(s)
    <3>1. /\ UNCHANGED <<open, events, heap, fd_s>> /\ wpc[s] = "send"
          /\ \A t \in Slots : wpc'[t] = IF t = s THEN "delete" ELSE wpc[t]
      BY <1>b, <2>8 DEF SendFails, Step
    <3>2. EventOf(s)'
      BY <3>1 DEF EventOf
    <3>3. Others(s)
      BY <3>1 DEF Others
    <3> QED BY <2>0, <3>1, <3>2, <3>3
  <2>9. CASE WorkerDelete(s)
    <3>1. /\ UNCHANGED <<open, heap, fd_s>> /\ wpc[s] = "delete"
          /\ events' = [events EXCEPT ![fd_s[s].fd] = NoSlot]
          /\ \E p \in {"maxfd", "close"} : wpc' = [wpc EXCEPT ![s] = p]
      BY <2>9 DEF WorkerDelete, Step
    <3>2. s \in heap /\ fd_s[s].fd \in Fds
      BY <1>a, <3>1 DEF OwnerInv, WorkInv
    <3>3. /\ wpc'[s] \in {"maxfd", "close"} /\ \A t \in Slots : t # s => wpc'[t] = wpc[t]
      BY <1>b, <3>1
    <3>4. events'[fd_s[s].fd] = NoSlot
      BY <3>1, <3>2 DEF TypeOK
    <3>5. EventOf(s)'
      BY <3>1, <3>3, <3>4 DEF EventOf
    <3> QED BY <3>1, <3>2, <3>3, <3>5, PlaceUnregister
  <2>10. CASE WorkerMaxfd(s)
    <3>1. /\ UNCHANGED <<open, events, heap, fd_s>> /\ wpc[s] = "maxfd"
          /\ \A t \in Slots : wpc'[t] = IF t = s THEN "close" ELSE wpc[t]
      BY <1>b, <2>10 DEF WorkerMaxfd, Step
    <3>2. EventOf(s)'
      BY <1>a, <3>1 DEF EventOf
    <3>3. Others(s)
      BY <3>1 DEF Others
    <3> QED BY <2>0, <3>1, <3>2, <3>3
  <2>11. CASE SocketClose(s)
    BY <2>11, PlaceClose
  <2>12. CASE Free(s)
    BY <2>12, PlaceFree
  <2> QED BY <1>7, <2>1, <2>2, <2>3, <2>4, <2>5, <2>6, <2>7, <2>8, <2>9, <2>10, <2>11, <2>12 DEF WorkerStep
<1> QED BY <1>2, <1>3, <1>4, <1>5, <1>6, <1>7, LoopQuiet DEF Next, LooksIntoFreed, vars, work

\* The invariant of all that concerns sockets, where an undefined request does not ask to
\* keep the connection.
LEMMA PlaceAlways == Spec => [](KeptDefined => PlaceInv /\ CurInv)
<1>1. Init => PlaceInv /\ CurInv
  <2> SUFFICES ASSUME Init PROVE PlaceInv /\ CurInv
    OBVIOUS
  <2>1. open = {} /\ heap = {} /\ lpc = "poll" /\ \A f \in Fds : events[f] = NoSlot
    BY DEF Init
  <2> QED BY <2>1 DEF PlaceInv, TableInv, SocketInv, EventInv, NoLeak, CurInv
<1>2. /\ TypeOK /\ OwnerInv /\ [Next]_vars
      /\ KeptDefined => PlaceInv /\ CurInv
      => (KeptDefined => PlaceInv /\ CurInv)'
  <2> SUFFICES ASSUME TypeOK, OwnerInv, [Next]_vars, KeptDefined => PlaceInv /\ CurInv, KeptDefined'
               PROVE  PlaceInv' /\ CurInv'
    OBVIOUS
  <2>1. KeptDefined
    BY TrafficNext DEF KeptDefined
  <2> QED BY <2>1, PlaceNext, CurNext DEF PlaceInv
<1> QED BY <1>1, <1>2, Owner, PTL DEF Spec

\* No socket is left behind: where undefined requests do not ask to keep the connection,
\* an open socket is registered with the loop or with a worker that will close it.
THEOREM LeakCorrect == Spec => [](KeptDefined => NoLeak)
<1>1. (KeptDefined => PlaceInv /\ CurInv) => (KeptDefined => NoLeak)
  BY DEF PlaceInv
<1> QED BY <1>1, PlaceAlways, PTL

-----------------------------------------------------------------------------
(* Errors.                                                                 *)

\* A step that is about one fd_state, and after which the sockets of others that were wronged
\* still are.
LEMMA ErrorOne ==
  ASSUME heap \subseteq Slots, ErrorInv, NEW s \in Slots, heap' \subseteq heap \cup {s},
         \A t \in Slots : t # s => fd_s'[t] = fd_s[t] /\ wpc'[t] = wpc[t],
         \A t \in heap : t # s /\ wpc[t] # "free" /\ fd_s[t].fd \in wronged => fd_s[t].fd \in wronged',
         s \in heap' => ErrorOf(s)'
  PROVE  ErrorInv'
<1> SUFFICES ASSUME NEW t \in heap', t # s PROVE ErrorOf(t)'
  BY DEF ErrorInv
<1>1. t \in heap /\ t \in Slots /\ fd_s'[t] = fd_s[t] /\ wpc'[t] = wpc[t]
  OBVIOUS
<1>2. ErrorOf(t)
  BY <1>1 DEF ErrorInv
<1> QED BY <1>1, <1>2 DEF ErrorOf

\* No step tells an fd_state of another's error: a socket that is closed has no other
\* fd_state left, and a new one starts clear.
LEMMA ErrorNext ==
  ASSUME TypeOK, OwnerInv, PlaceInv, CurInv, ErrorInv, [Next]_vars
  PROVE  ErrorInv'
<1>0. heap \subseteq Slots /\ wronged \subseteq Fds
  BY DEF TypeOK
<1>a. \A s \in Slots : wpc[s] # "idle" => s \in heap
  BY DEF OwnerInv, WorkInv
<1>b. ASSUME NEW s \in Slots, NEW p, wpc' = [wpc EXCEPT ![s] = p]
      PROVE  \A t \in Slots : wpc'[t] = IF t = s THEN p ELSE wpc[t]
  BY <1>b DEF TypeOK
<1>c. ASSUME NEW s \in heap, NEW t \in heap, t # s, wpc[s] # "free", wpc[t] # "free"
      PROVE  fd_s[t].fd # fd_s[s].fd
  BY <1>c DEF PlaceInv, SocketInv
<1>2. CASE UNCHANGED <<fd_s, wpc, heap, wronged>>
  BY <1>2 DEF ErrorInv, ErrorOf
<1>3. ASSUME NEW f \in Fds, RecvFails(f)
      PROVE  ErrorInv'
  <2>1. /\ cur \in Slots /\ cur \in heap /\ wpc[cur] = "idle" /\ wpc' = wpc /\ FreeState(cur)
        /\ wronged' = wronged \ {f} /\ fd_s[cur].fd = f
    BY <1>3 DEF RecvFails, Reading, OwnerInv, ReadInv, TypeOK, work, CurInv
  <2>2. heap' = heap \ {cur} /\ \A t \in Slots : t # cur => fd_s'[t] = fd_s[t]
    BY <2>1, FreeFields
  <2>3. \A t \in heap : t # cur /\ wpc[t] # "free" /\ fd_s[t].fd \in wronged => fd_s[t].fd \in wronged'
    BY <2>1, <1>c
  <2> QED BY <1>0, <2>1, <2>2, <2>3, ErrorOne
<1>4. ASSUME NEW f \in Fds, NEW s \in Slots, Accept(f, s)
      PROVE  ErrorInv'
  <2>1. /\ heap' = heap \cup {s} /\ ~ fd_s'[s].errcode /\ wpc'[s] = "idle" /\ Others(s)
    BY <1>4, AcceptFields
  <2>2. wronged' = wronged
    BY <1>4 DEF Accept
  <2>3. ErrorOf(s)'
    BY <2>1 DEF ErrorOf
  <2> QED BY <1>0, <2>1, <2>2, <2>3, ErrorOne DEF Others
<1>5. ASSUME NEW f \in Fds, NEW r \in traffic.requests, HandOver(f, r)
      PROVE  ErrorInv'
  <2>1. /\ cur \in heap /\ cur \in Slots /\ wpc[cur] = "idle" /\ wpc'[cur] = "queued" /\ Others(cur)
        /\ fd_s'[cur].fd = fd_s[cur].fd /\ fd_s'[cur].req = r /\ fd_s'[cur].errcode = fd_s[cur].errcode
    BY <1>5, HandOverFields
  <2>2. /\ fd_s[cur].fd = f /\ heap' = heap
        /\ wronged' = IF IsBad(r) THEN wronged \cup {f} ELSE wronged
    BY <1>5, <2>1 DEF HandOver, Reading, CurInv
  <2>3. PICK s \in heap : s = cur
    BY <2>1
  <2>4. ErrorOf(s)
    BY DEF ErrorInv
  <2>5. ErrorOf(s)'
    BY <2>1, <2>2, <2>3, <2>4 DEF ErrorOf
  <2> QED BY <1>0, <2>1, <2>2, <2>3, <2>5, ErrorOne DEF Others
<1>6. CASE Start
  <2>1. /\ queue # <<>> /\ wpc' = [wpc EXCEPT ![Head(queue)] = "handle"]
        /\ UNCHANGED <<fd_s, heap, wronged>>
    BY <1>6 DEF Start
  <2>2. Head(queue) \in Slots /\ wpc[Head(queue)] = "queued"
    BY <2>1, HeadQueued
  <2>3. \A t \in Slots : wpc'[t] = IF t = Head(queue) THEN "handle" ELSE wpc[t]
    BY <1>b, <2>1, <2>2
  <2> SUFFICES ASSUME NEW t \in heap PROVE ErrorOf(t)'
    BY <2>1 DEF ErrorInv
  <2>4. ErrorOf(t) /\ t \in Slots
    BY <1>0 DEF ErrorInv
  <2> QED BY <2>1, <2>2, <2>3, <2>4 DEF ErrorOf
<1>7. ASSUME NEW s \in Slots, WorkerStep(s)
      PROVE  ErrorInv'
  <2>0. wpc[s] # "idle" => ErrorOf(s)
    BY <1>a DEF ErrorInv
  <2>1. CASE HandleGarbled(s)
    <3>1. wpc[s] = "handle" /\ IsBad(fd_s[s].req) /\ wpc'[s] = "send" /\ fd_s'[s].errcode /\ Others(s)
          /\ Kept(s) /\ UNCHANGED <<heap, wronged>>
      BY <2>1, GarbledFields DEF HandleGarbled, IsBad, Step
    <3>2. ErrorOf(s)'
      BY <2>0, <3>1 DEF ErrorOf, Kept
    <3> QED BY <1>0, <3>1, <3>2, ErrorOne DEF Others
  <2>2. CASE HandleUndefined(s)
    <3>1. wpc[s] = "handle" /\ IsBad(fd_s[s].req) /\ wpc'[s] = "send" /\ fd_s'[s].errcode /\ Others(s)
          /\ Kept(s) /\ UNCHANGED <<heap, wronged>>
      BY <2>2, UndefinedFields DEF HandleUndefined, IsBad, Step
    <3>2. ErrorOf(s)'
      BY <2>0, <3>1 DEF ErrorOf, Kept
    <3> QED BY <1>0, <3>1, <3>2, ErrorOne DEF Others
  <2>3. CASE HandleBadJson(s)
    <3>1. wpc[s] = "handle" /\ IsBad(fd_s[s].req) /\ wpc'[s] = "release" /\ fd_s'[s].errcode /\ Others(s)
          /\ Kept(s) /\ UNCHANGED <<heap, wronged>>
      BY <2>3, BadJsonFields DEF HandleBadJson, IsBad, Step
    <3>2. ErrorOf(s)'
      BY <2>0, <3>1 DEF ErrorOf, Kept
    <3> QED BY <1>0, <3>1, <3>2, ErrorOne DEF Others
  <2>4. CASE HandleRoute(s)
    <3>1. (fd_s[s].req.type = "json" /\ fd_s[s].req.parses) \/ fd_s[s].req.type = "stream"
      BY <2>4 DEF HandleRoute
    <3>2. IsBad(fd_s[s].req) <=> ~ fd_s[s].req.route
      BY <3>1 DEF IsBad
    <3>3. /\ wpc[s] = "handle" /\ wpc'[s] = "release" /\ Others(s) /\ Kept(s)
          /\ fd_s'[s].errcode = IF fd_s[s].req.route THEN fd_s[s].errcode ELSE TRUE
          /\ UNCHANGED <<heap, wronged>>
      BY <2>4, RouteFields DEF HandleRoute
    <3>4. ErrorOf(s)'
      BY <2>0, <3>2, <3>3 DEF ErrorOf, Kept
    <3> QED BY <1>0, <3>3, <3>4, ErrorOne DEF Others
  <2>5. CASE Release(s)
    <3>1. UNCHANGED <<fd_s, heap, wronged>> /\ wpc[s] = "release" /\ wpc' = [wpc EXCEPT ![s] = "send"]
      BY <2>5 DEF Release, Step
    <3>2. \A t \in Slots : wpc'[t] = IF t = s THEN "send" ELSE wpc[t]
      BY <1>b, <3>1
    <3>3. ErrorOf(s)'
      BY <2>0, <3>1, <3>2 DEF ErrorOf
    <3> QED BY <1>0, <3>1, <3>2, <3>3, ErrorOne
  <2>6. CASE SendKeeps(s)
    <3>1. wpc[s] = "send" /\ fd_s'[s].errcode = fd_s[s].errcode /\ fd_s'[s].fd = fd_s[s].fd
          /\ wpc'[s] = "idle" /\ Others(s) /\ UNCHANGED <<heap, wronged>>
      BY <2>6, KeepsFields DEF SendKeeps
    <3>2. ErrorOf(s)'
      BY <2>0, <3>1 DEF ErrorOf
    <3> QED BY <1>0, <3>1, <3>2, ErrorOne DEF Others
  <2>7. CASE SendCloses(s) \/ SendFails(s) \/ WorkerDelete(s) \/ WorkerMaxfd(s)
    <3>1. UNCHANGED <<fd_s, heap, wronged>> /\ wpc[s] \in {"send", "delete", "maxfd"}
          /\ \E p \in {"delete", "maxfd", "close"} : wpc' = [wpc EXCEPT ![s] = p]
      BY <2>7 DEF SendCloses, SendFails, WorkerDelete, WorkerMaxfd, Step
    <3>2. PICK p \in {"delete", "maxfd", "close"} : \A t \in Slots : wpc'[t] = IF t = s THEN p ELSE wpc[t]
      BY <1>b, <3>1
    <3>3. ErrorOf(s)'
      BY <2>0, <3>1, <3>2 DEF ErrorOf
    <3> QED BY <1>0, <3>1, <3>2, <3>3, ErrorOne
  <2>8. CASE SocketClose(s)
    <3>1. /\ UNCHANGED <<fd_s, heap>> /\ wronged' = wronged \ {fd_s[s].fd}
          /\ wpc[s] = "close" /\ wpc' = [wpc EXCEPT ![s] = "free"]
      BY <2>8 DEF SocketClose, Step
    <3>2. \A t \in Slots : wpc'[t] = IF t = s THEN "free" ELSE wpc[t]
      BY <1>b, <3>1
    <3>3. ErrorOf(s)'
      BY <3>2 DEF ErrorOf
    <3>4. \A t \in heap : t # s /\ wpc[t] # "free" /\ fd_s[t].fd \in wronged => fd_s[t].fd \in wronged'
      BY <1>a, <1>c, <3>1
    <3> QED BY <1>0, <3>1, <3>2, <3>3, <3>4, ErrorOne
  <2>9. CASE Free(s)
    <3>1. wpc' = [wpc EXCEPT ![s] = "idle"] /\ FreeState(s) /\ wronged' = wronged
      BY <2>9 DEF Free, Step
    <3>2. \A t \in Slots : wpc'[t] = IF t = s THEN "idle" ELSE wpc[t]
      BY <1>b, <3>1
    <3>3. heap' = heap \ {s} /\ \A t \in Slots : t # s => fd_s'[t] = fd_s[t]
      BY <3>1, FreeFields
    <3> QED BY <1>0, <3>1, <3>2, <3>3, ErrorOne
  <2> QED BY <1>7, <2>1, <2>2, <2>3, <2>4, <2>5, <2>6, <2>7, <2>8, <2>9 DEF WorkerStep
<1>8. CASE LoopStep
  <2> SUFFICES ASSUME \A f \in Fds : ~ RecvFails(f),
                      \A f \in Fds, s \in Slots : ~ Accept(f, s),
                      \A f \in Fds, r \in traffic.requests : ~ HandOver(f, r)
               PROVE  ErrorInv'
    BY <1>3, <1>4, <1>5
  <2>1. UNCHANGED <<heap, fd_s, work>>
    BY <1>8, LoopQuiet
  <2>2. wronged' = wronged
    BY <1>8 DEF LoopStep, Select, SelectReturns, AllDispatched, AcceptRefused, ReadRefused, ReadStarts,
                Skip, Call, RecvIncomplete
  <2> QED BY <1>2, <2>1, <2>2 DEF work
<1> QED BY <1>2, <1>6, <1>7, <1>8 DEF Next, LooksIntoFreed, vars, work

\* Whichever sockets, descriptors and fd_states are used again, and whatever requests and
\* answers fail, a wrong request is answered with an error, and an error only on a
\* connection that has sent a wrong request, where undefined requests do not ask to keep
\* the connection.
THEOREM AnswerCorrect == Spec => [](KeptDefined => AnswerIsOwn)
<1>1. Init => ErrorInv
  BY DEF Init, ErrorInv
<1>2. /\ TypeOK /\ OwnerInv /\ [Next]_vars
      /\ KeptDefined => PlaceInv /\ CurInv
      /\ KeptDefined => ErrorInv
      => (KeptDefined => ErrorInv)'
  <2> SUFFICES ASSUME TypeOK, OwnerInv, [Next]_vars, KeptDefined => PlaceInv /\ CurInv,
                      KeptDefined => ErrorInv, KeptDefined'
               PROVE  ErrorInv'
    OBVIOUS
  <2>1. KeptDefined
    BY TrafficNext DEF KeptDefined
  <2> QED BY <2>1, ErrorNext
<1>3. OwnerInv /\ (KeptDefined => ErrorInv) => (KeptDefined => AnswerIsOwn)
  <2> SUFFICES ASSUME OwnerInv, ErrorInv, NEW s \in Slots, wpc[s] = "send"
               PROVE  /\ IsBad(fd_s[s].req) => fd_s[s].errcode
                      /\ fd_s[s].errcode => fd_s[s].fd \in wronged
    BY DEF AnswerIsOwn
  <2>1. ErrorOf(s)
    BY DEF OwnerInv, WorkInv, ErrorInv
  <2> QED BY <2>1 DEF ErrorOf
<1> QED BY <1>1, <1>2, <1>3, Owner, PlaceAlways, PTL DEF Spec

-----------------------------------------------------------------------------
(* maxfd, as long as only the loop writes to it.                           *)

\* Registered descriptors are naturals up to LastFd, the listener among them.
LEMMA RegisteredRange ==
  ASSUME NEW table
  PROVE  /\ Registered(table) \in SUBSET Nat /\ Listener \in Registered(table)
         /\ \A g \in Registered(table) : g <= LastFd
BY SocketServerAssumption DEF Registered, Fds, Listener

\* There is a highest one.
LEMMA MaxRegistered ==
  ASSUME NEW table
  PROVE  Max(Registered(table)) \in Registered(table) /\ \A g \in Registered(table) : g <= Max(Registered(table))
<1> DEFINE S == Registered(table)
<1>1. S \in SUBSET Nat /\ S # {} /\ LastFd \in Nat /\ \A g \in S : g <= LastFd
  BY RegisteredRange, SocketServerAssumption
<1> HIDE DEF S
<1>2. Max(S) \in S /\ \A g \in S : g <= Max(S)
  BY <1>1, MaxIsGreatest
<1> QED BY <1>2 DEF S

\* aeCreateFileEvent keeps maxfd the highest.
LEMMA MaxAccept ==
  ASSUME TypeOK, maxfd = Max(Registered(events)), NEW f \in Fds, NEW s \in Slots, Register(f, s)
  PROVE  maxfd' = Max(Registered(events'))
<1> DEFINE S == Registered(events)
           T == Registered(events')
<1>1. T = S \cup {f}
  BY SocketServerAssumption DEF Register, Registered, TypeOK
<1>2. S \in SUBSET Nat /\ T \in SUBSET Nat /\ f \in Nat /\ maxfd \in S /\ \A g \in S : g <= maxfd
  BY <1>1, RegisteredRange, MaxRegistered, SocketServerAssumption DEF Fds
<1>3. maxfd' = IF f > maxfd THEN f ELSE maxfd
  BY DEF Register
<1> HIDE DEF S, T
<1>4. maxfd' \in T /\ \A g \in T : g <= maxfd'
  BY <1>1, <1>2, <1>3
<1>5. Max(T) = maxfd'
  BY <1>2, <1>4, MaxUnique
<1> QED BY <1>5 DEF T

\* So does aeDeleteFileEvent on the loop's thread.
LEMMA MaxUnregister ==
  ASSUME TypeOK, maxfd = Max(Registered(events)), NEW f \in Fds, Unregister(f)
  PROVE  maxfd' = Max(Registered(events'))
<1> DEFINE S == Registered(events)
           T == Registered(events')
<1>1. T = S \ {f}
  BY SocketServerAssumption DEF Unregister, Registered, Fds, Listener, TypeOK
<1>2. S \in SUBSET Nat /\ T \in SUBSET Nat /\ f \in Nat /\ maxfd \in S /\ \A g \in S : g <= maxfd
  BY <1>1, RegisteredRange, MaxRegistered, SocketServerAssumption DEF Fds
<1>3. CASE f = maxfd /\ events[f] # NoSlot
  <2>1. maxfd' = Max({g \in T : g < f})
    BY <1>3 DEF Unregister, HighestBelow
  <2>2. {g \in T : g < f} = T
    <3> HIDE DEF S, T
    <3> QED BY <1>1, <1>2, <1>3
  <2> QED BY <2>1, <2>2
<1>4. CASE f # maxfd
  <2>1. maxfd' = maxfd
    BY <1>4 DEF Unregister
  <2> HIDE DEF S, T
  <2>2. maxfd \in T /\ \A g \in T : g <= maxfd
    BY <1>1, <1>2, <1>4
  <2>3. Max(T) = maxfd
    BY <1>2, <2>2, MaxUnique
  <2> QED BY <2>1, <2>3 DEF T
<1>5. CASE f = maxfd /\ events[f] = NoSlot
  BY <1>2, <1>5, SocketServerAssumption DEF Registered, Fds, Listener
<1> QED BY <1>3, <1>4, <1>5

\* As long as answers on kept connections arrive, no worker changes an event.
LEMMA LoopOnlyNext ==
  ASSUME TypeOK, OwnerInv, PlaceInv, CurInv, LoopOnlyInv, KeptAnswersArrive, [Next]_vars
  PROVE  LoopOnlyInv'
<1> DEFINE DelOf(s) == wpc[s] # "maxfd" /\ (wpc[s] = "delete" => events[fd_s[s].fd] = NoSlot)
           CallOK == lpc = "call" => Min(fired) \in Fds /\ events[Min(fired)] = cur
           MaxOK == maxfd = Max(Registered(events))
<1>0. (\A s \in Slots : DelOf(s)) /\ CallOK /\ MaxOK
  BY DEF LoopOnlyInv
<1>q. ASSUME (\A s \in Slots : DelOf(s))', CallOK', MaxOK' PROVE LoopOnlyInv'
  BY <1>q DEF LoopOnlyInv
<1>a. \A s \in Slots : wpc[s] # "idle" => s \in heap /\ EventOf(s) /\ fd_s[s].fd \in Fds
  BY DEF OwnerInv, WorkInv, PlaceInv, EventInv
<1>b. ASSUME NEW s \in Slots, NEW p, wpc' = [wpc EXCEPT ![s] = p]
      PROVE  \A t \in Slots : wpc'[t] = IF t = s THEN p ELSE wpc[t]
  BY <1>b DEF TypeOK
<1>2. CASE UNCHANGED <<events, maxfd, fd_s, wpc>> /\ lpc' # "call"
  BY <1>0, <1>2, <1>q
<1>3. ASSUME NEW f \in Fds, Call(f)
      PROVE  LoopOnlyInv'
  BY <1>0, <1>3, <1>q DEF Call, Firing, work
<1>4. ASSUME UNCHANGED <<events, maxfd, lpc, cur, fired>>, NEW s \in Slots,
             \A t \in Slots : t # s => fd_s'[t] = fd_s[t] /\ wpc'[t] = wpc[t], DelOf(s)'
      PROVE  LoopOnlyInv'
  <2>1. CallOK' /\ MaxOK'
    BY <1>0, <1>4
  <2>2. \A t \in Slots : t # s => DelOf(t)'
    BY <1>0, <1>4
  <2> QED BY <1>4, <1>q, <2>1, <2>2
<1>5. ASSUME NEW f \in Fds, RecvFails(f)
      PROVE  LoopOnlyInv'
  <2>1. cur \in Slots /\ wpc[cur] = "idle" /\ wpc' = wpc /\ FreeState(cur) /\ Unregister(f) /\ lpc' # "call"
    BY <1>5 DEF RecvFails, Reading, Returns, OwnerInv, ReadInv, TypeOK, work
  <2>2. \A t \in Slots : t # cur => fd_s'[t] = fd_s[t]
    BY <2>1, FreeFields
  <2>3. MaxOK'
    BY <1>0, <2>1, MaxUnregister
  <2>4. \A g \in Fds : events'[g] = events[g] \/ events'[g] = NoSlot
    BY <2>1 DEF Unregister, TypeOK
  <2>5. ASSUME NEW t \in Slots PROVE DelOf(t)'
    <3>1. CASE t = cur
      BY <2>1, <3>1
    <3>2. CASE t # cur
      BY <1>0, <1>a, <2>1, <2>2, <2>4, <3>2
    <3> QED BY <3>1, <3>2
  <2> QED BY <1>q, <2>1, <2>3, <2>5
<1>6. ASSUME NEW f \in Fds, NEW s \in Slots, Accept(f, s)
      PROVE  LoopOnlyInv'
  <2>1. /\ wpc'[s] = "idle" /\ \A t \in Slots : t # s => fd_s'[t] = fd_s[t] /\ wpc'[t] = wpc[t]
    BY <1>6, AcceptFields DEF Others
  <2>2. f \notin open /\ Register(f, s) /\ lpc' # "call"
    BY <1>6 DEF Accept, Returns
  <2>3. MaxOK'
    BY <1>0, <2>2, MaxAccept
  <2>4. \A g \in Fds : g # f => events'[g] = events[g]
    BY <2>2 DEF Register, TypeOK
  <2>5. ASSUME NEW t \in Slots PROVE DelOf(t)'
    <3>1. CASE t = s
      BY <2>1, <3>1
    <3>2. CASE t # s
      <4>1. wpc[t] = "delete" => fd_s[t].fd \in Fds /\ fd_s[t].fd # f
        BY <1>a, <2>2 DEF PlaceInv, SocketInv
      <4> QED BY <1>0, <2>1, <2>4, <3>2, <4>1
    <3> QED BY <3>1, <3>2
  <2> QED BY <1>q, <2>2, <2>3, <2>5
<1>7. ASSUME NEW f \in Fds, NEW r \in traffic.requests, HandOver(f, r)
      PROVE  LoopOnlyInv'
  <2>1. /\ cur \in Slots /\ wpc'[cur] = "queued"
        /\ \A t \in Slots : t # cur => fd_s'[t] = fd_s[t] /\ wpc'[t] = wpc[t]
    BY <1>7, HandOverFields DEF Others
  <2>2. lpc' # "call" /\ (UNCHANGED <<events, maxfd>> \/ Unregister(f))
    BY <1>7 DEF HandOver, Returns
  <2>3. MaxOK'
    BY <1>0, <2>2, MaxUnregister
  <2>4. \A g \in Fds : events'[g] = events[g] \/ events'[g] = NoSlot
    BY <2>2 DEF Unregister, TypeOK
  <2>5. ASSUME NEW t \in Slots PROVE DelOf(t)'
    <3>1. CASE t = cur
      BY <2>1, <3>1
    <3>2. CASE t # cur
      BY <1>0, <1>a, <2>1, <2>4, <3>2
    <3> QED BY <3>1, <3>2
  <2> QED BY <1>q, <2>2, <2>3, <2>5
<1>8. CASE Start
  <2>1. queue # <<>> /\ UNCHANGED <<events, maxfd, lpc, cur, fired, fd_s>>
    BY <1>8 DEF Start, loop
  <2>2. PICK s \in Slots : s = Head(queue)
    BY <2>1, HeadQueued
  <2>3. wpc' = [wpc EXCEPT ![s] = "handle"]
    BY <1>8, <2>2 DEF Start
  <2>4. \A t \in Slots : wpc'[t] = IF t = s THEN "handle" ELSE wpc[t]
    BY <1>b, <2>3
  <2> QED BY <1>4, <2>1, <2>4
<1>9. ASSUME NEW s \in Slots, WorkerStep(s)
      PROVE  LoopOnlyInv'
  <2>1. CASE HandleGarbled(s) \/ HandleUndefined(s) \/ HandleBadJson(s) \/ HandleRoute(s) \/ SendKeeps(s)
    <3>1. UNCHANGED <<events, maxfd, lpc, cur, fired>>
      BY <2>1 DEF HandleGarbled, HandleUndefined, HandleBadJson, HandleRoute, SendKeeps, loop
    <3>2. Others(s) /\ wpc'[s] \in {"send", "release", "idle"}
      BY <2>1, GarbledFields, UndefinedFields, BadJsonFields, RouteFields, KeepsFields
    <3> QED BY <1>4, <3>1, <3>2 DEF Others
  <2>2. CASE Release(s) \/ SendCloses(s) \/ SocketClose(s)
    <3>1. /\ UNCHANGED <<events, maxfd, lpc, cur, fired, fd_s>>
          /\ \E p \in {"send", "close", "free"} : wpc' = [wpc EXCEPT ![s] = p]
      BY <2>2 DEF Release, SendCloses, SocketClose, Step, loop
    <3>2. /\ wpc'[s] \in {"send", "close", "free"}
          /\ \A t \in Slots : t # s => wpc'[t] = wpc[t]
      BY <1>b, <3>1
    <3> QED BY <1>4, <3>1, <3>2
  <2>3. CASE SendFails(s)
    <3>1. /\ UNCHANGED <<events, maxfd, lpc, cur, fired, fd_s>> /\ wpc[s] = "send"
          /\ fd_s[s].keepAlive \in traffic.sendMayFail
          /\ \A t \in Slots : wpc'[t] = IF t = s THEN "delete" ELSE wpc[t]
      BY <1>b, <2>3 DEF SendFails, Step, loop
    <3>2. fd_s[s].keepAlive # TRUE
      BY <3>1 DEF KeptAnswersArrive
    <3>3. fd_s[s].keepAlive \in BOOLEAN
      BY DEF TypeOK
    <3>4. ~ fd_s[s].keepAlive
      BY <3>2, <3>3
    <3>5. events[fd_s[s].fd] = NoSlot
      BY <1>a, <3>1, <3>4 DEF EventOf
    <3> QED BY <1>4, <3>1, <3>5
  <2>4. CASE WorkerDelete(s)
    <3>1. /\ UNCHANGED <<maxfd, lpc, cur, fired, fd_s>> /\ wpc[s] = "delete"
          /\ events' = [events EXCEPT ![fd_s[s].fd] = NoSlot]
      BY <2>4 DEF WorkerDelete, Step, loop
    <3>2. events[fd_s[s].fd] = NoSlot /\ fd_s[s].fd \in Fds
      BY <1>0, <1>a, <3>1
    <3>3. events' = events
      BY <3>1, <3>2 DEF TypeOK
    <3>4. wpc' = [wpc EXCEPT ![s] = "close"]
      BY <2>4, <3>2 DEF WorkerDelete, Step
    <3>5. \A t \in Slots : wpc'[t] = IF t = s THEN "close" ELSE wpc[t]
      BY <1>b, <3>4
    <3> QED BY <1>4, <3>1, <3>3, <3>5
  <2>5. CASE WorkerMaxfd(s)
    BY <1>0, <2>5 DEF WorkerMaxfd, Step
  <2>6. CASE Free(s)
    <3>1. /\ UNCHANGED <<events, maxfd, lpc, cur, fired>> /\ FreeState(s)
          /\ \A t \in Slots : wpc'[t] = IF t = s THEN "idle" ELSE wpc[t]
      BY <1>b, <2>6 DEF Free, Step, loop
    <3>2. \A t \in Slots : t # s => fd_s'[t] = fd_s[t]
      BY <3>1, FreeFields
    <3> QED BY <1>4, <3>1, <3>2
  <2> QED BY <1>9, <2>1, <2>2, <2>3, <2>4, <2>5, <2>6 DEF WorkerStep
<1>10. CASE UNCHANGED vars
  BY <1>0, <1>10, <1>q DEF vars, loop, work
<1>11. CASE LoopStep
  <2>1. ASSUME NEW f \in Fds, Skip(f)
        PROVE  lpc' # "call"
    BY <2>1 DEF Skip, Firing
  <2>2. CASE \E f \in Fds : Call(f) \/ RecvFails(f)
    BY <1>3, <1>5, <2>2
  <2>3. CASE \E f \in Fds, s \in Slots : Accept(f, s)
    BY <1>6, <2>3
  <2>4. CASE \E f \in Fds, r \in traffic.requests : HandOver(f, r)
    BY <1>7, <2>4
  <2>5. ASSUME \A f \in Fds : ~ Call(f) /\ ~ RecvFails(f), \A f \in Fds, s \in Slots : ~ Accept(f, s),
               \A f \in Fds, r \in traffic.requests : ~ HandOver(f, r)
        PROVE  UNCHANGED <<events, maxfd, fd_s, wpc>> /\ lpc' # "call"
    <3>1. UNCHANGED <<events, maxfd, fd_s, wpc>>
      BY <1>11, <2>5, LoopQuiet DEF work
    <3>2. lpc' # "call"
      BY <1>11, <2>1, <2>5 DEF LoopStep, Select, SelectReturns, AllDispatched, AcceptRefused,
         ReadRefused, ReadStarts, RecvIncomplete, Returns
    <3> QED BY <3>1, <3>2
  <2> QED BY <1>2, <2>2, <2>3, <2>4, <2>5
<1> QED BY <1>8, <1>9, <1>10, <1>11 DEF Next, LooksIntoFreed

\* So the loop is alone with its table.
LEMMA LoopOnlyAlways == Spec => [](KeptDefined /\ KeptAnswersArrive => LoopOnlyInv)
<1>1. Init => LoopOnlyInv
  <2> SUFFICES ASSUME Init PROVE LoopOnlyInv
    OBVIOUS
  <2>1. lpc = "poll" /\ maxfd = Listener /\ \A s \in Slots : wpc[s] = "idle"
    BY DEF Init
  <2>2. Registered(events) = {Listener}
    BY DEF Init, Registered
  <2>3. Max({Listener}) = Listener
    <3>1. {Listener} \in SUBSET Nat /\ Listener \in {Listener} /\ \A g \in {Listener} : g <= Listener
      BY DEF Listener
    <3> QED BY <3>1, MaxUnique
  <2> QED BY <2>1, <2>2, <2>3 DEF LoopOnlyInv
<1>2. /\ TypeOK /\ OwnerInv /\ [Next]_vars
      /\ KeptDefined => PlaceInv /\ CurInv
      /\ KeptDefined /\ KeptAnswersArrive => LoopOnlyInv
      => (KeptDefined /\ KeptAnswersArrive => LoopOnlyInv)'
  <2> SUFFICES ASSUME TypeOK, OwnerInv, [Next]_vars, KeptDefined => PlaceInv /\ CurInv,
                      KeptDefined /\ KeptAnswersArrive => LoopOnlyInv, KeptDefined', KeptAnswersArrive'
               PROVE  LoopOnlyInv'
    OBVIOUS
  <2>1. KeptDefined /\ KeptAnswersArrive
    BY TrafficNext DEF KeptDefined, KeptAnswersArrive
  <2> QED BY <2>1, LoopOnlyNext
<1> QED BY <1>1, <1>2, Owner, PlaceAlways, PTL DEF Spec

\* Where undefined requests do not ask to keep the connection, and as long as answers on
\* kept connections arrive, no thread reaches a freed fd_state or another's socket.
THEOREM DanglingCorrect == Spec => [](KeptDefined => NoDangling)
<1>1. /\ TypeOK /\ OwnerInv
      /\ KeptDefined => PlaceInv /\ CurInv
      /\ KeptDefined /\ KeptAnswersArrive => LoopOnlyInv
      => (KeptDefined => NoDangling)
  <2> SUFFICES ASSUME TypeOK, OwnerInv, PlaceInv, LoopOnlyInv
               PROVE  NoDangling
    BY DEF NoDangling
  <2>1. \A s \in Slots : wpc[s] # "idle" => s \in heap
    BY DEF OwnerInv, WorkInv
  <2>2. lpc \in {"call", "recv"} => cur \in heap
    BY DEF OwnerInv, ReadInv, LoopOnlyInv, PlaceInv, TableInv
  <2> QED BY <2>1, <2>2 DEF NoDangling, PlaceInv, TableInv, SocketInv
<1> QED BY <1>1, Owner, PlaceAlways, LoopOnlyAlways, PTL

\* Under the same conditions maxfd is the highest registered descriptor, whatever the
\* order in which connections come and go.
THEOREM MaxfdCorrect == Spec => [](KeptDefined => MaxfdHighest)
<1>1. (KeptDefined /\ KeptAnswersArrive => LoopOnlyInv) => (KeptDefined => MaxfdHighest)
  BY DEF LoopOnlyInv, MaxfdHighest
<1> QED BY <1>1, LoopOnlyAlways, PTL
=============================================================================
