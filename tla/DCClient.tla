------------------------------ MODULE DCClient ------------------------------
(***************************************************************************)
(* The DataCapsule client (class DCClient and ClientComm): synchronous Put *)
(* and Get of records on top of asynchronous messages to the DC servers.   *)
(*                                                                         *)
(* A FUSE thread enters the operation in put_status_ or get_status_, sends *)
(* the message and waits on the entry's condition variable.  One listener  *)
(* thread receives acks and responses, marks the entry done and notifies.  *)
(* The two maps have no lock: a thread that inserts or erases takes two    *)
(* steps, and a lookup by another thread in between may miss any entry.    *)
(*                                                                         *)
(* The servers and ZeroMQ are external: a server stores a record and acks  *)
(* it, or answers a request with success or failure; messages of different *)
(* connections overtake each other and are lost when a server goes away.   *)
(***************************************************************************)
EXTENDS Integers, FiniteSets

CONSTANTS
  Threads,          \* FUSE threads that call Put and Get
  Servers,          \* DC servers
  Hashes,           \* names of records; bounds how many are put
  NoPayload,        \* the names of META records, which have no payload
  WriteThreshold,   \* WRITE_THRESHOLD: acks that commit a Put
  Lossy             \* TRUE: messages may be lost

ASSUME ClientAssumption ==
  /\ IsFiniteSet(Servers)
  /\ NoPayload \subseteq Hashes
  /\ WriteThreshold \in Nat \ {0}
  /\ Lossy \in BOOLEAN

VARIABLES
  pc,               \* per thread: where it is in Put or Get
  cur,              \* per thread: the name it puts or gets, if it is in a call
  put_status,       \* put_status_: name -> absent, waiting or done
  get_status,       \* get_status_: name -> absent, waiting or done
  ack_map,          \* m_recv_ack_map: acks received per name
  lpc, lcur,        \* the listener: where it is, and the name it commits
  dcs,              \* name -> servers its record is on the way to
  acks,             \* name -> servers whose ack is on the way
  reqs,             \* name -> servers a get request is on the way to
  resps,            \* get responses on the way: <<name, success>>
  holders,          \* name -> servers that store the record
  issued,           \* names that Put was called with
  returned,         \* names whose Put has returned
  crashed           \* the process died of undefined behaviour

vars == <<pc, cur, put_status, get_status, ack_map, lpc, lcur, dcs, acks, reqs,
          resps, holders, issued, returned, crashed>>

net == <<dcs, acks, reqs, resps, holders>>
listener == <<lpc, lcur, ack_map>>

ThreadPCs == {"idle", "put_insert", "put_send", "put_check", "put_sleep",
              "put_erase", "get_insert", "get_send", "get_check", "get_sleep"}
ListenerPCs == {"poll", "set_put", "notify_put", "set_get", "notify_get"}
Status == {"absent", "waiting", "done"}

NoHash == "none"

TypeOK ==
  /\ pc \in [Threads -> ThreadPCs]
  /\ cur \in [Threads -> Hashes \cup {NoHash}]
  /\ \A t \in Threads : pc[t] # "idle" => cur[t] \in Hashes
  /\ put_status \in [Hashes -> Status]
  /\ get_status \in [Hashes -> Status]
  /\ ack_map \in [Hashes -> Nat]
  /\ lpc \in ListenerPCs
  /\ lcur \in Hashes \cup {NoHash}
  /\ lpc # "poll" => lcur \in Hashes
  /\ dcs \in [Hashes -> SUBSET Servers]
  /\ acks \in [Hashes -> SUBSET Servers]
  /\ reqs \in [Hashes -> SUBSET Servers]
  /\ resps \in SUBSET (Hashes \X BOOLEAN)
  /\ holders \in [Hashes -> SUBSET Servers]
  /\ issued \in SUBSET Hashes
  /\ returned \in SUBSET Hashes
  /\ crashed \in BOOLEAN

Init ==
  /\ pc = [t \in Threads |-> "idle"]
  /\ cur = [t \in Threads |-> NoHash]
  /\ put_status = [h \in Hashes |-> "absent"]
  /\ get_status = [h \in Hashes |-> "absent"]
  /\ ack_map = [h \in Hashes |-> 0]
  /\ lpc = "poll" /\ lcur = NoHash
  /\ dcs = [h \in Hashes |-> {}]
  /\ acks = [h \in Hashes |-> {}]
  /\ reqs = [h \in Hashes |-> {}]
  /\ resps = {}
  /\ holders = [h \in Hashes |-> {}]
  /\ issued = {} /\ returned = {} /\ crashed = FALSE

-----------------------------------------------------------------------------
\* Threads that are in the middle of changing a map.
MutatesPut(t) == pc[t] \in {"put_insert", "put_erase"}
MutatesGet(t) == pc[t] = "get_insert"

\* What a lookup by the listener may say: an entry that is there can be
\* missed while some thread changes the map.
FindPut(h) ==
  {put_status[h] # "absent"} \cup
  {FALSE : t \in {u \in Threads : MutatesPut(u)}}
FindGet(h) ==
  {get_status[h] # "absent"} \cup
  {FALSE : t \in {u \in Threads : MutatesGet(u)}}

Goto(t, label) == pc' = [pc EXCEPT ![t] = label]

Return(t) == Goto(t, "idle") /\ cur' = [cur EXCEPT ![t] = NoHash]

\* Put is called with the name of a new record: names are hashes of headers
\* with a time stamp.
PutCall(t, h) ==
  /\ pc[t] = "idle"
  /\ h \notin issued
  /\ Goto(t, "put_insert")
  /\ cur' = [cur EXCEPT ![t] = h]
  /\ issued' = issued \cup {h}
  /\ UNCHANGED <<put_status, get_status, listener, net, returned, crashed>>

PutInsert(t) ==
  /\ pc[t] = "put_insert"
  /\ put_status' = [put_status EXCEPT ![cur[t]] = "waiting"]
  /\ Goto(t, "put_send")
  /\ UNCHANGED <<cur, get_status, listener, net, issued, returned, crashed>>

\* mcast_dc sends the record to every server.
PutSend(t) ==
  /\ pc[t] = "put_send"
  /\ dcs' = [dcs EXCEPT ![cur[t]] = Servers]
  /\ Goto(t, "put_check")
  /\ UNCHANGED <<cur, put_status, get_status, listener, acks, reqs, resps,
                 holders, issued, returned, crashed>>

\* The wait: under the entry's mutex the predicate is tested and the thread
\* goes to sleep if it is false.
PutCheck(t) ==
  /\ pc[t] = "put_check"
  /\ Goto(t, IF put_status[cur[t]] = "done" THEN "put_erase" ELSE "put_sleep")
  /\ UNCHANGED <<cur, put_status, get_status, listener, net, issued, returned,
                 crashed>>

PutErase(t) ==
  /\ pc[t] = "put_erase"
  /\ put_status' = [put_status EXCEPT ![cur[t]] = "absent"]
  /\ returned' = returned \cup {cur[t]}
  /\ Return(t)
  /\ UNCHANGED <<get_status, listener, net, issued, crashed>>

\* Get is called with a name that a returned Put stored; the file system
\* reads no META record back.  A name asked for before is in the map.
GetCall(t, h) ==
  /\ pc[t] = "idle"
  /\ h \in returned \ NoPayload
  /\ Goto(t, IF get_status[h] = "absent" THEN "get_insert" ELSE "get_check")
  /\ cur' = [cur EXCEPT ![t] = h]
  /\ UNCHANGED <<put_status, get_status, listener, net, issued, returned,
                 crashed>>

\* Two threads may insert one name at once: the second finds it there and
\* sends nothing.
GetInsert(t) ==
  /\ pc[t] = "get_insert"
  /\ IF get_status[cur[t]] = "absent"
     THEN /\ get_status' = [get_status EXCEPT ![cur[t]] = "waiting"]
          /\ Goto(t, "get_send")
     ELSE UNCHANGED get_status /\ Goto(t, "get_check")
  /\ UNCHANGED <<cur, put_status, listener, net, issued, returned, crashed>>

\* send_get_req asks one server, chosen at random.
GetSend(t) ==
  /\ pc[t] = "get_send"
  /\ \E s \in Servers : reqs' = [reqs EXCEPT ![cur[t]] = @ \cup {s}]
  /\ Goto(t, "get_check")
  /\ UNCHANGED <<cur, put_status, get_status, listener, dcs, acks, resps,
                 holders, issued, returned, crashed>>

\* The entry stays in the map as a cache.
GetCheck(t) ==
  /\ pc[t] = "get_check"
  /\ IF get_status[cur[t]] = "done" THEN Return(t)
     ELSE Goto(t, "get_sleep") /\ UNCHANGED cur
  /\ UNCHANGED <<put_status, get_status, listener, net, issued, returned, crashed>>

\* Mutated: the wait has no predicate, so that any wake-up ends it.
SpuriousWakeNoPredicate(t) ==
  /\ pc[t] \in {"put_sleep", "get_sleep"}
  /\ IF pc[t] = "put_sleep" THEN Goto(t, "put_erase") /\ UNCHANGED cur
                            ELSE Return(t)
  /\ UNCHANGED <<put_status, get_status, listener, net, issued, returned, crashed>>

\* A condition variable may wake a thread for no reason.
SpuriousWake(t) ==
  /\ pc[t] \in {"put_sleep", "get_sleep"}
  /\ Goto(t, IF pc[t] = "put_sleep" THEN "put_check" ELSE "get_check")
  /\ UNCHANGED <<cur, put_status, get_status, listener, net, issued, returned,
                 crashed>>

-----------------------------------------------------------------------------
\* Mutated: every ack from the threshold on commits.
RecvAckAtLeast(h, s) ==
  /\ lpc = "poll"
  /\ s \in acks[h]
  /\ acks' = [acks EXCEPT ![h] = @ \ {s}]
  /\ ack_map' = [ack_map EXCEPT ![h] = @ + 1]
  /\ IF ack_map[h] + 1 >= WriteThreshold /\ TRUE \in FindPut(h)
     THEN lpc' = "set_put" /\ lcur' = h
     ELSE UNCHANGED <<lpc, lcur>>
  /\ UNCHANGED <<pc, cur, put_status, get_status, dcs, reqs, resps, holders,
                 issued, returned, crashed>>

\* Mutated: the name to commit is not kept.
RecvAckNameless(h, s) ==
  /\ lpc = "poll"
  /\ s \in acks[h]
  /\ acks' = [acks EXCEPT ![h] = @ \ {s}]
  /\ ack_map' = [ack_map EXCEPT ![h] = @ + 1]
  /\ lpc' = IF ack_map[h] + 1 = WriteThreshold THEN "set_put" ELSE "poll"
  /\ UNCHANGED <<pc, cur, put_status, get_status, lcur, dcs, reqs, resps,
                 holders, issued, returned, crashed>>

\* handle_ack counts the ack; the one that reaches the threshold commits, if
\* CommitAck finds the entry.
RecvAck(h, s) ==
  /\ lpc = "poll"
  /\ s \in acks[h]
  /\ acks' = [acks EXCEPT ![h] = @ \ {s}]
  /\ ack_map' = [ack_map EXCEPT ![h] = @ + 1]
  /\ \/ /\ ack_map[h] + 1 = WriteThreshold
        /\ TRUE \in FindPut(h)
        /\ lpc' = "set_put" /\ lcur' = h
     \/ /\ ack_map[h] + 1 = WriteThreshold => FALSE \in FindPut(h)
        /\ UNCHANGED <<lpc, lcur>>
  /\ UNCHANGED <<pc, cur, put_status, get_status, dcs, reqs, resps, holders,
                 issued, returned, crashed>>

\* Mutated: nobody is notified.
SetPutDoneSilent ==
  /\ lpc = "set_put"
  /\ put_status' = [put_status EXCEPT ![lcur] = "done"]
  /\ lpc' = "poll" /\ lcur' = NoHash
  /\ UNCHANGED <<pc, cur, get_status, ack_map, net, issued, returned, crashed>>

\* CommitAck under the entry's mutex.
SetPutDone ==
  /\ lpc = "set_put"
  /\ put_status' = [put_status EXCEPT ![lcur] = "done"]
  /\ lpc' = "notify_put"
  /\ UNCHANGED <<pc, cur, get_status, ack_map, lcur, net, issued, returned,
                 crashed>>

\* notify_all without the mutex.  When Put has erased the entry already this
\* is a use of freed memory: it does nothing, or see Crash.
NotifyPut ==
  /\ lpc = "notify_put"
  /\ pc' = [t \in Threads |->
              IF pc[t] = "put_sleep" /\ cur[t] = lcur THEN "put_check" ELSE pc[t]]
  /\ lpc' = "poll" /\ lcur' = NoHash
  /\ UNCHANGED <<cur, put_status, get_status, ack_map, net, issued, returned,
                 crashed>>

\* handle_get_resp drops a failure; CommitGetResp takes a record without
\* payload for the answer to a request for its header only.
RecvResp(h, success) ==
  /\ lpc = "poll"
  /\ <<h, success>> \in resps
  /\ resps' = resps \ {<<h, success>>}
  /\ \/ /\ success /\ h \notin NoPayload
        /\ TRUE \in FindGet(h)
        /\ lpc' = "set_get" /\ lcur' = h
     \/ /\ success /\ h \notin NoPayload => FALSE \in FindGet(h)
        /\ UNCHANGED <<lpc, lcur>>
  /\ UNCHANGED <<pc, cur, put_status, get_status, ack_map, dcs, acks, reqs,
                 holders, issued, returned, crashed>>

\* Mutated: nobody is notified.
SetGetDoneSilent ==
  /\ lpc = "set_get"
  /\ get_status' = [get_status EXCEPT ![lcur] = "done"]
  /\ lpc' = "poll" /\ lcur' = NoHash
  /\ UNCHANGED <<pc, cur, put_status, ack_map, net, issued, returned, crashed>>

SetGetDone ==
  /\ lpc = "set_get"
  /\ get_status' = [get_status EXCEPT ![lcur] = "done"]
  /\ lpc' = "notify_get"
  /\ UNCHANGED <<pc, cur, put_status, ack_map, lcur, net, issued, returned,
                 crashed>>

NotifyGet ==
  /\ lpc = "notify_get"
  /\ pc' = [t \in Threads |->
              IF pc[t] = "get_sleep" /\ cur[t] = lcur THEN "get_check" ELSE pc[t]]
  /\ lpc' = "poll" /\ lcur' = NoHash
  /\ UNCHANGED <<cur, put_status, get_status, ack_map, net, issued, returned,
                 crashed>>

-----------------------------------------------------------------------------
\* Unsynchronised use of one object by two threads: a map that one of them
\* changes, or the sockets.
Race ==
  \E t, u \in Threads :
    /\ t # u
    /\ \/ MutatesPut(t) /\ pc[u] \in {"put_insert", "put_check", "put_erase"}
       \/ MutatesGet(t) /\ pc[u] \in {"get_insert", "get_check"}
       \/ pc[t] = pc[u] /\ pc[t] \in {"put_send", "get_send"}

\* The listener is about to notify through an iterator that Put invalidated.
NotifiesErased == lpc = "notify_put" /\ put_status[lcur] = "absent"

\* The other outcome of undefined behaviour: the process dies.
Crash ==
  /\ Race \/ NotifiesErased
  /\ crashed' = TRUE
  /\ UNCHANGED <<pc, cur, put_status, get_status, listener, net, issued,
                 returned>>

-----------------------------------------------------------------------------
\* A server stores a record and acknowledges it.
ServerStore(h, s) ==
  /\ s \in dcs[h]
  /\ dcs' = [dcs EXCEPT ![h] = @ \ {s}]
  /\ holders' = [holders EXCEPT ![h] = @ \cup {s}]
  /\ acks' = [acks EXCEPT ![h] = @ \cup {s}]
  /\ UNCHANGED <<pc, cur, put_status, get_status, listener, reqs, resps, issued,
                 returned, crashed>>

\* A server answers a request from what it stores now.
ServerServe(h, s) ==
  /\ s \in reqs[h]
  /\ reqs' = [reqs EXCEPT ![h] = @ \ {s}]
  /\ resps' = resps \cup {<<h, s \in holders[h]>>}
  /\ UNCHANGED <<pc, cur, put_status, get_status, listener, dcs, acks, holders,
                 issued, returned, crashed>>

Lose ==
  /\ Lossy
  /\ \/ \E h \in Hashes, s \in Servers :
          \/ /\ s \in dcs[h] /\ dcs' = [dcs EXCEPT ![h] = @ \ {s}]
             /\ UNCHANGED <<acks, reqs, resps>>
          \/ /\ s \in acks[h] /\ acks' = [acks EXCEPT ![h] = @ \ {s}]
             /\ UNCHANGED <<dcs, reqs, resps>>
          \/ /\ s \in reqs[h] /\ reqs' = [reqs EXCEPT ![h] = @ \ {s}]
             /\ UNCHANGED <<dcs, acks, resps>>
     \/ \E r \in resps : resps' = resps \ {r} /\ UNCHANGED <<dcs, acks, reqs>>
  /\ UNCHANGED <<pc, cur, put_status, get_status, listener, holders, issued,
                 returned, crashed>>

-----------------------------------------------------------------------------
\* What a thread does next once it is in Put or Get.
ThreadStep(t) ==
  /\ ~crashed
  /\ \/ PutInsert(t) \/ PutSend(t) \/ PutCheck(t) \/ PutErase(t)
     \/ GetInsert(t) \/ GetSend(t) \/ GetCheck(t)

ListenerStep ==
  /\ ~crashed
  /\ \/ \E h \in Hashes, s \in Servers : RecvAck(h, s)
     \/ \E h \in Hashes, success \in BOOLEAN : RecvResp(h, success)
     \/ SetPutDone \/ NotifyPut \/ SetGetDone \/ NotifyGet

ServerStep(s) ==
  /\ ~crashed
  /\ \E h \in Hashes : ServerStore(h, s) \/ ServerServe(h, s)

Next ==
  \/ /\ ~crashed
     /\ \/ \E t \in Threads, h \in Hashes : PutCall(t, h) \/ GetCall(t, h)
        \/ \E t \in Threads : SpuriousWake(t)
        \/ Crash \/ Lose
  \/ \E t \in Threads : ThreadStep(t)
  \/ ListenerStep
  \/ \E s \in Servers : ServerStep(s)

Spec == Init /\ [][Next]_vars

\* The scheduler runs every thread, the listener polls again and again, and a
\* server that has a message handles it.  Nobody has to call Put or Get.
FairSpec ==
  /\ Spec
  /\ \A t \in Threads : WF_vars(ThreadStep(t))
  /\ WF_vars(ListenerStep)
  /\ \A s \in Servers : WF_vars(ServerStep(s))

-----------------------------------------------------------------------------
\* The operation a thread is in, as its caller sees it.
PutPCs == {"put_insert", "put_send", "put_check", "put_sleep", "put_erase"}
GetPCs == {"get_insert", "get_send", "get_check", "get_sleep"}

CallOf(t) ==
  IF pc[t] \in PutPCs THEN <<"write", cur[t]>>
  ELSE IF pc[t] \in GetPCs THEN <<"read", cur[t]>>
  ELSE <<"idle">>

Service == INSTANCE RecordService WITH
  Callers <- Threads, Sites <- Servers, Names <- Hashes,
  Quorums <- {Q \in SUBSET Servers : Cardinality(Q) >= WriteThreshold},
  call <- [t \in Threads |-> CallOf(t)],
  holders <- holders, begun <- issued, complete <- returned

\* Put and Get over messages, the listener and the unlocked maps implement the
\* synchronous record service: Put returns only once enough servers store the
\* record, whatever is lost or raced on.
ServiceRefined == Service!Spec

\* A record whose Put has returned is stored by as many servers as the
\* threshold asks for (handle_ack counting acks, CommitAck, Put's wait).
PutDurable == \A h \in returned : Cardinality(holders[h]) >= WriteThreshold

\* A thread never sleeps on an operation that is done unless the notification
\* is still to come: CommitAck and CommitGetResp set done under the mutex and
\* notify without it.
NoLostWakeup ==
  \A t \in Threads :
    /\ pc[t] = "put_sleep" /\ put_status[cur[t]] = "done"
         => lpc = "notify_put" /\ lcur = cur[t]
    /\ pc[t] = "get_sleep" /\ get_status[cur[t]] = "done"
         => lpc = "notify_get" /\ lcur = cur[t]

\* An ack is counted once per server that stores the record, and a server that
\* still is to receive a record does not store it.
AcksCounted ==
  \A h \in Hashes :
    /\ Cardinality(acks[h]) + ack_map[h] <= Cardinality(holders[h])
    /\ dcs[h] \cap holders[h] = {}

\* Nothing is on the way for a name before mcast_dc has sent it.
Unsent(h) == dcs[h] = {} /\ acks[h] = {} /\ holders[h] = {}

PutsSound ==
  /\ returned \subseteq issued
  /\ \A h \in Hashes \ issued : Unsent(h)
  /\ \A t \in Threads : pc[t] \in PutPCs => cur[t] \in issued
  /\ \A t \in Threads : pc[t] \in GetPCs => cur[t] \in returned
  /\ \A t \in Threads : pc[t] \in {"put_insert", "put_send"} => Unsent(cur[t])
  /\ \A t, u \in Threads :
       pc[t] \in PutPCs /\ pc[u] \in PutPCs /\ cur[t] = cur[u] => t = u

\* An entry is done, and a Put returns, only after the threshold was counted.
CommitsSound ==
  /\ \A h \in Hashes : put_status[h] = "done" => ack_map[h] >= WriteThreshold
  /\ \A h \in returned : ack_map[h] >= WriteThreshold
  /\ \A t \in Threads : pc[t] = "put_erase" => put_status[cur[t]] = "done"
  /\ lpc = "set_put" =>
       put_status[lcur] = "waiting" /\ ack_map[lcur] >= WriteThreshold

\* Every Put is where its messages, its entry and the ack count say it is: the
\* bookkeeping of handle_ack, CommitAck and Put that makes PutDurable hold.
ProtocolSound == AcksCounted /\ PutsSound /\ CommitsSound

\* The ack that reached the threshold was counted while another thread changed
\* put_status_, and CommitAck did not find the entry: no later ack commits it.
Missed(h) ==
  /\ put_status[h] = "waiting" /\ ack_map[h] >= WriteThreshold
  /\ ~ (lpc = "set_put" /\ lcur = h)

\* So much was lost that the acks on the way cannot reach the threshold.
Starved(h) ==
  ack_map[h] + Cardinality(acks[h]) + Cardinality(dcs[h]) < WriteThreshold

\* A Put that was sent returns, whatever other threads do, unless the process
\* dies, too many of its messages were lost, or the listener missed its entry.
PutReturns ==
  \A t \in Threads :
    (pc[t] \in PutPCs) ~>
      \/ pc[t] \notin PutPCs \/ crashed
      \/ pc[t] \notin {"put_insert", "put_send"} /\ (Missed(cur[t]) \/ Starved(cur[t]))

\* The only request for a name is used up: it or its answer was lost, the server
\* asked did not store the record, or the listener missed the entry while
\* another thread changed get_status_.  Nobody asks again.
Unanswered(h) ==
  /\ get_status[h] = "waiting"
  /\ reqs[h] = {} /\ <<h, TRUE>> \notin resps
  /\ ~ (lpc = "set_get" /\ lcur = h)
  /\ \A t \in Threads : ~ (pc[t] = "get_send" /\ cur[t] = h)

\* A Get returns, whichever thread sent the request for its name, unless the
\* process dies or the one request is used up without an answer.
GetReturns ==
  \A t \in Threads :
    (pc[t] \in GetPCs) ~> (pc[t] \notin GetPCs \/ crashed \/ Unanswered(cur[t]))

=============================================================================
