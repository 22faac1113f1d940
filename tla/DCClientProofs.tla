--------------------------- MODULE DCClientProofs ---------------------------
(***************************************************************************)
(* Proofs about DCClient, for any threads, servers, names and threshold,   *)
(* with or without message loss: what Put promises, that no wake-up is     *)
(* lost, and that the client implements RecordService.                     *)
(***************************************************************************)
EXTENDS DCClient, FiniteSetTheorems, TLAPS

\* The inductive invariant.
IInv == TypeOK /\ ProtocolSound /\ NoLostWakeup

\* The initial state satisfies it.
LEMMA InitIInv == Init => IInv
  <1> SUFFICES ASSUME Init PROVE IInv
    OBVIOUS
  <1>1. TypeOK
    BY Zenon DEF Init, TypeOK, ThreadPCs, ListenerPCs, Status
  <1>2. AcksCounted
    BY FS_EmptySet DEF Init, AcksCounted
  <1>3. PutsSound /\ CommitsSound /\ NoLostWakeup
    BY Zenon DEF Init, PutsSound, CommitsSound, NoLostWakeup, Unsent, PutPCs, GetPCs
  <1> QED
    BY <1>1, <1>2, <1>3, Zenon DEF IInv, ProtocolSound

\* PutCall keeps the invariant.
LEMMA PutCallKeeps == ASSUME IInv, NEW t \in Threads, NEW h \in Hashes, PutCall(t, h) PROVE IInv'
  <1> USE ClientAssumption DEF IInv, ProtocolSound, net, listener
  <1>1. TypeOK'
    BY Zenon DEF PutCall, Goto, TypeOK, ThreadPCs, ListenerPCs, Status
  <1>2. AcksCounted'
    BY Zenon DEF PutCall, Goto, TypeOK, AcksCounted, PutsSound, Unsent
  <1>3. PutsSound'
    BY DEF PutCall, Goto, TypeOK, PutsSound, Unsent, PutPCs, GetPCs
  <1>4. CommitsSound'
    BY Zenon DEF PutCall, Goto, TypeOK, CommitsSound, PutsSound, PutPCs, Status
  <1>5. NoLostWakeup'
    BY Zenon DEF PutCall, Goto, TypeOK, NoLostWakeup, PutsSound, PutPCs, GetPCs
  <1> QED
    BY <1>1, <1>2, <1>3, <1>4, <1>5, Zenon

\* PutInsert keeps the invariant.
LEMMA PutInsertKeeps == ASSUME IInv, NEW t \in Threads, PutInsert(t) PROVE IInv'
  <1> USE ClientAssumption DEF IInv, ProtocolSound, net, listener
  <1>1. TypeOK'
    BY Zenon DEF PutInsert, Goto, TypeOK, ThreadPCs, ListenerPCs, Status
  <1>2. AcksCounted'
    BY Zenon DEF PutInsert, Goto, TypeOK, AcksCounted, PutsSound, Unsent
  <1>3. PutsSound'
    BY DEF PutInsert, Goto, TypeOK, PutsSound, Unsent, PutPCs, GetPCs
  <1>4. CommitsSound'
    BY Zenon DEF PutInsert, Goto, TypeOK, CommitsSound, PutsSound, PutPCs, Status
  <1>5. NoLostWakeup'
    BY Zenon DEF PutInsert, Goto, TypeOK, NoLostWakeup, PutsSound, PutPCs, GetPCs
  <1> QED
    BY <1>1, <1>2, <1>3, <1>4, <1>5, Zenon

\* PutSend keeps the invariant.
LEMMA PutSendKeeps == ASSUME IInv, NEW t \in Threads, PutSend(t) PROVE IInv'
  <1> USE ClientAssumption DEF IInv, ProtocolSound, net, listener
  <1>1. TypeOK'
    BY Zenon DEF PutSend, Goto, TypeOK, ThreadPCs, ListenerPCs, Status
  <1>2. AcksCounted'
    BY Zenon DEF PutSend, Goto, TypeOK, AcksCounted, PutsSound, Unsent
  <1>3. PutsSound'
    BY DEF PutSend, Goto, TypeOK, PutsSound, Unsent, PutPCs, GetPCs
  <1>4. CommitsSound'
    BY Zenon DEF PutSend, Goto, TypeOK, CommitsSound, PutsSound, PutPCs, Status
  <1>5. NoLostWakeup'
    BY Zenon DEF PutSend, Goto, TypeOK, NoLostWakeup, PutsSound, PutPCs, GetPCs
  <1> QED
    BY <1>1, <1>2, <1>3, <1>4, <1>5, Zenon

\* PutCheck keeps the invariant.
LEMMA PutCheckKeeps == ASSUME IInv, NEW t \in Threads, PutCheck(t) PROVE IInv'
  <1> USE ClientAssumption DEF IInv, ProtocolSound, net, listener
  <1>1. TypeOK'
    BY Zenon DEF PutCheck, Goto, TypeOK, ThreadPCs, ListenerPCs, Status
  <1>2. AcksCounted'
    BY Zenon DEF PutCheck, Goto, TypeOK, AcksCounted, PutsSound, Unsent
  <1>3. PutsSound'
    BY DEF PutCheck, Goto, TypeOK, PutsSound, Unsent, PutPCs, GetPCs
  <1>4. CommitsSound'
    BY Zenon DEF PutCheck, Goto, TypeOK, CommitsSound, PutsSound, PutPCs, Status
  <1>5. NoLostWakeup'
    BY Zenon DEF PutCheck, Goto, TypeOK, NoLostWakeup, PutsSound, PutPCs, GetPCs
  <1> QED
    BY <1>1, <1>2, <1>3, <1>4, <1>5, Zenon

\* PutErase keeps the invariant.
LEMMA PutEraseKeeps == ASSUME IInv, NEW t \in Threads, PutErase(t) PROVE IInv'
  <1> USE ClientAssumption DEF IInv, ProtocolSound, net, listener
  <1>1. TypeOK'
    BY Zenon DEF PutErase, Goto, Return, TypeOK, ThreadPCs, ListenerPCs, Status
  <1>2. AcksCounted'
    BY Zenon DEF PutErase, Goto, Return, TypeOK, AcksCounted, PutsSound, Unsent
  <1>3. PutsSound'
    BY DEF PutErase, Goto, Return, TypeOK, PutsSound, Unsent, PutPCs, GetPCs
  <1>4. CommitsSound'
    BY Zenon DEF PutErase, Goto, Return, TypeOK, CommitsSound, PutsSound, PutPCs, Status
  <1>5. NoLostWakeup'
    BY Zenon DEF PutErase, Goto, Return, TypeOK, NoLostWakeup, PutsSound, PutPCs, GetPCs
  <1> QED
    BY <1>1, <1>2, <1>3, <1>4, <1>5, Zenon

\* GetCall keeps the invariant.
LEMMA GetCallKeeps == ASSUME IInv, NEW t \in Threads, NEW h \in Hashes, GetCall(t, h) PROVE IInv'
  <1> USE ClientAssumption DEF IInv, ProtocolSound, net, listener
  <1>1. TypeOK'
    BY Zenon DEF GetCall, Goto, TypeOK, ThreadPCs, ListenerPCs, Status
  <1>2. AcksCounted'
    BY Zenon DEF GetCall, Goto, TypeOK, AcksCounted, PutsSound, Unsent
  <1>3. PutsSound'
    BY DEF GetCall, Goto, TypeOK, PutsSound, Unsent, PutPCs, GetPCs
  <1>4. CommitsSound'
    BY Zenon DEF GetCall, Goto, TypeOK, CommitsSound, PutsSound, PutPCs, Status
  <1>5. NoLostWakeup'
    BY Zenon DEF GetCall, Goto, TypeOK, NoLostWakeup, PutsSound, PutPCs, GetPCs
  <1> QED
    BY <1>1, <1>2, <1>3, <1>4, <1>5, Zenon

\* GetInsert keeps the invariant.
LEMMA GetInsertKeeps == ASSUME IInv, NEW t \in Threads, GetInsert(t) PROVE IInv'
  <1> USE ClientAssumption DEF IInv, ProtocolSound, net, listener
  <1>1. TypeOK'
    BY DEF GetInsert, Goto, TypeOK, ThreadPCs, ListenerPCs, Status
  <1>2. AcksCounted'
    BY Zenon DEF GetInsert, Goto, TypeOK, AcksCounted, PutsSound, Unsent
  <1>3. PutsSound'
    BY DEF GetInsert, Goto, TypeOK, PutsSound, Unsent, PutPCs, GetPCs
  <1>4. CommitsSound'
    BY DEF GetInsert, Goto, TypeOK, CommitsSound, PutsSound, PutPCs, Status
  <1>5. NoLostWakeup'
    BY DEF GetInsert, Goto, TypeOK, NoLostWakeup, PutsSound, PutPCs, GetPCs
  <1> QED
    BY <1>1, <1>2, <1>3, <1>4, <1>5, Zenon

\* GetSend keeps the invariant.
LEMMA GetSendKeeps == ASSUME IInv, NEW t \in Threads, GetSend(t) PROVE IInv'
  <1> USE ClientAssumption DEF IInv, ProtocolSound, net, listener
  <1>1. TypeOK'
    BY DEF GetSend, Goto, TypeOK, ThreadPCs, ListenerPCs, Status
  <1>2. AcksCounted'
    BY Zenon DEF GetSend, Goto, TypeOK, AcksCounted, PutsSound, Unsent
  <1>3. PutsSound'
    BY DEF GetSend, Goto, TypeOK, PutsSound, Unsent, PutPCs, GetPCs
  <1>4. CommitsSound'
    BY Zenon DEF GetSend, Goto, TypeOK, CommitsSound, PutsSound, PutPCs, Status
  <1>5. NoLostWakeup'
    BY Zenon DEF GetSend, Goto, TypeOK, NoLostWakeup, PutsSound, PutPCs, GetPCs
  <1> QED
    BY <1>1, <1>2, <1>3, <1>4, <1>5, Zenon

\* GetCheck keeps the invariant.
LEMMA GetCheckKeeps == ASSUME IInv, NEW t \in Threads, GetCheck(t) PROVE IInv'
  <1> USE ClientAssumption DEF IInv, ProtocolSound, net, listener
  <1>1. TypeOK'
    BY DEF GetCheck, Goto, Return, TypeOK, ThreadPCs, ListenerPCs, Status
  <1>2. AcksCounted'
    BY Zenon DEF GetCheck, Goto, Return, TypeOK, AcksCounted, PutsSound, Unsent
  <1>3. PutsSound'
    BY DEF GetCheck, Goto, Return, TypeOK, PutsSound, Unsent, PutPCs, GetPCs
  <1>4. CommitsSound'
    BY DEF GetCheck, Goto, Return, TypeOK, CommitsSound, PutsSound, PutPCs, Status
  <1>5. NoLostWakeup'
    BY DEF GetCheck, Goto, Return, TypeOK, NoLostWakeup, PutsSound, PutPCs, GetPCs
  <1> QED
    BY <1>1, <1>2, <1>3, <1>4, <1>5, Zenon

\* SpuriousWake keeps the invariant.
LEMMA SpuriousWakeKeeps == ASSUME IInv, NEW t \in Threads, SpuriousWake(t) PROVE IInv'
  <1> USE ClientAssumption DEF IInv, ProtocolSound, net, listener
  <1>1. TypeOK'
    BY Zenon DEF SpuriousWake, Goto, TypeOK, ThreadPCs, ListenerPCs, Status
  <1>2. AcksCounted'
    BY Zenon DEF SpuriousWake, Goto, TypeOK, AcksCounted, PutsSound, Unsent
  <1>3. PutsSound'
    BY DEF SpuriousWake, Goto, TypeOK, PutsSound, Unsent, PutPCs, GetPCs
  <1>4. CommitsSound'
    BY Zenon DEF SpuriousWake, Goto, TypeOK, CommitsSound, PutsSound, PutPCs, Status
  <1>5. NoLostWakeup'
    BY Zenon DEF SpuriousWake, Goto, TypeOK, NoLostWakeup, PutsSound, PutPCs, GetPCs
  <1> QED
    BY <1>1, <1>2, <1>3, <1>4, <1>5, Zenon

\* RecvAck keeps the invariant.
LEMMA RecvAckKeeps == ASSUME IInv, NEW h \in Hashes, NEW s \in Servers, RecvAck(h, s) PROVE IInv'
  <1> USE ClientAssumption DEF IInv, ProtocolSound, net, listener
  <1>0. \A k \in Hashes :
          /\ IsFiniteSet(acks[k]) /\ IsFiniteSet(holders[k])
          /\ Cardinality(acks[k]) \in Nat /\ Cardinality(holders[k]) \in Nat
    BY FS_Subset, FS_CardinalityType, Zenon DEF TypeOK
  <1>a. /\ acks' = [acks EXCEPT ![h] = @ \ {s}]
        /\ ack_map' = [ack_map EXCEPT ![h] = @ + 1]
        /\ s \in acks[h]
        /\ UNCHANGED <<pc, cur, put_status, get_status, dcs, reqs, resps,
                       holders, issued, returned, crashed>>
    BY Zenon DEF RecvAck
  <1>b. \/ /\ lpc' = "set_put" /\ lcur' = h /\ ack_map[h] + 1 = WriteThreshold
           /\ put_status[h] # "absent"
        \/ lpc' = "poll" /\ lcur' = lcur
    BY Zenon DEF RecvAck, FindPut
  <1>1. TypeOK'
    <2>1. ack_map' \in [Hashes -> Nat] /\ acks' \in [Hashes -> SUBSET Servers]
      BY <1>a DEF TypeOK
    <2>2. lpc' \in ListenerPCs /\ lcur' \in Hashes \cup {NoHash}
          /\ (lpc' # "poll" => lcur' \in Hashes)
      BY <1>b, Zenon DEF TypeOK, ListenerPCs
    <2> QED
      BY <1>a, <2>1, <2>2, Zenon DEF TypeOK
  <1>2. AcksCounted'
    <2>1. Cardinality(acks[h] \ {s}) = Cardinality(acks[h]) - 1
      BY <1>0, <1>a, FS_RemoveElement, Zenon
    <2>2. ASSUME NEW k \in Hashes
          PROVE  /\ Cardinality(acks'[k]) + ack_map'[k] <= Cardinality(holders'[k])
                 /\ dcs'[k] \cap holders'[k] = {}
      <3>1. CASE k = h
        BY <1>0, <1>a, <2>1, <3>1 DEF AcksCounted, TypeOK
      <3>2. CASE k # h
        BY <1>a, <3>2, Zenon DEF AcksCounted, TypeOK
      <3> QED
        BY <3>1, <3>2, Zenon
    <2> QED
      BY <2>2, Zenon DEF AcksCounted
  <1>3. PutsSound'
    BY Zenon DEF RecvAck, FindPut, TypeOK, PutsSound, Unsent, PutPCs, GetPCs
  <1>4. CommitsSound'
    <2>1. \A k \in Hashes : ack_map[k] \in Nat /\ ack_map'[k] >= ack_map[k]
      BY <1>a DEF TypeOK
    <2>2. ack_map'[h] = ack_map[h] + 1
      BY <1>a, Zenon DEF TypeOK
    <2>3. \A k \in Hashes : put_status'[k] = "done" => ack_map'[k] >= WriteThreshold
      BY <1>a, <2>1, <1>1 DEF CommitsSound, TypeOK
    <2>4. \A k \in returned' : ack_map'[k] >= WriteThreshold
      BY <1>a, <2>1, <1>1 DEF CommitsSound, TypeOK
    <2>5. lpc' = "set_put" =>
            put_status'[lcur'] = "waiting" /\ ack_map'[lcur'] >= WriteThreshold
      <3> SUFFICES ASSUME lpc' = "set_put"
                   PROVE  put_status'[lcur'] = "waiting"
                          /\ ack_map'[lcur'] >= WriteThreshold
        OBVIOUS
      <3>1. /\ lcur' = h /\ ack_map[h] + 1 = WriteThreshold
            /\ put_status[h] # "absent"
        BY <1>b, Zenon
      <3>2. put_status[h] # "done"
        BY <2>1, <3>1 DEF CommitsSound
      <3>3. put_status[h] = "waiting"
        BY <3>1, <3>2, Zenon DEF TypeOK, Status
      <3> QED
        BY <1>a, <2>2, <3>1, <3>3
    <2> QED
      BY <1>a, <2>3, <2>4, <2>5, Zenon DEF CommitsSound
  <1>5. NoLostWakeup'
    BY Zenon DEF RecvAck, FindPut, TypeOK, NoLostWakeup, PutsSound, PutPCs, GetPCs
  <1> QED
    BY <1>1, <1>2, <1>3, <1>4, <1>5, Zenon

\* SetPutDone keeps the invariant.
LEMMA SetPutDoneKeeps == ASSUME IInv, SetPutDone PROVE IInv'
  <1> USE ClientAssumption DEF IInv, ProtocolSound, net, listener
  <1>1. TypeOK'
    BY Zenon DEF SetPutDone, TypeOK, ThreadPCs, ListenerPCs, Status
  <1>2. AcksCounted'
    BY Zenon DEF SetPutDone, TypeOK, AcksCounted, PutsSound, Unsent
  <1>3. PutsSound'
    BY Zenon DEF SetPutDone, TypeOK, PutsSound, Unsent, PutPCs, GetPCs
  <1>4. CommitsSound'
    BY Zenon DEF SetPutDone, TypeOK, CommitsSound, PutsSound, PutPCs, Status
  <1>5. NoLostWakeup'
    BY Zenon DEF SetPutDone, TypeOK, NoLostWakeup, PutsSound, PutPCs, GetPCs
  <1> QED
    BY <1>1, <1>2, <1>3, <1>4, <1>5, Zenon

\* NotifyPut keeps the invariant.
LEMMA NotifyPutKeeps == ASSUME IInv, NotifyPut PROVE IInv'
  <1> USE ClientAssumption DEF IInv, ProtocolSound, net, listener
  <1>1. TypeOK'
    BY Zenon DEF NotifyPut, TypeOK, ThreadPCs, ListenerPCs, Status
  <1>2. AcksCounted'
    BY Zenon DEF NotifyPut, TypeOK, AcksCounted, PutsSound, Unsent
  <1>3. PutsSound'
    BY Zenon DEF NotifyPut, TypeOK, PutsSound, Unsent, PutPCs, GetPCs
  <1>4. CommitsSound'
    BY Zenon DEF NotifyPut, TypeOK, CommitsSound, PutsSound, PutPCs, Status
  <1>5. NoLostWakeup'
    BY Zenon DEF NotifyPut, TypeOK, NoLostWakeup, PutsSound, PutPCs, GetPCs
  <1> QED
    BY <1>1, <1>2, <1>3, <1>4, <1>5, Zenon

\* RecvResp keeps the invariant.
LEMMA RecvRespKeeps == ASSUME IInv, NEW h \in Hashes, NEW success \in BOOLEAN, RecvResp(h, success) PROVE IInv'
  <1> USE ClientAssumption DEF IInv, ProtocolSound, net, listener
  <1>1. TypeOK'
    BY Zenon DEF RecvResp, TypeOK, ThreadPCs, ListenerPCs, Status
  <1>2. AcksCounted'
    BY Zenon DEF RecvResp, TypeOK, AcksCounted, PutsSound, Unsent
  <1>3. PutsSound'
    BY Zenon DEF RecvResp, TypeOK, PutsSound, Unsent, PutPCs, GetPCs
  <1>4. CommitsSound'
    BY Zenon DEF RecvResp, TypeOK, CommitsSound, PutsSound, PutPCs, Status
  <1>5. NoLostWakeup'
    BY Zenon DEF RecvResp, TypeOK, NoLostWakeup, PutsSound, PutPCs, GetPCs
  <1> QED
    BY <1>1, <1>2, <1>3, <1>4, <1>5, Zenon

\* SetGetDone keeps the invariant.
LEMMA SetGetDoneKeeps == ASSUME IInv, SetGetDone PROVE IInv'
  <1> USE ClientAssumption DEF IInv, ProtocolSound, net, listener
  <1>1. TypeOK'
    BY Zenon DEF SetGetDone, TypeOK, ThreadPCs, ListenerPCs, Status
  <1>2. AcksCounted'
    BY Zenon DEF SetGetDone, TypeOK, AcksCounted, PutsSound, Unsent
  <1>3. PutsSound'
    BY Zenon DEF SetGetDone, TypeOK, PutsSound, Unsent, PutPCs, GetPCs
  <1>4. CommitsSound'
    BY Zenon DEF SetGetDone, TypeOK, CommitsSound, PutsSound, PutPCs, Status
  <1>5. NoLostWakeup'
    BY Zenon DEF SetGetDone, TypeOK, NoLostWakeup, PutsSound, PutPCs, GetPCs
  <1> QED
    BY <1>1, <1>2, <1>3, <1>4, <1>5, Zenon

\* NotifyGet keeps the invariant.
LEMMA NotifyGetKeeps == ASSUME IInv, NotifyGet PROVE IInv'
  <1> USE ClientAssumption DEF IInv, ProtocolSound, net, listener
  <1>1. TypeOK'
    BY Zenon DEF NotifyGet, TypeOK, ThreadPCs, ListenerPCs, Status
  <1>2. AcksCounted'
    BY Zenon DEF NotifyGet, TypeOK, AcksCounted, PutsSound, Unsent
  <1>3. PutsSound'
    BY Zenon DEF NotifyGet, TypeOK, PutsSound, Unsent, PutPCs, GetPCs
  <1>4. CommitsSound'
    BY Zenon DEF NotifyGet, TypeOK, CommitsSound, PutsSound, PutPCs, Status
  <1>5. NoLostWakeup'
    BY Zenon DEF NotifyGet, TypeOK, NoLostWakeup, PutsSound, PutPCs, GetPCs
  <1> QED
    BY <1>1, <1>2, <1>3, <1>4, <1>5, Zenon

\* Crash keeps the invariant.
LEMMA CrashKeeps == ASSUME IInv, Crash PROVE IInv'
  <1> USE ClientAssumption DEF IInv, ProtocolSound, net, listener
  <1>1. TypeOK'
    BY Zenon DEF Crash, TypeOK, ThreadPCs, ListenerPCs, Status
  <1>2. AcksCounted'
    BY Zenon DEF Crash, TypeOK, AcksCounted, PutsSound, Unsent
  <1>3. PutsSound'
    BY Zenon DEF Crash, TypeOK, PutsSound, Unsent, PutPCs, GetPCs
  <1>4. CommitsSound'
    BY Zenon DEF Crash, TypeOK, CommitsSound, PutsSound, PutPCs, Status
  <1>5. NoLostWakeup'
    BY Zenon DEF Crash, TypeOK, NoLostWakeup, PutsSound, PutPCs, GetPCs
  <1> QED
    BY <1>1, <1>2, <1>3, <1>4, <1>5, Zenon

\* ServerStore keeps the invariant.
LEMMA ServerStoreKeeps == ASSUME IInv, NEW h \in Hashes, NEW s \in Servers, ServerStore(h, s) PROVE IInv'
  <1> USE ClientAssumption DEF IInv, ProtocolSound, net, listener
  <1>0. \A k \in Hashes :
          /\ IsFiniteSet(acks[k]) /\ IsFiniteSet(holders[k])
          /\ Cardinality(acks[k]) \in Nat /\ Cardinality(holders[k]) \in Nat
    BY FS_Subset, FS_CardinalityType, Zenon DEF TypeOK
  <1>1. TypeOK'
    BY Zenon DEF ServerStore, TypeOK, ThreadPCs, ListenerPCs, Status
  <1>2. AcksCounted'
    <2>1. s \notin holders[h]
      BY Zenon DEF ServerStore, AcksCounted
    <2>2. Cardinality(holders[h] \cup {s}) = Cardinality(holders[h]) + 1
      BY <1>0, <2>1, FS_AddElement, Zenon
    <2>3. Cardinality(acks[h] \cup {s}) \in Nat
          /\ Cardinality(acks[h] \cup {s}) <= Cardinality(acks[h]) + 1
      <3>1. CASE s \in acks[h]
        <4>1. acks[h] \cup {s} = acks[h]
          BY <3>1, Zenon
        <4>2. Cardinality(acks[h] \cup {s}) = Cardinality(acks[h])
          BY <4>1, Zenon
        <4> QED
          BY <1>0, <4>2
      <3>2. CASE s \notin acks[h]
        <4>1. Cardinality(acks[h] \cup {s}) = Cardinality(acks[h]) + 1
          BY <1>0, <3>2, FS_AddElement, Zenon
        <4> QED
          BY <1>0, <4>1
      <3> QED
        BY <3>1, <3>2, Zenon
    <2>4. ASSUME NEW k \in Hashes
          PROVE  /\ Cardinality(acks'[k]) + ack_map'[k] <= Cardinality(holders'[k])
                 /\ dcs'[k] \cap holders'[k] = {}
      <3>1. CASE k = h
        <4>1. /\ acks'[k] = acks[h] \cup {s} /\ holders'[k] = holders[h] \cup {s}
              /\ dcs'[k] = dcs[h] \ {s} /\ ack_map'[k] = ack_map[h]
          BY <3>1, Zenon DEF ServerStore, TypeOK
        <4>2. ack_map[h] \in Nat
          BY Zenon DEF TypeOK
        <4>3. Cardinality(acks[h]) + ack_map[h] <= Cardinality(holders[h])
              /\ dcs[h] \cap holders[h] = {}
          BY Zenon DEF AcksCounted
        <4> QED
          BY <1>0, <2>2, <2>3, <4>1, <4>2, <4>3
      <3>2. CASE k # h
        BY <3>2, Zenon DEF ServerStore, TypeOK, AcksCounted
      <3> QED
        BY <3>1, <3>2, Zenon
    <2> QED
      BY <2>4, Zenon DEF AcksCounted
  <1>3. PutsSound'
    BY Zenon DEF ServerStore, TypeOK, PutsSound, Unsent, PutPCs, GetPCs
  <1>4. CommitsSound'
    BY Zenon DEF ServerStore, TypeOK, CommitsSound, PutsSound, PutPCs, Status
  <1>5. NoLostWakeup'
    BY Zenon DEF ServerStore, TypeOK, NoLostWakeup, PutsSound, PutPCs, GetPCs
  <1> QED
    BY <1>1, <1>2, <1>3, <1>4, <1>5, Zenon

\* ServerServe keeps the invariant.
LEMMA ServerServeKeeps == ASSUME IInv, NEW h \in Hashes, NEW s \in Servers, ServerServe(h, s) PROVE IInv'
  <1> USE ClientAssumption DEF IInv, ProtocolSound, net, listener
  <1>1. TypeOK'
    <2>1. (s \in holders[h]) \in BOOLEAN
      OBVIOUS
    <2>a. <<h, s \in holders[h]>> \in Hashes \X BOOLEAN
      BY <2>1, Zenon
    <2>b. resps' = resps \cup {<<h, s \in holders[h]>>}
      BY Zenon DEF ServerServe
    <2>c. resps \in SUBSET (Hashes \X BOOLEAN)
      BY Zenon DEF TypeOK
    <2>2. resps' \in SUBSET (Hashes \X BOOLEAN)
      BY <2>a, <2>b, <2>c, Zenon
    <2>3. reqs' \in [Hashes -> SUBSET Servers]
      BY Zenon DEF ServerServe, TypeOK
    <2> QED
      BY <2>2, <2>3, Zenon DEF ServerServe, TypeOK
  <1>2. AcksCounted'
    BY Zenon DEF ServerServe, TypeOK, AcksCounted, PutsSound, Unsent
  <1>3. PutsSound'
    BY Zenon DEF ServerServe, TypeOK, PutsSound, Unsent, PutPCs, GetPCs
  <1>4. CommitsSound'
    BY Zenon DEF ServerServe, TypeOK, CommitsSound, PutsSound, PutPCs, Status
  <1>5. NoLostWakeup'
    BY Zenon DEF ServerServe, TypeOK, NoLostWakeup, PutsSound, PutPCs, GetPCs
  <1> QED
    BY <1>1, <1>2, <1>3, <1>4, <1>5, Zenon

\* Lose keeps the invariant.
LEMMA LoseKeeps == ASSUME IInv, Lose PROVE IInv'
  <1> USE ClientAssumption DEF IInv, ProtocolSound, net, listener
  <1>0. \A k \in Hashes :
          /\ IsFiniteSet(acks[k]) /\ IsFiniteSet(holders[k])
          /\ Cardinality(acks[k]) \in Nat /\ Cardinality(holders[k]) \in Nat
    BY FS_Subset, FS_CardinalityType, Zenon DEF TypeOK
  <1>1. TypeOK'
    BY DEF Lose, TypeOK, ThreadPCs, ListenerPCs, Status
  <1>2. AcksCounted'
    <2>1. ASSUME NEW k \in Hashes
          PROVE  /\ Cardinality(acks'[k]) + ack_map'[k] <= Cardinality(holders'[k])
                 /\ dcs'[k] \cap holders'[k] = {}
      <3>1. acks'[k] \subseteq acks[k] /\ dcs'[k] \subseteq dcs[k]
            /\ holders' = holders /\ ack_map' = ack_map
        BY DEF Lose, TypeOK
      <3>2. Cardinality(acks'[k]) <= Cardinality(acks[k])
            /\ Cardinality(acks'[k]) \in Nat
        BY <1>0, <3>1, FS_Subset, FS_CardinalityType, Zenon
      <3>3. ack_map[k] \in Nat
        BY Zenon DEF TypeOK
      <3> QED
        BY <1>0, <3>1, <3>2, <3>3 DEF AcksCounted
    <2> QED
      BY <2>1, Zenon DEF AcksCounted
  <1>3. PutsSound'
    BY SMTT(30) DEF Lose, TypeOK, PutsSound, Unsent, PutPCs, GetPCs
  <1>4. CommitsSound'
    BY Zenon DEF Lose, TypeOK, CommitsSound, PutsSound, PutPCs, Status
  <1>5. NoLostWakeup'
    BY Zenon DEF Lose, TypeOK, NoLostWakeup, PutsSound, PutPCs, GetPCs
  <1> QED
    BY <1>1, <1>2, <1>3, <1>4, <1>5, Zenon

\* Every step of the client, the listener, the servers and the network keeps
\* the invariant.
LEMMA NextKeeps == IInv /\ [Next]_vars => IInv'
  <1> SUFFICES ASSUME IInv, [Next]_vars PROVE IInv'
    OBVIOUS
  <1>1. ASSUME NEW t \in Threads, ThreadStep(t) PROVE IInv'
    BY <1>1, PutInsertKeeps, PutSendKeeps, PutCheckKeeps, PutEraseKeeps,
       GetInsertKeeps, GetSendKeeps, GetCheckKeeps, Zenon DEF ThreadStep
  <1>2. CASE ListenerStep
    BY <1>2, RecvAckKeeps, RecvRespKeeps, SetPutDoneKeeps, NotifyPutKeeps,
       SetGetDoneKeeps, NotifyGetKeeps, Zenon DEF ListenerStep
  <1>3. ASSUME NEW s \in Servers, ServerStep(s) PROVE IInv'
    BY <1>3, ServerStoreKeeps, ServerServeKeeps, Zenon DEF ServerStep
  <1>4. ASSUME NEW t \in Threads, NEW h \in Hashes, PutCall(t, h) \/ GetCall(t, h)
        PROVE  IInv'
    BY <1>4, PutCallKeeps, GetCallKeeps, Zenon
  <1>5. ASSUME NEW t \in Threads, SpuriousWake(t) PROVE IInv'
    BY <1>5, SpuriousWakeKeeps, Zenon
  <1>6. CASE Crash \/ Lose
    BY <1>6, CrashKeeps, LoseKeeps, Zenon
  <1>7. CASE UNCHANGED vars
    BY <1>7, Zenon DEF vars, IInv, TypeOK, ProtocolSound, AcksCounted, PutsSound, Unsent,
       CommitsSound, NoLostWakeup
  <1> QED
    BY <1>1, <1>2, <1>3, <1>4, <1>5, <1>6, <1>7, Zenon DEF Next

\* The invariant holds in every reachable state.
THEOREM Invariance == Spec => []IInv
  BY InitIInv, NextKeeps, PTL DEF Spec

\* A threshold of counted acks is a threshold of servers with the record.
LEMMA CountedIsStored ==
  ASSUME IInv, NEW h \in Hashes, ack_map[h] >= WriteThreshold
  PROVE  Cardinality(holders[h]) >= WriteThreshold /\ holders[h] # {}
  <1>1. IsFiniteSet(acks[h]) /\ IsFiniteSet(holders[h])
    BY ClientAssumption, FS_Subset, Zenon DEF IInv, TypeOK
  <1>2. Cardinality(acks[h]) \in Nat /\ Cardinality(holders[h]) \in Nat
    BY <1>1, FS_CardinalityType, Zenon
  <1>3. ack_map[h] \in Nat /\ WriteThreshold \in Nat /\ WriteThreshold > 0
    BY ClientAssumption DEF IInv, TypeOK
  <1>4. Cardinality(acks[h]) + ack_map[h] <= Cardinality(holders[h])
    BY Zenon DEF IInv, ProtocolSound, AcksCounted
  <1>5. Cardinality(holders[h]) >= WriteThreshold
    BY <1>2, <1>3, <1>4
  <1> QED
    BY <1>2, <1>3, <1>5, FS_EmptySet

\* A Put that has returned left its record on a threshold of servers, however
\* acks, crossing calls and losses interleave (handle_ack, CommitAck, Put).
THEOREM Durability == Spec => []PutDurable
  <1>1. IInv => PutDurable
    BY CountedIsStored, Zenon DEF IInv, TypeOK, ProtocolSound, CommitsSound, PutDurable
  <1> QED
    BY <1>1, Invariance, PTL

\* No waiter misses its notification, with spurious wake-ups and with the
\* listener stopped between its steps (Put, Get, CommitAck, CommitGetResp).
THEOREM WakeUps == Spec => []NoLostWakeup
  <1>1. IInv => NoLostWakeup
    BY Zenon DEF IInv
  <1> QED
    BY <1>1, Invariance, PTL

\* Every variable keeps its type.
THEOREM TypeCorrect == Spec => []TypeOK
  <1>1. IInv => TypeOK
    BY Zenon DEF IInv
  <1> QED
    BY <1>1, Invariance, PTL

\* The counted acks, the maps of Put and what the listener is about to commit
\* fit together, whatever the network loses or reorders.
THEOREM ProtocolHolds == Spec => []ProtocolSound
  <1>1. IInv => ProtocolSound
    BY Zenon DEF IInv
  <1> QED
    BY <1>1, Invariance, PTL

-----------------------------------------------------------------------------
\* The initial state is one of the service.
LEMMA ServiceInit == Init => Service!Init
  BY Zenon DEF Init, Service!Init, Service!Idle, CallOf, PutPCs, GetPCs

\* A step that changes neither what callers see nor what is stored.
Invisible ==
  /\ \A t \in Threads : CallOf(t)' = CallOf(t)
  /\ UNCHANGED <<holders, issued, returned>>

\* Such a step is a stutter of the service.
LEMMA InvisibleStutters == Invisible => UNCHANGED Service!vars
  <1> SUFFICES ASSUME Invisible PROVE UNCHANGED Service!vars
    OBVIOUS
  <1>1. [t \in Threads |-> CallOf(t)]' = [t \in Threads |-> CallOf(t)]
    BY Zenon DEF Invisible
  <1> QED
    BY <1>1, Zenon DEF Invisible, Service!vars

\* Only the ends of calls and the servers' stores are visible.
LEMMA MostInvisible ==
  ASSUME IInv,
         \/ \E t \in Threads :
              \/ PutInsert(t) \/ PutSend(t) \/ PutCheck(t) \/ GetInsert(t)
              \/ GetSend(t) \/ SpuriousWake(t)
         \/ \E h \in Hashes, s \in Servers : RecvAck(h, s) \/ ServerServe(h, s)
         \/ \E h \in Hashes, success \in BOOLEAN : RecvResp(h, success)
         \/ SetPutDone \/ NotifyPut \/ SetGetDone \/ NotifyGet \/ Crash \/ Lose
  PROVE  Invisible
  <1> USE DEF Invisible, CallOf, PutPCs, GetPCs, net
  <1>1. ASSUME NEW t \in Threads,
               \/ PutInsert(t) \/ PutSend(t) \/ PutCheck(t) \/ GetInsert(t)
               \/ GetSend(t) \/ SpuriousWake(t)
        PROVE  Invisible
    <2> USE DEF Goto, IInv, TypeOK, ThreadPCs
    <2>1. CASE PutInsert(t) \/ PutSend(t)
      BY <2>1, Zenon DEF PutInsert, PutSend
    <2>2. CASE PutCheck(t)
      BY <2>2, Zenon DEF PutCheck
    <2>3. CASE GetInsert(t) \/ GetSend(t)
      BY <2>3 DEF GetInsert, GetSend
    <2>4. CASE SpuriousWake(t)
      BY <2>4, Zenon DEF SpuriousWake
    <2> QED
      BY <1>1, <2>1, <2>2, <2>3, <2>4, Zenon
  <1>2. ASSUME NEW h \in Hashes, NEW s \in Servers, RecvAck(h, s) \/ ServerServe(h, s)
        PROVE  Invisible
    BY <1>2, Zenon DEF RecvAck, ServerServe
  <1>3. ASSUME NEW h \in Hashes, NEW success \in BOOLEAN, RecvResp(h, success)
        PROVE  Invisible
    BY <1>3, Zenon DEF RecvResp
  <1>4. CASE SetPutDone \/ NotifyPut \/ SetGetDone \/ NotifyGet
    BY <1>4, Zenon DEF SetPutDone, NotifyPut, SetGetDone, NotifyGet, IInv, TypeOK, ThreadPCs
  <1>5. CASE Crash \/ Lose
    BY <1>5, Zenon DEF Crash, Lose
  <1> QED
    BY <1>1, <1>2, <1>3, <1>4, <1>5, Zenon

\* A call that begins or ends changes what its own caller sees.
LEMMA CallChanges ==
  ASSUME NEW t \in Threads, NEW v,
         \A u \in Threads \ {t} : CallOf(u)' = CallOf(u),
         CallOf(t)' = v
  PROVE  [u \in Threads |-> CallOf(u)]'
           = [[u \in Threads |-> CallOf(u)] EXCEPT ![t] = v]
  BY Zenon

\* PutCall is the service's WriteCall.
LEMMA PutCallVisible ==
  ASSUME IInv, NEW t \in Threads, NEW h \in Hashes, PutCall(t, h)
  PROVE  Service!WriteCall(t, h)
  <1>1. CallOf(t) = <<"idle">> /\ CallOf(t)' = <<"write", h>>
    BY Zenon DEF PutCall, Goto, CallOf, PutPCs, GetPCs, IInv, TypeOK
  <1>2. \A u \in Threads \ {t} : CallOf(u)' = CallOf(u)
    BY Zenon DEF PutCall, Goto, CallOf, IInv, TypeOK
  <1>3. [u \in Threads |-> CallOf(u)]'
           = [[u \in Threads |-> CallOf(u)] EXCEPT ![t] = <<"write", h>>]
    BY <1>1, <1>2, CallChanges, Zenon
  <1> QED
    BY <1>1, <1>3, Zenon DEF PutCall, net, Service!WriteCall, Service!Idle

\* GetCall is the service's ReadCall.
LEMMA GetCallVisible ==
  ASSUME IInv, NEW t \in Threads, NEW h \in Hashes, GetCall(t, h)
  PROVE  Service!ReadCall(t, h)
  <1>1. CallOf(t) = <<"idle">> /\ CallOf(t)' = <<"read", h>>
    BY Zenon DEF GetCall, Goto, CallOf, PutPCs, GetPCs, IInv, TypeOK
  <1>2. \A u \in Threads \ {t} : CallOf(u)' = CallOf(u)
    BY Zenon DEF GetCall, Goto, CallOf, IInv, TypeOK
  <1>3. [u \in Threads |-> CallOf(u)]'
           = [[u \in Threads |-> CallOf(u)] EXCEPT ![t] = <<"read", h>>]
    BY <1>1, <1>2, CallChanges, Zenon
  <1> QED
    BY <1>1, <1>3, Zenon DEF GetCall, net, Service!ReadCall, Service!Idle

\* PutErase, the end of Put, is the service's WriteReturn: the entry is done,
\* so a threshold of acks was counted.
LEMMA PutEraseVisible ==
  ASSUME IInv, NEW t \in Threads, PutErase(t)
  PROVE  cur[t] \in Hashes /\ Service!WriteReturn(t, cur[t])
  <1>1. cur[t] \in Hashes /\ CallOf(t) = <<"write", cur[t]>>
        /\ CallOf(t)' = <<"idle">>
    BY Zenon DEF PutErase, Return, Goto, CallOf, PutPCs, GetPCs, IInv, TypeOK
  <1>2. \A u \in Threads \ {t} : CallOf(u)' = CallOf(u)
    BY Zenon DEF PutErase, Return, Goto, CallOf, IInv, TypeOK
  <1>3. [u \in Threads |-> CallOf(u)]'
           = [[u \in Threads |-> CallOf(u)] EXCEPT ![t] = <<"idle">>]
    BY <1>1, <1>2, CallChanges, Zenon
  <1>4. ack_map[cur[t]] >= WriteThreshold
    BY <1>1, Zenon DEF PutErase, IInv, ProtocolSound, CommitsSound
  <1>5. Cardinality(holders[cur[t]]) >= WriteThreshold
    BY <1>1, <1>4, CountedIsStored, Zenon
  <1>6. returned' = returned \cup {cur[t]} /\ UNCHANGED <<holders, issued>>
    BY Zenon DEF PutErase, net
  <1>7. [u \in Threads |-> CallOf(u)][t] = <<"write", cur[t]>>
    BY <1>1, Zenon
  <1>8. \E Q \in {R \in SUBSET Servers : Cardinality(R) >= WriteThreshold} :
          Q \subseteq holders[cur[t]]
    BY <1>1, <1>5, Zenon DEF IInv, TypeOK
  <1> QED
    BY <1>1, <1>3, <1>6, <1>7, <1>8, Zenon DEF Service!WriteReturn, Service!Idle

\* GetCheck that returns is the service's ReadReturn.
LEMMA GetCheckVisible ==
  ASSUME IInv, NEW t \in Threads, GetCheck(t)
  PROVE  Invisible \/ (cur[t] \in Hashes /\ Service!ReadReturn(t, cur[t]))
  <1>1. CASE get_status[cur[t]] # "done"
    BY <1>1, Zenon DEF GetCheck, Goto, Invisible, CallOf, PutPCs, GetPCs, net, IInv, TypeOK
  <1>2. CASE get_status[cur[t]] = "done"
    <2>1. cur[t] \in Hashes /\ CallOf(t) = <<"read", cur[t]>>
          /\ CallOf(t)' = <<"idle">>
      BY <1>2, Zenon DEF GetCheck, Return, Goto, CallOf, PutPCs, GetPCs, IInv, TypeOK
    <2>2. \A u \in Threads \ {t} : CallOf(u)' = CallOf(u)
      BY <1>2, Zenon DEF GetCheck, Return, Goto, CallOf, IInv, TypeOK
    <2>3. [u \in Threads |-> CallOf(u)]'
             = [[u \in Threads |-> CallOf(u)] EXCEPT ![t] = <<"idle">>]
      BY <2>1, <2>2, CallChanges, Zenon
    <2>4. ack_map[cur[t]] >= WriteThreshold
      BY <2>1, Zenon DEF GetCheck, GetPCs, IInv, ProtocolSound, PutsSound, CommitsSound
    <2>5. holders[cur[t]] # {}
      BY <2>1, <2>4, CountedIsStored, Zenon
    <2> QED
      BY <2>1, <2>3, <2>5, Zenon DEF GetCheck, net, Service!ReadReturn, Service!Idle
  <1> QED
    BY <1>1, <1>2, Zenon

\* ServerStore is the service's Store.
LEMMA ServerStoreVisible ==
  ASSUME IInv, NEW h \in Hashes, NEW s \in Servers, ServerStore(h, s)
  PROVE  Service!Store(h, s)
  <1>1. h \in issued
    BY Zenon DEF ServerStore, IInv, ProtocolSound, PutsSound, Unsent
  <1>2. \A u \in Threads : CallOf(u)' = CallOf(u)
    BY Zenon DEF ServerStore, CallOf
  <1>3. [u \in Threads |-> CallOf(u)]' = [u \in Threads |-> CallOf(u)]
    BY <1>2, Zenon
  <1> QED
    BY <1>1, <1>3, Zenon DEF ServerStore, Service!Store

\* Every step of the client is a step of the service or a stutter.
LEMMA ServiceStep == IInv /\ [Next]_vars => [Service!Next]_(Service!vars)
  <1> SUFFICES ASSUME IInv, [Next]_vars PROVE Service!Next \/ UNCHANGED Service!vars
    OBVIOUS
  <1>1. ASSUME NEW t \in Threads, NEW h \in Hashes, PutCall(t, h) \/ GetCall(t, h)
        PROVE  Service!Next
    BY <1>1, PutCallVisible, GetCallVisible, Zenon DEF Service!Next
  <1>2. ASSUME NEW t \in Threads, PutErase(t) PROVE Service!Next
    BY <1>2, PutEraseVisible, Zenon DEF Service!Next
  <1>3. ASSUME NEW t \in Threads, GetCheck(t)
        PROVE  Service!Next \/ UNCHANGED Service!vars
    BY <1>3, GetCheckVisible, InvisibleStutters, Zenon DEF Service!Next
  <1>4. ASSUME NEW h \in Hashes, NEW s \in Servers, ServerStore(h, s)
        PROVE  Service!Next
    BY <1>4, ServerStoreVisible, Zenon DEF Service!Next
  <1>5. CASE UNCHANGED vars
    BY <1>5, InvisibleStutters, Zenon DEF Invisible, CallOf, vars
  <1>6. ASSUME \/ \E t \in Threads :
                   \/ PutInsert(t) \/ PutSend(t) \/ PutCheck(t) \/ GetInsert(t)
                   \/ GetSend(t) \/ SpuriousWake(t)
               \/ \E h \in Hashes, s \in Servers : RecvAck(h, s) \/ ServerServe(h, s)
               \/ \E h \in Hashes, success \in BOOLEAN : RecvResp(h, success)
               \/ SetPutDone \/ NotifyPut \/ SetGetDone \/ NotifyGet \/ Crash \/ Lose
        PROVE  UNCHANGED Service!vars
    BY <1>6, MostInvisible, InvisibleStutters, Zenon
  <1> QED
    BY <1>1, <1>2, <1>3, <1>4, <1>5, <1>6, Zenon
       DEF Next, ThreadStep, ListenerStep, ServerStep

\* The client implements the record service: callers of WriteRecord and
\* ReadRecord see synchronous, durable writes and reads of stored records.
THEOREM Refinement == Spec => ServiceRefined
  BY ServiceInit, ServiceStep, Invariance, PTL DEF Spec, ServiceRefined, Service!Spec

=============================================================================
