--------------------------- MODULE RecordService ---------------------------
(***************************************************************************)
(* What DCServer::WriteRecord and DCServer::ReadRecord promise their       *)
(* callers, with neither messages nor maps: a write that has returned is   *)
(* stored by a quorum of sites for good, and a read returns only what some *)
(* site stores.                                                            *)
(***************************************************************************)
CONSTANTS
  Callers, Sites, Names,
  Quorums      \* sets of sites, each enough to keep a record

VARIABLES
  call,        \* caller -> "idle", or the operation it is in and its name
  holders,     \* name -> sites that store its record
  begun,       \* names that a write was called with
  complete     \* names whose write has returned

vars == <<call, holders, begun, complete>>

Idle == <<"idle">>

Init ==
  /\ call = [c \in Callers |-> Idle]
  /\ holders = [n \in Names |-> {}]
  /\ begun = {} /\ complete = {}

WriteCall(c, n) ==
  /\ call[c] = Idle /\ n \notin begun
  /\ call' = [call EXCEPT ![c] = <<"write", n>>]
  /\ begun' = begun \cup {n}
  /\ UNCHANGED <<holders, complete>>

Store(n, s) ==
  /\ n \in begun
  /\ holders' = [holders EXCEPT ![n] = @ \cup {s}]
  /\ UNCHANGED <<call, begun, complete>>

WriteReturn(c, n) ==
  /\ call[c] = <<"write", n>>
  /\ \E Q \in Quorums : Q \subseteq holders[n]
  /\ call' = [call EXCEPT ![c] = Idle]
  /\ complete' = complete \cup {n}
  /\ UNCHANGED <<holders, begun>>

ReadCall(c, n) ==
  /\ call[c] = Idle /\ n \in complete
  /\ call' = [call EXCEPT ![c] = <<"read", n>>]
  /\ UNCHANGED <<holders, begun, complete>>

ReadReturn(c, n) ==
  /\ call[c] = <<"read", n>>
  /\ holders[n] # {}
  /\ call' = [call EXCEPT ![c] = Idle]
  /\ UNCHANGED <<holders, begun, complete>>

Next ==
  \/ \E c \in Callers, n \in Names :
       \/ WriteCall(c, n) \/ WriteReturn(c, n)
       \/ ReadCall(c, n) \/ ReadReturn(c, n)
  \/ \E n \in Names, s \in Sites : Store(n, s)

Spec == Init /\ [][Next]_vars

=============================================================================
