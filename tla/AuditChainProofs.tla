-------------------------- MODULE AuditChainProofs --------------------------
(* Proofs about AuditChain: its types, and, when the host does not overlap  *)
(* calls, the integrity of the chain, and that one fault loses no record    *)
(* silently.                                                                *)
EXTENDS AuditChain, FiniteSetTheorems, SequenceTheorems,
        WellFoundedInduction, TLAPS

-----------------------------------------------------------------------------
(* Types.                                                                   *)

\* Every reachable state has the types the module declares, whatever the
\* number of calls, instances and faults.
THEOREM TypeCorrect == Spec => []TypeOK
<1>1. Init => TypeOK
  BY FailuresAssumption DEF Init, TypeOK, Running, Absent
<1>2. TypeOK /\ [Next]_vars => TypeOK'
  <2> SUFFICES ASSUME TypeOK, [Next]_vars PROVE TypeOK'
    OBVIOUS
  <2> USE FailuresAssumption DEF TypeOK, Running, Goto, HostOk, HostFails,
                                 locals, store
  <2>1. ASSUME NEW c \in Calls, Reject(c) PROVE TypeOK'
    BY <2>1 DEF Reject
  <2>2. ASSUME NEW c \in Calls, NextSeq(c) PROVE TypeOK'
    <3>1. ValueOr(kvSeq, 0) \in Nat
      BY DEF ValueOr
    <3> QED BY <2>2, <3>1 DEF NextSeq
  <2>3. ASSUME NEW c \in Calls, TailHash(c) PROVE TypeOK'
    BY <2>3 DEF TailHash
  <2>4. ASSUME NEW c \in Calls, HashRecord(c) PROVE TypeOK'
    BY <2>4 DEF HashRecord
  <2>5. ASSUME NEW c \in Calls, WriteRecord(c) PROVE TypeOK'
    BY <2>5 DEF WriteRecord, Built, BuildRecord, IsRecord
  <2>6. ASSUME NEW c \in Calls, StoreTailHash(c) PROVE TypeOK'
    BY <2>6 DEF StoreTailHash
  <2>7. ASSUME NEW c \in Calls, StoreSeq(c) PROVE TypeOK'
    BY <2>7 DEF StoreSeq, Some, Absent
  <2>8. ASSUME NEW c \in Calls, Trap(c) PROVE TypeOK'
    BY <2>8 DEF Trap
  <2>9. CASE UNCHANGED vars
    BY <2>9 DEF vars
  <2> QED
    BY <2>1, <2>2, <2>3, <2>4, <2>5, <2>6, <2>7, <2>8, <2>9 DEF Next
<1> QED
  BY <1>1, <1>2, PTL DEF Spec

-----------------------------------------------------------------------------
(* The chain, when calls do not overlap.                                    *)

\* A host call that fails ends the period the properties speak of.
LEMMA FaultEndsNoFault ==
  ASSUME TypeOK, HostFails PROVE ~NoFault'
BY DEF TypeOK, HostFails, NoFault

\* A host with one instance starts a call only when none is running.
LEMMA OneInstance ==
  ASSUME MaxInstances = 1, InstanceFree PROVE Active = {}
<1>1. IsFiniteSet(Active)
  BY CallsAssumption, FS_Subset DEF Active
<1>2. Cardinality(Active) = 0
  BY <1>1, FS_CardinalityType DEF InstanceFree
<1> QED
  BY <1>1, <1>2, FS_EmptySet

\* One step keeps SerialInv, when there is one instance.
LEMMA SerialStep ==
  ASSUME MaxInstances = 1, TypeOK, TypeOK', SerialInv, [Next]_vars
  PROVE  SerialInv'
<1> USE DEF Running, Goto, HostOk, locals, store, Active, NoFault
<1>1. ASSUME NEW c \in Calls, Reject(c) PROVE SerialInv'
  <2>1. Active = {}
    BY <1>1, OneInstance DEF Reject
  <2> QED
    BY <1>1, <2>1 DEF Reject, SerialInv, TypeOK, RecordWritten, TailWritten,
                      Stored, PrevOf, Built
<1>2. ASSUME NEW c \in Calls, NextSeq(c) PROVE SerialInv'
  <2>1. Active = {}
    BY <1>2, OneInstance DEF NextSeq
  <2> QED
    BY <1>2, <2>1, FaultEndsNoFault
       DEF NextSeq, SerialInv, TypeOK, RecordWritten, TailWritten,
           Stored, PrevOf, Built
<1>3. ASSUME NEW c \in Calls, TailHash(c) PROVE SerialInv'
  BY <1>3, FaultEndsNoFault
     DEF TailHash, SerialInv, TypeOK, RecordWritten, TailWritten,
         Stored, PrevOf, Built
<1>4. ASSUME NEW c \in Calls, HashRecord(c) PROVE SerialInv'
  BY <1>4, FaultEndsNoFault
     DEF HashRecord, SerialInv, TypeOK, RecordWritten, TailWritten,
         Stored, PrevOf, Built
<1>5. ASSUME NEW c \in Calls, WriteRecord(c) PROVE SerialInv'
  <2>1. \A d \in Active : d = c
    BY <1>5 DEF WriteRecord, SerialInv
  <2>2. \A d, e \in Active' : d = e
    BY <1>5, <2>1 DEF WriteRecord, TypeOK
  <2> SUFFICES ASSUME NoFault' PROVE SerialInv'
    BY <2>2 DEF SerialInv
  <2>3. NoFault /\ records' = [n \in DOMAIN records \cup {lseq[c]} |->
                                  IF n = lseq[c] THEN Built(c) ELSE records[n]]
    BY <1>5, FaultEndsNoFault DEF WriteRecord
  <2>4. /\ ~RecordWritten /\ ~TailWritten
        /\ RecordWritten' /\ ~TailWritten'
    BY <1>5, <2>1 DEF WriteRecord, TypeOK, RecordWritten, TailWritten
  <2>5. Stored' = Stored /\ Stored \in Nat
    BY <1>5 DEF WriteRecord, Stored, ValueOr, TypeOK
  <2>6. /\ lseq[c] = Stored /\ lprev[c] = PrevOf(Stored)
        /\ lhash[c] = RecordHash(Built(c))
    BY <1>5, <2>3 DEF WriteRecord, SerialInv
  <2>7. DOMAIN records = 0 .. Stored - 1
    BY <2>3, <2>4 DEF SerialInv
  <2>8. DOMAIN records' = 0 .. Stored
    BY <2>3, <2>5, <2>6, <2>7
  <2>9. /\ records'[Stored] = Built(c)
        /\ \A n \in 0 .. Stored - 1 : records'[n] = records[n]
    BY <2>3, <2>5, <2>6, <2>7
  <2>10. \A n \in 0 .. Stored : PrevOf(n)' = PrevOf(n)
    BY <2>5, <2>9 DEF PrevOf
  <2>11. \A n \in DOMAIN records' :
            records'[n].seq = n /\ records'[n].prev_hash = PrevOf(n)'
    <3> SUFFICES ASSUME NEW n \in 0 .. Stored
                 PROVE  records'[n].seq = n /\ records'[n].prev_hash = PrevOf(n)
      BY <2>8, <2>10
    <3>1. CASE n = Stored
      BY <3>1, <2>6, <2>9 DEF Built, BuildRecord
    <3>2. CASE n \in 0 .. Stored - 1
      BY <3>2, <2>3, <2>7, <2>9 DEF SerialInv
    <3> QED BY <3>1, <3>2, <2>5
  <2>12. ValueOr(kvTail, Genesis)' = PrevOf(Stored)'
    BY <1>5, <2>3, <2>4, <2>5, <2>10 DEF WriteRecord, SerialInv, ValueOr
  <2>13. \A d \in Active' : d = c /\ lseq'[d] = Stored'
    BY <1>5, <2>1, <2>5, <2>6 DEF WriteRecord, TypeOK
  <2>14. \A d \in Calls :
            /\ pc'[d] \in {"hash", "record"} => FALSE
            /\ pc'[d] \in {"store_tail", "store_seq"} =>
                  /\ records'[Stored'].event = d
                  /\ lhash'[d] = RecordHash(records'[Stored'])
    BY <1>5, <2>1, <2>5, <2>6, <2>9
       DEF WriteRecord, TypeOK, Built, BuildRecord
  <2> HIDE DEF Active
  <2> QED
    BY <2>2, <2>4, <2>5, <2>8, <2>11, <2>12, <2>13, <2>14 DEF SerialInv
<1>6. ASSUME NEW c \in Calls, StoreTailHash(c) PROVE SerialInv'
  <2>1. \A d \in Active : d = c
    BY <1>6 DEF StoreTailHash, SerialInv
  <2>2. \A d, e \in Active' : d = e
    BY <1>6, <2>1 DEF StoreTailHash, TypeOK
  <2> SUFFICES ASSUME NoFault' PROVE SerialInv'
    BY <2>2 DEF SerialInv
  <2>3. NoFault /\ kvTail' = Some(lhash[c])
    BY <1>6, FaultEndsNoFault DEF StoreTailHash
  <2>4. RecordWritten /\ RecordWritten' /\ TailWritten'
    BY <1>6 DEF StoreTailHash, TypeOK, RecordWritten, TailWritten
  <2>5. Stored' = Stored /\ Stored \in Nat
    BY <1>6 DEF StoreTailHash, Stored, ValueOr, TypeOK
  <2>6. /\ lseq[c] = Stored
        /\ records[Stored].event = c
        /\ lhash[c] = RecordHash(records[Stored])
    BY <1>6, <2>3 DEF StoreTailHash, SerialInv
  <2>7. ValueOr(kvTail, Genesis)' = PrevOf(Stored + 1)'
    BY <1>6, <2>3, <2>5, <2>6
       DEF StoreTailHash, ValueOr, Some, Absent, PrevOf
  <2>8. /\ records' = records
        /\ \A n : PrevOf(n)' = PrevOf(n)
    BY <1>6 DEF StoreTailHash, PrevOf
  <2>9. \A d \in Active' : lseq'[d] = Stored'
    BY <1>6, <2>1, <2>5, <2>6 DEF StoreTailHash, TypeOK
  <2>10. \A d \in Calls :
            /\ pc'[d] \in {"hash", "record"} => FALSE
            /\ pc'[d] \in {"store_tail", "store_seq"} =>
                  /\ records'[Stored'].event = d
                  /\ lhash'[d] = RecordHash(records'[Stored'])
    BY <1>6, <2>1, <2>5, <2>6 DEF StoreTailHash, TypeOK
  <2> HIDE DEF Active
  <2> QED
    BY <2>2, <2>3, <2>4, <2>5, <2>7, <2>8, <2>9, <2>10 DEF SerialInv
<1>7. ASSUME NEW c \in Calls, StoreSeq(c) PROVE SerialInv'
  BY <1>7, FaultEndsNoFault
     DEF StoreSeq, SerialInv, TypeOK, RecordWritten, TailWritten,
         Stored, PrevOf, Built, ValueOr, Some, Absent
<1>8. ASSUME NEW c \in Calls, Trap(c) PROVE SerialInv'
  BY <1>8, FaultEndsNoFault DEF Trap, SerialInv, TypeOK
<1>9. CASE UNCHANGED vars
  BY <1>9 DEF vars, SerialInv, RecordWritten, TailWritten, Stored, PrevOf, Built
<1> QED
  BY <1>1, <1>2, <1>3, <1>4, <1>5, <1>6, <1>7, <1>8, <1>9 DEF Next
LEMMA SerialInit == ASSUME Init PROVE SerialInv
BY DEF Init, SerialInv, Active, Running, NoFault, RecordWritten, TailWritten,
       Stored, PrevOf, ValueOr, Absent

\* With one instance the store and the call in flight always fit together.
THEOREM SerialCorrect ==
  ASSUME MaxInstances = 1
  PROVE  Spec => []SerialInv
<1>1. Init => SerialInv
  BY SerialInit
<1>2. TypeOK /\ TypeOK' /\ SerialInv /\ [Next]_vars => SerialInv'
  BY SerialStep
<1> QED
  BY <1>1, <1>2, TypeCorrect, PTL DEF Spec

\* The log has a linked record for every number below "seq".
LEMMA StoredInDomain ==
  ASSUME TypeOK, SerialInv, NoFault
  PROVE  /\ Stored \in Nat
         /\ \A n \in 0 .. Stored - 1 :
               /\ n \in DOMAIN records
               /\ records[n].seq = n
               /\ records[n].prev_hash = PrevOf(n)
BY DEF TypeOK, SerialInv, Stored, ValueOr

\* Every record of the log embeds the hash of the one before it.
LEMMA LogIsLinked ==
  ASSUME TypeOK, SerialInv, NoFault
  PROVE  BrokenLinks(Stream) = {}
<1>1. Len(Stream) = Stored
  BY StoredInDomain DEF Stream
<1>2. ASSUME NEW i \in 1 .. Stored - 1
      PROVE  Stream[i + 1].prev_hash = RecordHash(Stream[i])
  <2>1. /\ i \in 1 .. Stored /\ i + 1 \in 1 .. Stored
        /\ i \in 0 .. Stored - 1 /\ i # 0
    BY StoredInDomain
  <2>2. Stream[i + 1] = records[i] /\ Stream[i] = records[i - 1]
    BY <2>1 DEF Stream
  <2>3. records[i].prev_hash = RecordHash(records[i - 1])
    BY <2>1, StoredInDomain DEF PrevOf
  <2> QED BY <2>2, <2>3
<1> QED BY <1>1, <1>2 DEF BrokenLinks

\* With one instance, verify_chain accepts the log at every moment before
\* the first fault, and the log starts at GENESIS without a gap.
THEOREM ChainIsIntact ==
  ASSUME MaxInstances = 1
  PROVE  Spec => []ChainIntact
<1>1. TypeOK /\ SerialInv => ChainIntact
  <2> SUFFICES ASSUME TypeOK, SerialInv, NoFault PROVE ChainIntact
    BY DEF ChainIntact
  <2>1. /\ 0 .. Stored - 1 \subseteq DOMAIN records
        /\ \A n \in 0 .. Stored - 1 : records[n].seq = n
    BY StoredInDomain
  <2>2. Stored > 0 => Stream[1].prev_hash = Genesis
    BY StoredInDomain DEF Stream, PrevOf
  <2>3. BrokenLinks(Stream) = {}
    BY LogIsLinked
  <2>4. VerifyChain(Stream) = 0
    BY <2>3 DEF VerifyChain
  <2> QED BY <2>1, <2>2, <2>4 DEF ChainIntact
<1> QED
  BY <1>1, TypeCorrect, SerialCorrect, PTL
-----------------------------------------------------------------------------
(* How one step changes the log below "seq".                                *)

\* Only StoreSeq moves "seq"; no step touches a record below it.
LEMMA LogStep ==
  ASSUME TypeOK, SerialInv, NoFault', NEW c \in Calls,
         \/ Reject(c) \/ NextSeq(c) \/ TailHash(c) \/ HashRecord(c)
         \/ WriteRecord(c) \/ StoreTailHash(c)
  PROVE  /\ NoFault /\ Stored' = Stored
         /\ \A n \in 0 .. Stored - 1 : records'[n] = records[n]
         /\ \A d \in Calls : pc'[d] = "done" => pc[d] = "done"
<1> USE FaultEndsNoFault DEF NoFault, HostOk, Goto, TypeOK, store, locals
<1>1. NoFault
  BY DEF Reject, NextSeq, TailHash, HashRecord, WriteRecord, StoreTailHash
<1>2. Stored' = Stored
  BY DEF Reject, NextSeq, TailHash, HashRecord, WriteRecord, StoreTailHash,
         Stored, ValueOr
<1>3. \A n \in 0 .. Stored - 1 : records'[n] = records[n]
  <2>1. CASE WriteRecord(c)
    <3>1. c \in Active /\ lseq[c] = Stored
      BY <2>1, <1>1 DEF WriteRecord, SerialInv, Active, Running
    <3>2. records' = [n \in DOMAIN records \cup {lseq[c]} |->
                        IF n = lseq[c] THEN Built(c) ELSE records[n]]
      BY <2>1 DEF WriteRecord
    <3> QED BY <3>1, <3>2, <1>1, StoredInDomain
  <2>2. CASE ~WriteRecord(c)
    BY <2>2 DEF Reject, NextSeq, TailHash, HashRecord, StoreTailHash
  <2> QED BY <2>1, <2>2
<1>4. \A d \in Calls : pc'[d] = "done" => pc[d] = "done"
  BY DEF Reject, NextSeq, TailHash, HashRecord, WriteRecord, StoreTailHash
<1> QED BY <1>1, <1>2, <1>3, <1>4

\* StoreSeq adds one record to the log: that of the call that returns.
LEMMA StoreSeqStep ==
  ASSUME TypeOK, SerialInv, NoFault', NEW c \in Calls, StoreSeq(c)
  PROVE  /\ NoFault /\ Stored' = Stored + 1
         /\ records' = records /\ records[Stored].event = c
         /\ \A d \in Calls : pc'[d] = "done" => d = c \/ pc[d] = "done"
<1>1. NoFault /\ kvSeq' = Some(lseq[c] + 1) /\ records' = records
  BY FaultEndsNoFault DEF StoreSeq, NoFault, HostOk
<1>2. lseq[c] = Stored /\ records[Stored].event = c
  BY <1>1 DEF StoreSeq, SerialInv, Active, Running, Goto
<1>3. Stored' = Stored + 1
  BY <1>1, <1>2 DEF Stored, ValueOr, Some, Absent
<1>4. \A d \in Calls : pc'[d] = "done" => d = c \/ pc[d] = "done"
  BY DEF StoreSeq, Goto, TypeOK
<1> QED BY <1>1, <1>2, <1>3, <1>4

\* A trap leaves the store alone and counts as a fault.
LEMMA TrapStep ==
  ASSUME TypeOK, NEW c \in Calls, Trap(c) PROVE ~NoFault'
BY FaultEndsNoFault DEF Trap

\* With one instance, no call returns without its record in the log.
THEOREM QueriesAreRecorded ==
  ASSUME MaxInstances = 1
  PROVE  Spec => []EveryQueryRecorded
<1>1. Init => EveryQueryRecorded
  BY DEF Init, EveryQueryRecorded
<1>2. TypeOK /\ SerialInv /\ EveryQueryRecorded /\ [Next]_vars
        => EveryQueryRecorded'
  <2> SUFFICES ASSUME TypeOK, SerialInv, EveryQueryRecorded, [Next]_vars,
                      NoFault', NEW d \in Calls, pc'[d] = "done"
               PROVE  \E n \in 0 .. Stored' - 1 : records'[n].event = d
    BY DEF EveryQueryRecorded
  <2>1. ASSUME NEW c \in Calls, StoreSeq(c)
        PROVE  \E n \in 0 .. Stored' - 1 : records'[n].event = d
    <3>1. CASE d = c
      <4>1. Stored \in 0 .. Stored' - 1
        BY <2>1, StoreSeqStep, StoredInDomain
      <4> QED BY <2>1, <3>1, <4>1, StoreSeqStep
    <3>2. CASE d # c
      <4>1. PICK n \in 0 .. Stored - 1 : records[n].event = d
        BY <2>1, <3>2, StoreSeqStep DEF EveryQueryRecorded
      <4>2. n \in 0 .. Stored' - 1 /\ records'[n].event = d
        BY <2>1, <4>1, StoreSeqStep, StoredInDomain
      <4> QED BY <4>2
    <3> QED BY <3>1, <3>2
  <2>2. ASSUME NEW c \in Calls,
               \/ Reject(c) \/ NextSeq(c) \/ TailHash(c) \/ HashRecord(c)
               \/ WriteRecord(c) \/ StoreTailHash(c)
        PROVE  \E n \in 0 .. Stored' - 1 : records'[n].event = d
    BY <2>2, LogStep DEF EveryQueryRecorded
  <2>3. CASE UNCHANGED vars
    BY <2>3 DEF vars, EveryQueryRecorded, NoFault, Stored
  <2> QED
    BY <2>1, <2>2, <2>3, TrapStep DEF Next
<1> QED
  BY <1>1, <1>2, TypeCorrect, SerialCorrect, PTL DEF Spec

-----------------------------------------------------------------------------
(* The abstract log.                                                        *)

\* With one instance, the plugin implements the append-only log.
THEOREM Refinement ==
  ASSUME MaxInstances = 1
  PROVE  Spec => ImplementsAuditLog
<1>1. Init => Abstract!Init
  BY DEF Init, Abstract!Init, EventLog, NoFault, Stored, ValueOr, Absent
<1>2. TypeOK /\ SerialInv /\ [Next]_vars => [Abstract!Next]_(Abstract!vars)
  <2> SUFFICES ASSUME TypeOK, SerialInv, [Next]_vars
               PROVE  Abstract!Next \/ UNCHANGED Abstract!vars
    OBVIOUS
  <2>1. CASE ~NoFault'
    BY <2>1 DEF Abstract!Next, Abstract!HostFault
  <2>2. ASSUME NoFault', NEW c \in Calls, StoreSeq(c) PROVE Abstract!Next
    <3>1. /\ NoFault /\ Stored' = Stored + 1 /\ Stored \in Nat
          /\ records' = records /\ records[Stored].event = c
      BY <2>2, StoreSeqStep, StoredInDomain
    <3>2. EventLog = [i \in 1 .. Stored |-> records[i - 1].event]
      BY <3>1 DEF EventLog, Stream
    <3>3. EventLog' = [i \in 1 .. Stored + 1 |-> records[i - 1].event]
      BY <2>2, <3>1 DEF EventLog, Stream
    <3>4. EventLog' = Append(EventLog, c)
      <4>1. EventLog \in Seq(Calls) /\ Len(EventLog) = Stored
        BY <2>2, <3>1, <3>2, StoredInDomain DEF TypeOK, IsRecord
      <4>2. EventLog' \in Seq(Calls) /\ Len(EventLog') = Stored + 1
        <5>1. \A i \in 1 .. Stored + 1 : records[i - 1].event \in Calls
          BY <3>1, StoredInDomain
             DEF TypeOK, IsRecord
        <5> QED BY <3>1, <3>3, <5>1
      <4>3. Append(EventLog, c) \in Seq(Calls)
            /\ Len(Append(EventLog, c)) = Stored + 1
        BY <4>1, AppendProperties
      <4>4. \A i \in 1 .. Stored + 1 : EventLog'[i] = Append(EventLog, c)[i]
        BY <3>1, <3>2, <3>3, <4>1, AppendProperties
      <4> QED BY <4>2, <4>3, <4>4, SeqEqual
    <3> QED
      BY <2>2, <3>1, <3>4 DEF Abstract!Next, Abstract!Record
  <2>3. ASSUME NoFault', NEW c \in Calls,
               \/ Reject(c) \/ NextSeq(c) \/ TailHash(c) \/ HashRecord(c)
               \/ WriteRecord(c) \/ StoreTailHash(c)
        PROVE  UNCHANGED Abstract!vars
    <3>1. /\ NoFault /\ Stored' = Stored /\ Stored \in Nat
          /\ \A n \in 0 .. Stored - 1 : records'[n] = records[n]
      BY <2>3, LogStep, StoredInDomain
    <3>2. EventLog' = EventLog
      BY <2>3, <3>1 DEF EventLog, Stream
    <3> QED BY <2>3, <3>1, <3>2 DEF Abstract!vars
  <2>4. CASE UNCHANGED vars
    BY <2>4 DEF vars, Abstract!vars, EventLog, Stream, Stored, NoFault
  <2> QED
    BY <2>1, <2>2, <2>3, <2>4, TrapStep DEF Next
<1> QED
  BY <1>1, <1>2, TypeCorrect, SerialCorrect, PTL
     DEF Spec, ImplementsAuditLog, Abstract!Spec

-----------------------------------------------------------------------------
(* Tampering.                                                               *)

\* In any chain verify_chain accepts, rewriting the event of record n, not
\* the last, breaks the link after n and no other.
LEMMA TamperingBreaksOneLink ==
  ASSUME NEW R, NEW s \in Seq(R), \A i \in 1 .. Len(s) : IsRecord(s[i]),
         BrokenLinks(s) = {},
         NEW n \in 1 .. Len(s) - 1, NEW e \in Calls, e # s[n].event
  PROVE  BrokenLinks(Tampered(s, n, e)) = {n}
<1> DEFINE t == Tampered(s, n, e)
           r == BuildRecord(e, s[n].seq, s[n].prev_hash)
<1>1. /\ DOMAIN t = 1 .. Len(s) /\ Len(t) = Len(s)
      /\ t[n] = [s[n] EXCEPT !.event = e]
      /\ \A i \in 1 .. Len(s) : i # n => t[i] = s[i]
  BY DEF Tampered
<1>2. t[n] = r
  <2>1. s[n] = BuildRecord(s[n].event, s[n].seq, s[n].prev_hash)
    BY DEF IsRecord
  <2>2. [BuildRecord(s[n].event, s[n].seq, s[n].prev_hash) EXCEPT !.event = e]
          = r
    BY DEF BuildRecord
  <2> QED BY <1>1, <2>1, <2>2
<1>3. \A i \in 1 .. Len(s) : t[i].prev_hash = s[i].prev_hash
  BY <1>1, <1>2 DEF BuildRecord
<1>4. RecordHash(t[n]) # RecordHash(s[n])
  <2>1. t[n] # s[n]
    BY <1>2 DEF BuildRecord
  <2> QED BY <2>1 DEF RecordHash
<1>5. \A i \in 1 .. Len(s) - 1 : s[i + 1].prev_hash = RecordHash(s[i])
  BY DEF BrokenLinks
<1>6. \A i \in 1 .. Len(s) - 1 :
         t[i + 1].prev_hash # RecordHash(t[i]) <=> i = n
  <2> SUFFICES ASSUME NEW i \in 1 .. Len(s) - 1
               PROVE  s[i + 1].prev_hash # RecordHash(t[i]) <=> i = n
    BY <1>3
  <2>1. CASE i = n
    BY <2>1, <1>4, <1>5
  <2>2. CASE i # n
    BY <2>2, <1>1, <1>5
  <2> QED BY <2>1, <2>2
<1> QED
  BY <1>1, <1>6 DEF BrokenLinks

\* With one instance, verify_chain points at every rewritten record of the
\* log but the last one.
THEOREM TamperingIsEvident ==
  ASSUME MaxInstances = 1
  PROVE  Spec => []TamperEvident
<1>1. TypeOK /\ SerialInv /\ ChainIntact => TamperEvident
  <2> SUFFICES ASSUME TypeOK, SerialInv, ChainIntact, NoFault,
                      NEW n \in 1 .. Stored - 1, NEW e \in Calls,
                      e # Stream[n].event
               PROVE  VerifyChain(Tampered(Stream, n, e)) = n
    BY DEF TamperEvident
  <2>1. Stored \in Nat /\ \A i \in 1 .. Stored : IsRecord(records[i - 1])
    BY StoredInDomain DEF TypeOK
  <2>2. /\ Stream \in Seq({records[i - 1] : i \in 1 .. Stored})
        /\ Len(Stream) = Stored
        /\ \A i \in 1 .. Len(Stream) : IsRecord(Stream[i])
    <3> DEFINE R == {records[i - 1] : i \in 1 .. Stored}
    <3>1. \A i \in 1 .. Stored : records[i - 1] \in R
      OBVIOUS
    <3>2. Stream = [i \in 1 .. Stored |-> records[i - 1]]
      BY DEF Stream
    <3> HIDE DEF R
    <3>3. Stream \in Seq(R) /\ Len(Stream) = Stored
      BY <2>1, <3>1, <3>2
    <3>4. \A i \in 1 .. Len(Stream) : IsRecord(Stream[i])
      BY <2>1, <3>2, <3>3
    <3> QED BY <3>3, <3>4 DEF R
  <2>3. BrokenLinks(Stream) = {}
    BY LogIsLinked
  <2>4. BrokenLinks(Tampered(Stream, n, e)) = {n}
    BY <2>2, <2>3, TamperingBreaksOneLink
  <2> QED BY <2>4 DEF VerifyChain, Min
<1> QED
  BY <1>1, TypeCorrect, SerialCorrect, ChainIsIntact, PTL

-----------------------------------------------------------------------------
(* One fault: what a lost record leaves behind.                             *)

\* Every call that returned has its record, below n.
RecordedBelow(n) ==
  \A c \in Calls : pc[c] = "done" =>
     \E m \in DOMAIN records : m < n /\ records[m].event = c
Recorded ==
  \A c \in Calls : pc[c] = "done" => \E m \in DOMAIN records : records[m].event = c

Unwritten == {"tail_hash", "hash", "record"}
Wrote     == {"store_tail", "store_seq"}

\* Nothing is lost: the calls that returned have their records below "seq",
\* where no call writes again.
Healthy ==
  /\ RecordedBelow(Stored)
  /\ \A c \in Active : lseq[c] = Stored
  /\ \A c \in Calls : pc[c] \in Wrote =>
        Stored \in DOMAIN records /\ records[Stored].event = c

\* The read of "seq" failed: a call is about to start the numbers again, with
\* a record that does not start a chain.
Restarting ==
  /\ Recorded
  /\ Stored > 0
  /\ ValueOr(kvTail, Genesis) # Genesis
  /\ \E c \in Active :
        /\ lseq[c] = 0 /\ pc[c] \in Unwritten
        /\ pc[c] \in {"hash", "record"} => lprev[c] # Genesis

\* The write of record r failed and its call is still running ...
LosingRecord(r) ==
  /\ Recorded
  /\ Stored = r.seq
  /\ \A m \in DOMAIN records : m < r.seq /\ records[m].seq = m
  /\ \E c \in Active :
        /\ lseq[c] = r.seq /\ lhash[c] = RecordHash(r) /\ pc[c] \in Wrote
        /\ pc[c] = "store_seq" => ValueOr(kvTail, Genesis) = RecordHash(r)

\* ... or has returned: the tail hash is that of no record there is.
LostRecord(r) ==
  /\ Stored = r.seq + 1 /\ r.seq \in Nat
  /\ \A m \in DOMAIN records : m < r.seq /\ records[m].seq = m
  /\ ValueOr(kvTail, Genesis) = RecordHash(r)
  /\ \A c \in Active :
        /\ lseq[c] = Stored /\ pc[c] \in Unwritten
        /\ pc[c] \in {"hash", "record"} => lprev[c] = RecordHash(r)

\* The write of "seq" failed: the next call will overwrite the last record,
\* and embed its hash.
LostSeq ==
  /\ Recorded
  /\ Stored \in DOMAIN records
  /\ \A m \in DOMAIN records : records[m].seq = m
  /\ ValueOr(kvTail, Genesis) = RecordHash(records[Stored])
  /\ \A c \in Active :
        /\ lseq[c] = Stored /\ pc[c] \in Unwritten
        /\ pc[c] \in {"hash", "record"} => lprev[c] = RecordHash(records[Stored])

\* Record n embeds the hash of no record before it, and stays.
Scar(n) ==
  /\ n \in DOMAIN records
  /\ records[n].prev_hash # Genesis
  /\ \A m \in DOMAIN records : m < n => records[n].prev_hash # RecordHash(records[m])
  /\ \A c \in Calls : /\ pc[c] \in Unwritten => lseq[c] > n
                      /\ pc[c] \in Wrote => lseq[c] >= n
  /\ Stored > n \/ RecordWritten

\* What one fault can lead to.
OneFault ==
  \/ Healthy \/ Restarting \/ LostSeq
  \/ \E r : LosingRecord(r) \/ LostRecord(r)
  \/ \E n \in DOMAIN records : Scar(n)

LossInv ==
  /\ IsFiniteSet(DOMAIN records)
  /\ NoFault => Healthy
  /\ failed <= 1 => OneFault

\* One call at a time, as SerialInv says.
OneCall == \A c, d \in Active : c = d

LEMMA HashesDiffer ==
  ASSUME NEW r, NEW s
  PROVE  /\ RecordHash(r) # Genesis
         /\ RecordHash(r) = RecordHash(s) => r = s
BY DEF RecordHash, Genesis

LEMMA StoredType == ASSUME TypeOK PROVE Stored \in Nat
BY DEF TypeOK, Stored, ValueOr

\* A record that is written and is not lost.
LEMMA WrittenRecord ==
  ASSUME TypeOK, NEW c \in Calls, WriteRecord(c), ~HostFails
  PROVE  /\ lseq[c] \in Nat /\ pc[c] = "record" /\ pc' = [pc EXCEPT ![c] = "store_tail"]
         /\ UNCHANGED <<lseq, lprev, lhash, kvSeq, kvTail, failed>>
         /\ DOMAIN records' = DOMAIN records \cup {lseq[c]}
         /\ records'[lseq[c]] = Built(c)
         /\ Built(c).seq = lseq[c] /\ Built(c).prev_hash = lprev[c] /\ Built(c).event = c
         /\ \A m \in DOMAIN records : m # lseq[c] => records'[m] = records[m]
BY DEF WriteRecord, HostOk, Goto, locals, TypeOK, Built, BuildRecord

\* As long as "seq" is read and the two writes of a call's record and of "seq"
\* land, nothing is lost; a trap, a failed hash and a lost tail hash do no harm.
LEMMA HealthyStep ==
  ASSUME TypeOK, OneCall, MaxInstances = 1, Healthy, [Next]_vars,
         \A c \in Calls : WriteRecord(c) \/ StoreSeq(c) => ~HostFails,
         \A c \in Calls : NextSeq(c) => lseq'[c] = Stored
  PROVE  Healthy'
<1> USE DEF Goto, locals, store, Active, Running, Wrote
<1>0. Stored \in Nat
  BY StoredType
<1>1. ASSUME NEW c \in Calls, Reject(c) \/ NextSeq(c) \/ TailHash(c) \/ HashRecord(c)
                              \/ Trap(c)
      PROVE  Healthy'
  <2>1. /\ Stored' = Stored /\ records' = records
        /\ pc'[c] \notin Wrote \cup {"done"}
        /\ \A d \in Calls : d # c => pc'[d] = pc[d] /\ lseq'[d] = lseq[d]
        /\ pc'[c] \in Running => lseq'[c] = Stored
    BY <1>1 DEF Reject, NextSeq, TailHash, HashRecord, Trap, TypeOK, Stored, ValueOr,
                Healthy
  <2> QED BY <2>1 DEF Healthy, RecordedBelow
<1>2. ASSUME NEW c \in Calls, WriteRecord(c) PROVE Healthy'
  <2>1. Stored' = Stored /\ lseq[c] = Stored /\ \A d \in Active : d = c
    BY <1>2, WrittenRecord DEF Healthy, OneCall, Stored, ValueOr
  <2>2. RecordedBelow(Stored)'
    <3> SUFFICES ASSUME NEW d \in Calls, pc'[d] = "done"
                 PROVE  \E m \in DOMAIN records' : m < Stored /\ records'[m].event = d
      BY <2>1 DEF RecordedBelow
    <3>1. pc[d] = "done"
      BY <1>2, WrittenRecord DEF TypeOK
    <3>2. PICK m \in DOMAIN records : m < Stored /\ records[m].event = d
      BY <3>1 DEF Healthy, RecordedBelow
    <3>3. m # lseq[c]
      BY <1>0, <2>1, <3>2 DEF TypeOK
    <3>4. m \in DOMAIN records' /\ records'[m] = records[m]
      BY <1>2, <3>2, <3>3, WrittenRecord
    <3> QED BY <3>2, <3>4
  <2>3. \A d \in Active' : d = c /\ lseq'[d] = Stored'
    <3>1. pc' = [pc EXCEPT ![c] = "store_tail"] /\ lseq' = lseq
      BY <1>2, WrittenRecord
    <3> QED BY <2>1, <3>1 DEF TypeOK
  <2>4. Stored \in DOMAIN records' /\ records'[Stored].event = c
    BY <1>2, <2>1, WrittenRecord
  <2> QED BY <2>1, <2>2, <2>3, <2>4 DEF Healthy
<1>3. ASSUME NEW c \in Calls, StoreTailHash(c) PROVE Healthy'
  BY <1>3 DEF StoreTailHash, Healthy, RecordedBelow, Stored, TypeOK
<1>4. ASSUME NEW c \in Calls, StoreSeq(c) PROVE Healthy'
  <2>1. /\ pc[c] = "store_seq" /\ pc' = [pc EXCEPT ![c] = "done"]
        /\ kvSeq' = Some(lseq[c] + 1) /\ records' = records /\ lseq' = lseq
    BY <1>4 DEF StoreSeq, HostOk
  <2>2. /\ lseq[c] = Stored /\ Stored' = Stored + 1
        /\ Stored \in DOMAIN records /\ records[Stored].event = c
        /\ \A d \in Active : d = c
    BY <2>1 DEF Healthy, OneCall, Stored, ValueOr, Some, Absent
  <2>3. \A d \in Calls : pc'[d] \notin Running
    BY <2>1, <2>2 DEF TypeOK
  <2>4. RecordedBelow(Stored)'
    <3> SUFFICES ASSUME NEW d \in Calls, pc'[d] = "done"
                 PROVE  \E m \in DOMAIN records : m < Stored + 1 /\ records[m].event = d
      BY <2>1, <2>2 DEF RecordedBelow
    <3>1. CASE d = c
      BY <1>0, <2>2, <3>1
    <3>2. CASE d # c
      <4>1. PICK m \in DOMAIN records : m < Stored /\ records[m].event = d
        BY <2>1, <3>2 DEF Healthy, RecordedBelow, TypeOK
      <4>2. m < Stored + 1
        BY <1>0, <4>1 DEF TypeOK
      <4> QED BY <4>1, <4>2
    <3> QED BY <3>1, <3>2
  <2> QED BY <2>3, <2>4 DEF Healthy
<1>5. CASE UNCHANGED vars
  BY <1>5 DEF vars, Healthy, RecordedBelow, Stored
<1> QED BY <1>1, <1>2, <1>3, <1>4, <1>5 DEF Next

\* A record that embeds the hash of no record before it makes a scar.
LEMMA ScarMade ==
  ASSUME TypeOK, OneCall, NEW c \in Calls, WriteRecord(c), ~HostFails,
         lprev[c] # Genesis,
         \A m \in DOMAIN records : m < lseq[c] => lprev[c] # RecordHash(records[m])
  PROVE  \E n \in DOMAIN records' : Scar(n)'
<1>0. PICK n \in Nat : n = lseq[c]
  BY WrittenRecord
<1>1. /\ DOMAIN records' = DOMAIN records \cup {n} /\ records'[n].prev_hash = lprev[c]
      /\ \A m \in DOMAIN records : m # n => records'[m] = records[m]
      /\ \A m \in DOMAIN records : m < n => lprev[c] # RecordHash(records[m])
  BY <1>0, WrittenRecord
<1>2. \A m \in DOMAIN records' : m < n => records'[n].prev_hash # RecordHash(records'[m])
  <2> SUFFICES ASSUME NEW m \in DOMAIN records', m < n
               PROVE  lprev[c] # RecordHash(records'[m])
    BY <1>1
  <2>1. m # n
    BY <1>0
  <2>2. m \in DOMAIN records /\ records'[m] = records[m]
    BY <1>1, <2>1
  <2> QED BY <1>1, <2>2
<1>3. /\ pc' = [pc EXCEPT ![c] = "store_tail"] /\ pc[c] = "record" /\ lseq' = lseq
  BY WrittenRecord
<1>4. \A d \in Calls : d # c => pc'[d] \notin Running
  BY <1>3 DEF OneCall, Active, Running, TypeOK
<1>5. \A d \in Calls : /\ pc'[d] \in Unwritten => lseq'[d] > n
                       /\ pc'[d] \in Wrote => lseq'[d] >= n
  BY <1>0, <1>3, <1>4 DEF Unwritten, Wrote, Running, TypeOK
<1>6. RecordWritten'
  BY <1>3 DEF RecordWritten, TypeOK
<1>7. Scar(n)'
  BY <1>1, <1>2, <1>5, <1>6 DEF Scar
<1> QED BY <1>1, <1>7

\* While a call runs and no host call fails, only that call takes steps.
LEMMA OnlyCall ==
  ASSUME TypeOK, OneCall, MaxInstances = 1, [Next]_vars, ~HostFails,
         NEW c \in Active
  PROVE  \/ TailHash(c) \/ HashRecord(c) \/ WriteRecord(c)
         \/ StoreTailHash(c) \/ StoreSeq(c) \/ UNCHANGED vars
<1>1. Active # {} /\ ~InstanceFree
  BY OneInstance
<1>2. ASSUME NEW d \in Calls,
             \/ TailHash(d) \/ HashRecord(d) \/ WriteRecord(d)
             \/ StoreTailHash(d) \/ StoreSeq(d)
      PROVE  d = c
  <2>1. d \in Active
    BY <1>2 DEF TailHash, HashRecord, WriteRecord, StoreTailHash, StoreSeq, Goto,
                Active, Running
  <2> QED BY <2>1 DEF OneCall
<1> QED BY <1>1, <1>2 DEF Next, Reject, NextSeq, Trap

\* What the steps of a call do before it writes, when no host call fails.
LEMMA ReadsOnly ==
  ASSUME TypeOK, NEW c \in Calls, TailHash(c) \/ HashRecord(c), ~HostFails
  PROVE  /\ UNCHANGED <<kvSeq, kvTail, records, lseq>> /\ Stored' = Stored
         /\ c \in Active /\ pc[c] \in {"tail_hash", "hash"}
         /\ pc'[c] \in {"hash", "record"} /\ pc' = [pc EXCEPT ![c] = pc'[c]]
         /\ \A d \in Calls : d # c => pc'[d] = pc[d]
         /\ lprev'[c] = IF pc[c] = "tail_hash" THEN ValueOr(kvTail, Genesis)
                        ELSE lprev[c]
<1>1. CASE TailHash(c)
  BY <1>1 DEF TailHash, HostOk, Goto, store, TypeOK, Stored, Active, Running
<1>2. CASE HashRecord(c)
  BY <1>2 DEF HashRecord, HostOk, Goto, store, TypeOK, Stored, Active, Running
<1> QED BY <1>1, <1>2

LEMMA RestartingStep ==
  ASSUME TypeOK, OneCall, MaxInstances = 1, [Next]_vars, ~HostFails, Restarting
  PROVE  Restarting' \/ \E n \in DOMAIN records' : Scar(n)'
<1>1. PICK c \in Active : /\ lseq[c] = 0 /\ pc[c] \in Unwritten
                          /\ pc[c] \in {"hash", "record"} => lprev[c] # Genesis
  BY DEF Restarting
<1>2. c \in Calls
  BY DEF Active
<1>3. CASE TailHash(c) \/ HashRecord(c)
  <2>1. /\ c \in Active' /\ lseq'[c] = 0 /\ pc'[c] \in Unwritten
        /\ lprev'[c] # Genesis
    BY <1>1, <1>2, <1>3, ReadsOnly DEF Active, Running, Unwritten, Restarting
  <2>2. Recorded' /\ Stored' > 0 /\ ValueOr(kvTail, Genesis)' # Genesis
    <3>1. \A d \in Calls : pc'[d] = "done" => pc[d] = "done"
      <4>1. pc'[c] # "done" /\ \A d \in Calls : d # c => pc'[d] = pc[d]
        BY <1>2, <1>3, ReadsOnly
      <4> QED BY <4>1
    <3> QED BY <1>2, <1>3, <3>1, ReadsOnly DEF Restarting, Recorded, ValueOr
  <2> QED BY <2>1, <2>2 DEF Restarting
<1>4. CASE WriteRecord(c)
  <2>1. \A m \in DOMAIN records : ~(m < lseq[c])
    BY <1>1 DEF TypeOK
  <2>2. lprev[c] # Genesis
    BY <1>1, <1>4 DEF WriteRecord, Goto
  <2> QED BY <1>2, <1>4, <2>1, <2>2, ScarMade
<1>5. CASE UNCHANGED vars
  BY <1>5 DEF vars, Restarting, Recorded, Stored, Active
<1>6. ~StoreTailHash(c) /\ ~StoreSeq(c)
  BY <1>1 DEF StoreTailHash, StoreSeq, Goto, Unwritten
<1> QED BY <1>3, <1>4, <1>5, <1>6, OnlyCall

LEMMA LosingRecordStep ==
  ASSUME TypeOK, OneCall, MaxInstances = 1, [Next]_vars, ~HostFails,
         NEW r, LosingRecord(r)
  PROVE  LosingRecord(r)' \/ LostRecord(r)'
<1>1. PICK c \in Active :
        /\ lseq[c] = r.seq /\ lhash[c] = RecordHash(r) /\ pc[c] \in Wrote
        /\ pc[c] = "store_seq" => ValueOr(kvTail, Genesis) = RecordHash(r)
  BY DEF LosingRecord
<1>2. c \in Calls /\ r.seq \in Nat
  BY <1>1 DEF Active, TypeOK
<1>3. CASE StoreTailHash(c)
  <2>1. /\ pc' = [pc EXCEPT ![c] = "store_seq"] /\ kvTail' = Some(lhash[c])
        /\ UNCHANGED <<lseq, lhash, kvSeq, records>>
    BY <1>3 DEF StoreTailHash, HostOk, Goto, locals
  <2>2. c \in Active' /\ pc'[c] = "store_seq"
    BY <1>2, <2>1 DEF Active, Running, TypeOK
  <2>3. Recorded'
    BY <2>1 DEF Recorded, LosingRecord, TypeOK
  <2> QED BY <1>1, <2>1, <2>2, <2>3 DEF LosingRecord, Stored, Wrote, ValueOr, Some, Absent
<1>4. CASE StoreSeq(c)
  <2>1. /\ pc' = [pc EXCEPT ![c] = "done"] /\ kvSeq' = Some(lseq[c] + 1)
        /\ UNCHANGED <<kvTail, records>> /\ pc[c] = "store_seq"
    BY <1>4 DEF StoreSeq, HostOk, Goto
  <2>2. Stored' = r.seq + 1
    BY <1>1, <2>1 DEF Stored, ValueOr, Some, Absent
  <2>3. Active' = {}
    BY <1>2, <2>1 DEF Active, Running, OneCall, TypeOK
  <2> QED BY <1>1, <1>2, <2>1, <2>2, <2>3 DEF LosingRecord, LostRecord, ValueOr
<1>5. CASE UNCHANGED vars
  BY <1>5 DEF vars, LosingRecord, Recorded, Stored, Active, ValueOr
<1>6. ~TailHash(c) /\ ~HashRecord(c) /\ ~WriteRecord(c)
  BY <1>1 DEF TailHash, HashRecord, WriteRecord, Goto, Wrote
<1> QED BY <1>3, <1>4, <1>5, <1>6, OnlyCall

\* What a call that starts does, when no host call fails: nothing or a read.
LEMMA Starts ==
  ASSUME TypeOK, MaxInstances = 1, NEW c \in Calls, Reject(c) \/ NextSeq(c), ~HostFails
  PROVE  /\ UNCHANGED <<kvSeq, kvTail, records, lprev, lhash>> /\ Stored' = Stored
         /\ Active = {} /\ Active' \subseteq {c}
         /\ pc[c] = "idle" /\ pc' = [pc EXCEPT ![c] = pc'[c]]
         /\ \A d \in Calls : d # c => pc'[d] = pc[d] /\ lseq'[d] = lseq[d]
         /\ pc'[c] \in {"rejected", "tail_hash"}
         /\ pc'[c] = "tail_hash" => lseq'[c] = Stored
<1>1. Active = {}
  BY OneInstance DEF Reject, NextSeq
<1>2. CASE Reject(c)
  BY <1>1, <1>2 DEF Reject, Goto, store, locals, TypeOK, Stored, Active, Running
<1>3. CASE NextSeq(c)
  BY <1>1, <1>3 DEF NextSeq, HostOk, Goto, store, TypeOK, Stored, Active, Running
<1> QED BY <1>2, <1>3

\* Whose steps can follow when no host call fails.
LEMMA NextCases ==
  ASSUME TypeOK, OneCall, MaxInstances = 1, [Next]_vars, ~HostFails
  PROVE  \/ \E c \in Calls : Reject(c) \/ NextSeq(c)
         \/ \E c \in Active : \/ TailHash(c) \/ HashRecord(c) \/ WriteRecord(c)
                              \/ StoreTailHash(c) \/ StoreSeq(c)
         \/ UNCHANGED vars
<1>1. ASSUME NEW c \in Calls,
             \/ TailHash(c) \/ HashRecord(c) \/ WriteRecord(c)
             \/ StoreTailHash(c) \/ StoreSeq(c)
      PROVE  c \in Active
  BY <1>1 DEF TailHash, HashRecord, WriteRecord, StoreTailHash, StoreSeq, Goto,
              Active, Running
<1> QED BY <1>1 DEF Next, Trap

LEMMA LostRecordStep ==
  ASSUME TypeOK, OneCall, MaxInstances = 1, [Next]_vars, ~HostFails,
         NEW r, LostRecord(r)
  PROVE  LostRecord(r)' \/ \E n \in DOMAIN records' : Scar(n)'
<1>1. ASSUME NEW c \in Calls, Reject(c) \/ NextSeq(c) PROVE LostRecord(r)'
  <2>1. \A d \in Active' : d = c /\ pc'[d] = "tail_hash"
    BY <1>1, Starts DEF Active, Running
  <2>2. \A d \in Active' : lseq'[d] = Stored
    BY <1>1, <2>1, Starts
  <2> QED BY <1>1, <2>1, <2>2, Starts DEF LostRecord, Unwritten, ValueOr
<1>2. ASSUME NEW c \in Active, TailHash(c) \/ HashRecord(c) PROVE LostRecord(r)'
  <2>1. c \in Calls /\ lseq[c] = Stored
    BY <1>2 DEF Active, LostRecord
  <2>2. lprev'[c] = RecordHash(r)
    BY <1>2, <2>1, ReadsOnly DEF LostRecord
  <2>3. \A d \in Active' : d = c
    BY <1>2, <2>1, ReadsOnly DEF OneCall, Active
  <2> QED BY <1>2, <2>1, <2>2, <2>3, ReadsOnly DEF LostRecord, Unwritten, ValueOr
<1>3. ASSUME NEW c \in Active, WriteRecord(c) PROVE \E n \in DOMAIN records' : Scar(n)'
  <2>1. c \in Calls /\ pc[c] = "record"
    BY <1>3 DEF Active, WriteRecord, Goto
  <2>2. lprev[c] = RecordHash(r)
    BY <2>1 DEF LostRecord
  <2>3. \A m \in DOMAIN records : records[m] # r
    BY DEF LostRecord, TypeOK
  <2> QED BY <1>3, <2>1, <2>2, <2>3, ScarMade, HashesDiffer
<1>4. ASSUME NEW c \in Active PROVE ~StoreTailHash(c) /\ ~StoreSeq(c)
  BY <1>4 DEF LostRecord, StoreTailHash, StoreSeq, Goto, Unwritten
<1>5. CASE UNCHANGED vars
  BY <1>5 DEF vars, LostRecord, Stored, Active, ValueOr
<1> QED BY <1>1, <1>2, <1>3, <1>4, <1>5, NextCases

LEMMA LostSeqStep ==
  ASSUME TypeOK, OneCall, MaxInstances = 1, [Next]_vars, ~HostFails, LostSeq
  PROVE  LostSeq' \/ \E n \in DOMAIN records' : Scar(n)'
<1>1. ASSUME NEW c \in Calls, Reject(c) \/ NextSeq(c) PROVE LostSeq'
  <2>1. \A d \in Active' : d = c /\ pc'[d] = "tail_hash"
    BY <1>1, Starts DEF Active, Running
  <2>2. \A d \in Active' : lseq'[d] = Stored
    BY <1>1, <2>1, Starts
  <2>3. \A d \in Calls : pc'[d] = "done" => pc[d] = "done"
    BY <1>1, Starts
  <2>4. Recorded'
    BY <1>1, <2>3, Starts DEF LostSeq, Recorded
  <2> QED BY <1>1, <2>1, <2>2, <2>4, Starts DEF LostSeq, Unwritten, ValueOr
<1>2. ASSUME NEW c \in Active, TailHash(c) \/ HashRecord(c) PROVE LostSeq'
  <2>1. c \in Calls /\ lseq[c] = Stored
    BY <1>2 DEF Active, LostSeq
  <2>2. lprev'[c] = RecordHash(records[Stored])
    BY <1>2, <2>1, ReadsOnly DEF LostSeq
  <2>3. \A d \in Active' : d = c
    BY <1>2, <2>1, ReadsOnly DEF OneCall, Active
  <2>4. pc'[c] # "done" /\ \A d \in Calls : d # c => pc'[d] = pc[d]
    BY <1>2, <2>1, ReadsOnly
  <2>5. Recorded'
    BY <1>2, <2>1, <2>4, ReadsOnly DEF LostSeq, Recorded
  <2> QED BY <1>2, <2>1, <2>2, <2>3, <2>5, ReadsOnly DEF LostSeq, Unwritten, ValueOr
<1>3. ASSUME NEW c \in Active, WriteRecord(c) PROVE \E n \in DOMAIN records' : Scar(n)'
  <2>1. c \in Calls /\ pc[c] = "record" /\ lseq[c] = Stored /\ Stored \in Nat
    BY <1>3, StoredType DEF Active, WriteRecord, Goto, LostSeq
  <2>2. lprev[c] = RecordHash(records[Stored])
    BY <2>1 DEF LostSeq
  <2>3. \A m \in DOMAIN records : m < Stored => records[m] # records[Stored]
    <3>1. ASSUME NEW m \in DOMAIN records, m < Stored PROVE records[m] # records[Stored]
      <4>1. records[m].seq = m /\ records[Stored].seq = Stored /\ m # Stored
        BY <2>1, <3>1 DEF LostSeq, TypeOK
      <4> QED BY <4>1
    <3> QED BY <3>1
  <2> QED BY <1>3, <2>1, <2>2, <2>3, ScarMade, HashesDiffer
<1>4. ASSUME NEW c \in Active PROVE ~StoreTailHash(c) /\ ~StoreSeq(c)
  BY <1>4 DEF LostSeq, StoreTailHash, StoreSeq, Goto, Unwritten
<1>5. CASE UNCHANGED vars
  BY <1>5 DEF vars, LostSeq, Recorded, Stored, Active, ValueOr
<1> QED BY <1>1, <1>2, <1>3, <1>4, <1>5, NextCases

\* A scar stays, whatever the calls after it do.
LEMMA ScarStep ==
  ASSUME TypeOK, OneCall, MaxInstances = 1, [Next]_vars, ~HostFails,
         NEW n \in DOMAIN records, Scar(n)
  PROVE  n \in DOMAIN records' /\ Scar(n)'
<1>0. n \in Nat /\ Stored \in Nat /\ \A d \in Calls : lseq[d] \in Nat
  BY StoredType DEF TypeOK
<1>1. ASSUME NEW c \in Calls, Reject(c) \/ NextSeq(c) PROVE n \in DOMAIN records' /\ Scar(n)'
  <2>1. Stored > n
    <3>1. ~RecordWritten
      BY <1>1, Starts DEF RecordWritten, Active, Running
    <3> QED BY <3>1 DEF Scar
  <2>2. \A d \in Calls : /\ pc'[d] \in Unwritten => lseq'[d] > n
                         /\ pc'[d] \in Wrote => lseq'[d] >= n
    <3> SUFFICES ASSUME NEW d \in Calls
                 PROVE  /\ pc'[d] \in Unwritten => lseq'[d] > n
                        /\ pc'[d] \in Wrote => lseq'[d] >= n
      OBVIOUS
    <3>1. CASE d = c
      BY <1>1, <2>1, <3>1, Starts DEF Unwritten, Wrote
    <3>2. CASE d # c
      <4>1. pc'[d] = pc[d] /\ lseq'[d] = lseq[d]
        BY <1>1, <3>2, Starts
      <4> QED BY <4>1 DEF Scar
    <3> QED BY <3>1, <3>2
  <2>3. records' = records /\ Stored' = Stored
    BY <1>1, Starts
  <2> QED BY <2>1, <2>2, <2>3 DEF Scar
<1>2. ASSUME NEW c \in Active, TailHash(c) \/ HashRecord(c)
      PROVE  n \in DOMAIN records' /\ Scar(n)'
  <2>1. /\ c \in Calls /\ records' = records /\ Stored' = Stored /\ lseq' = lseq
        /\ pc[c] \in Unwritten /\ pc'[c] \in Unwritten
        /\ \A d \in Calls : d # c => pc'[d] = pc[d]
    BY <1>2, ReadsOnly DEF Active, Unwritten
  <2>2. RecordWritten => RecordWritten'
    <3>1. pc[c] \notin {"store_tail", "store_seq"}
      BY <2>1 DEF Unwritten
    <3> QED BY <2>1, <3>1 DEF RecordWritten
  <2>3. pc'[c] \notin Wrote
    BY <2>1 DEF Unwritten, Wrote
  <2> QED BY <2>1, <2>2, <2>3 DEF Scar
<1>3. ASSUME NEW c \in Active, WriteRecord(c) PROVE n \in DOMAIN records' /\ Scar(n)'
  <2>1. c \in Calls /\ pc[c] = "record" /\ lseq[c] > n /\ lseq[c] \in Nat
    BY <1>0, <1>3 DEF Active, WriteRecord, Goto, Scar, Unwritten
  <2>2. /\ pc' = [pc EXCEPT ![c] = "store_tail"] /\ lseq' = lseq
        /\ DOMAIN records' = DOMAIN records \cup {lseq[c]}
        /\ \A m \in DOMAIN records : m # lseq[c] => records'[m] = records[m]
    BY <1>3, <2>1, WrittenRecord
  <2>3. /\ n \in DOMAIN records' /\ records'[n] = records[n]
        /\ \A m \in DOMAIN records' : m < n => m \in DOMAIN records /\ records'[m] = records[m]
    BY <1>0, <2>1, <2>2 DEF TypeOK
  <2>4. RecordWritten' /\ pc'[c] = "store_tail" /\ \A d \in Calls : d # c => pc'[d] = pc[d]
    BY <2>1, <2>2 DEF RecordWritten, TypeOK
  <2>5. \A d \in Calls : /\ pc'[d] \in Unwritten => lseq'[d] > n
                         /\ pc'[d] \in Wrote => lseq'[d] >= n
    <3>1. lseq[c] >= n /\ pc'[c] \notin Unwritten
      BY <1>0, <2>1, <2>4 DEF Unwritten
    <3> QED BY <2>2, <2>4, <3>1 DEF Scar
  <2> QED BY <2>3, <2>4, <2>5 DEF Scar
<1>4. ASSUME NEW c \in Active, StoreTailHash(c) PROVE n \in DOMAIN records' /\ Scar(n)'
  <2>1. /\ c \in Calls /\ pc[c] = "store_tail" /\ pc' = [pc EXCEPT ![c] = "store_seq"]
        /\ UNCHANGED <<lseq, kvSeq, records>>
    BY <1>4 DEF Active, StoreTailHash, Goto, locals
  <2>2. RecordWritten' /\ Stored' = Stored /\ pc'[c] = "store_seq"
        /\ \A d \in Calls : d # c => pc'[d] = pc[d]
    BY <2>1 DEF RecordWritten, Stored, TypeOK
  <2>3. lseq[c] >= n /\ pc'[c] \notin Unwritten
    BY <2>1, <2>2 DEF Scar, Wrote, Unwritten
  <2> QED BY <2>1, <2>2, <2>3 DEF Scar
<1>5. ASSUME NEW c \in Active, StoreSeq(c) PROVE n \in DOMAIN records' /\ Scar(n)'
  <2>1. /\ c \in Calls /\ pc[c] = "store_seq" /\ pc' = [pc EXCEPT ![c] = "done"]
        /\ kvSeq' = Some(lseq[c] + 1) /\ UNCHANGED <<lseq, records>>
    BY <1>5 DEF Active, StoreSeq, Goto, HostOk, locals
  <2>2. lseq[c] >= n
    BY <2>1 DEF Scar, Wrote
  <2>3. Stored' > n
    <3>1. Stored' = lseq[c] + 1
      BY <2>1 DEF Stored, ValueOr, Some, Absent
    <3> QED BY <1>0, <2>1, <2>2, <3>1
  <2>4. pc'[c] \notin Unwritten \cup Wrote /\ \A d \in Calls : d # c => pc'[d] = pc[d]
    BY <2>1 DEF Unwritten, Wrote, TypeOK
  <2> QED BY <2>1, <2>3, <2>4 DEF Scar
<1>6. CASE UNCHANGED vars
  BY <1>6 DEF vars, Scar, Stored, RecordWritten
<1> QED BY <1>1, <1>2, <1>3, <1>4, <1>5, <1>6, NextCases

\* The first host call that fails.
LEMMA FaultStep ==
  ASSUME TypeOK, TypeOK', SerialInv, MaxInstances = 1, NoFault, Healthy, [Next]_vars
  PROVE  \/ Healthy' \/ Restarting' \/ LostSeq' \/ \E r : LosingRecord(r)'
<1> USE DEF Goto, locals, store
<1>0. OneCall /\ Stored \in Nat /\ Stored' \in Nat /\ Recorded
  BY StoredType DEF SerialInv, OneCall, Healthy, RecordedBelow, Recorded, TypeOK, Stored,
                    ValueOr
<1>1. ASSUME NEW c \in Calls, NextSeq(c), lseq'[c] # Stored
      PROVE  Restarting'
  <2>1. /\ Active = {} /\ lseq'[c] = 0 /\ pc' = [pc EXCEPT ![c] = "tail_hash"]
        /\ UNCHANGED <<kvSeq, kvTail, records>>
    BY <1>1, OneInstance DEF NextSeq, TypeOK, Stored
  <2>2. Stored > 0 /\ Stored' = Stored
    BY <1>0, <1>1, <2>1 DEF Stored
  <2>3. ~TailWritten
    BY <2>1 DEF TailWritten, Active, Running
  <2>4. ValueOr(kvTail, Genesis) = PrevOf(Stored) /\ Stored # 0
    BY <2>2, <2>3 DEF SerialInv
  <2>5. ValueOr(kvTail, Genesis) # Genesis
    BY <2>4, HashesDiffer DEF PrevOf
  <2>6. Recorded' /\ c \in Active' /\ pc'[c] = "tail_hash"
    BY <1>0, <2>1 DEF Recorded, Active, Running, TypeOK
  <2> QED BY <2>1, <2>2, <2>5, <2>6 DEF Restarting, Unwritten, ValueOr
<1>2. ASSUME NEW c \in Calls, WriteRecord(c), HostFails
      PROVE  \E r : LosingRecord(r)'
  <2>1. /\ pc[c] = "record" /\ pc' = [pc EXCEPT ![c] = "store_tail"]
        /\ UNCHANGED <<lseq, lprev, lhash, kvSeq, kvTail, records>>
    <3>1. failed' # failed
      BY <1>2 DEF HostFails, TypeOK
    <3> QED BY <1>2, <3>1 DEF WriteRecord, HostOk
  <2>2. PICK r : r = Built(c)
    OBVIOUS
  <2>3. c \in Active /\ r.seq = lseq[c]
    BY <2>1, <2>2 DEF Active, Running, Built, BuildRecord
  <2>4. /\ lseq[c] = Stored /\ lhash[c] = RecordHash(r) /\ Stored' = Stored
    BY <2>1, <2>2, <2>3 DEF SerialInv, Stored
  <2>5. \A m \in DOMAIN records : m < Stored /\ records[m].seq = m
    <3>1. ~RecordWritten
      BY <2>1, <2>3 DEF RecordWritten, SerialInv, Active, Running
    <3> QED BY <1>0, <3>1 DEF SerialInv
  <2>6. Recorded' /\ c \in Active' /\ pc'[c] = "store_tail"
    BY <1>0, <2>1 DEF Recorded, Active, Running, TypeOK
  <2>7. LosingRecord(r)'
    BY <2>1, <2>3, <2>4, <2>5, <2>6 DEF LosingRecord, Wrote
  <2> QED BY <2>7
<1>3. ASSUME NEW c \in Calls, StoreSeq(c), HostFails
      PROVE  LostSeq'
  <2>1. /\ pc[c] = "store_seq" /\ pc' = [pc EXCEPT ![c] = "done"]
        /\ UNCHANGED <<lseq, lprev, kvSeq, kvTail, records>>
    <3>1. failed' # failed
      BY <1>3 DEF HostFails, TypeOK
    <3> QED BY <1>3, <3>1 DEF StoreSeq, HostOk
  <2>2. RecordWritten /\ TailWritten /\ Stored' = Stored
    BY <2>1 DEF RecordWritten, TailWritten, Stored
  <2>3. /\ DOMAIN records = 0 .. Stored
        /\ \A m \in DOMAIN records : records[m].seq = m
        /\ ValueOr(kvTail, Genesis) = PrevOf(Stored + 1)
        /\ records[Stored].event = c
    BY <2>1, <2>2 DEF SerialInv
  <2>4. Stored \in DOMAIN records
    BY <1>0, <2>3
  <2>5. PrevOf(Stored + 1) = RecordHash(records[Stored])
    BY <1>0 DEF PrevOf
  <2>6. Recorded'
    BY <1>0, <2>1, <2>3, <2>4 DEF Recorded, TypeOK
  <2>7. Active' = {}
    BY <2>1 DEF Active, Running, SerialInv, TypeOK
  <2> QED BY <2>1, <2>2, <2>3, <2>4, <2>5, <2>6, <2>7 DEF LostSeq, ValueOr
<1>4. CASE /\ \A c \in Calls : WriteRecord(c) \/ StoreSeq(c) => ~HostFails
           /\ \A c \in Calls : NextSeq(c) => lseq'[c] = Stored
  BY <1>0, <1>4, HealthyStep
<1> QED BY <1>1, <1>2, <1>3, <1>4

\* The keys of the records stay finite in number.
LEMMA RecordsFinite ==
  ASSUME IsFiniteSet(DOMAIN records), [Next]_vars
  PROVE  IsFiniteSet(DOMAIN records)'
<1>1. ASSUME NEW c \in Calls, WriteRecord(c) PROVE IsFiniteSet(DOMAIN records)'
  <2>1. DOMAIN records' \in {DOMAIN records, DOMAIN records \cup {lseq[c]}}
    BY <1>1 DEF WriteRecord
  <2> QED BY <2>1, FS_AddElement
<1>2. CASE UNCHANGED records
  BY <1>2
<1> QED BY <1>1, <1>2 DEF Next, vars, Reject, NextSeq, TailHash, HashRecord,
           StoreTailHash, StoreSeq, Trap, store

LEMMA LossStep ==
  ASSUME TypeOK, TypeOK', SerialInv, MaxInstances = 1, LossInv, [Next]_vars
  PROVE  LossInv'
<1>1. OneCall
  BY DEF SerialInv, OneCall
<1>2. IsFiniteSet(DOMAIN records)'
  BY RecordsFinite DEF LossInv
<1>3. /\ failed \in Nat
      /\ failed' = failed \/ (HostFails /\ failed' = failed + 1)
  <2>1. failed' = failed \/ HostFails
    BY DEF Next, vars, Reject, NextSeq, TailHash, HashRecord, WriteRecord,
           StoreTailHash, StoreSeq, Trap, HostOk
  <2> QED BY <2>1, FailuresAssumption DEF TypeOK, HostFails
<1>4. ASSUME NoFault' PROVE Healthy'
  <2>1. NoFault /\ ~HostFails
    BY <1>3, <1>4 DEF NoFault, HostFails
  <2>2. \A c \in Calls : NextSeq(c) => lseq'[c] = Stored
    BY <2>1 DEF NextSeq, TypeOK, Stored
  <2> QED BY <1>1, <2>1, <2>2, HealthyStep DEF LossInv
<1>5. ASSUME failed' <= 1 PROVE OneFault'
  <2>1. CASE NoFault
    BY <2>1, FaultStep DEF LossInv, OneFault
  <2>2. CASE ~NoFault
    <3>1. ~HostFails /\ failed <= 1
      BY <1>3, <1>5, <2>2 DEF NoFault, HostFails
    <3>2. CASE Healthy
      <4>1. \A c \in Calls : NextSeq(c) => lseq'[c] = Stored
        BY <3>1 DEF NextSeq, TypeOK, Stored
      <4> QED BY <1>1, <3>1, <3>2, <4>1, HealthyStep DEF OneFault
    <3>3. CASE Restarting
      BY <1>1, <3>1, <3>3, RestartingStep DEF OneFault
    <3>4. CASE LostSeq
      BY <1>1, <3>1, <3>4, LostSeqStep DEF OneFault
    <3>5. ASSUME NEW r, LosingRecord(r) PROVE OneFault'
      BY <1>1, <3>1, <3>5, LosingRecordStep DEF OneFault
    <3>6. ASSUME NEW r, LostRecord(r) PROVE OneFault'
      BY <1>1, <3>1, <3>6, LostRecordStep DEF OneFault
    <3>7. ASSUME NEW n \in DOMAIN records, Scar(n) PROVE OneFault'
      BY <1>1, <3>1, <3>7, ScarStep DEF OneFault
    <3> QED BY <3>1, <3>2, <3>3, <3>4, <3>5, <3>6, <3>7 DEF LossInv, OneFault
  <2> QED BY <2>1, <2>2
<1> QED BY <1>2, <1>4, <1>5 DEF LossInv

-----------------------------------------------------------------------------
(* The exported chain: the records in key order.                            *)

NatLess == OpToRel(<, Nat)

LEMMA NatLessIs == \A x, y \in Nat : x < y => <<x, y>> \in NatLess
  BY DEF OpToRel, NatLess

\* Every set of naturals but the empty one has a smallest element.
LEMMA Smallest ==
  ASSUME NEW T, T \subseteq Nat, T # {}
  PROVE  \E x \in T : \A y \in T : x <= y
<1>1. IsWellFoundedOn(NatLess, Nat)
  BY NatLessThanWellFounded DEF NatLess
<1>2. PICK x \in T : \A y \in T : ~ (<<y, x>> \in NatLess)
  BY <1>1, WFMin
<1>3. ASSUME NEW y \in T PROVE x <= y
  <2>1. ~ (y < x)
    BY <1>2, NatLessIs
  <2> QED BY <2>1
<1> QED BY <1>3

Above(S, x) == {m \in S : m > x}
Below(S, x) == {m \in S : m < x}

\* Finitely many numbers have a largest one: that with the fewest above it.
LEMMA Largest ==
  ASSUME NEW S, S \subseteq Nat, IsFiniteSet(S), S # {}
  PROVE  \E p \in S : \A m \in S : m <= p
<1>1. \A x : IsFiniteSet(Above(S, x)) /\ Cardinality(Above(S, x)) \in Nat
  <2>1. SUFFICES ASSUME NEW x
                 PROVE IsFiniteSet(Above(S, x)) /\ Cardinality(Above(S, x)) \in Nat
    OBVIOUS
  <2>2. Above(S, x) \in SUBSET S
    BY DEF Above
  <2> QED BY <2>2, FS_Subset, FS_CardinalityType
<1> DEFINE T == {Cardinality(Above(S, x)) : x \in S}
<1>2. PICK k \in T : \A y \in T : k <= y
  <2>1. T \subseteq Nat /\ T # {}
    BY <1>1
  <2> HIDE DEF T
  <2> QED BY <2>1, Smallest
<1>3. PICK p \in S : k = Cardinality(Above(S, p))
  OBVIOUS
<1>4. ASSUME NEW m \in S, m > p PROVE FALSE
  <2>1. Above(S, m) \in SUBSET Above(S, p) /\ Above(S, m) # Above(S, p)
    <3>1. m \in Above(S, p) /\ m \notin Above(S, m)
      BY <1>4 DEF Above
    <3>2. ASSUME NEW y \in S, y > m PROVE y > p
      BY <1>4, <3>2
    <3>3. Above(S, m) \subseteq Above(S, p)
      BY <3>2 DEF Above
    <3> QED BY <3>1, <3>3
  <2>2. Cardinality(Above(S, m)) < Cardinality(Above(S, p))
    <3>1. /\ Cardinality(Above(S, m)) <= Cardinality(Above(S, p))
          /\ Cardinality(Above(S, p)) # Cardinality(Above(S, m))
      BY <1>1, <2>1, FS_Subset
    <3> QED BY <1>1, <3>1
  <2>3. k <= Cardinality(Above(S, m))
    BY <1>2
  <2> QED BY <1>1, <1>3, <2>2, <2>3
<1> QED BY <1>4

\* The place of a record among those with a smaller number.
LEMMA Place ==
  ASSUME NEW S, S \subseteq Nat, IsFiniteSet(S), NEW n \in S
  PROVE  /\ IsFiniteSet(Below(S, n))
         /\ Cardinality(Below(S, n)) \in Nat
         /\ Cardinality(Below(S, n)) < Cardinality(S)
         /\ Cardinality(S) \in Nat
         /\ \A m \in S : Cardinality(Below(S, m)) = Cardinality(Below(S, n)) => m = n
<1>1. \A x : IsFiniteSet(Below(S, x)) /\ Cardinality(Below(S, x)) \in Nat
  <2>1. SUFFICES ASSUME NEW x
                 PROVE IsFiniteSet(Below(S, x)) /\ Cardinality(Below(S, x)) \in Nat
    OBVIOUS
  <2>2. Below(S, x) \in SUBSET S
    BY DEF Below
  <2> QED BY <2>2, FS_Subset, FS_CardinalityType
<1>2. \A x, y \in S : x < y => Cardinality(Below(S, x)) # Cardinality(Below(S, y))
  <2>1. SUFFICES ASSUME NEW x \in S, NEW y \in S, x < y
                 PROVE Cardinality(Below(S, x)) # Cardinality(Below(S, y))
    OBVIOUS
  <2>2. Below(S, x) \in SUBSET Below(S, y) /\ Below(S, x) # Below(S, y)
    <3>1. x \in Below(S, y) /\ x \notin Below(S, x)
      BY <2>1 DEF Below
    <3>2. ASSUME NEW z \in S, z < x PROVE z < y
      BY <2>1, <3>2
    <3>3. Below(S, x) \subseteq Below(S, y)
      BY <3>2 DEF Below
    <3> QED BY <3>1, <3>3
  <2> QED BY <1>1, <2>2, FS_Subset
<1>3. Cardinality(Below(S, n)) <= Cardinality(S) /\ Cardinality(Below(S, n)) # Cardinality(S)
      /\ Cardinality(S) \in Nat
  <2>1. Below(S, n) \in SUBSET S /\ Below(S, n) # S
    BY DEF Below
  <2> QED BY <2>1, FS_Subset, FS_CardinalityType
<1>4. ASSUME NEW m \in S, Cardinality(Below(S, m)) = Cardinality(Below(S, n)) PROVE m = n
  BY <1>2, <1>4
<1> QED BY <1>1, <1>3, <1>4

\* The number right before another one, among those of S.
LEMMA PlaceBefore ==
  ASSUME NEW S, S \subseteq Nat, IsFiniteSet(S), NEW n \in Nat, Below(S, n) # {}
  PROVE  \E p \in Below(S, n) :
            /\ \A m \in Below(S, n) : m <= p
            /\ Cardinality(Below(S, p)) + 1 = Cardinality(Below(S, n))
<1>1. Below(S, n) \in SUBSET S
  BY DEF Below
<1>2. Below(S, n) \subseteq Nat /\ IsFiniteSet(Below(S, n))
  BY <1>1, FS_Subset
<1>3. PICK p \in Below(S, n) : \A m \in Below(S, n) : m <= p
  BY <1>2, Largest
<1>4. p \in S /\ p \in Nat
  BY <1>1
<1>5. Below(S, p) = Below(S, n) \ {p}
  <2>1. p < n
    BY <1>3 DEF Below
  <2>2. ASSUME NEW m \in S PROVE m < p <=> m < n /\ m # p
    <3>1. m < n => m <= p
      BY <1>3 DEF Below
    <3>2. m \in Nat
      OBVIOUS
    <3> QED BY <1>4, <2>1, <3>1, <3>2
  <2> QED BY <2>2 DEF Below
<1>6. Cardinality(Below(S, p)) = Cardinality(Below(S, n)) - 1
  BY <1>2, <1>5, FS_RemoveElement
<1>7. Cardinality(Below(S, p)) \in Nat /\ Cardinality(Below(S, n)) \in Nat
  BY <1>2, <1>4, Place, FS_CardinalityType
<1> QED BY <1>3, <1>6, <1>7

\* The record with k smaller numbers is the exported chain's item k + 1.
LEMMA ExportIs ==
  ASSUME TypeOK, IsFiniteSet(DOMAIN records)
  PROVE  /\ Cardinality(DOMAIN records) \in Nat
         /\ DOMAIN Exported = 1 .. Cardinality(DOMAIN records)
         /\ Len(Exported) = Cardinality(DOMAIN records)
         /\ Exported = <<>> => DOMAIN records = {}
         /\ DOMAIN records = {} => Exported = <<>>
         /\ \A n \in DOMAIN records :
               /\ Cardinality(Below(DOMAIN records, n)) \in 0 .. Len(Exported) - 1
               /\ Exported[Cardinality(Below(DOMAIN records, n)) + 1] = records[n]
<1> DEFINE D == DOMAIN records
           N == Cardinality(D)
           nth == [i \in 1 .. N |->
                     CHOOSE n \in D : Cardinality({m \in D : m < n}) = i - 1]
<1>1. N \in Nat /\ D \subseteq Nat
  BY FS_CardinalityType DEF TypeOK
<1>2. Exported = [i \in 1 .. N |-> records[nth[i]]]
  BY DEF Exported
<1>3. DOMAIN Exported = 1 .. N
  BY <1>2
<1>4. Exported \in Seq({Exported[i] : i \in 1 .. N})
  <2>1. Exported = [i \in 1 .. N |-> Exported[i]]
    BY <1>2
  <2> HIDE DEF N
  <2>2. PICK f : f = Exported
    OBVIOUS
  <2>3. f = [i \in 1 .. N |-> f[i]] /\ \A i \in 1 .. N : f[i] \in {f[j] : j \in 1 .. N}
    BY <2>1, <2>2
  <2>4. f \in Seq({f[j] : j \in 1 .. N})
    BY <1>1, <2>3
  <2> QED BY <2>2, <2>4
<1>5. Len(Exported) = N
  BY <1>1, <1>3, <1>4
<1>6. ASSUME NEW n \in D
      PROVE  /\ Cardinality(Below(D, n)) \in 0 .. N - 1
             /\ Exported[Cardinality(Below(D, n)) + 1] = records[n]
  <2>1. /\ Cardinality(Below(D, n)) \in Nat /\ Cardinality(Below(D, n)) < N
        /\ \A m \in D : Cardinality(Below(D, m)) = Cardinality(Below(D, n)) => m = n
    BY <1>1, Place
  <2>2. PICK i \in 1 .. N : i = Cardinality(Below(D, n)) + 1
    BY <1>1, <2>1
  <2>3. i - 1 = Cardinality(Below(D, n))
    BY <2>1, <2>2
  <2>4. nth[i] = CHOOSE m \in D : Cardinality(Below(D, m)) = i - 1
    BY DEF Below
  <2>5. nth[i] = n
    BY <2>1, <2>3, <2>4
  <2>6. Exported[i] = records[nth[i]]
    BY <1>2
  <2>7. Cardinality(Below(D, n)) \in 0 .. N - 1
    BY <1>1, <2>1
  <2> HIDE DEF N, D, nth
  <2> QED BY <2>2, <2>5, <2>6, <2>7
<1>7. ASSUME Exported = <<>> PROVE D = {}
  <2>1. N = 0
    BY <1>1, <1>3, <1>7
  <2> QED BY <2>1, FS_EmptySet
<1>8. ASSUME D = {} PROVE Exported = <<>>
  <2>1. N = 0
    BY <1>8, FS_EmptySet
  <2> QED BY <1>4, <1>5, <2>1
<1> QED BY <1>1, <1>3, <1>5, <1>6, <1>7, <1>8

\* A record that embeds the hash of no record before it is found out: at the
\* start of the chain, or by verify_chain at the link that leads to it.
LEMMA ScarShows ==
  ASSUME TypeOK, IsFiniteSet(DOMAIN records), NEW n \in DOMAIN records, Scar(n)
  PROVE  VerifyChain(Exported) # 0 \/ ~EndsFit(Exported)
<1> DEFINE D == DOMAIN records
           k == Cardinality(Below(D, n))
<1>1. /\ k \in 0 .. Len(Exported) - 1 /\ Exported[k + 1] = records[n]
      /\ Len(Exported) \in Nat /\ Exported # <<>>
      /\ D \subseteq Nat
  BY ExportIs DEF TypeOK
<1>2. CASE Below(D, n) = {}
  <2>1. k = 0
    BY <1>2, FS_EmptySet
  <2>2. Exported[1].prev_hash # Genesis
    BY <1>1, <2>1 DEF Scar
  <2> QED BY <1>1, <2>2 DEF EndsFit
<1>3. CASE Below(D, n) # {}
  <2>1. PICK p \in Below(D, n) : Cardinality(Below(D, p)) + 1 = k
    BY <1>1, <1>3, PlaceBefore
  <2>2. p \in D /\ p < n
    BY DEF Below
  <2>3. Cardinality(Below(D, p)) \in Nat /\ Exported[k] = records[p]
    BY <2>1, <2>2, ExportIs
  <2>4. k \in 1 .. Len(Exported) - 1
    BY <1>1, <2>1, <2>3
  <2>5. Exported[k + 1].prev_hash # RecordHash(Exported[k])
    BY <1>1, <2>2, <2>3 DEF Scar
  <2>6. k \in BrokenLinks(Exported)
    BY <2>4, <2>5 DEF BrokenLinks
  <2>7. /\ BrokenLinks(Exported) \subseteq Nat
        /\ \A i \in BrokenLinks(Exported) : i # 0
    BY <1>1 DEF BrokenLinks
  <2>8. \E x \in BrokenLinks(Exported) : \A y \in BrokenLinks(Exported) : x <= y
    BY <2>6, <2>7, Smallest
  <2>9. Min(BrokenLinks(Exported)) \in BrokenLinks(Exported)
    BY <2>8 DEF Min
  <2> QED BY <2>6, <2>7, <2>9 DEF VerifyChain
<1> QED BY <1>2, <1>3

\* When the tail hash is that of a lost record, it is not that of the last
\* record there is, nor GENESIS.
LEMMA LostRecordShows ==
  ASSUME TypeOK, IsFiniteSet(DOMAIN records), NEW r, LostRecord(r)
  PROVE  ~EndsFit(Exported)
<1> DEFINE D == DOMAIN records
<1>1. ValueOr(kvTail, Genesis) = RecordHash(r) /\ RecordHash(r) # Genesis
  BY HashesDiffer DEF LostRecord
<1>2. CASE D = {}
  <2>1. Exported = <<>>
    BY <1>2, ExportIs
  <2> QED BY <1>1, <2>1 DEF EndsFit
<1>3. CASE D # {}
  <2>1. D \subseteq Nat
    BY DEF TypeOK
  <2>2. PICK p \in D : \A m \in D : m <= p
    BY <1>3, <2>1, Largest
  <2>3. Below(D, p) = D \ {p}
    <3>1. ASSUME NEW m \in D PROVE m < p <=> m # p
      BY <2>1, <2>2
    <3> QED BY <3>1 DEF Below
  <2>4. Cardinality(Below(D, p)) + 1 = Len(Exported)
    <3>1. Cardinality(D \ {p}) = Cardinality(D) - 1
      BY <2>2, FS_RemoveElement
    <3>2. Cardinality(D) \in Nat /\ Len(Exported) = Cardinality(D)
      BY ExportIs
    <3>3. Cardinality(Below(D, p)) = Cardinality(D) - 1
      BY <2>3, <3>1
    <3> HIDE DEF D
    <3> QED BY <3>2, <3>3
  <2>5. Exported[Len(Exported)] = records[p] /\ Exported # <<>>
    BY <1>3, <2>4, ExportIs
  <2>6. records[p] # r
    <3>1. p < r.seq /\ records[p].seq = p /\ r.seq \in Nat /\ p \in Nat
      BY <2>1 DEF LostRecord
    <3> QED BY <3>1
  <2>7. RecordHash(records[p]) # RecordHash(r)
    BY <2>6, HashesDiffer
  <2> QED BY <1>1, <2>5, <2>7 DEF EndsFit
<1> QED BY <1>2, <1>3

LEMMA LossInit == ASSUME Init PROVE LossInv
<1>1. DOMAIN records = {}
  BY DEF Init
<1>2. Healthy
  <2>1. \A c \in Calls : pc[c] = "idle"
    BY DEF Init
  <2> QED BY <2>1 DEF Healthy, RecordedBelow, Active, Running, Wrote
<1> QED BY <1>1, <1>2, FS_EmptySet DEF LossInv, OneFault

\* When calls do not overlap, a single fault loses no record silently, for
\* any number of calls.
THEOREM LossIsAlwaysEvident ==
  ASSUME MaxInstances = 1 PROVE Spec => []LossIsEvident
<1>1. TypeOK /\ LossInv => LossIsEvident
  <2> SUFFICES ASSUME TypeOK, LossInv, failed <= 1
               PROVE  Recorded \/ VerifyChain(Exported) # 0 \/ ~EndsFit(Exported)
    BY DEF LossIsEvident, Recorded
  <2>1. CASE Healthy
    BY <2>1 DEF Healthy, RecordedBelow, Recorded
  <2>2. CASE Restarting \/ LostSeq
    BY <2>2 DEF Restarting, LostSeq
  <2>3. ASSUME NEW r, LosingRecord(r) PROVE Recorded
    BY <2>3 DEF LosingRecord
  <2>4. ASSUME NEW r, LostRecord(r) PROVE ~EndsFit(Exported)
    BY <2>4, LostRecordShows DEF LossInv
  <2>5. ASSUME NEW n \in DOMAIN records, Scar(n)
        PROVE  VerifyChain(Exported) # 0 \/ ~EndsFit(Exported)
    BY <2>5, ScarShows DEF LossInv
  <2> QED BY <2>1, <2>2, <2>3, <2>4, <2>5 DEF LossInv, OneFault
<1>2. Init => LossInv
  BY LossInit
<1>3. TypeOK /\ TypeOK' /\ SerialInv /\ LossInv /\ [Next]_vars => LossInv'
  BY LossStep
<1> QED
  BY <1>1, <1>2, <1>3, TypeCorrect, SerialCorrect, PTL DEF Spec

=============================================================================
