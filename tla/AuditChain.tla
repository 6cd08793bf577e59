----------------------------- MODULE AuditChain -----------------------------
(* The audit-chain plugin (src/audit-chain/src/lib.rs). Each observed query *)
(* is one call of the post_query export, run in an instance of its own; the *)
(* instances share nothing but the plugin's namespace of the host's         *)
(* key-value store. A call reads "seq" and "tail_hash", builds a record     *)
(* that embeds the tail hash, and writes "record:<seq>", "tail_hash" and    *)
(* "seq": with the hash, six host calls, each one step here. Whether the    *)
(* host overlaps calls is up to MaxInstances.                               *)
EXTENDS Naturals, Sequences, FiniteSets, FiniteSetsExt

CONSTANTS Calls,         \* the post_query calls; a call names its envelope
          MaxInstances,  \* how many instances the host runs at a time
          MaxFailures    \* bound on the host imports that fail

ASSUME CallsAssumption == IsFiniteSet(Calls)
ASSUME InstancesAssumption == MaxInstances \in Nat \ {0}
ASSUME FailuresAssumption == MaxFailures \in Nat

VARIABLES pc,       \* pc[c]: the next host call of c
          lseq,     \* lseq[c]: `seq`, read from the store
          lprev,    \* lprev[c]: `prev`, read from the store
          lhash,    \* lhash[c]: `hash`, of the record c built
          kvSeq,    \* the key "seq": Absent or Some(number)
          kvTail,   \* the key "tail_hash": Absent or Some(hash)
          records,  \* the keys "record:<seq>", by their number
          failed    \* how many host imports have failed so far

locals == <<lseq, lprev, lhash>>
store  == <<kvSeq, kvTail, records>>
vars   == <<pc, lseq, lprev, lhash, kvSeq, kvTail, records, failed>>

-----------------------------------------------------------------------------
(* Values. *)

Absent == <<>>
Some(v) == <<v>>
ValueOr(option, default) == IF option = Absent THEN default ELSE option[1]

Genesis   == <<"GENESIS">>
HashError == <<"host-sha256-error">>

\* Bug: the hash covers the position of a record and not its content.
RecordHashOfPosition(r) == <<"sha256", r.seq, r.prev_hash>>

\* A record's hash names the record: SHA-256 is taken to be collision-free.
RecordHash(r) == <<"sha256", r>>

\* Every field copied from the envelope is folded into `event`.
BuildRecord(c, seq, prev) == [seq |-> seq, prev_hash |-> prev, event |-> c]

IsRecord(r) == r.event \in Calls /\ r = BuildRecord(r.event, r.seq, r.prev_hash)

\* The record call c builds from what it read.
Built(c) == BuildRecord(c, lseq[c], lprev[c])

\* Bug: the scan starts one pair late.
BrokenLinksFromSecond(s) ==
    {i \in 2 .. Len(s) - 1 : s[i + 1].prev_hash # RecordHash(s[i])}

\* The links of a chain that verify_chain finds broken, by the index it
\* returns for each (the zero-based position of the later record).
BrokenLinks(s) ==
    {i \in 1 .. Len(s) - 1 : s[i + 1].prev_hash # RecordHash(s[i])}

\* 0 stands for Ok(()), any other number n for Err(n).
VerifyChain(s) == IF BrokenLinks(s) = {} THEN 0 ELSE Min(BrokenLinks(s))

-----------------------------------------------------------------------------
Running == {"tail_hash", "hash", "record", "store_tail", "store_seq"}
Active  == {c \in Calls : pc[c] \in Running}

Init ==
    /\ pc = [c \in Calls |-> "idle"]
    /\ lseq = [c \in Calls |-> 0]
    /\ lprev = [c \in Calls |-> Genesis]
    /\ lhash = [c \in Calls |-> Genesis]
    /\ kvSeq = Absent
    /\ kvTail = Absent
    /\ records = [n \in {} |-> Genesis]
    /\ failed = 0

Goto(c, from, to) == pc[c] = from /\ pc' = [pc EXCEPT ![c] = to]

\* The outcome of one host call.
HostOk    == UNCHANGED failed
HostFails == failed < MaxFailures /\ failed' = failed + 1

\* The host has an instance free to run another call.
InstanceFree == Cardinality(Active) < MaxInstances

\* A payload that is not a PostQueryEnvelope: the hook returns 0 at once.
Reject(c) ==
    /\ InstanceFree
    /\ Goto(c, "idle", "rejected")
    /\ UNCHANGED <<locals, store, failed>>

\* Bug: the stored number is never recognised as one.
NextSeqUndecoded(c) ==
    /\ InstanceFree
    /\ Goto(c, "idle", "tail_hash")
    /\ HostOk
    /\ lseq' = [lseq EXCEPT ![c] = 0]
    /\ UNCHANGED <<lprev, lhash, store>>

\* next_seq(): an absent key and a failed read both count from 0.
NextSeq(c) ==
    /\ InstanceFree
    /\ Goto(c, "idle", "tail_hash")
    /\ \/ HostOk    /\ lseq' = [lseq EXCEPT ![c] = ValueOr(kvSeq, 0)]
       \/ HostFails /\ lseq' = [lseq EXCEPT ![c] = 0]
    /\ UNCHANGED <<lprev, lhash, store>>

\* tail_hash(): an absent key and a failed read both start a chain.
TailHash(c) ==
    /\ Goto(c, "tail_hash", "hash")
    /\ \/ HostOk    /\ lprev' = [lprev EXCEPT ![c] = ValueOr(kvTail, Genesis)]
       \/ HostFails /\ lprev' = [lprev EXCEPT ![c] = Genesis]
    /\ UNCHANGED <<lseq, lhash, store>>

\* build_record is pure; record_hash asks the host for the SHA-256.
HashRecord(c) ==
    /\ Goto(c, "hash", "record")
    /\ \/ /\ HostOk
          /\ lhash' = [lhash EXCEPT ![c] = RecordHash(Built(c))]
       \/ HostFails /\ lhash' = [lhash EXCEPT ![c] = HashError]
    /\ UNCHANGED <<lseq, lprev, store>>

\* kv_write drops the host's status: a write that failed is not retried, and
\* the hook goes on. The same holds of the two writes below.
WriteRecord(c) ==
    /\ Goto(c, "record", "store_tail")
    /\ \/ /\ HostOk
          /\ records' = [n \in DOMAIN records \cup {lseq[c]} |->
                            IF n = lseq[c] THEN Built(c) ELSE records[n]]
       \/ HostFails /\ UNCHANGED records
    /\ UNCHANGED <<locals, kvSeq, kvTail>>

\* Bug: the tail is set to the hash the record embeds, not to its own.
StorePrevHash(c) ==
    /\ Goto(c, "store_tail", "store_seq")
    /\ \/ HostOk    /\ kvTail' = Some(lprev[c])
       \/ HostFails /\ UNCHANGED kvTail
    /\ UNCHANGED <<locals, kvSeq, records>>

StoreTailHash(c) ==
    /\ Goto(c, "store_tail", "store_seq")
    /\ \/ HostOk    /\ kvTail' = Some(lhash[c])
       \/ HostFails /\ UNCHANGED kvTail
    /\ UNCHANGED <<locals, kvSeq, records>>

\* Bug: the stored number moves the wrong way.
StoreSeqBefore(c) ==
    /\ Goto(c, "store_seq", "done")
    /\ HostOk
    /\ kvSeq' = Some(lseq[c] - 1)
    /\ UNCHANGED <<locals, kvTail, records>>

\* Bug: the number just used is stored, not the next one.
StoreSameSeq(c) ==
    /\ Goto(c, "store_seq", "done")
    /\ \/ HostOk    /\ kvSeq' = Some(lseq[c])
       \/ HostFails /\ UNCHANGED kvSeq
    /\ UNCHANGED <<locals, kvTail, records>>

StoreSeq(c) ==
    /\ Goto(c, "store_seq", "done")
    /\ \/ HostOk    /\ kvSeq' = Some(lseq[c] + 1)
       \/ HostFails /\ UNCHANGED kvSeq
    /\ UNCHANGED <<locals, kvTail, records>>

\* The instance traps between two host calls; the host drops it and keeps
\* the store as it is.
Trap(c) ==
    /\ c \in Active
    /\ HostFails
    /\ pc' = [pc EXCEPT ![c] = "trapped"]
    /\ UNCHANGED <<locals, store>>

Next ==
    \E c \in Calls :
        \/ Reject(c)
        \/ NextSeq(c)
        \/ TailHash(c)
        \/ HashRecord(c)
        \/ WriteRecord(c)
        \/ StoreTailHash(c)
        \/ StoreSeq(c)
        \/ Trap(c)

Spec == Init /\ [][Next]_vars

-----------------------------------------------------------------------------
(* Properties.                                                              *)

\* Types of the variables, of the hashes only that they are sequences.
TypeOK ==
    /\ pc \in [Calls -> Running \cup {"idle", "done", "rejected", "trapped"}]
    /\ lseq \in [Calls -> Nat]
    /\ DOMAIN lprev = Calls /\ DOMAIN lhash = Calls
    /\ kvSeq # Absent => kvSeq = Some(kvSeq[1]) /\ kvSeq[1] \in Nat
    /\ DOMAIN records \subseteq Nat
    /\ \A n \in DOMAIN records : IsRecord(records[n])
    /\ failed \in 0 .. MaxFailures

NoFault == failed = 0

\* The number the next record gets, and the log up to it, oldest first.
Stored == ValueOr(kvSeq, 0)
Stream == [i \in 1 .. Stored |-> records[i - 1]]

\* The hash that record n must embed.
PrevOf(n) == IF n = 0 THEN Genesis ELSE RecordHash(records[n - 1])

\* The call in flight has written its record, and its tail hash.
RecordWritten == \E c \in Calls : pc[c] \in {"store_tail", "store_seq"}
TailWritten   == \E c \in Calls : pc[c] = "store_seq"

\* What makes the properties below inductive when calls do not overlap: how
\* far the store is ahead of "seq" is told by the call in flight, and that
\* call's copies of "seq" and "tail_hash" are still the stored ones.
SerialInv ==
    /\ \A c, d \in Active : c = d
    /\ NoFault =>
        /\ DOMAIN records = 0 .. (IF RecordWritten THEN Stored ELSE Stored - 1)
        /\ \A n \in DOMAIN records :
              records[n].seq = n /\ records[n].prev_hash = PrevOf(n)
        /\ ValueOr(kvTail, Genesis) =
              PrevOf(IF TailWritten THEN Stored + 1 ELSE Stored)
        /\ \A c \in Active : lseq[c] = Stored
        /\ \A c \in Calls :
              /\ pc[c] \in {"hash", "record"} => lprev[c] = PrevOf(Stored)
              /\ pc[c] = "record" => lhash[c] = RecordHash(Built(c))
              /\ pc[c] \in {"store_tail", "store_seq"} =>
                    /\ records[Stored].event = c
                    /\ lhash[c] = RecordHash(records[Stored])

\* As long as no host call has failed, record:0 .. record:<seq-1> all exist,
\* are numbered by their keys, start at GENESIS and pass verify_chain - also
\* in the middle of a call, when the three writes have landed only in part.
ChainIntact ==
    NoFault =>
        /\ 0 .. Stored - 1 \subseteq DOMAIN records
        /\ \A n \in 0 .. Stored - 1 : records[n].seq = n
        /\ Stored > 0 => Stream[1].prev_hash = Genesis
        /\ VerifyChain(Stream) = 0

\* A call that returned has left its record in the log, whatever was
\* recorded by the calls before and after it (no fault).
EveryQueryRecorded ==
    NoFault => \A c \in Calls :
        pc[c] = "done" => \E n \in 0 .. Stored - 1 : records[n].event = c

\* With working imports the plugin implements the append-only log: a record
\* enters it when "seq" moves past it, and never changes after that.
EventLog == IF NoFault THEN [i \in 1 .. Stored |-> Stream[i].event] ELSE <<>>
Abstract == INSTANCE AuditLog WITH Events <- Calls, log <- EventLog,
                                   broken <- ~NoFault
ImplementsAuditLog == Abstract!Spec

\* What an auditor lists from the store: the records, in key order.
Exported ==
    LET nth == [i \in 1 .. Cardinality(DOMAIN records) |->
                    CHOOSE n \in DOMAIN records :
                        Cardinality({m \in DOMAIN records : m < n}) = i - 1]
    IN  [i \in DOMAIN nth |-> records[nth[i]]]

\* The two ends of the chain fit: GENESIS before the first record, the
\* stored tail hash after the last one.
EndsFit(s) ==
    LET tail == ValueOr(kvTail, Genesis)
    IN  IF s = <<>> THEN tail = Genesis
        ELSE s[1].prev_hash = Genesis /\ RecordHash(s[Len(s)]) = tail

\* One fault cannot lose a record silently: when a call returned and its
\* record is not in the store, verify_chain fails on what is left, or one of
\* the ends of the chain does not fit. (verify_chain alone is not enough: it
\* looks at neither end.)
LossIsEvident ==
    failed <= 1 => \A c \in Calls :
        pc[c] = "done" =>
            \/ \E n \in DOMAIN records : records[n].event = c
            \/ VerifyChain(Exported) # 0
            \/ ~EndsFit(Exported)

\* The same chain with the event of record n rewritten.
Tampered(s, n, e) == [s EXCEPT ![n].event = e]

\* Rewriting any record but the last one, in a log written without faults,
\* is reported by verify_chain at exactly the link after that record.
TamperEvident ==
    NoFault => \A n \in 1 .. Stored - 1 : \A e \in Calls :
        e # Stream[n].event => VerifyChain(Tampered(Stream, n, e)) = n

\* Each record embeds the hash of the record before it, as the module doc
\* says of the log; asked only while no call is in flight.
EachRecordEmbedsPrevious ==
    NoFault /\ Active = {} => VerifyChain(Exported) = 0
=============================================================================
