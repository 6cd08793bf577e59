----------------------------- MODULE PluginAbi ------------------------------
(* How a hook call passes bytes (src/abi/src/lib.rs). The host asks the     *)
(* instance for a slot with alloc, writes the payload into it and calls the *)
(* hook with the slot's address and length; the hook copies its result into *)
(* a second slot and returns both numbers packed into one i64; the host     *)
(* unpacks and reads it. alloc only moves a bump pointer: it neither looks  *)
(* at the size of linear memory nor grows it, and it knows nothing of the   *)
(* stack, the data and the heap of the module, which live in the same       *)
(* memory. The host drops the instance's store after each call. An address  *)
(* and a length are i32; arithmetic wraps, as in the release profile.       *)
EXTENDS Integers, FiniteSets

CONSTANTS Half,          \* 2^31, half the values of an i32
          BumpStart,     \* 65 536, the first slot of a call
          ProgramStart,  \* where the module's own memory begins above it
          Page,          \* 65 536, the step in which memory grows
          InitSize,      \* linear memory of a fresh instance
          MaxSize        \* max_memory of the plugin's manifest

ASSUME WidthAssumption == Half \in Nat /\ Half >= 8 /\ Half % 8 = 0
ASSUME LayoutAssumption ==
    /\ BumpStart \in Nat /\ BumpStart % 8 = 0
    /\ ProgramStart \in Nat /\ BumpStart <= ProgramStart
    /\ InitSize \in Nat /\ ProgramStart <= InitSize
    /\ MaxSize \in Nat /\ InitSize <= MaxSize /\ MaxSize + 8 <= Half
    /\ Page \in Nat \ {0}

VARIABLES pc,      \* where the call is
          size,    \* bytes of linear memory
          memory,  \* memory[a]: who wrote the byte at address a last
          bump,    \* __HELIOS_BUMP
          input,   \* the slot of the payload
          output,  \* the slot of the result
          packed,  \* what the hook returned
          got      \* the slot the host unpacked from it

vars == <<pc, size, memory, bump, input, output, packed, got>>

-----------------------------------------------------------------------------
Word    == 2 * Half
I32     == -Half .. Half - 1
Length  == 0 .. Half - 1
Address == 0 .. MaxSize - 1
Slot    == [ptr : I32, len : Length]
NoSlot  == [ptr |-> 0, len |-> 0]

\* The i32 that is left of an integer, and the address an i32 stands for.
Wrap(x)     == ((x + Half) % Word) - Half
Unsigned(x) == x % Word

\* Bug: a size that is a multiple of 8 already is rounded up as well.
AlignedPast(len) == LET s == Wrap(len + 8) IN s - (s % 8)

\* (size + 7) & !7, in i32.
Aligned(len) == LET s == Wrap(len + 7) IN s - (s % 8)

\* Bug: the pointer does not wrap.
BumpedWide(b, len) == b + Aligned(len)

\* Bug: the pointer stays where it is.
BumpedNot(b, len) == b

\* Where alloc leaves the bump pointer; the slot begins where it was.
Bumped(b, len) == Wrap(b + Aligned(len))

\* (ptr << 32) | (len & 0xFFFF_FFFF), and the host's way back.
Pack(ptr, len) == ptr * Word + Unsigned(len)
UnpackPtr(p)   == p \div Word
UnpackLen(p)   == p % Word

\* The addresses of a slot, and whether all are in memory (the checks of
\* the host's writes and reads and of the wasm machine).
Cells(s) == Unsigned(s.ptr) .. Unsigned(s.ptr) + s.len - 1
Fits(s)  == Unsigned(s.ptr) + s.len <= size

\* Bug: the padding is read as part of the payload.
ReadArgsPadded(s) == IF s.len <= 0 THEN {} ELSE Cells([s EXCEPT !.len = Aligned(@)])

\* read_args: what the hook sees of its arguments.
ReadArgs(s) == IF s.len <= 0 THEN {} ELSE Cells(s)

\* The module's own memory: all of it but the gap alloc hands out.
Program(n) == {a \in 0 .. n - 1 : a < BumpStart \/ a >= ProgramStart}
Spares(s)  == Cells(s) \cap Program(size) = {}

Filled(s, who) == [a \in Address |-> IF a \in Cells(s) THEN who ELSE memory[a]]

-----------------------------------------------------------------------------
FreshMemory ==
    [a \in Address |-> IF a \in Program(InitSize) THEN "program" ELSE "free"]

Init ==
    /\ pc = "idle"
    /\ size = InitSize
    /\ memory = FreshMemory
    /\ bump = BumpStart
    /\ input = NoSlot
    /\ output = NoSlot
    /\ packed = 0
    /\ got = NoSlot

Goto(from, to) == pc = from /\ pc' = to

\* The host asks for a slot for its payload ...
AllocArgs(len) ==
    /\ Goto("idle", "args")
    /\ input' = [ptr |-> bump, len |-> len]
    /\ bump' = Bumped(bump, len)
    /\ UNCHANGED <<size, memory, output, packed, got>>

\* ... writes it there, perhaps over the module's own memory, after which
\* the call may do anything ...
WriteArgs ==
    /\ Fits(input)
    /\ Goto("args", IF Spares(input) THEN "hook" ELSE "corrupt")
    /\ memory' = Filled(input, "input")
    /\ UNCHANGED <<size, bump, input, output, packed, got>>

\* ... or gives up when the slot is not in memory.
WriteArgsFails ==
    /\ ~Fits(input)
    /\ Goto("args", "failed")
    /\ UNCHANGED <<size, memory, bump, input, output, packed, got>>

\* The hook's own allocations grow the memory at its end.
Grow ==
    /\ Goto("hook", "hook")
    /\ size + Page <= MaxSize
    /\ size' = size + Page
    /\ memory' = [a \in Address |->
                    IF a \in size .. size + Page - 1 THEN "program" ELSE memory[a]]
    /\ UNCHANGED <<bump, input, output, packed, got>>

\* Bug: an empty result is given a slot of its own.
ReturnEmptySlot ==
    /\ Goto("hook", "returned")
    /\ packed' = Pack(bump, 0)
    /\ UNCHANGED <<size, memory, bump, input, output, got>>

\* write_result of nothing, also the answer to a payload that does not parse.
ReturnEmpty ==
    /\ Goto("hook", "returned")
    /\ packed' = 0
    /\ UNCHANGED <<size, memory, bump, input, output, got>>

\* write_result: a slot for the result, whether there is room or not ...
AllocResult(len) ==
    /\ len > 0
    /\ output' = [ptr |-> bump, len |-> len]
    /\ bump' = Bumped(bump, len)
    /\ UNCHANGED <<size, input, got>>

\* ... the copy, perhaps over the module's own memory, and the packing ...
Return(len) ==
    LET slot == [ptr |-> bump, len |-> len]
    IN  /\ AllocResult(len)
        /\ Fits(slot)
        /\ Goto("hook", IF Spares(slot) THEN "returned" ELSE "corrupt")
        /\ memory' = Filled(slot, "output")
        /\ packed' = Pack(slot.ptr, slot.len)

\* ... or a trap in the copy.
ReturnTraps(len) ==
    /\ AllocResult(len)
    /\ ~Fits([ptr |-> bump, len |-> len])
    /\ Goto("hook", "failed")
    /\ UNCHANGED <<memory, packed>>

\* The host takes 0 for no result ...
DecodeNone ==
    /\ packed = 0
    /\ Goto("returned", "none")
    /\ UNCHANGED <<size, memory, bump, input, output, packed, got>>

\* ... and anything else for a slot, which it reads ...
Decode ==
    LET slot == [ptr |-> UnpackPtr(packed), len |-> UnpackLen(packed)]
    IN  /\ packed # 0
        /\ Goto("returned", IF Fits(slot) THEN "result" ELSE "failed")
        /\ got' = slot
        /\ UNCHANGED <<size, memory, bump, input, output, packed>>

\* ... and frees: dealloc does nothing.
Dealloc ==
    /\ Goto("result", "freed")
    /\ UNCHANGED <<size, memory, bump, input, output, packed, got>>

\* The store is dropped with the call; the next one has a fresh instance.
Drop ==
    /\ pc \in {"none", "freed", "failed", "corrupt"}
    /\ pc' = "idle"
    /\ size' = InitSize
    /\ memory' = FreshMemory
    /\ bump' = BumpStart
    /\ input' = NoSlot
    /\ output' = NoSlot
    /\ packed' = 0
    /\ got' = NoSlot

Next ==
    \/ \E len \in Length : AllocArgs(len) \/ Return(len) \/ ReturnTraps(len)
    \/ WriteArgs \/ WriteArgsFails
    \/ Grow
    \/ ReturnEmpty
    \/ DecodeNone \/ Decode
    \/ Dealloc
    \/ Drop

Spec == Init /\ [][Next]_vars

-----------------------------------------------------------------------------
(* Properties.                                                              *)

Stages == {"idle", "args", "hook", "returned", "none", "result", "freed",
           "failed", "corrupt"}

\* Types of the variables.
TypeOK ==
    /\ pc \in Stages
    /\ size \in InitSize .. MaxSize
    /\ memory \in [Address -> {"free", "program", "input", "output"}]
    /\ bump \in I32
    /\ input \in Slot
    /\ output \in Slot
    /\ packed \in Int
    /\ got \in Slot

Holds(s, who) == \A a \in Cells(s) : a \in Address /\ memory[a] = who

\* What makes the properties below inductive: how the slots lie, and that
\* neither has been written over.
SlotsInv ==
    /\ pc = "idle" => bump = BumpStart /\ input = NoSlot
    /\ pc # "idle" => input.ptr = BumpStart
    /\ pc \in {"idle", "args", "hook", "none"} => output = NoSlot
    /\ pc = "args" => bump = Bumped(BumpStart, input.len)
    /\ pc \in {"hook", "returned", "none", "result", "freed"} =>
          BumpStart + input.len <= size /\ Spares(input) /\ Holds(input, "input")
    /\ pc = "hook" => bump = BumpStart + Aligned(input.len)
    /\ pc = "returned" =>
          \/ output = NoSlot /\ packed = 0
          \/ output.len > 0 /\ packed = Pack(output.ptr, output.len)
    /\ pc \in {"result", "freed"} => output.len > 0 /\ got = output
    /\ pc \in {"returned", "result", "freed"} /\ output # NoSlot =>
          /\ BumpStart <= output.ptr /\ output.ptr + output.len <= size
          /\ Holds(output, "output")

\* The hook reads the payload and nothing else: while it runs its arguments
\* are as many bytes as the host wrote, and all of them the host's.
ArgsIntact ==
    pc = "hook" =>
        /\ Cardinality(ReadArgs(input)) = input.len
        /\ \A a \in ReadArgs(input) : a \in Address /\ memory[a] = "input"

\* The host reads the result and nothing else: the slot it unpacks is the
\* one the hook filled, no byte of it is the payload's, and the payload that
\* the host frees last is whole.
ResultIntact ==
    pc \in {"result", "freed"} =>
        /\ got = output
        /\ Holds(got, "output")
        /\ Holds(input, "input")

\* The host sees a result exactly when the hook had one: a slot never packs
\* to 0, and an empty answer never to a slot.
NoneIsEmpty ==
    /\ pc = "none" => output.len = 0
    /\ pc \in {"result", "freed"} => got.len > 0

RoundedUp(len) == 8 * ((len + 7) \div 8)

\* Without any check in alloc, what is safe is what is small: a call whose
\* payload, rounded up to 8, and result fit into the gap below the module's
\* own memory neither fails nor writes over that memory.
RoomSuffices ==
    RoundedUp(input.len) + output.len <= ProgramStart - BumpStart =>
        pc \notin {"failed", "corrupt"}
=============================================================================
