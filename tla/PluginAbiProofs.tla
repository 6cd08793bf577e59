-------------------------- MODULE PluginAbiProofs ---------------------------
(* What PluginAbi.tla states, proved for words, layouts and lengths of any  *)
(* size. No check in alloc protects a slot: what keeps the slots apart is   *)
(* that a payload can only be written within linear memory, which is far    *)
(* smaller than half a word, so that the pointer behind it has not wrapped. *)
EXTENDS PluginAbi, FiniteSetTheorems, TLAPS

-----------------------------------------------------------------------------
(* Arithmetic of words.                                                     *)

LEMMA ModSmall == ASSUME NEW a \in Nat, NEW b \in Nat, a < b PROVE a % b = a
  BY SMTT(20)

LEMMA DivMod == ASSUME NEW q \in Int, NEW b \in Nat \ {0}, NEW r \in 0 .. b - 1
                PROVE (q * b + r) \div b = q /\ (q * b + r) % b = r
  BY Z3T(20)

LEMMA ModRange == ASSUME NEW a \in Int, NEW b \in Nat \ {0} PROVE a % b \in 0 .. b - 1
  BY SMTT(20)

LEMMA WordTypes == Half \in Nat /\ Half >= 8 /\ Word \in Nat \ {0} /\ Word = 2 * Half
  BY WidthAssumption DEF Word

LEMMA WrapType == ASSUME NEW x \in Int PROVE Wrap(x) \in I32
  <1>1. (x + Half) % Word \in 0 .. Word - 1
    BY ModRange, WordTypes
  <1> QED BY <1>1, WordTypes DEF Wrap, I32

\* Half + Half is a word: an i32 is its own remainder.
LEMMA WrapSmall == ASSUME NEW x \in I32 PROVE Wrap(x) = x
  <1>1. x + Half \in Nat /\ x + Half < Word
    BY WordTypes DEF I32
  <1>2. (x + Half) % Word = x + Half
    BY <1>1, ModSmall, WordTypes
  <1> QED BY <1>2, WordTypes DEF Wrap, I32

LEMMA UnsignedSmall == ASSUME NEW x \in Nat, x < Half PROVE Unsigned(x) = x
  BY ModSmall, WordTypes DEF Unsigned

LEMMA UnsignedType == ASSUME NEW x \in Int PROVE Unsigned(x) \in Nat
  BY ModRange, WordTypes DEF Unsigned

LEMMA AlignedType == ASSUME NEW len \in Int PROVE Aligned(len) \in Int
  BY WrapType, WordTypes DEF Aligned, I32

\* Rounding up: as long as len + 7 is an i32, at least len and less than 8 more.
LEMMA AlignedBounds ==
    ASSUME NEW len \in Nat, len + 8 <= Half PROVE Aligned(len) \in len .. len + 7
  <1>1. Wrap(len + 7) = len + 7
    BY WrapSmall, WordTypes DEF I32
  <1>2. (len + 7) % 8 \in 0 .. 7
    BY ModRange
  <1> QED BY <1>1, <1>2 DEF Aligned

LEMMA RoundedUpIs ==
    ASSUME NEW len \in Nat
    PROVE RoundedUp(len) = len + 7 - ((len + 7) % 8) /\ RoundedUp(len) >= len
  <1> DEFINE n == len + 7
  <1>1. n = 8 * (n \div 8) + (n % 8)
    BY SMTT(20)
  <1>2. n % 8 \in 0 .. 7 /\ n \div 8 \in Int /\ n \in Nat
    BY ModRange
  <1>3. n - (n % 8) = 8 * (n \div 8) /\ n - (n % 8) >= n - 7
    <2> HIDE DEF n
    <2> QED BY <1>1, <1>2
  <1> QED BY <1>2, <1>3 DEF RoundedUp

LEMMA AlignedIsRoundedUp ==
    ASSUME NEW len \in Nat, len + 8 <= Half PROVE Aligned(len) = RoundedUp(len)
  <1>1. Wrap(len + 7) = len + 7
    BY WrapSmall, WordTypes DEF I32
  <1>2. Aligned(len) = (len + 7) - ((len + 7) % 8)
    BY <1>1 DEF Aligned
  <1>3. RoundedUp(len) = (len + 7) - ((len + 7) % 8)
    BY RoundedUpIs
  <1> QED BY <1>2, <1>3

\* So the pointer behind a payload that is in memory has not wrapped.
LEMMA BumpedArgs ==
    ASSUME NEW len \in Nat, BumpStart + len <= MaxSize
    PROVE Bumped(BumpStart, len) = BumpStart + Aligned(len)
  <1>1. Aligned(len) \in len .. len + 7
    BY AlignedBounds, WordTypes, LayoutAssumption
  <1>2. BumpStart + Aligned(len) \in I32
    BY <1>1, WordTypes, LayoutAssumption DEF I32
  <1> QED BY <1>2, WrapSmall DEF Bumped

\* Whatever the pointer and the length, the host unpacks what was packed:
\* neither number spills into the other.
THEOREM UnpackPack ==
    ASSUME NEW ptr \in I32, NEW len \in Length
    PROVE /\ UnpackPtr(Pack(ptr, len)) = ptr
          /\ UnpackLen(Pack(ptr, len)) = len
  <1>1. Unsigned(len) = len /\ len \in 0 .. Word - 1
    BY UnsignedSmall, WordTypes DEF Length
  <1>2. ptr \in Int
    BY WordTypes DEF I32
  <1> QED BY <1>1, <1>2, DivMod, WordTypes DEF Pack, UnpackPtr, UnpackLen

\* A slot never packs to 0, the answer for no result.
THEOREM SlotIsNotNone ==
    ASSUME NEW ptr \in I32, NEW len \in Length, len > 0 PROVE Pack(ptr, len) # 0
  <1>1. UnpackLen(Pack(ptr, len)) = len
    BY UnpackPack
  <1>2. UnpackLen(0) = 0
    BY ModSmall, WordTypes DEF UnpackLen
  <1> QED BY <1>1, <1>2

LEMMA PackType ==
    ASSUME NEW ptr \in I32, NEW len \in Length PROVE Pack(ptr, len) \in Int
  <1>1. ptr \in Int /\ len \in Int
    BY WordTypes DEF I32, Length
  <1>2. Unsigned(len) \in Int
    BY <1>1, UnsignedType
  <1> QED BY <1>1, <1>2, WordTypes DEF Pack
-----------------------------------------------------------------------------
(* The invariant of the slots.                                              *)

LEMMA LayoutTypes ==
    /\ BumpStart \in Nat /\ ProgramStart \in Nat /\ InitSize \in Nat /\ MaxSize \in Nat
    /\ BumpStart <= ProgramStart /\ ProgramStart <= InitSize /\ InitSize <= MaxSize
    /\ MaxSize + 8 <= Half /\ Page \in Nat \ {0} /\ BumpStart \in I32
  BY LayoutAssumption, WordTypes DEF I32

\* A slot of an address that is no larger than memory lies where its i32 says.
LEMMA CellsOfSlot ==
    ASSUME NEW s, s.ptr \in Nat, s.ptr < Half
    PROVE /\ Cells(s) = s.ptr .. s.ptr + s.len - 1
          /\ Fits(s) <=> s.ptr + s.len <= size
  <1>1. Unsigned(s.ptr) = s.ptr
    BY UnsignedSmall
  <1> QED BY <1>1 DEF Cells, Fits

LEMMA InitCorrect == Init => TypeOK /\ SlotsInv
  <1> SUFFICES ASSUME Init PROVE TypeOK /\ SlotsInv
    OBVIOUS
  <1>1. NoSlot \in Slot
    BY WordTypes DEF NoSlot, Slot, I32, Length
  <1>2. TypeOK
    BY <1>1, LayoutTypes DEF Init, TypeOK, Stages, FreshMemory
  <1>3. SlotsInv
    BY DEF Init, SlotsInv
  <1> QED BY <1>2, <1>3

LEMMA AllocArgsCorrect ==
    ASSUME TypeOK, SlotsInv, NEW len \in Length, AllocArgs(len)
    PROVE (TypeOK /\ SlotsInv)'
  <1>1. bump' \in I32
    BY LayoutTypes, AlignedType, WrapType, WordTypes
    DEF AllocArgs, Bumped, TypeOK, I32, Length
  <1>2. TypeOK'
    BY <1>1 DEF TypeOK, AllocArgs, Goto, Stages, Slot
  <1>3. SlotsInv'
    BY DEF SlotsInv, AllocArgs, Goto
  <1> QED BY <1>2, <1>3

LEMMA FilledType ==
    ASSUME TypeOK, NEW s, NEW who \in {"input", "output"}
    PROVE Filled(s, who) \in [Address -> {"free", "program", "input", "output"}]
  BY DEF Filled, TypeOK

LEMMA WriteArgsCorrect ==
    ASSUME TypeOK, SlotsInv, WriteArgs PROVE (TypeOK /\ SlotsInv)'
  <1>1. input.ptr = BumpStart /\ input.len \in Nat
    BY WordTypes DEF WriteArgs, Goto, SlotsInv, TypeOK, Slot, Length
  <1>2. /\ Cells(input) = BumpStart .. BumpStart + input.len - 1
        /\ BumpStart + input.len <= size
    BY <1>1, CellsOfSlot, LayoutTypes, WordTypes DEF WriteArgs
  <1>3. bump = BumpStart + Aligned(input.len)
    BY <1>1, <1>2, BumpedArgs, LayoutTypes DEF WriteArgs, Goto, SlotsInv, TypeOK
  <1>4. TypeOK'
    BY FilledType DEF TypeOK, WriteArgs, Goto, Stages
  <1>5. \A a \in Cells(input) : a \in Address /\ memory'[a] = "input"
    BY <1>1, <1>2, LayoutTypes DEF WriteArgs, Filled, Address, TypeOK
  <1>6. pc' \in {"hook", "corrupt"} /\ (pc' = "hook" => Spares(input))
    BY DEF WriteArgs, Goto
  <1>7. output' = NoSlot
    BY DEF WriteArgs, Goto, SlotsInv
  <1>8. Holds(input, "input")' /\ (Spares(input) => Spares(input)')
    BY <1>5 DEF Holds, WriteArgs, Cells, Spares, Program
  <1>9. UNCHANGED <<input, bump, size>>
    BY DEF WriteArgs
  <1>10. SlotsInv'
    BY <1>1, <1>2, <1>3, <1>6, <1>7, <1>8, <1>9 DEF SlotsInv
  <1> QED BY <1>4, <1>10

LEMMA GrowCorrect ==
    ASSUME TypeOK, SlotsInv, Grow PROVE (TypeOK /\ SlotsInv)'
  <1>1. pc = "hook" /\ pc' = "hook" /\ UNCHANGED <<bump, input, output, packed, got>>
    BY DEF Grow, Goto
  <1>2. size' \in InitSize .. MaxSize /\ size' > size
    BY LayoutTypes DEF Grow, TypeOK
  <1>3. TypeOK'
    BY <1>1, <1>2 DEF TypeOK, Grow
  <1>4. input.ptr = BumpStart /\ input.len \in Nat
    BY <1>1, WordTypes DEF SlotsInv, TypeOK, Slot, Length
  <1>5. Cells(input) = BumpStart .. BumpStart + input.len - 1
    BY <1>4, CellsOfSlot, LayoutTypes, WordTypes
  <1>6. \A a \in Cells(input) : a \in Nat /\ a < size
    BY <1>1, <1>4, <1>5, LayoutTypes DEF SlotsInv, TypeOK
  <1>7. Holds(input, "input")'
    BY <1>1, <1>6, LayoutTypes DEF Holds, SlotsInv, Grow, Cells, TypeOK
  <1>8. Spares(input)'
    BY <1>1, <1>2, <1>6, LayoutTypes DEF Spares, Program, SlotsInv, Cells, TypeOK
  <1>9. SlotsInv'
    BY <1>1, <1>2, <1>4, <1>7, <1>8, LayoutTypes DEF SlotsInv, TypeOK
  <1> QED BY <1>3, <1>9

LEMMA AllocResultType ==
    ASSUME TypeOK, NEW len \in Length, AllocResult(len)
    PROVE bump' \in I32 /\ output' \in Slot
  <1>1. bump \in Int /\ len \in Int
    BY WordTypes DEF TypeOK, I32, Length
  <1>2. Bumped(bump, len) \in I32
    BY <1>1, AlignedType, WrapType DEF Bumped
  <1> QED BY <1>2 DEF AllocResult, TypeOK, Slot

LEMMA ReturnCorrect ==
    ASSUME TypeOK, SlotsInv, NEW len \in Length, Return(len)
    PROVE (TypeOK /\ SlotsInv)'
  <1> DEFINE slot == [ptr |-> bump, len |-> len]
  <1>1. /\ pc = "hook" /\ len > 0 /\ output' = slot /\ Fits(slot)
        /\ pc' \in {"returned", "corrupt"} /\ memory' = Filled(slot, "output")
        /\ packed' = Pack(bump, len) /\ UNCHANGED <<size, input, got>>
    BY DEF Return, AllocResult, Goto
  <1>2. input.ptr = BumpStart /\ input.len \in Nat /\ len \in Nat
    BY <1>1, WordTypes DEF SlotsInv, TypeOK, Slot, Length
  <1>3. BumpStart + input.len <= size /\ size \in Nat /\ size <= MaxSize
    BY <1>1, LayoutTypes DEF SlotsInv, TypeOK
  <1>4. Aligned(input.len) \in input.len .. input.len + 7
    BY <1>2, <1>3, AlignedBounds, LayoutTypes, WordTypes
  <1>5. bump \in Nat /\ BumpStart + input.len <= bump /\ bump < Half
    BY <1>1, <1>2, <1>3, <1>4, LayoutTypes, WordTypes DEF SlotsInv
  <1>6. Cells(slot) = bump .. bump + len - 1 /\ bump + len <= size
    BY <1>1, <1>2, <1>5, CellsOfSlot
  <1>7. Cells(input) = BumpStart .. BumpStart + input.len - 1
    BY <1>2, CellsOfSlot, LayoutTypes, WordTypes
  <1>8. TypeOK'
    <2>1. bump' \in I32 /\ output' \in Slot
      BY AllocResultType DEF Return
    <2>2. packed' \in Int
      BY <1>1, PackType DEF TypeOK
    <2> QED BY <2>1, <2>2, <1>1, FilledType DEF TypeOK, Stages
  <1>9. Holds(output, "output")'
    <2>1. Cells(output)' = bump .. bump + len - 1
      BY <1>1, <1>6 DEF Cells
    <2>2. \A a \in bump .. bump + len - 1 : a \in Address /\ memory'[a] = "output"
      BY <1>1, <1>2, <1>3, <1>5, <1>6, LayoutTypes DEF Filled, Address
    <2> QED BY <2>1, <2>2 DEF Holds
  <1>10. Holds(input, "input")'
    <2>1. \A a \in Cells(input) : a \in Address /\ memory[a] = "input" /\ a \notin Cells(slot)
      BY <1>1, <1>2, <1>5, <1>6, <1>7, LayoutTypes DEF SlotsInv, Holds
    <2> QED BY <2>1, <1>1 DEF Filled, Holds, Cells
  <1>11. Spares(input)'
    BY <1>1 DEF SlotsInv, Spares, Cells, Program
  <1>12. BumpStart <= bump
    BY <1>2, <1>5, LayoutTypes
  <1>13. output'.ptr = bump /\ output'.len = len
    BY <1>1
  <1>14. SlotsInv'
    BY <1>1, <1>2, <1>3, <1>6, <1>9, <1>10, <1>11, <1>12, <1>13 DEF SlotsInv
  <1> QED BY <1>8, <1>14

LEMMA DecodeCorrect ==
    ASSUME TypeOK, SlotsInv, Decode PROVE (TypeOK /\ SlotsInv)'
  <1>1. /\ pc = "returned" /\ packed # 0 /\ pc' \in {"result", "failed"}
        /\ UNCHANGED <<size, memory, bump, input, output, packed>>
        /\ got' = [ptr |-> UnpackPtr(packed), len |-> UnpackLen(packed)]
    BY DEF Decode, Goto
  <1>2. output.len > 0 /\ packed = Pack(output.ptr, output.len)
    BY <1>1 DEF SlotsInv
  <1>3. /\ output.ptr \in I32 /\ output.len \in Length
        /\ output = [ptr |-> output.ptr, len |-> output.len]
    BY DEF TypeOK, Slot
  <1>4. UnpackPtr(packed) = output.ptr /\ UnpackLen(packed) = output.len
    BY <1>2, <1>3, UnpackPack
  <1>5. got' = output
    BY <1>1, <1>3, <1>4
  <1>6. TypeOK'
    BY <1>1, <1>5 DEF TypeOK, Stages
  <1>7. /\ Spares(input)' = Spares(input) /\ Holds(input, "input")' = Holds(input, "input")
        /\ Holds(output, "output")' = Holds(output, "output")
    BY <1>1 DEF Spares, Holds, Cells, Program
  <1>8. SlotsInv'
    BY <1>1, <1>2, <1>5, <1>7 DEF SlotsInv
  <1> QED BY <1>6, <1>8

LEMMA OtherStepsCorrect ==
    ASSUME TypeOK, SlotsInv,
           \/ WriteArgsFails
           \/ \E len \in Length : ReturnTraps(len)
           \/ ReturnEmpty
           \/ DecodeNone
           \/ Dealloc
           \/ UNCHANGED vars
    PROVE (TypeOK /\ SlotsInv)'
  <1>1. CASE WriteArgsFails
    BY <1>1 DEF WriteArgsFails, Goto, TypeOK, Stages, SlotsInv
  <1>2. CASE \E len \in Length : ReturnTraps(len)
    <2> PICK len \in Length : ReturnTraps(len)
      BY <1>2
    <2>1. bump' \in I32 /\ output' \in Slot
      BY AllocResultType DEF ReturnTraps
    <2>2. TypeOK'
      BY <2>1 DEF ReturnTraps, AllocResult, Goto, TypeOK, Stages
    <2>3. SlotsInv'
      BY DEF ReturnTraps, AllocResult, Goto, SlotsInv
    <2> QED BY <2>2, <2>3
  <1>3. CASE ReturnEmpty \/ DecodeNone \/ Dealloc \/ UNCHANGED vars
    <2>1. UNCHANGED <<size, memory, bump, input, output, got>>
      BY <1>3 DEF ReturnEmpty, DecodeNone, Dealloc, vars
    <2>2. /\ Spares(input)' = Spares(input) /\ Holds(input, "input")' = Holds(input, "input")
          /\ Holds(output, "output")' = Holds(output, "output")
      BY <2>1 DEF Spares, Holds, Cells, Program
    <2>3. TypeOK'
      BY <1>3, <2>1 DEF ReturnEmpty, DecodeNone, Dealloc, vars, Goto, TypeOK, Stages
    <2>4. ASSUME ReturnEmpty PROVE SlotsInv'
      BY <2>1, <2>2, <2>4 DEF ReturnEmpty, Goto, SlotsInv
    <2>5. ASSUME DecodeNone PROVE SlotsInv'
      <3>1. output = NoSlot
        BY <2>5, SlotIsNotNone DEF DecodeNone, Goto, SlotsInv, TypeOK, Slot
      <3> QED BY <2>1, <2>2, <2>5, <3>1 DEF DecodeNone, Goto, SlotsInv
    <2>6. ASSUME Dealloc PROVE SlotsInv'
      BY <2>1, <2>2, <2>6 DEF Dealloc, Goto, SlotsInv
    <2>7. ASSUME UNCHANGED vars PROVE SlotsInv'
      BY <2>1, <2>2, <2>7 DEF vars, SlotsInv
    <2> QED BY <1>3, <2>3, <2>4, <2>5, <2>6, <2>7
  <1> QED BY <1>1, <1>2, <1>3

LEMMA DropCorrect == ASSUME TypeOK, SlotsInv, Drop PROVE (TypeOK /\ SlotsInv)'
  <1>1. NoSlot \in Slot
    BY WordTypes DEF NoSlot, Slot, I32, Length
  <1>2. TypeOK'
    BY <1>1, LayoutTypes DEF Drop, TypeOK, Stages, FreshMemory
  <1>3. SlotsInv'
    BY DEF Drop, SlotsInv
  <1> QED BY <1>2, <1>3

LEMMA StepCorrect == TypeOK /\ SlotsInv /\ [Next]_vars => (TypeOK /\ SlotsInv)'
  BY AllocArgsCorrect, WriteArgsCorrect, GrowCorrect, ReturnCorrect, DecodeCorrect,
     OtherStepsCorrect, DropCorrect DEF Next

\* The slots of a call lie in memory, apart, in the order they were asked
\* for, and hold what was written to them.
THEOREM SlotsCorrect == Spec => [](TypeOK /\ SlotsInv)
  BY InitCorrect, StepCorrect, PTL DEF Spec

THEOREM TypeCorrect == Spec => []TypeOK
  BY SlotsCorrect, PTL
-----------------------------------------------------------------------------
(* The properties.                                                          *)

\* The hook reads the payload and nothing else.
THEOREM ArgsAreIntact == Spec => []ArgsIntact
  <1>1. TypeOK /\ SlotsInv => ArgsIntact
    <2> SUFFICES ASSUME TypeOK, SlotsInv, pc = "hook"
                 PROVE /\ Cardinality(ReadArgs(input)) = input.len
                       /\ \A a \in ReadArgs(input) : a \in Address /\ memory[a] = "input"
      BY DEF ArgsIntact
    <2>1. input.ptr = BumpStart /\ input.len \in Nat
      BY WordTypes DEF SlotsInv, TypeOK, Slot, Length
    <2>2. Cells(input) = BumpStart .. BumpStart + input.len - 1
      BY <2>1, CellsOfSlot, LayoutTypes, WordTypes
    <2>3. CASE input.len = 0
      <3>1. ReadArgs(input) = {}
        BY <2>3 DEF ReadArgs
      <3> QED BY <2>3, <3>1, FS_EmptySet
    <2>4. CASE input.len > 0
      <3>1. ReadArgs(input) = Cells(input)
        BY <2>1, <2>4 DEF ReadArgs
      <3>2. Cardinality(BumpStart .. BumpStart + input.len - 1) = input.len
        <4> DEFINE last == BumpStart + input.len - 1
        <4>1. last \in Int /\ BumpStart \in Int /\ last >= BumpStart
              /\ last - BumpStart + 1 = input.len
          BY <2>1, <2>4, LayoutTypes
        <4> HIDE DEF last
        <4>2. Cardinality(BumpStart .. last) = last - BumpStart + 1
          BY <4>1, FS_Interval
        <4> QED BY <4>1, <4>2 DEF last
      <3> QED BY <2>2, <3>1, <3>2 DEF SlotsInv, Holds
    <2> QED BY <2>1, <2>3, <2>4
  <1> QED BY <1>1, SlotsCorrect, PTL

\* The host reads the result and nothing else, and no byte of it is the
\* payload's.
THEOREM ResultIsIntact == Spec => []ResultIntact
  <1>1. TypeOK /\ SlotsInv => ResultIntact
    <2> SUFFICES ASSUME TypeOK, SlotsInv, pc \in {"result", "freed"}
                 PROVE got = output /\ Holds(got, "output") /\ Holds(input, "input")
      BY DEF ResultIntact
    <2>1. output.len > 0 /\ got = output /\ output # NoSlot
      BY DEF SlotsInv, NoSlot
    <2> QED BY <2>1 DEF SlotsInv
  <1> QED BY <1>1, SlotsCorrect, PTL

\* The host sees a result exactly when the hook had one.
THEOREM NoneMeansEmpty == Spec => []NoneIsEmpty
  <1>1. TypeOK /\ SlotsInv => NoneIsEmpty
    BY DEF SlotsInv, NoneIsEmpty, NoSlot
  <1> QED BY <1>1, SlotsCorrect, PTL

\* What fits into the gap below the module's own memory neither fails nor
\* writes over that memory.
THEOREM RoomIsEnough == Spec => []RoomSuffices
  <1>1. Init => RoomSuffices
    BY DEF Init, RoomSuffices
  <1>2. ASSUME TypeOK, SlotsInv, RoomSuffices, [Next]_vars PROVE RoomSuffices'
    <2> SUFFICES ASSUME RoundedUp(input'.len) + output'.len <= ProgramStart - BumpStart,
                        pc' \in {"failed", "corrupt"}
                 PROVE FALSE
      BY DEF RoomSuffices, RoundedUp
    <2>1. input.len \in Nat /\ output.len \in Nat /\ size \in Nat /\ InitSize <= size
      BY <1>2, WordTypes, LayoutTypes DEF TypeOK, Slot, Length
    <2>2. ASSUME pc = "args", UNCHANGED <<input, output>>, ~(Fits(input) /\ Spares(input))
          PROVE FALSE
      <3>1. input.ptr = BumpStart
        BY <1>2, <2>2 DEF SlotsInv
      <3>2. Cells(input) = BumpStart .. BumpStart + input.len - 1
            /\ (Fits(input) <=> BumpStart + input.len <= size)
        BY <3>1, CellsOfSlot, LayoutTypes, WordTypes
      <3>3. BumpStart + input.len <= ProgramStart
        <4>1. RoundedUp(input.len) >= input.len /\ RoundedUp(input.len) \in Int
          BY <2>1, RoundedUpIs, ModRange
        <4> QED BY <2>1, <2>2, <4>1, LayoutTypes
      <3> QED BY <2>1, <2>2, <3>2, <3>3, LayoutTypes DEF Spares, Program
    <2>3. ASSUME NEW len \in Length, pc = "hook", AllocResult(len),
                 ~(Fits([ptr |-> bump, len |-> len]) /\ Spares([ptr |-> bump, len |-> len]))
          PROVE FALSE
      <3> DEFINE slot == [ptr |-> bump, len |-> len]
      <3>1. /\ slot.ptr = bump /\ slot.len = len /\ len \in Nat
            /\ output'.len = len /\ input' = input
        BY <2>3, WordTypes DEF AllocResult, Length
      <3>2. bump = BumpStart + Aligned(input.len) /\ BumpStart + input.len <= size
        BY <1>2, <2>3 DEF SlotsInv
      <3>3. Aligned(input.len) \in input.len .. input.len + 7
        BY <1>2, <2>1, <3>2, AlignedBounds, LayoutTypes, WordTypes DEF TypeOK
      <3>4. bump \in Nat /\ BumpStart <= bump /\ bump + len <= ProgramStart
        <4>1. Aligned(input.len) = RoundedUp(input.len)
          BY <1>2, <2>1, <3>2, AlignedIsRoundedUp, LayoutTypes, WordTypes DEF TypeOK
        <4> QED BY <2>1, <2>3, <3>1, <3>2, <3>3, <4>1, LayoutTypes
      <3>5. bump < Half
        BY <3>1, <3>4, LayoutTypes, WordTypes
      <3>6. Cells(slot) = bump .. bump + len - 1 /\ (Fits(slot) <=> bump + len <= size)
        BY <3>1, <3>4, <3>5, CellsOfSlot
      <3>7. Cells(slot) \cap Program(size) = {}
        BY <3>1, <3>4, <3>6, LayoutTypes DEF Program
      <3> QED BY <2>1, <2>3, <3>1, <3>4, <3>6, <3>7, LayoutTypes DEF Spares
    <2>4. CASE WriteArgs
      BY <2>2, <2>4 DEF WriteArgs, Goto
    <2>5. CASE WriteArgsFails
      BY <2>2, <2>5 DEF WriteArgsFails, Goto
    <2>6. ASSUME NEW len \in Length, Return(len) \/ ReturnTraps(len) PROVE FALSE
      BY <2>3, <2>6 DEF Return, ReturnTraps, AllocResult, Goto
    <2>7. CASE Decode
      <3> DEFINE slot == [ptr |-> UnpackPtr(packed), len |-> UnpackLen(packed)]
      <3>1. pc = "returned" /\ packed # 0 /\ ~Fits(slot)
        BY <2>7 DEF Decode, Goto
      <3>2. output.len > 0 /\ packed = Pack(output.ptr, output.len)
        BY <1>2, <3>1 DEF SlotsInv
      <3>3. slot.ptr = output.ptr /\ slot.len = output.len
        BY <1>2, <3>2, UnpackPack DEF TypeOK, Slot
      <3>4. BumpStart <= output.ptr /\ output.ptr + output.len <= size
        BY <1>2, <3>1, <3>2 DEF SlotsInv, NoSlot
      <3>5. output.ptr \in Nat /\ output.ptr < Half
        BY <1>2, <3>4, LayoutTypes, WordTypes DEF TypeOK, Slot, I32
      <3>6. Fits(slot)
        BY <3>3, <3>4, <3>5, CellsOfSlot
      <3> QED BY <3>1, <3>6
    <2>8. CASE UNCHANGED vars
      BY <1>2, <2>8 DEF vars, RoomSuffices
    <2> QED BY <1>2, <2>4, <2>5, <2>6, <2>7, <2>8
      DEF Next, AllocArgs, Grow, ReturnEmpty, DecodeNone, Dealloc, Drop, Goto
  <1> QED BY <1>1, <1>2, SlotsCorrect, PTL DEF Spec
=============================================================================
