------------------------- MODULE ViterbiShimProofs -------------------------
(***************************************************************************)
(* For every order and every number of slices: the loops of a Viterbi      *)
(* decode read each slice exactly once if warm-up and tail do not overlap, *)
(* and in every case make the decisions that OneDecisionPerBit counts.     *)
(*                                                                         *)
(* On this rests the wrapper of fec_shim.c, for buffers and updates of     *)
(* every size and codes of any order up to 16: the arithmetic of           *)
(* update_viterbi_blk keeps each decode inside the buffer while there is   *)
(* room in it, no update reads more groups than it was given, and          *)
(* chainback hands out exactly what was decoded.                           *)
(*                                                                         *)
(* And the objects that all this works on, of every kind: who owns what    *)
(* from create to destroy, whichever allocation fails in between.          *)
(***************************************************************************)
EXTENDS ViterbiShim, SequenceTheorems, TLAPS

-----------------------------------------------------------------------------
(* The loops of a decode.                                                  *)

\* The order and length of the block in hand.
InBlock == phase # "idle" => <<order, sets>> \in Blocks

\* In each loop the counter is the number of slices read so far, unless the tail
\* has gone back to slices that the warm-up read.
Progress ==
    /\ phase = "warmup" =>
           i <= order - 1 /\ Len(consumed) = i /\ processed = 0
    /\ phase = "inner" =>
           /\ order - 1 <= i /\ (i <= InnerEnd \/ i = order - 1)
           /\ Len(consumed) = i /\ processed = i - (order - 1)
    /\ phase = "tail" =>
           /\ TailStart <= i /\ i <= sets
           /\ LongBlock => Len(consumed) = i /\ processed = i - (order - 1)
           /\ ~LongBlock => processed = i - TailStart
    /\ phase = "done" =>
           /\ LongBlock => Len(consumed) = sets /\ processed = sets - (order - 1)
           /\ ~LongBlock => processed = order - 1

InOrder ==
    (LongBlock \/ phase \in {"warmup", "inner"}) =>
        consumed = [k \in 1 .. Len(consumed) |-> k - 1]

IInv == TypeOK /\ InBlock /\ Progress /\ InOrder

\* What the assumptions say of the block in hand.
LEMMA BlockFacts ==
    ASSUME IInv
    PROVE  /\ order \in Nat \ {0} /\ sets \in Nat
           /\ phase # "idle" => sets >= order - 1
           /\ InnerEnd = TailStart
<1>1. PICK b \in Blocks : order = b[1]
  BY DEF IInv, TypeOK
<1>2. order \in Nat \ {0}
  BY <1>1, BlocksAssumption
<1>3. sets \in Nat
  BY BlocksAssumption DEF IInv, TypeOK
<1>4. phase # "idle" => sets >= order - 1
  <2> SUFFICES ASSUME phase # "idle"
               PROVE  sets >= order - 1
    OBVIOUS
  <2>1. <<order, sets>> \in Blocks
    BY DEF IInv, InBlock
  <2>2. <<order, sets>>[1] = order /\ <<order, sets>>[2] = sets
    OBVIOUS
  <2> QED
    BY <2>1, <2>2, BlocksAssumption
<1> QED
  BY <1>2, <1>3, <1>4 DEF InnerEnd, TailStart

\* Reading keeps the types.
LEMMA ReadTypes ==
    ASSUME TypeOK, Read
    PROVE  i' = i + 1 /\ i' \in Nat /\ consumed' \in Seq(Nat)
           /\ Len(consumed') = Len(consumed) + 1
BY DEF TypeOK, Read

\* Reading slice i when i slices have been read keeps the list in order.
LEMMA ReadInOrder ==
    ASSUME TypeOK, Read, i = Len(consumed),
           consumed = [k \in 1 .. Len(consumed) |-> k - 1]
    PROVE  consumed' = [k \in 1 .. Len(consumed') |-> k - 1]
<1>1. i \in Nat /\ consumed \in Seq(Nat)
  BY DEF TypeOK
<1>2. i' = i + 1 /\ consumed' = Append(consumed, i)
  BY DEF Read
<1>3. consumed' \in Seq(Nat) /\ Len(consumed') = i + 1
  BY <1>1, <1>2
<1>4. \A k \in 1 .. i + 1 : consumed'[k] = k - 1
  <2> SUFFICES ASSUME NEW k \in 1 .. i + 1 PROVE consumed'[k] = k - 1
    OBVIOUS
  <2>1. CASE k = i + 1
    BY <1>1, <1>2, <2>1
  <2>2. CASE k # i + 1
    <3>1. k \in 1 .. Len(consumed)
      BY <1>1, <2>2
    <3> QED
      BY <1>1, <1>2, <3>1
  <2> QED
    BY <2>1, <2>2
<1> QED
  BY <1>3, <1>4

-----------------------------------------------------------------------------
\* Nothing is read before the first call.
LEMMA InitInv == Init => IInv
<1> SUFFICES ASSUME Init PROVE IInv
  OBVIOUS
<1>1. consumed = <<>> /\ Len(consumed) = 0
  BY DEF Init
<1>2. TypeOK
  BY <1>1 DEF Init, TypeOK
<1>3. InOrder
  BY <1>1 DEF InOrder
<1> QED
  BY <1>2, <1>3 DEF Init, IInv, InBlock, Progress

\* Every step of the program keeps the invariant.
LEMMA NextInv ==
    ASSUME IInv, [Next]_scheduleVars
    PROVE  IInv'
<1> USE DEF IInv
<1>1. /\ order \in Nat \ {0} /\ sets \in Nat /\ i \in Nat /\ processed \in Nat
      /\ consumed \in Seq(Nat) /\ Len(consumed) \in Nat
      /\ phase # "idle" => sets >= order - 1
      /\ InnerEnd = sets - order + 1 /\ TailStart = sets - order + 1
      /\ LongBlock <=> sets >= 2 * (order - 1)
  BY BlockFacts DEF TypeOK, InnerEnd, TailStart, LongBlock
<1>2. ASSUME NEW b \in Blocks, Start(b[2])
      PROVE  IInv'
  <2>1. consumed' = <<>> /\ Len(consumed') = 0
    BY <1>2 DEF Start
  <2>2. TypeOK'
    BY <1>2, <2>1 DEF Start, TypeOK
  <2>3. InOrder'
    BY <2>1 DEF InOrder
  <2> QED
    BY <1>1, <1>2, <2>1, <2>2, <2>3 DEF Start, InBlock, Progress
<1>3. CASE WarmupRound
  <2>1. i = Len(consumed) /\ phase = "warmup" /\ i < order - 1 /\ processed = 0
        /\ UNCHANGED <<order, sets, phase, processed>> /\ Read
    BY <1>3 DEF WarmupRound, Progress
  <2>2. i' = i + 1 /\ i' \in Nat /\ consumed' \in Seq(Nat) /\ Len(consumed') = i'
    BY <2>1, ReadTypes
  <2>3. InOrder'
    BY <2>1, ReadInOrder DEF InOrder
  <2>4. TypeOK' /\ InBlock'
    BY <2>1, <2>2 DEF TypeOK, InBlock
  <2> QED
    BY <1>1, <2>1, <2>2, <2>3, <2>4 DEF Progress
<1>4. CASE WarmupEnd
  <2>1. i = order - 1 /\ i' = order - 1 /\ phase = "warmup" /\ phase' = "inner"
        /\ UNCHANGED <<order, sets, consumed, processed>>
    BY <1>1, <1>4 DEF WarmupEnd, Progress
  <2>2. InOrder'
    BY <2>1 DEF InOrder
  <2>3. TypeOK' /\ InBlock'
    BY <1>1, <2>1 DEF TypeOK, InBlock
  <2> QED
    BY <1>1, <2>1, <2>2, <2>3 DEF Progress
<1>5. CASE InnerRound
  <2>1. /\ i = Len(consumed) /\ phase = "inner" /\ order - 1 <= i /\ i < sets - order + 1
        /\ processed = i - (order - 1) /\ processed' = processed + 1
        /\ UNCHANGED <<order, sets, phase>> /\ Read
    BY <1>1, <1>5 DEF InnerRound, Progress
  <2>2. i' = i + 1 /\ i' \in Nat /\ consumed' \in Seq(Nat) /\ Len(consumed') = i'
    BY <2>1, ReadTypes
  <2>3. InOrder'
    BY <2>1, ReadInOrder DEF InOrder
  <2>4. TypeOK' /\ InBlock'
    BY <1>1, <2>1, <2>2 DEF TypeOK, InBlock
  <2>5. InnerEnd' = sets - order + 1
    BY <2>1 DEF InnerEnd
  <2> QED
    BY <1>1, <2>1, <2>2, <2>3, <2>4, <2>5 DEF Progress
<1>6. CASE EndInner
  <2>1. /\ phase = "inner" /\ phase' = "tail" /\ order - 1 <= i
        /\ ~(i < sets - order + 1) /\ i' = sets - order + 1
        /\ (i <= sets - order + 1 \/ i = order - 1)
        /\ Len(consumed) = i /\ processed = i - (order - 1)
        /\ UNCHANGED <<order, sets, consumed, processed>>
    BY <1>1, <1>6 DEF EndInner, Progress
  <2>2. LongBlock => i = i'
    BY <1>1, <2>1
  <2>3. ~LongBlock => i = order - 1
    BY <1>1, <2>1
  <2>4. i' \in Nat /\ i' <= sets
    BY <1>1, <2>1
  <2>5. LongBlock' = LongBlock /\ TailStart' = sets - order + 1
    BY <2>1 DEF LongBlock, TailStart
  <2>6. InOrder'
    BY <2>1, <2>5 DEF InOrder
  <2>7. TypeOK' /\ InBlock'
    BY <2>1, <2>4 DEF TypeOK, InBlock
  <2>8. Progress'
    BY <1>1, <2>1, <2>2, <2>3, <2>4, <2>5 DEF Progress
  <2> QED
    BY <2>6, <2>7, <2>8
<1>7. CASE TailRound
  <2>1. /\ phase = "tail" /\ i < sets /\ processed' = processed + 1
        /\ sets - order + 1 <= i
        /\ LongBlock => Len(consumed) = i /\ processed = i - (order - 1)
        /\ ~LongBlock => processed = i - (sets - order + 1)
        /\ UNCHANGED <<order, sets, phase>> /\ Read
    BY <1>1, <1>7 DEF TailRound, Progress
  <2>2. i' = i + 1 /\ i' \in Nat /\ consumed' \in Seq(Nat)
        /\ Len(consumed') = Len(consumed) + 1
    BY <2>1, ReadTypes
  <2>3. LongBlock' = LongBlock /\ TailStart' = sets - order + 1
    BY <2>1 DEF LongBlock, TailStart
  <2>4. InOrder'
    BY <2>1, <2>3, ReadInOrder DEF InOrder
  <2>5. TypeOK' /\ InBlock'
    BY <1>1, <2>1, <2>2 DEF TypeOK, InBlock
  <2>6. Progress'
    BY <1>1, <2>1, <2>2, <2>3 DEF Progress
  <2> QED
    BY <2>4, <2>5, <2>6
<1>8. CASE Finish
  <2>1. /\ phase = "tail" /\ phase' = "done" /\ i = sets
        /\ LongBlock => Len(consumed) = i /\ processed = i - (order - 1)
        /\ ~LongBlock => processed = i - (sets - order + 1)
        /\ UNCHANGED <<order, sets, i, consumed, processed>>
    BY <1>1, <1>8 DEF Finish, Progress
  <2>2. LongBlock' = LongBlock
    BY <2>1 DEF LongBlock
  <2>3. InOrder' /\ TypeOK' /\ InBlock'
    BY <2>1, <2>2 DEF InOrder, TypeOK, InBlock
  <2>4. Progress'
    BY <1>1, <2>1, <2>2 DEF Progress
  <2> QED
    BY <2>3, <2>4
<1>9. CASE UNCHANGED scheduleVars
  BY <1>9 DEF scheduleVars, TypeOK, InBlock, Progress, InOrder, InnerEnd, TailStart, LongBlock
<1> QED
  BY <1>2, <1>3, <1>4, <1>5, <1>6, <1>7, <1>8, <1>9 DEF Next, Step

-----------------------------------------------------------------------------
\* IInv holds in every reachable state.
THEOREM ScheduleInvariance == Spec => []IInv
<1>1. Init => IInv
  BY InitInv
<1>2. IInv /\ [Next]_scheduleVars => IInv'
  BY NextInv
<1> QED
  BY <1>1, <1>2, PTL DEF Spec

\* What the invariant says of the properties, for whoever runs the schedule.
LEMMA SlicesInOrder == ASSUME IInv PROVE EachSliceOnce
BY DEF IInv, Progress, InOrder, EachSliceOnce

\* The invariant gives the number of decisions.
LEMMA DecisionsCounted == ASSUME IInv PROVE OneDecisionPerBit
BY DEF IInv, Progress, OneDecisionPerBit

\* The three loops read each slice exactly once, in order.
THEOREM SlicesReadOnce == Spec => []EachSliceOnce
BY SlicesInOrder, ScheduleInvariance, PTL

\* They make one decision for each bit after the first order-1 slices.
THEOREM DecisionsMade == Spec => []OneDecisionPerBit
BY DecisionsCounted, ScheduleInvariance, PTL

-----------------------------------------------------------------------------
(* The wrapper.                                                            *)

\* The cursors, and how long the buffer can be.
CursorTypes ==
    /\ bufLen \in Nat /\ readIter \in Nat /\ writeIter \in Nat
    /\ readIter <= writeIter /\ writeIter <= bufLen
    /\ bufLen > 0 => \E b \in BufferBits : 8 * bufLen <= b + 7
    /\ given \in Int /\ writeBits \in Nat /\ updates \in Nat
    /\ kind = "viterbi" => order \in ShimOrders

\* The groups of the update under way and the room there is for its bits.
UpdateFits ==
    /\ Decoding => handle = "held"
    /\ InUpdate =>
           /\ sets = order - 1 + writeBits
           /\ writeBits <= RemBits
           /\ given >= order - 1 => sets <= given

\* The buffer holds the decoded bytes up to the write cursor; those up to the
\* read cursor have been delivered.
BufferHoldsDecoded ==
    failed = {} =>
        /\ decoded \in Seq(Nat \X Nat) /\ delivered \in Seq(Nat \X Nat)
        /\ kind = "viterbi" => Len(decoded) = writeIter /\ Len(delivered) = readIter
        /\ kind # "viterbi" => decoded = <<>> /\ delivered = <<>>
        /\ \A k \in 1 .. Len(decoded) :
               k - 1 \in DOMAIN buffer /\ buffer[k - 1] = decoded[k]
        /\ \A k \in 1 .. Len(delivered) : delivered[k] = decoded[k]

ShimInv == IInv /\ CursorTypes /\ UpdateFits /\ BufferHoldsDecoded

-----------------------------------------------------------------------------
(* The arithmetic of an update.                                            *)

\* A number below the modulus is its own remainder.
LEMMA SmallMod ==
    ASSUME NEW n \in Nat \ {0}, NEW a \in Nat, a < n
    PROVE  a % n = a
OBVIOUS

\* What a negative difference wraps to.
LEMMA NegativeMod ==
    ASSUME NEW n \in Nat \ {0}, NEW a \in Int, a < 0, -n <= a
    PROVE  a % n = a + n
OBVIOUS

\* Whole bytes never take more bits than there are, nor fewer than all but 7.
LEMMA WholeBytes ==
    ASSUME NEW n \in Nat
    PROVE  /\ n \div 8 \in Nat /\ 8 * (n \div 8) <= n /\ n < 8 * (n \div 8) + 8
           /\ Ceil8(n) \in Nat /\ n <= 8 * Ceil8(n) /\ 8 * Ceil8(n) <= n + 7
BY DEF Ceil8

\* However many groups are given, also too few of them, the update decodes
\* order-1 groups and one more for each bit that it counts on, and it never
\* counts on more bits than there is room for.
LEMMA UpdateArithmetic ==
    ASSUME CursorTypes, kind = "viterbi", NEW x \in Surplus,
           NEW groups, groups = order - 1 + x
    PROVE  LET bits == NWriteBits(groups) - Reduction(groups)
           IN  /\ groups \in Nat
               /\ bits \in Nat /\ bits <= RemBits
               /\ DecodedGroups(groups) = order - 1 + bits
               /\ groups >= order - 1 => DecodedGroups(groups) <= groups
<1> DEFINE U == UintRange
           wrapped == NWriteBits(groups)
           cut == Reduction(groups)
<1>1. /\ order \in Nat /\ order >= 1 /\ order <= 16
      /\ x \in Int /\ x + order - 1 >= 0 /\ x + order < U
      /\ U \in Nat \ {0} /\ U > 32
      /\ RemBits \in Nat /\ groups - (order - 1) = x /\ groups \in Nat
  <2>1. order \in ShimOrders
    BY DEF CursorTypes
  <2>2. order \in Nat /\ order >= 1 /\ order <= 16
    BY <2>1, ShimAssumption
  <2>3. x \in Int /\ x + order - 1 >= 0 /\ x + order < U
    BY <2>1, ShimAssumption
  <2>4. U \in Nat \ {0} /\ U > 32
    BY ShimAssumption
  <2>5. RemBits \in Nat
    BY DEF CursorTypes, RemBits
  <2> QED
    BY <2>2, <2>3, <2>4, <2>5
<1>2. RemBits + order - 1 < U
  <2>1. CASE bufLen > 0
    <3>1. PICK b \in BufferBits : 8 * bufLen <= b + 7
      BY <2>1 DEF CursorTypes
    <3>2. b \in Nat /\ b + 32 < U
      BY ShimAssumption
    <3> QED
      BY <1>1, <3>1, <3>2 DEF CursorTypes, RemBits
  <2>2. CASE bufLen = 0
    BY <1>1, <2>2 DEF CursorTypes, RemBits
  <2> QED
    BY <2>1, <2>2 DEF CursorTypes
<1>3. wrapped = x % U
  BY <1>1 DEF NWriteBits
<1>4. CASE x >= 0
  <2>1. wrapped = x
    BY <1>1, <1>3, <1>4, SmallMod
  <2>2. CASE x <= RemBits
    <3>1. cut = 0
      BY <1>1, <2>1, <2>2 DEF Reduction
    <3>2. DecodedGroups(groups) = groups % U /\ groups < U
      BY <1>1, <3>1 DEF DecodedGroups
    <3>3. groups % U = groups
      BY <1>1, <3>2, SmallMod
    <3> QED
      BY <1>1, <1>4, <2>1, <2>2, <3>1, <3>2, <3>3
  <2>3. CASE x > RemBits
    <3>1. cut = x - RemBits
      BY <1>1, <2>1, <2>3 DEF Reduction
    <3>2. groups - cut = order - 1 + RemBits /\ groups - cut \in Nat
      BY <1>1, <3>1
    <3>3. DecodedGroups(groups) = order - 1 + RemBits
      BY <1>1, <1>2, <3>2, SmallMod DEF DecodedGroups
    <3> QED
      BY <1>1, <1>4, <2>1, <2>3, <3>1, <3>3
  <2> QED
    BY <1>1, <2>2, <2>3
<1>5. CASE x < 0
  <2>1. wrapped = x + U
    <3>1. -U <= x
      BY <1>1
    <3>2. x % U = x + U
      BY <1>1, <1>5, <3>1, NegativeMod
    <3> QED
      BY <1>3, <3>2
  <2>2. wrapped > RemBits
    BY <1>1, <1>2, <2>1
  <2>3. cut = x + U - RemBits
    <3>1. NWriteBits(groups) > RemBits
      BY <2>2
    <3> QED
      BY <1>1, <2>1, <3>1 DEF Reduction
  <2>4. groups - cut = order - 1 + RemBits - U /\ groups - cut \in Int
    BY <1>1, <2>3
  <2>5. (groups - cut) % U = order - 1 + RemBits
    BY <1>1, <1>2, <2>4, NegativeMod
  <2>6. DecodedGroups(groups) = order - 1 + RemBits
    BY <2>5 DEF DecodedGroups
  <2> QED
    BY <1>1, <1>5, <2>1, <2>3, <2>6
<1> QED
  BY <1>1, <1>4, <1>5

-----------------------------------------------------------------------------
(* The calls keep the invariant.                                           *)

\* The invariant holds before the first call.
LEMMA ShimInitInv == ShimInit => ShimInv
<1> SUFFICES ASSUME ShimInit PROVE ShimInv
  OBVIOUS
<1>1. IInv
  BY InitInv DEF ShimInit
<1>2. CursorTypes
  BY DEF ShimInit, CodecInit, CursorTypes
<1>3. UpdateFits
  BY DEF ShimInit, Init, UpdateFits, InUpdate, Decoding
<1>4. BufferHoldsDecoded
  BY DEF ShimInit, BufferHoldsDecoded
<1> QED
  BY <1>1, <1>2, <1>3, <1>4 DEF ShimInv

\* Whatever a call does, the schedule makes a step of its own or none.
LEMMA ScheduleSteps ==
    ASSUME [ShimNext]_allVars
    PROVE  [Next]_scheduleVars
<1>1. ASSUME NEW x, NEW n, NEW wild, Update(x, n, wild) PROVE [Next]_scheduleVars
  <2>1. CASE Start(DecodedGroups(x))
    <3>1. <<order, DecodedGroups(x)>> \in Blocks
      BY <2>1 DEF Start
    <3>2. \E b \in Blocks : b[2] = DecodedGroups(x)
      BY <3>1
    <3> QED
      BY <2>1, <3>2 DEF Next
  <2>2. CASE UNCHANGED scheduleVars
    BY <2>2
  <2> QED
    BY <1>1, <2>1, <2>2 DEF Update
<1>2. ASSUME NEW b \in DirectBlocks, NEW n, NEW wild, DirectDecode(b[2], n, wild)
      PROVE  [Next]_scheduleVars
  <2>1. b \in Blocks
    BY ShimAssumption
  <2> QED
    BY <1>2, <2>1 DEF DirectDecode, Next
<1>3. ASSUME DecodeSteps PROVE [Next]_scheduleVars
  BY <1>3 DEF DecodeSteps, DecodeStep, Return, Next, Step
<1>4. ASSUME NEW n, NEW bits, NEW wild, CreateCodec(n, bits, wild)
      PROVE  [Next]_scheduleVars
  BY <1>4 DEF CreateCodec
<1>5. ASSUME NEW wild, DestroyCodec(wild) PROVE [Next]_scheduleVars
  BY <1>5 DEF DestroyCodec
<1>6. ASSUME NEW n, NEW used, NEW wild, OtherDecode(n, used, wild)
      PROVE  [Next]_scheduleVars
  BY <1>6 DEF OtherDecode
<1>7. ASSUME NEW bits, Chainback(bits) PROVE [Next]_scheduleVars
  BY <1>7 DEF Chainback
<1>8. InitViterbi => [Next]_scheduleVars
  BY DEF InitViterbi
<1>9. UNCHANGED allVars => UNCHANGED scheduleVars
  BY DEF allVars
<1> QED
  BY <1>1, <1>2, <1>3, <1>4, <1>5, <1>6, <1>7, <1>8, <1>9 DEF ShimNext

\* One sequence after another.
LEMMA Concatenation ==
    ASSUME NEW S, NEW s \in Seq(S), NEW t \in Seq(S)
    PROVE  /\ s \o t \in Seq(S) /\ Len(s \o t) = Len(s) + Len(t)
           /\ \A k \in 1 .. Len(s) : (s \o t)[k] = s[k]
OBVIOUS

\* Getting ready to decode leaves the object in its owner's hands.
LEMMA PrepareFacts ==
    ASSUME NEW n, NEW used, NEW wild, PrepareDecode(n, used, wild)
    PROVE  /\ handle = "held" /\ UNCHANGED <<kind, handle>>
           /\ n = 0 => failed' = failed
           /\ n # 0 => failed' # {}
BY DEF PrepareDecode

\* The decode of an update decides at most order-1 bits, or one for each group
\* past the first order-1; in the end it has decided those that are counted on.
LEMMA DecisionBounds ==
    ASSUME IInv, CursorTypes, UpdateFits, InUpdate
    PROVE  /\ processed \in Nat
           /\ processed <= order - 1 \/ processed <= writeBits
           /\ phase = "tail" /\ i >= sets => processed >= writeBits
<1>1. /\ order \in Nat \ {0} /\ sets \in Nat /\ i \in Nat /\ processed \in Nat
      /\ sets = order - 1 + writeBits /\ writeBits \in Nat
      /\ InnerEnd = sets - order + 1 /\ TailStart = sets - order + 1
      /\ LongBlock <=> sets >= 2 * (order - 1)
  BY BlockFacts DEF IInv, TypeOK, CursorTypes, UpdateFits, InnerEnd, TailStart, LongBlock
<1>2. CASE phase = "warmup"
  BY <1>1, <1>2 DEF IInv, Progress
<1>3. CASE phase = "inner"
  BY <1>1, <1>3 DEF IInv, Progress
<1>4. CASE phase = "tail"
  <2>1. TailStart <= i /\ i <= sets
    BY <1>4 DEF IInv, Progress
  <2>2. CASE LongBlock
    BY <1>1, <1>4, <2>1, <2>2 DEF IInv, Progress
  <2>3. CASE ~LongBlock
    BY <1>1, <1>4, <2>1, <2>3 DEF IInv, Progress
  <2> QED
    BY <2>2, <2>3
<1> QED
  BY <1>2, <1>3, <1>4 DEF InUpdate, Decoding

\* An update keeps the invariant.
LEMMA UpdateKeeps ==
    ASSUME ShimInv, NEW x \in Surplus, NEW n, NEW wild,
           Update(order - 1 + x, n, wild)
    PROVE  CursorTypes' /\ UpdateFits' /\ BufferHoldsDecoded'
<1> DEFINE groups == order - 1 + x
<1>1. /\ kind = "viterbi" /\ ~Decoding
      /\ UNCHANGED <<kind, handle, bufLen, readIter, buffer, decoded, delivered>>
      /\ handle = "held"
      /\ given' = groups /\ writeBits' = NWriteBits(groups) - Reduction(groups)
      /\ updates' = updates + 1
      /\ n = 0 => failed' = failed
      /\ n # 0 => failed' # {}
  BY PrepareFacts DEF Update
<1>2. /\ groups \in Nat /\ writeBits' \in Nat /\ writeBits' <= RemBits
      /\ DecodedGroups(groups) = order - 1 + writeBits'
      /\ groups >= order - 1 => DecodedGroups(groups) <= groups
  BY <1>1, UpdateArithmetic DEF ShimInv
<1>3. /\ bufLen \in Nat /\ readIter \in Nat /\ writeIter \in Nat
      /\ readIter <= writeIter /\ writeIter <= bufLen /\ updates \in Nat
      /\ RemBits = 8 * (bufLen - writeIter)
      /\ (bufLen > 0 => \E b \in BufferBits : 8 * bufLen <= b + 7)
      /\ order \in ShimOrders
  BY <1>1 DEF ShimInv, CursorTypes, RemBits
<1>4. CASE Goes(n) /\ Start(DecodedGroups(groups)) /\ UNCHANGED writeIter
  <2>1. n = 0 /\ failed' = failed
    BY <1>1, <1>4 DEF Goes
  <2>2. order' = order /\ sets' = DecodedGroups(groups)
    BY <1>4 DEF Start
  <2>3. CursorTypes'
    BY <1>1, <1>2, <1>3, <1>4, <2>2 DEF CursorTypes
  <2>4. RemBits' = RemBits
    BY <1>1, <1>4 DEF RemBits
  <2>5. UpdateFits'
    BY <1>1, <1>2, <2>2, <2>4 DEF UpdateFits
  <2>6. BufferHoldsDecoded'
    BY <1>1, <1>4, <2>1 DEF ShimInv, BufferHoldsDecoded
  <2> QED
    BY <2>3, <2>5, <2>6
<1>5. CASE /\ ~Goes(n) /\ UNCHANGED scheduleVars
           /\ writeIter' = IF misused' = {} THEN writeIter + writeBits' \div 8 ELSE writeIter
  <2>1. PICK m \in Nat : m = writeBits' \div 8 /\ 8 * m <= writeBits'
    BY <1>2, WholeBytes
  <2>2. writeIter' \in Nat /\ writeIter <= writeIter' /\ writeIter' <= bufLen
    <3>1. writeIter' = writeIter + m \/ writeIter' = writeIter
      BY <1>5, <2>1
    <3>2. 8 * m <= writeBits'
      BY <2>1
    <3>3. writeBits' \in Nat /\ writeBits' <= 8 * (bufLen - writeIter)
      BY <1>2, <1>3
    <3>4. m <= bufLen - writeIter
      BY <1>3, <3>2, <3>3
    <3> QED
      BY <1>3, <3>1, <3>4
  <2>3. order' = order /\ phase' = phase
    BY <1>5 DEF scheduleVars
  <2>4. CursorTypes'
    BY <1>1, <1>2, <1>3, <2>2, <2>3 DEF CursorTypes
  <2>5. UpdateFits'
    BY <1>1, <2>3 DEF UpdateFits, InUpdate, Decoding
  <2>6. failed' = {} => n = 0 /\ failed = {} /\ misused' # {} /\ writeIter' = writeIter
    BY <1>1, <1>5 DEF Goes
  <2>7. BufferHoldsDecoded'
    BY <1>1, <2>6 DEF ShimInv, BufferHoldsDecoded
  <2> QED
    BY <2>4, <2>5, <2>7
<1> QED
  BY <1>4, <1>5 DEF Update

\* The return of an update's decode keeps it.
LEMMA ReturnKeeps ==
    ASSUME ShimInv, Return
    PROVE  CursorTypes' /\ UpdateFits' /\ BufferHoldsDecoded'
<1>1. /\ phase = "tail" /\ ~(i < sets) /\ phase' = "done" /\ order' = order
      /\ UNCHANGED <<kind, handle, failed, bufLen, readIter, given, writeBits,
                     updates, delivered>>
  BY DEF Return, Finish, codecVars
<1>2. ~Decoding'
  BY <1>1 DEF Decoding
<1>3. UpdateFits'
  BY <1>2 DEF UpdateFits, InUpdate
<1>4. CASE kind # "viterbi"
  <2>1. UNCHANGED <<writeIter, buffer, decoded>>
    BY <1>4 DEF Return
  <2>2. CursorTypes'
    BY <1>1, <1>4, <2>1 DEF ShimInv, CursorTypes
  <2>3. BufferHoldsDecoded'
    BY <1>1, <1>4, <2>1 DEF ShimInv, BufferHoldsDecoded
  <2> QED
    BY <1>3, <2>2, <2>3
<1>5. CASE kind = "viterbi"
  <2>1. InUpdate
    BY <1>1, <1>5 DEF InUpdate, Decoding
  <2>2. /\ processed \in Nat /\ i \in Nat /\ sets \in Nat
        /\ bufLen \in Nat /\ readIter \in Nat /\ writeIter \in Nat
        /\ readIter <= writeIter /\ writeIter <= bufLen
        /\ updates \in Nat /\ writeBits \in Nat
        /\ writeBits <= 8 * (bufLen - writeIter)
    BY <2>1, BlockFacts DEF ShimInv, IInv, TypeOK, CursorTypes, UpdateFits, RemBits
  <2>3. processed >= writeBits
    BY <1>1, <2>1, <2>2, DecisionBounds DEF ShimInv
  <2>4. PICK m \in Nat : m = writeBits \div 8 /\ 8 * m <= writeBits
    BY <2>2, WholeBytes
  <2>5. PICK w \in Nat : w = processed \div 8 /\ processed < 8 * w + 8
    BY <2>2, WholeBytes
  <2>6. m <= w
    BY <2>2, <2>3, <2>4, <2>5
  <2>7. /\ writeIter' = writeIter + m
        /\ buffer' = Written(updates, writeIter, w)
        /\ decoded' = decoded \o [j \in 1 .. m |-> <<updates, j - 1>>]
    BY <1>5, <2>4, <2>5 DEF Return
  <2>8. writeIter' \in Nat /\ writeIter <= writeIter' /\ writeIter' <= bufLen
    BY <2>2, <2>4, <2>7
  <2>9. CursorTypes'
    BY <1>1, <2>8 DEF ShimInv, CursorTypes
  <2>10. SUFFICES ASSUME failed = {} PROVE BufferHoldsDecoded'
    BY <1>1, <1>3, <2>9 DEF BufferHoldsDecoded
  <2> DEFINE new == [j \in 1 .. m |-> <<updates, j - 1>>]
  <2>11. new \in Seq(Nat \X Nat) /\ Len(new) = m
    <3>1. \A j \in 1 .. m : <<updates, j - 1>> \in Nat \X Nat
      BY <2>2
    <3>2. new \in [1 .. m -> Nat \X Nat]
      BY <3>1
    <3> QED
      BY <3>2
  <2>11a. decoded' = decoded \o new
    BY <2>7
  <2> HIDE DEF new
  <2>12. /\ decoded \in Seq(Nat \X Nat) /\ delivered \in Seq(Nat \X Nat)
         /\ Len(decoded) = writeIter /\ Len(delivered) = readIter
         /\ \A k \in 1 .. Len(decoded) :
                k - 1 \in DOMAIN buffer /\ buffer[k - 1] = decoded[k]
         /\ \A k \in 1 .. Len(delivered) : delivered[k] = decoded[k]
    BY <1>5, <2>10 DEF ShimInv, BufferHoldsDecoded
  <2>13. decoded' \in Seq(Nat \X Nat) /\ Len(decoded') = writeIter'
    <3>1. decoded \o new \in Seq(Nat \X Nat) /\ Len(decoded \o new) = Len(decoded) + Len(new)
      BY <2>11, <2>12, Concatenation
    <3> QED
      BY <2>7, <2>11, <2>12, <2>11a, <3>1
  <2>14. ASSUME NEW k \in 1 .. writeIter
         PROVE  decoded'[k] = decoded[k]
    <3>1. \A j \in 1 .. Len(decoded) : (decoded \o new)[j] = decoded[j]
      BY <2>11, <2>12, Concatenation
    <3> QED
      BY <2>12, <2>11a, <3>1
  <2>15. ASSUME NEW k \in (writeIter + 1) .. writeIter'
         PROVE  decoded'[k] = <<updates, k - 1 - writeIter>>
    <3>1. k - writeIter \in 1 .. m
      BY <2>2, <2>7
    <3>2. decoded'[k] = new[k - writeIter]
      <4>1. (decoded \o new)[Len(decoded) + (k - writeIter)] = new[k - writeIter]
        BY <2>11, <2>12, <3>1
      <4>2. Len(decoded) + (k - writeIter) = k
        BY <2>2, <2>12
      <4> QED
        BY <2>11a, <4>1, <4>2
    <3>3. new[k - writeIter] = <<updates, (k - writeIter) - 1>>
      BY <3>1 DEF new
    <3> QED
      BY <2>2, <3>2, <3>3
  <2>16. ASSUME NEW k \in 1 .. Len(decoded')
         PROVE  k - 1 \in DOMAIN buffer' /\ buffer'[k - 1] = decoded'[k]
    <3>1. k \in 1 .. writeIter'
      BY <2>13
    <3>2. buffer' = [o \in DOMAIN buffer \cup writeIter .. writeIter + w - 1 |->
                        IF o \in writeIter .. writeIter + w - 1
                        THEN <<updates, o - writeIter>> ELSE buffer[o]]
      BY <2>7 DEF Written
    <3>3. CASE k <= writeIter
      <4>1. k \in 1 .. writeIter /\ k - 1 \notin writeIter .. writeIter + w - 1
        BY <2>2, <3>1, <3>3
      <4>2. k - 1 \in DOMAIN buffer /\ buffer[k - 1] = decoded[k]
        BY <2>12, <4>1
      <4> QED
        BY <2>14, <3>2, <4>1, <4>2
    <3>4. CASE k > writeIter
      <4>1. k \in (writeIter + 1) .. writeIter'
        BY <2>2, <2>8, <3>1, <3>4
      <4>2. k - 1 \in writeIter .. writeIter + w - 1
        BY <2>2, <2>6, <2>7, <4>1
      <4>3. buffer'[k - 1] = <<updates, k - 1 - writeIter>>
        BY <3>2, <4>2
      <4> QED
        BY <2>15, <3>2, <4>1, <4>2, <4>3
    <3> QED
      BY <2>2, <2>8, <3>1, <3>3, <3>4
  <2>17. ASSUME NEW k \in 1 .. Len(delivered') PROVE delivered'[k] = decoded'[k]
    <3>1. delivered' = delivered /\ k \in 1 .. writeIter
      BY <1>1, <2>2, <2>12
    <3> QED
      BY <2>12, <2>14, <3>1
  <2> QED
    BY <1>1, <1>5, <2>12, <2>13, <2>16, <2>17 DEF BufferHoldsDecoded
<1> QED
  BY <1>4, <1>5

\* A chainback keeps it.
LEMMA ChainbackKeeps ==
    ASSUME ShimInv, NEW bits \in ChainbackBits, Chainback(bits)
    PROVE  CursorTypes' /\ UpdateFits' /\ BufferHoldsDecoded'
<1>1. /\ bufLen \in Nat /\ readIter \in Nat /\ writeIter \in Nat
      /\ readIter <= writeIter /\ writeIter <= bufLen /\ bits \in Nat
  BY ShimAssumption DEF ShimInv, CursorTypes
<1>2. PICK n \in Nat : n = ChainbackBytes(bits) /\ n <= writeIter - readIter
  <2> DEFINE rem == 8 * (writeIter - readIter)
             asked == IF bits > rem THEN rem ELSE bits
  <2>1. asked \in Nat /\ asked <= rem /\ rem \in Nat
    BY <1>1
  <2>2. ChainbackBytes(bits) = Ceil8(asked)
    BY DEF ChainbackBytes
  <2> HIDE DEF asked
  <2>3. Ceil8(asked) \in Nat /\ 8 * Ceil8(asked) <= asked + 7
    BY <2>1, WholeBytes
  <2>4. Ceil8(asked) <= writeIter - readIter
    BY <1>1, <2>1, <2>3
  <2> QED
    BY <2>2, <2>3, <2>4
<1> DEFINE out == [j \in 1 .. n |-> IF readIter + j - 1 \in DOMAIN buffer
                                    THEN buffer[readIter + j - 1] ELSE <<>>]
<1>3. /\ kind = "viterbi" /\ ~Decoding
      /\ readIter' = readIter + n /\ delivered' = delivered \o out
      /\ UNCHANGED <<order, phase, kind, handle, failed, bufLen, writeIter, buffer,
                     given, writeBits, updates, decoded>>
  BY <1>2 DEF Chainback, scheduleVars, codecVars
<1>4. CursorTypes'
  BY <1>1, <1>2, <1>3 DEF ShimInv, CursorTypes
<1>5. UpdateFits'
  BY <1>3 DEF UpdateFits, InUpdate, Decoding
<1>6. SUFFICES ASSUME failed = {} PROVE BufferHoldsDecoded'
  BY <1>3, <1>4, <1>5 DEF BufferHoldsDecoded
<1>7. /\ decoded \in Seq(Nat \X Nat) /\ delivered \in Seq(Nat \X Nat)
      /\ Len(decoded) = writeIter /\ Len(delivered) = readIter
      /\ \A k \in 1 .. Len(decoded) :
             k - 1 \in DOMAIN buffer /\ buffer[k - 1] = decoded[k]
      /\ \A k \in 1 .. Len(delivered) : delivered[k] = decoded[k]
  BY <1>3, <1>6 DEF ShimInv, BufferHoldsDecoded
<1>8. ASSUME NEW j \in 1 .. n
      PROVE  out[j] = decoded[readIter + j] /\ out[j] \in Nat \X Nat
  <2>1. readIter + j \in 1 .. Len(decoded) /\ readIter + j - 1 = (readIter + j) - 1
    BY <1>1, <1>2, <1>7
  <2>2. readIter + j - 1 \in DOMAIN buffer /\ buffer[readIter + j - 1] = decoded[readIter + j]
    BY <1>7, <2>1
  <2>3. decoded[readIter + j] \in Nat \X Nat
    BY <1>7, <2>1
  <2> QED
    BY <2>2, <2>3
<1>9. out \in Seq(Nat \X Nat) /\ Len(out) = n
  <2>1. out \in [1 .. n -> Nat \X Nat]
    BY <1>8
  <2> QED
    BY <2>1
<1> HIDE DEF out
<1>10. delivered' \in Seq(Nat \X Nat) /\ Len(delivered') = readIter'
  <2>1. delivered \o out \in Seq(Nat \X Nat)
        /\ Len(delivered \o out) = Len(delivered) + Len(out)
    BY <1>7, <1>9, Concatenation
  <2> QED
    BY <1>3, <1>7, <1>9, <2>1
<1>11. ASSUME NEW k \in 1 .. Len(delivered') PROVE delivered'[k] = decoded'[k]
  <2>1. CASE k <= readIter
    <3>1. \A j \in 1 .. Len(delivered) : (delivered \o out)[j] = delivered[j]
      BY <1>7, <1>9, Concatenation, Zenon
    <3>2. k \in 1 .. Len(delivered)
      BY <1>1, <1>7, <2>1
    <3> QED
      BY <1>3, <1>7, <3>1, <3>2
  <2>2. CASE k > readIter
    <3>1. k - readIter \in 1 .. n /\ readIter + (k - readIter) = k
      BY <1>1, <1>2, <1>3, <1>10, <2>2
    <3>2. (delivered \o out)[Len(delivered) + (k - readIter)] = out[k - readIter]
      BY <1>7, <1>9, <3>1
    <3>3. delivered'[k] = out[k - readIter]
      BY <1>3, <1>7, <1>9, <3>2, <3>1
    <3> QED
      BY <1>3, <1>8, <3>1, <3>3
  <2> QED
    BY <1>1, <1>2, <1>3, <1>10, <2>1, <2>2
<1> QED
  BY <1>3, <1>7, <1>10, <1>11 DEF BufferHoldsDecoded

\* The calls that only start something or end it.
LEMMA CreateKeeps ==
    ASSUME ShimInv, NEW n, NEW bits \in BufferBits, NEW wild, CreateCodec(n, bits, wild)
    PROVE  CursorTypes' /\ UpdateFits' /\ BufferHoldsDecoded'
<1>1. /\ handle = "none" /\ kind' = kind
      /\ UNCHANGED <<order, phase>>
      /\ bufLen' = IF kind = "viterbi" THEN Ceil8(bits) ELSE 0
      /\ readIter' = 0 /\ writeIter' = 0 /\ buffer' = <<>>
      /\ given' = 0 /\ writeBits' = 0 /\ updates' = 0
      /\ decoded' = <<>> /\ delivered' = <<>>
  BY DEF CreateCodec, Create, scheduleVars
<1>2. ~Decoding'
  BY <1>1 DEF ShimInv, UpdateFits, Decoding
<1>3. bits \in Nat
  BY ShimAssumption
<1>4. Ceil8(bits) \in Nat /\ 8 * Ceil8(bits) <= bits + 7
  BY <1>3, WholeBytes
<1>5. CursorTypes'
  BY <1>1, <1>4 DEF ShimInv, CursorTypes
<1>6. UpdateFits'
  BY <1>2 DEF UpdateFits, InUpdate
<1>7. BufferHoldsDecoded'
  BY <1>1 DEF BufferHoldsDecoded
<1> QED
  BY <1>5, <1>6, <1>7

\* Destroying an object keeps it.
LEMMA DestroyKeeps ==
    ASSUME ShimInv, NEW wild, DestroyCodec(wild)
    PROVE  CursorTypes' /\ UpdateFits' /\ BufferHoldsDecoded'
<1>1. ~Decoding /\ UNCHANGED <<scheduleVars, shimVars, kind, failed>>
  BY DEF DestroyCodec, Destroy
<1> QED
  BY <1>1 DEF ShimInv, CursorTypes, UpdateFits, BufferHoldsDecoded, InUpdate, Decoding,
              scheduleVars, shimVars, bufVars, callVars

\* An init keeps it.
LEMMA InitKeeps ==
    ASSUME ShimInv, InitViterbi
    PROVE  CursorTypes' /\ UpdateFits' /\ BufferHoldsDecoded'
BY DEF InitViterbi, ShimInv, CursorTypes, UpdateFits, BufferHoldsDecoded, InUpdate, Decoding,
       scheduleVars, codecVars

\* A direct decode keeps it.
LEMMA DirectKeeps ==
    ASSUME ShimInv, NEW length, NEW n, NEW wild, DirectDecode(length, n, wild)
    PROVE  CursorTypes' /\ UpdateFits' /\ BufferHoldsDecoded'
<1>1. /\ kind = "conv" /\ handle = "held" /\ UNCHANGED <<kind, handle>>
      /\ updates' = updates + 1
      /\ UNCHANGED <<bufVars, given, writeBits, decoded, delivered>>
      /\ failed' = {} => failed = {}
  BY PrepareFacts DEF DirectDecode
<1>2. order' = order
  BY DEF DirectDecode, Start, scheduleVars
<1>3. CursorTypes'
  BY <1>1, <1>2 DEF ShimInv, CursorTypes, bufVars
<1>4. UpdateFits'
  BY <1>1 DEF UpdateFits, InUpdate
<1>5. BufferHoldsDecoded'
  BY <1>1 DEF ShimInv, BufferHoldsDecoded, bufVars
<1> QED
  BY <1>3, <1>4, <1>5

\* So do calls for objects of other kinds.
LEMMA OtherKeeps ==
    ASSUME ShimInv, NEW n, NEW used, NEW wild, OtherDecode(n, used, wild)
    PROVE  CursorTypes' /\ UpdateFits' /\ BufferHoldsDecoded'
<1>1. /\ kind # "viterbi" /\ handle = "held" /\ UNCHANGED <<kind, handle>>
      /\ UNCHANGED <<scheduleVars, shimVars>>
      /\ failed' = {} => failed = {}
  BY PrepareFacts DEF OtherDecode
<1> QED
  BY <1>1 DEF ShimInv, CursorTypes, UpdateFits, BufferHoldsDecoded, InUpdate, Decoding,
              scheduleVars, shimVars, bufVars, callVars

\* A step inside a decode keeps it.
LEMMA DecodeKeeps ==
    ASSUME ShimInv, DecodeStep
    PROVE  CursorTypes' /\ UpdateFits' /\ BufferHoldsDecoded'
<1>1. /\ Decoding /\ order' = order /\ sets' = sets
      /\ UNCHANGED <<codecVars, shimVars>>
  BY DEF DecodeStep, WarmupRound, WarmupEnd, InnerRound, EndInner, TailRound, Decoding
<1>2. CursorTypes'
  BY <1>1 DEF ShimInv, CursorTypes, codecVars, shimVars, bufVars, callVars
<1>3. UpdateFits'
  BY <1>1 DEF ShimInv, UpdateFits, InUpdate, RemBits, codecVars, shimVars, bufVars, callVars
<1>4. BufferHoldsDecoded'
  BY <1>1 DEF ShimInv, BufferHoldsDecoded, codecVars, shimVars, bufVars, callVars
<1> QED
  BY <1>2, <1>3, <1>4

\* A stutter keeps it.
LEMMA StutterKeeps ==
    ASSUME ShimInv, UNCHANGED allVars
    PROVE  CursorTypes' /\ UpdateFits' /\ BufferHoldsDecoded'
<1>1. UNCHANGED <<scheduleVars, codecVars, shimVars>>
  BY DEF allVars
<1> QED
  BY <1>1 DEF ShimInv, CursorTypes, UpdateFits, BufferHoldsDecoded, InUpdate, Decoding,
              RemBits, scheduleVars, codecVars, shimVars, bufVars, callVars

\* Every call, and every step of a decode, keeps the invariant.
LEMMA ShimNextInv ==
    ASSUME ShimInv, [ShimNext]_allVars
    PROVE  ShimInv'
<1>1. IInv'
  BY ScheduleSteps, NextInv DEF ShimInv
<1>2. CursorTypes' /\ UpdateFits' /\ BufferHoldsDecoded'
  <2>1. ASSUME Crashed /\ UNCHANGED <<scheduleVars, shimVars>> PROVE UNCHANGED allVars
    BY <2>1 DEF Crashed, allVars
  <2> QED
    BY <2>1, UpdateKeeps, ReturnKeeps, ChainbackKeeps, CreateKeeps, DestroyKeeps, InitKeeps,
       DirectKeeps, OtherKeeps, DecodeKeeps, StutterKeeps DEF ShimNext, DecodeSteps
<1> QED
  BY <1>1, <1>2 DEF ShimInv

-----------------------------------------------------------------------------
\* The invariant holds in every reachable state.
THEOREM ShimInvariance == ShimSpec => []ShimInv
<1>1. ShimInit => ShimInv
  BY ShimInitInv
<1>2. ShimInv /\ [ShimNext]_allVars => ShimInv'
  BY ShimNextInv
<1> QED
  BY <1>1, <1>2, PTL DEF ShimSpec

\* While a byte of the buffer is free, the decode that update_viterbi_blk
\* starts writes inside the buffer, for buffers of every length and blocks of
\* every size; the cursors stay in order.
THEOREM RoomIsRespected == ShimSpec => []WritesStayWhereRoomIs
<1>1. ShimInv => WritesStayWhereRoomIs
  <2> SUFFICES ASSUME ShimInv PROVE WritesStayWhereRoomIs
    OBVIOUS
  <2>1. 0 <= readIter /\ readIter <= writeIter /\ writeIter <= bufLen
    BY DEF ShimInv, CursorTypes
  <2>2. ASSUME InUpdate, writeIter < bufLen
        PROVE  writeIter + processed \div 8 <= bufLen
    <3>1. /\ bufLen \in Nat /\ writeIter \in Nat /\ writeBits \in Nat
          /\ writeBits <= 8 * (bufLen - writeIter)
          /\ order \in ShimOrders
      BY <2>2 DEF ShimInv, CursorTypes, UpdateFits, RemBits, InUpdate
    <3>2. order \in Nat /\ order <= 16
      BY <3>1, ShimAssumption
    <3>3. processed \in Nat /\ (processed <= order - 1 \/ processed <= writeBits)
      BY <2>2, DecisionBounds DEF ShimInv
    <3>4. PICK w \in Nat : w = processed \div 8 /\ 8 * w <= processed
      BY <3>3, WholeBytes
    <3>5. w <= bufLen - writeIter
      <4>1. 8 * w <= 15 \/ 8 * w <= 8 * (bufLen - writeIter)
        BY <3>1, <3>2, <3>3, <3>4
      <4> QED
        BY <2>2, <3>1, <4>1
    <3> QED
      BY <3>1, <3>4, <3>5
  <2> QED
    BY <2>1, <2>2 DEF WritesStayWhereRoomIs
<1> QED
  BY <1>1, ShimInvariance, PTL

\* Chainback hands out what was decoded, each byte once and in order.
THEOREM DecodedIsDelivered == ShimSpec => []ChainbackDeliversDecoded
<1>1. ShimInv => ChainbackDeliversDecoded
  <2> SUFFICES ASSUME ShimInv, failed = {} PROVE IsPrefix(delivered, decoded)
    BY DEF ChainbackDeliversDecoded
  <2>1. /\ decoded \in Seq(Nat \X Nat) /\ delivered \in Seq(Nat \X Nat)
        /\ Len(delivered) <= Len(decoded)
        /\ \A k \in 1 .. Len(delivered) : delivered[k] = decoded[k]
    BY DEF ShimInv, BufferHoldsDecoded, CursorTypes
  <2> DEFINE head == SubSeq(decoded, 1, Len(delivered))
  <2>2. /\ head \in Seq(Nat \X Nat) /\ Len(head) = Len(delivered)
        /\ \A k \in 1 .. Len(delivered) : head[k] = decoded[k]
    BY <2>1
  <2>3. head = delivered
    <3> HIDE DEF head
    <3>1. \A k \in 1 .. Len(delivered) : head[k] = delivered[k]
      BY <2>1, <2>2
    <3> QED
      BY <2>1, <2>2, <3>1, SeqEqual
  <2> QED
    BY <2>1, <2>3 DEF IsPrefix
<1> QED
  BY <1>1, ShimInvariance, PTL

\* In every decode that the library makes, for whatever caller, the three
\* loops read each slice once and decide each bit once.
THEOREM SessionsDecodeOnce ==
    ShimSpec => [](EachSliceOnce /\ OneDecisionPerBit)
<1>1. ShimInv => EachSliceOnce /\ OneDecisionPerBit
  BY SlicesInOrder, DecisionsCounted DEF ShimInv
<1> QED
  BY <1>1, ShimInvariance, PTL

-----------------------------------------------------------------------------
(* Who owns what.  The fields of an object are a finite set of names, and  *)
(* the invariant tells of each what create, the first decode and destroy   *)
(* may have left in it.                                                    *)

\* The base of an object: what every other call finds live as long as the
\* object is held.
Base(k) ==
    CASE k \in {"conv", "sse"} -> {"conv"}
      [] k = "viterbi" -> {"conv", "shim"}
      [] k = "rs"      -> {"rs"}
      [] k = "rs_char" -> {"rs", "shim"}

\* Whatever is live is found by the destroy function.
Owned ==
    /\ \A f \in Base(kind) : ptr[f] = "live"
    /\ ~hasInit => \A f \in ToSet(Lazy(kind)) : ptr[f] # "live"
    /\ ~IsRs(kind) => \A f \in ToSet(HistoryFields) :
                          ptr[f] = "live" => ptr["history_buffer"] = "live"
    /\ kind = "sse" => ptr["short_outs"] # "live"
    /\ IsRs(kind) /\ hasInit => \A f \in ToSet(Lazy(kind)) : ptr[f] = "live"

\* Nothing failed: all is live that was made, and the rest as it came from
\* malloc.
Whole ==
    /\ failed = {}
    /\ \A f \in ToSet(Created(kind)) : ptr[f] = "live"
    /\ \A f \in ToSet(Lazy(kind)) :
           ptr[f] = IF ~hasInit THEN Fresh(kind)[f]
                    ELSE IF f = "short_outs" THEN "null" ELSE "live"

\* Types of the object's state.
LifeTypes ==
    /\ kind \in Kinds
    /\ handle \in {"none", "held"}
    /\ hasInit \in BOOLEAN
    /\ ptr \in [Fields(kind) -> {"unset", "null", "live", "freed"}]

\* The invariant: as long as nothing was misused what is live can be found, and
\* as long as nothing fragile failed, nothing at all did.
LifeInv ==
    /\ LifeTypes
    /\ OnlyFragileFailuresMisuse
    /\ NothingLeaks
    /\ handle = "held" /\ misused = {} => Owned
    /\ handle = "held" /\ failed \cap Fragile = {} => Whole

\* What a pointer field can be.
Marks == {"unset", "null", "live", "freed"}

\* The fields by group.
ConvSet == {"conv", "table", "bit_writer", "bit_reader"}
HistorySet == {"history_buffer", "history", "slices", "fetched"}
ConvLazySet == {"distances", "pair_lookup", "errors"} \cup HistorySet
RsSet == {"rs", "field", "generator_roots", "generator", "encoded_polynomial", "encoded_remainder"}
RsLazySet ==
    {"syndromes", "modified_syndromes", "received_polynomial", "error_locator",
     "error_locator_log", "erasure_locator", "error_roots", "error_vals",
     "error_locations", "last_error_locator", "error_evaluator",
     "error_locator_derivative", "generator_root_exp", "element_exp",
     "init_from_roots_scratch_0", "init_from_roots_scratch_1"} \cup AllRows

\* A sequence that begins with s and ends with t is s \o t.
LEMMA ConcatIs ==
    ASSUME NEW S, NEW s \in Seq(S), NEW t \in Seq(S), NEW u \in Seq(S),
           Len(u) = Len(s) + Len(t),
           \A j \in 1 .. Len(s) : u[j] = s[j],
           \A j \in 1 .. Len(t) : u[Len(s) + j] = t[j]
    PROVE  s \o t = u
  <1>1. s \o t \in Seq(S) /\ Len(s \o t) = Len(u)  OBVIOUS
  <1>2. ASSUME NEW j \in 1 .. Len(u) PROVE (s \o t)[j] = u[j]
    <2>1. CASE j <= Len(s)  BY <2>1
    <2>2. CASE j > Len(s)
      <3>1. j - Len(s) \in 1 .. Len(t) /\ Len(s) + (j - Len(s)) = j  BY <2>2
      <3>2. u[Len(s) + (j - Len(s))] = t[j - Len(s)]  BY <3>1
      <3> QED BY <2>2, <3>1, <3>2
    <2> QED BY <2>1, <2>2
  <1> QED BY <1>1, <1>2

\* The fields of each kind of object one by one.
LEMMA FieldLists ==
    /\ ConvDecoder = <<"distances", "pair_lookup", "history_buffer", "history",
                       "slices", "fetched", "errors">>
    /\ Lazy("sse") = <<"distances", "pair_lookup", "history_buffer", "history",
                       "slices", "fetched", "errors", "oct_lookup", "short_outs">>
    /\ Created("viterbi") = <<"shim", "buf", "conv", "table", "bit_writer", "bit_reader">>
    /\ Created("rs_char") =
           <<"shim", "rs", "field", "generator_roots", "generator",
             "encoded_polynomial", "encoded_remainder", "msg_out", "erasures">>
  <1>1. <<"distances", "pair_lookup">> \o HistoryFields
            = <<"distances", "pair_lookup", "history_buffer", "history", "slices", "fetched">>
    <2> DEFINE u == <<"distances", "pair_lookup", "history_buffer", "history", "slices", "fetched">>
               s == <<"distances", "pair_lookup">>
               t == <<"history_buffer", "history", "slices", "fetched">>
    <2>1. s \in Seq(ConvLazySet) /\ t \in Seq(ConvLazySet) /\ u \in Seq(ConvLazySet)
      BY DEF ConvLazySet, HistorySet
    <2>2. Len(s) = 2 /\ Len(t) = 4 /\ Len(u) = 6
      OBVIOUS
    <2>3. (\A j \in 1 .. 2 : u[j] = s[j]) /\ (\A j \in 1 .. 4 : u[2 + j] = t[j])
      OBVIOUS
    <2>4. HistoryFields = t
      BY DEF HistoryFields
    <2> HIDE DEF u, s, t
    <2>5. /\ Len(u) = Len(s) + Len(t)
          /\ \A j \in 1 .. Len(s) : u[j] = s[j]
          /\ \A j \in 1 .. Len(t) : u[Len(s) + j] = t[j]
      BY <2>2, <2>3
    <2>6. s \o t = u
      BY <2>1, <2>5, ConcatIs
    <2> QED
      BY <2>4, <2>6 DEF u, s, t
  <1>2. ConvDecoder = <<"distances", "pair_lookup", "history_buffer", "history",
                        "slices", "fetched", "errors">>
    <2> DEFINE s == <<"distances", "pair_lookup", "history_buffer", "history", "slices", "fetched">>
               t == <<"errors">>
               u == <<"distances", "pair_lookup", "history_buffer", "history", "slices",
                      "fetched", "errors">>
    <2>1. s \in Seq(ConvLazySet) /\ t \in Seq(ConvLazySet) /\ u \in Seq(ConvLazySet)
      BY DEF ConvLazySet, HistorySet
    <2>2. Len(s) = 6 /\ Len(t) = 1 /\ Len(u) = 7
      OBVIOUS
    <2>3. (\A j \in 1 .. 6 : u[j] = s[j]) /\ (\A j \in 1 .. 1 : u[6 + j] = t[j])
      OBVIOUS
    <2>4. ConvDecoder = s \o t
      BY <1>1 DEF ConvDecoder
    <2> HIDE DEF u, s, t
    <2>5. /\ Len(u) = Len(s) + Len(t)
          /\ \A j \in 1 .. Len(s) : u[j] = s[j]
          /\ \A j \in 1 .. Len(t) : u[Len(s) + j] = t[j]
      BY <2>2, <2>3
    <2>6. s \o t = u
      BY <2>1, <2>5, ConcatIs
    <2> QED
      BY <2>4, <2>6 DEF u
  <1>3. Lazy("sse") = <<"distances", "pair_lookup", "history_buffer", "history",
                        "slices", "fetched", "errors">> \o <<"oct_lookup", "short_outs">>
    BY <1>2 DEF Lazy
  <1>4. Created("viterbi") = <<"shim", "buf">>
            \o <<"conv", "table", "bit_writer", "bit_reader">>
    BY DEF Created, ConvFields
  <1>5. <<"shim">> \o RsFields
            = <<"shim", "rs", "field", "generator_roots", "generator",
                "encoded_polynomial", "encoded_remainder">>
    <2> DEFINE s == <<"shim">>
               t == <<"rs", "field", "generator_roots", "generator",
                      "encoded_polynomial", "encoded_remainder">>
               u == <<"shim", "rs", "field", "generator_roots", "generator",
                      "encoded_polynomial", "encoded_remainder">>
               F == RsSet \cup {"shim"}
    <2>1. s \in Seq(F) /\ t \in Seq(F) /\ u \in Seq(F)
      BY DEF RsSet
    <2>2. Len(s) = 1 /\ Len(t) = 6 /\ Len(u) = 7
      OBVIOUS
    <2>3. (\A j \in 1 .. 1 : u[j] = s[j]) /\ (\A j \in 1 .. 6 : u[1 + j] = t[j])
      OBVIOUS
    <2>4. RsFields = t
      BY DEF RsFields
    <2> HIDE DEF u, s, t, F
    <2>5. /\ Len(u) = Len(s) + Len(t)
          /\ \A j \in 1 .. Len(s) : u[j] = s[j]
          /\ \A j \in 1 .. Len(t) : u[Len(s) + j] = t[j]
      BY <2>2, <2>3
    <2>6. s \o t = u
      BY <2>1, <2>5, ConcatIs
    <2> QED
      BY <2>4, <2>6 DEF u, s
  <1>6. Created("rs_char") =
            <<"shim", "rs", "field", "generator_roots", "generator",
              "encoded_polynomial", "encoded_remainder">> \o <<"msg_out", "erasures">>
    BY <1>5 DEF Created
  <1>7. Lazy("sse") = <<"distances", "pair_lookup", "history_buffer", "history",
                       "slices", "fetched", "errors", "oct_lookup", "short_outs">>
    BY <1>3
  <1>8. Created("viterbi") = <<"shim", "buf", "conv", "table", "bit_writer", "bit_reader">>
    BY <1>4
  <1>9. Created("rs_char") =
           <<"shim", "rs", "field", "generator_roots", "generator",
             "encoded_polynomial", "encoded_remainder", "msg_out", "erasures">>
    BY <1>6
  <1> QED BY <1>2, <1>7, <1>8, <1>9

\* The fields of each kind of object as sets.
LEMMA KindFields ==
    /\ ToSet(HistoryFields) = HistorySet /\ ToSet(RsFields) = RsSet
    /\ ToSet(Created("conv")) = ConvSet /\ ToSet(Lazy("conv")) = ConvLazySet
    /\ ToSet(Created("sse")) = ConvSet
    /\ ToSet(Lazy("sse")) = ConvLazySet \cup {"oct_lookup", "short_outs"}
    /\ ToSet(Created("viterbi")) = ConvSet \cup {"shim", "buf"}
    /\ ToSet(Lazy("viterbi")) = ConvLazySet
    /\ ToSet(Created("rs")) = RsSet /\ ToSet(Lazy("rs")) = RsLazySet
    /\ ToSet(Created("rs_char")) = RsSet \cup {"shim", "msg_out", "erasures"}
    /\ ToSet(Lazy("rs_char")) = RsLazySet
  <1>1. ToSet(ConvFields) = ConvSet  BY DEF ToSet, ConvFields, ConvSet
  <1>2. ToSet(RsFields) = RsSet  BY DEF ToSet, RsFields, RsSet
  <1>3. ToSet(HistoryFields) = HistorySet  BY DEF ToSet, HistoryFields, HistorySet
  <1>4. ToSet(RsDecoder) = RsLazySet  BY DEF ToSet, RsDecoder, RsLazySet, AllRows, Rows
  <1>5. ToSet(ConvDecoder) = ConvLazySet
    BY FieldLists DEF ToSet, ConvLazySet, HistorySet
  <1>6. ToSet(Lazy("sse")) = ConvLazySet \cup {"oct_lookup", "short_outs"}
    BY FieldLists DEF ToSet, ConvLazySet, HistorySet
  <1>7. ToSet(Created("viterbi")) = ConvSet \cup {"shim", "buf"}
    BY FieldLists DEF ToSet, ConvSet
  <1>8. ToSet(Created("rs_char")) = RsSet \cup {"shim", "msg_out", "erasures"}
    BY FieldLists DEF ToSet, RsSet
  <1> QED BY <1>1, <1>2, <1>3, <1>4, <1>5, <1>6, <1>7, <1>8 DEF Created, Lazy

-----------------------------------------------------------------------------
\* A heap with the fields D.
IsHeap(h, D) == h = [ptr |-> h.ptr, misused |-> h.misused] /\ h.ptr \in [D -> Marks]

\* Freeing the fields S makes r of h: what is live among them is freed, nothing
\* else changes, and if each is live or null, nothing is misused.
Frees(h, r, S) ==
    /\ \A f \in DOMAIN h.ptr :
           r.ptr[f] = IF f \in S /\ h.ptr[f] = "live" THEN "freed" ELSE h.ptr[f]
    /\ r.misused = {} => h.misused = {}
    /\ /\ h.misused = {}
       /\ \A f \in S : h.ptr[f] \in {"live", "null"} /\ (f = "history" => h.ptr[f] = "live")
       => r.misused = {}

\* `if (p) free(p)` frees the live ones and misuses nothing that is live or null.
LEMMA FreeFrees ==
    ASSUME NEW D, NEW h, IsHeap(h, D), NEW S, S \subseteq D, NEW w \in BOOLEAN
    PROVE  IsHeap(Free(h, S, w), D) /\ Frees(h, Free(h, S, w), S)
  <1> DEFINE p == [f \in DOMAIN h.ptr |->
                      IF f \in S /\ h.ptr[f] = "live" THEN "freed" ELSE h.ptr[f]]
             m == h.misused \cup {f \in S : h.ptr[f] = "freed" \/ (w /\ h.ptr[f] = "unset")}
  <1>1. Free(h, S, w) = [ptr |-> p, misused |-> m]  BY DEF Free
  <1>2. Free(h, S, w).ptr = p /\ Free(h, S, w).misused = m  BY <1>1
  <1>3. DOMAIN h.ptr = D /\ p \in [D -> Marks]  BY DEF IsHeap, Marks
  <1>4. Free(h, S, w) = [ptr |-> Free(h, S, w).ptr, misused |-> Free(h, S, w).misused]
    BY <1>1
  <1>5. IsHeap(Free(h, S, w), D)  BY <1>2, <1>3, <1>4 DEF IsHeap
  <1>6. \A f \in DOMAIN h.ptr : p[f] = IF f \in S /\ h.ptr[f] = "live" THEN "freed" ELSE h.ptr[f]
    OBVIOUS
  <1>7. m = {} => h.misused = {}  OBVIOUS
  <1>8. /\ h.misused = {}
        /\ \A f \in S : h.ptr[f] \in {"live", "null"} /\ (f = "history" => h.ptr[f] = "live")
        => m = {}
    OBVIOUS
  <1> HIDE DEF p, m
  <1> QED BY <1>2, <1>5, <1>6, <1>7, <1>8 DEF Frees

\* One after the other.
LEMMA FreesBoth ==
    ASSUME NEW D, NEW h, NEW g, NEW r, NEW S, NEW T,
           IsHeap(h, D), IsHeap(g, D), S \subseteq D, T \subseteq D,
           Frees(h, g, S), Frees(g, r, T), \A f \in S : f \notin T
    PROVE  Frees(h, r, S \cup T)
  <1>1. DOMAIN h.ptr = D /\ DOMAIN g.ptr = D  BY DEF IsHeap
  <1>2. ASSUME NEW f \in D
        PROVE  r.ptr[f] = IF f \in S \cup T /\ h.ptr[f] = "live" THEN "freed" ELSE h.ptr[f]
    BY <1>1, <1>2 DEF Frees
  <1>3. r.misused = {} => h.misused = {}  BY DEF Frees
  <1>4. ASSUME h.misused = {},
               \A f \in S \cup T : h.ptr[f] \in {"live", "null"} /\ (f = "history" => h.ptr[f] = "live")
        PROVE  r.misused = {}
    <2>1. g.misused = {}  BY <1>4 DEF Frees
    <2>2. \A f \in T : g.ptr[f] = h.ptr[f]  BY <1>1 DEF Frees
    <2> QED BY <1>4, <2>1, <2>2 DEF Frees
  <1> QED BY <1>1, <1>2, <1>3, <1>4 DEF Frees

\* Following the array of slices first.
LEMMA FreeHistoryFrees ==
    ASSUME NEW D, NEW h, IsHeap(h, D), HistorySet \subseteq D, NEW w \in BOOLEAN
    PROVE  /\ IsHeap(FreeHistory(h, w), D)
           /\ h.ptr["history_buffer"] = "live" => Frees(h, FreeHistory(h, w), HistorySet)
           /\ h.ptr["history_buffer"] # "live" => Frees(h, FreeHistory(h, w), {"history_buffer"})
  <1>1. CASE h.ptr["history_buffer"] = "live"
    <2> DEFINE g == Use(h, {"history"})
               r == Free(g, HistorySet, w)
    <2>1. /\ g = [ptr |-> h.ptr, misused |-> h.misused \cup {f \in {"history"} : h.ptr[f] # "live"}]
          /\ g.ptr = h.ptr
          /\ g.misused = h.misused \cup {f \in {"history"} : h.ptr[f] # "live"}
      BY DEF Use, IsHeap
    <2>2. IsHeap(g, D)  BY <2>1 DEF IsHeap
    <2>3. FreeHistory(h, w) = r  BY <1>1, KindFields DEF FreeHistory
    <2>4. g.misused = {} => h.misused = {}  BY <2>1
    <2>5. h.misused = {} /\ h.ptr["history"] = "live" => g.misused = {}  BY <2>1
    <2>6. "history" \in HistorySet  BY DEF HistorySet
    <2> HIDE DEF g
    <2>7. IsHeap(r, D) /\ Frees(g, r, HistorySet)  BY <2>2, FreeFrees
    <2> HIDE DEF r
    <2>8. Frees(h, r, HistorySet)  BY <2>1, <2>4, <2>5, <2>6, <2>7 DEF Frees
    <2> QED BY <1>1, <2>3, <2>7, <2>8
  <1>2. CASE h.ptr["history_buffer"] # "live"
    <2>1. FreeHistory(h, w) = Free(h, {"history_buffer"}, w)  BY <1>2 DEF FreeHistory
    <2>2. {"history_buffer"} \subseteq D  BY DEF HistorySet
    <2> QED BY <1>2, <2>1, <2>2, FreeFrees
  <1> QED BY <1>1, <1>2

\* correct_convolutional_destroy frees the object and, when the flag is set, the
\* decoder; of the ring only the struct when that is not there.
LEMMA DestroyConvFrees ==
    ASSUME NEW D, NEW h, IsHeap(h, D), ConvSet \cup ConvLazySet \subseteq D,
           NEW w \in BOOLEAN, NEW init \in BOOLEAN, h.ptr["conv"] = "live"
    PROVE  /\ IsHeap(DestroyConv(h, init, w), D)
           /\ ~init => Frees(h, DestroyConv(h, init, w), ConvSet)
           /\ init /\ h.ptr["history_buffer"] = "live"
                  => Frees(h, DestroyConv(h, init, w), ConvSet \cup ConvLazySet)
           /\ init /\ h.ptr["history_buffer"] # "live"
                  => Frees(h, DestroyConv(h, init, w),
                           ConvSet \cup (ConvLazySet \ {"history", "slices", "fetched"}))
  <1> DEFINE S1 == {"table", "bit_writer", "bit_reader"}
             S2 == {"pair_lookup", "errors", "distances"}
             g1 == Free(h, S1, w)
             g2 == Free(g1, S2, w)
             g3 == FreeHistory(g2, w)
  <1>1. S1 \subseteq D /\ S2 \subseteq D /\ HistorySet \subseteq D /\ {"conv"} \subseteq D
    BY DEF ConvSet, ConvLazySet
  <1>2. IsHeap(g1, D) /\ Frees(h, g1, S1)  BY <1>1, FreeFrees
  <1>3. IsHeap(g2, D) /\ Frees(g1, g2, S2)
    <2> HIDE DEF g1
    <2> QED BY <1>1, <1>2, FreeFrees
  <1>4. /\ IsHeap(g3, D)
        /\ g2.ptr["history_buffer"] = "live" => Frees(g2, g3, HistorySet)
        /\ g2.ptr["history_buffer"] # "live" => Frees(g2, g3, {"history_buffer"})
    <2> HIDE DEF g2
    <2> QED BY <1>1, <1>3, FreeHistoryFrees
  <1>5. Teardown(h, init, w) = IF init THEN g3 ELSE g1  BY DEF Teardown
  <1>6. DestroyConv(h, init, w) = Free(IF init THEN g3 ELSE g1, {"conv"}, w)
    BY <1>5 DEF DestroyConv
  <1> HIDE DEF g1, g2, g3
  <1>7. IsHeap(DestroyConv(h, init, w), D)
    <2>1. IsHeap(IF init THEN g3 ELSE g1, D)  BY <1>2, <1>4
    <2> QED BY <1>1, <1>6, <2>1, FreeFrees
  <1>8. CASE ~init
    <2>1. Frees(g1, DestroyConv(h, init, w), {"conv"})  BY <1>1, <1>2, <1>6, <1>8, FreeFrees
    <2>2. \A f \in S1 : f \notin {"conv"}  OBVIOUS
    <2>3. Frees(h, DestroyConv(h, init, w), S1 \cup {"conv"})
      <3> HIDE DEF S1
      <3> QED BY <1>1, <1>2, <2>1, <2>2, FreesBoth
    <2>4. S1 \cup {"conv"} = ConvSet  BY DEF ConvSet
    <2> QED BY <1>7, <1>8, <2>3, <2>4
  <1>9. CASE init
    <2> DEFINE H == IF g2.ptr["history_buffer"] = "live" THEN HistorySet ELSE {"history_buffer"}
    <2>1. H \subseteq D /\ H \subseteq HistorySet /\ Frees(g2, g3, H)
      BY <1>1, <1>4 DEF HistorySet
    <2>2. Frees(g3, DestroyConv(h, init, w), {"conv"})  BY <1>1, <1>4, <1>6, <1>9, FreeFrees
    <2>3. /\ \A f \in S1 : f \notin S2
          /\ \A f \in S1 \cup S2 : f \notin H
          /\ \A f \in (S1 \cup S2) \cup H : f \notin {"conv"}
      <3>1. \A f \in HistorySet : f \notin S1 /\ f \notin S2 /\ f # "conv"  BY DEF HistorySet
      <3> QED BY <2>1, <3>1
    <2>4. g2.ptr["history_buffer"] = "live" <=> h.ptr["history_buffer"] = "live"
      <3>1. DOMAIN h.ptr = D /\ DOMAIN g1.ptr = D  BY <1>2 DEF IsHeap
      <3>2. "history_buffer" \in D  BY <1>1 DEF HistorySet
      <3>3. g1.ptr["history_buffer"] = h.ptr["history_buffer"]
        BY <1>2, <3>1, <3>2 DEF Frees
      <3>4. g2.ptr["history_buffer"] = g1.ptr["history_buffer"]
        BY <1>3, <3>1, <3>2 DEF Frees
      <3> QED BY <3>3, <3>4
    <2>5. /\ h.ptr["history_buffer"] = "live" =>
                 ((S1 \cup S2) \cup H) \cup {"conv"} = ConvSet \cup ConvLazySet
          /\ h.ptr["history_buffer"] # "live" =>
                 ((S1 \cup S2) \cup H) \cup {"conv"}
                     = ConvSet \cup (ConvLazySet \ {"history", "slices", "fetched"})
      <3>1. ((S1 \cup S2) \cup HistorySet) \cup {"conv"} = ConvSet \cup ConvLazySet
        BY DEF ConvSet, ConvLazySet
      <3>2. ((S1 \cup S2) \cup {"history_buffer"}) \cup {"conv"}
                = ConvSet \cup (ConvLazySet \ {"history", "slices", "fetched"})
        BY DEF ConvSet, ConvLazySet, HistorySet
      <3> QED BY <2>4, <3>1, <3>2
    <2> HIDE DEF S1, S2, H
    <2>6. Frees(h, g2, S1 \cup S2)  BY <1>1, <1>2, <1>3, <2>3, FreesBoth
    <2>7. S1 \cup S2 \subseteq D /\ (S1 \cup S2) \cup H \subseteq D  BY <1>1, <2>1
    <2>8. Frees(h, g3, (S1 \cup S2) \cup H)
      <3> DEFINE A == S1 \cup S2
      <3>1. A \subseteq D /\ Frees(h, g2, A) /\ \A f \in A : f \notin H  BY <2>3, <2>6, <2>7
      <3> HIDE DEF A
      <3>2. Frees(h, g3, A \cup H)  BY <1>3, <2>1, <3>1, FreesBoth
      <3> QED BY <3>2 DEF A
    <2>9. Frees(h, DestroyConv(h, init, w), ((S1 \cup S2) \cup H) \cup {"conv"})
      <3> DEFINE A == (S1 \cup S2) \cup H
      <3>1. A \subseteq D /\ Frees(h, g3, A) /\ \A f \in A : f \notin {"conv"}
        BY <2>3, <2>7, <2>8
      <3> HIDE DEF A
      <3>2. Frees(h, DestroyConv(h, init, w), A \cup {"conv"})
        BY <1>1, <1>4, <2>2, <3>1, FreesBoth
      <3> QED BY <3>2 DEF A
    <2> QED BY <1>7, <1>9, <2>5, <2>9
  <1> QED BY <1>8, <1>9

\* The members of two sequences in a row.
LEMMA ToSetConcat ==
    ASSUME NEW S, NEW T, NEW s \in Seq(S), NEW t \in Seq(T)
    PROVE  ToSet(s \o t) = ToSet(s) \cup ToSet(t)
  <1>1. ASSUME NEW x \in ToSet(s \o t) PROVE x \in ToSet(s) \cup ToSet(t)
    <2>1. PICK j \in 1 .. Len(s) + Len(t) : (s \o t)[j] = x  BY <1>1 DEF ToSet
    <2>2. CASE j <= Len(s)  BY <2>1, <2>2 DEF ToSet
    <2>3. CASE j > Len(s)
      <3>1. j - Len(s) \in 1 .. Len(t) /\ x = t[j - Len(s)]  BY <2>1, <2>3
      <3> QED BY <3>1 DEF ToSet
    <2> QED BY <2>1, <2>2, <2>3
  <1>2. ASSUME NEW x \in ToSet(s) PROVE x \in ToSet(s \o t)
    <2>1. PICK j \in 1 .. Len(s) : s[j] = x  BY <1>2 DEF ToSet
    <2>2. j \in 1 .. Len(s \o t) /\ (s \o t)[j] = x  BY <2>1
    <2> QED BY <2>2 DEF ToSet
  <1>3. ASSUME NEW x \in ToSet(t) PROVE x \in ToSet(s \o t)
    <2>1. PICK j \in 1 .. Len(t) : t[j] = x  BY <1>3 DEF ToSet
    <2>2. Len(s) + j \in 1 .. Len(s \o t) /\ (s \o t)[Len(s) + j] = x  BY <2>1
    <2> QED BY <2>2 DEF ToSet
  <1> QED BY <1>1, <1>2, <1>3

\* The fields that correct_reed_solomon_destroy frees, without the rows.
RsPlain == (RsSet \cup RsLazySet) \ AllRows

\* correct_reed_solomon_destroy: the rows are freed with their tables.
LEMMA DestroyRsFrees ==
    ASSUME NEW D, NEW h, IsHeap(h, D), RsSet \cup RsLazySet \subseteq D, NEW w \in BOOLEAN
    PROVE  /\ IsHeap(DestroyRs(h, w), D)
           /\ h.ptr["rs"] # "live" => Frees(h, DestroyRs(h, w), {"rs"})
           /\ /\ h.ptr["rs"] = "live"
              /\ h.ptr["generator_root_exp"] = "live" /\ h.ptr["element_exp"] = "live"
              => Frees(h, DestroyRs(h, w), RsSet \cup RsLazySet)
           /\ /\ h.ptr["rs"] = "live"
              /\ h.ptr["generator_root_exp"] # "live" /\ h.ptr["element_exp"] # "live"
              => Frees(h, DestroyRs(h, w), RsPlain)
  <1> DEFINE tables == {t \in {"generator_root_exp", "element_exp"} : h.ptr[t] = "live"}
             R == (ToSet(RsFields \o RsDecoder) \ AllRows) \cup UNION {Rows(t) : t \in tables}
  <1>1. ToSet(RsFields \o RsDecoder) = RsSet \cup RsLazySet
    <2>1. ToSet(RsFields) = RsSet /\ ToSet(RsDecoder) = RsLazySet
      BY KindFields DEF Lazy
    <2>2. RsFields \in Seq(RsSet)  BY DEF RsFields, RsSet
    <2>3. RsDecoder \in Seq(RsLazySet)  BY DEF RsDecoder, RsLazySet, AllRows, Rows
    <2> QED BY <2>1, <2>2, <2>3, ToSetConcat
  <1>2. AllRows \subseteq RsLazySet  BY DEF RsLazySet
  <1>3. tables = {} => R = RsPlain  BY <1>1 DEF RsPlain
  <1>4. tables = {"generator_root_exp", "element_exp"} => R = RsSet \cup RsLazySet
    <2> SUFFICES ASSUME tables = {"generator_root_exp", "element_exp"}
                 PROVE  R = RsSet \cup RsLazySet
      OBVIOUS
    <2>1. UNION {Rows(t) : t \in tables} = AllRows  BY DEF AllRows
    <2> QED BY <1>1, <1>2, <2>1
  <1>5. UNION {Rows(t) : t \in tables} \subseteq AllRows
    BY DEF AllRows, Rows
  <1>6. R \subseteq D  BY <1>1, <1>2, <1>5
  <1>7. {"rs"} \subseteq D  BY DEF RsSet
  <1>8. DestroyRs(h, w) = IF h.ptr["rs"] = "live" THEN Free(h, R, w) ELSE Free(h, {"rs"}, w)
    BY DEF DestroyRs
  <1>9. /\ (h.ptr["generator_root_exp"] = "live" /\ h.ptr["element_exp"] = "live"
                => tables = {"generator_root_exp", "element_exp"})
        /\ (h.ptr["generator_root_exp"] # "live" /\ h.ptr["element_exp"] # "live"
                => tables = {})
    OBVIOUS
  <1> HIDE DEF tables, R
  <1>10. /\ IsHeap(Free(h, R, w), D) /\ Frees(h, Free(h, R, w), R)
         /\ IsHeap(Free(h, {"rs"}, w), D) /\ Frees(h, Free(h, {"rs"}, w), {"rs"})
    BY <1>6, <1>7, FreeFrees
  <1> QED BY <1>3, <1>4, <1>8, <1>9, <1>10

\* The fields of each kind.
LEMMA AllFields ==
    /\ kind = "conv"    => Fields(kind) = ConvSet \cup ConvLazySet
    /\ kind = "sse"     => Fields(kind) = (ConvSet \cup ConvLazySet) \cup {"oct_lookup", "short_outs"}
    /\ kind = "viterbi" => Fields(kind) = (ConvSet \cup ConvLazySet) \cup {"shim", "buf"}
    /\ kind = "rs"      => Fields(kind) = RsSet \cup RsLazySet
    /\ kind = "rs_char" => Fields(kind) = (RsSet \cup RsLazySet) \cup {"shim", "msg_out", "erasures"}
  BY KindFields DEF Fields

\* What destroy frees: S holds all that is live and, in an object in which
\* nothing failed, nothing else that it may not.
DestroySet(S) ==
    /\ S \subseteq Fields(kind)
    /\ \A f \in Fields(kind) : ptr[f] = "live" => f \in S
    /\ Whole => \A f \in S : ptr[f] \in {"live", "null"} /\ (f = "history" => ptr[f] = "live")

ConvFreed ==
    IF ~hasInit THEN ConvSet
    ELSE IF ptr["history_buffer"] = "live" THEN ConvSet \cup ConvLazySet
    ELSE ConvSet \cup (ConvLazySet \ {"history", "slices", "fetched"})

\* It takes all that is live, and of a whole object nothing else.
LEMMA ConvFreedFacts ==
    ASSUME LifeTypes, Owned, ~IsRs(kind), NEW f \in ConvSet \cup ConvLazySet
    PROVE  /\ ptr[f] = "live" => f \in ConvFreed
           /\ Whole /\ f \in ConvFreed => ptr[f] = "live"
  <1>1. kind \in {"conv", "sse", "viterbi"}
    BY KindsAssumption DEF LifeTypes, IsRs
  <1>2. ConvSet \subseteq ToSet(Created(kind)) /\ ConvLazySet \subseteq ToSet(Lazy(kind))
    BY <1>1, KindFields
  <1>3. "short_outs" \notin ConvSet \cup ConvLazySet /\ HistorySet \subseteq ConvLazySet
        /\ "history_buffer" \in HistorySet
    BY DEF ConvSet, ConvLazySet, HistorySet
  <1>4. hasInit \in BOOLEAN  BY DEF LifeTypes
  <1>5. ASSUME ptr[f] = "live" PROVE f \in ConvFreed
    <2>1. CASE f \in ConvSet  BY <2>1 DEF ConvFreed
    <2>2. CASE f \in ConvLazySet
      <3>1. hasInit  BY <1>2, <1>5, <2>2 DEF Owned
      <3>2. f \in HistorySet => ptr["history_buffer"] = "live"
        BY <1>5, KindFields DEF Owned
      <3>3. {"history", "slices", "fetched"} \subseteq HistorySet  BY DEF HistorySet
      <3> QED BY <2>2, <3>1, <3>2, <3>3 DEF ConvFreed
    <2> QED BY <2>1, <2>2
  <1>6. ASSUME Whole, f \in ConvFreed PROVE ptr[f] = "live"
    <2>1. CASE f \in ConvSet  BY <1>2, <1>6, <2>1 DEF Whole
    <2>2. CASE f \notin ConvSet
      <3>1. hasInit /\ f \in ConvLazySet  BY <1>6, <2>2 DEF ConvFreed
      <3> QED BY <1>2, <1>3, <1>6, <3>1 DEF Whole
    <2> QED BY <2>1, <2>2
  <1> QED BY <1>5, <1>6

RsFreed == IF hasInit THEN RsSet \cup RsLazySet ELSE RsPlain

\* The same of the Reed-Solomon codec.
LEMMA RsFreedFacts ==
    ASSUME LifeTypes, Owned, IsRs(kind)
    PROVE  /\ ptr["rs"] = "live"
           /\ hasInit => ptr["generator_root_exp"] = "live" /\ ptr["element_exp"] = "live"
           /\ ~hasInit => ptr["generator_root_exp"] # "live" /\ ptr["element_exp"] # "live"
           /\ RsFreed \subseteq RsSet \cup RsLazySet
           /\ \A f \in RsSet \cup RsLazySet :
                  /\ ptr[f] = "live" => f \in RsFreed
                  /\ Whole /\ f \in RsFreed => ptr[f] \in {"live", "null"} /\ f # "history"
  <1>1. kind \in {"rs", "rs_char"}  BY DEF IsRs
  <1>2. /\ ToSet(Created(kind)) \in {RsSet, RsSet \cup {"shim", "msg_out", "erasures"}}
        /\ ToSet(Lazy(kind)) = RsLazySet
    BY <1>1, KindFields
  <1>3. ptr["rs"] = "live"  BY <1>1 DEF Owned, Base
  <1>4. hasInit \in BOOLEAN  BY DEF LifeTypes
  <1>5. "generator_root_exp" \in RsLazySet /\ "element_exp" \in RsLazySet  BY DEF RsLazySet
  <1>6. /\ hasInit => \A f \in RsLazySet : ptr[f] = "live"
        /\ ~hasInit => \A f \in RsLazySet : ptr[f] # "live"
    BY <1>2, <1>4 DEF Owned
  <1>7. RsFreed \subseteq RsSet \cup RsLazySet  BY DEF RsFreed, RsPlain
  <1>8. ASSUME NEW f \in RsSet \cup RsLazySet, ptr[f] = "live" PROVE f \in RsFreed
    <2>1. RsSet \cap AllRows = {}  BY DEF RsSet, AllRows, Rows
    <2> QED BY <1>4, <1>6, <1>8, <2>1 DEF RsFreed, RsPlain
  <1>9. ASSUME NEW f \in RsSet \cup RsLazySet, Whole, f \in RsFreed
        PROVE  ptr[f] \in {"live", "null"} /\ f # "history"
    <2>1. "history" \notin RsSet \cup RsLazySet  BY DEF RsSet, RsLazySet, AllRows, Rows
    <2>2. {"shim", "msg_out", "erasures"} \cap (RsSet \cup RsLazySet) = {}
      BY DEF RsSet, RsLazySet, AllRows, Rows
    <2>3. CASE f \in RsSet  BY <1>2, <1>9, <2>1, <2>3 DEF Whole
    <2>4. CASE f \in RsLazySet /\ hasInit  BY <1>6, <2>1, <2>4
    <2>5. CASE f \in RsLazySet /\ ~hasInit
      <3>1. f \notin AllRows  BY <1>9, <2>5 DEF RsFreed, RsPlain
      <3>2. f \in Fields(kind) /\ f \notin AllRows \cup {"shim", "msg_out", "erasures"}
        BY <1>2, <2>2, <2>5, <3>1 DEF Fields
      <3>3. Fresh(kind)[f] = "null"  BY <3>2 DEF Fresh
      <3>4. ptr[f] = Fresh(kind)[f]  BY <1>2, <1>9, <2>5 DEF Whole
      <3> QED BY <2>1, <2>5, <3>3, <3>4
    <2> QED BY <1>4, <1>9, <2>3, <2>4, <2>5
  <1> QED BY <1>3, <1>5, <1>6, <1>7, <1>8, <1>9

\* Freeing such a set leaves nothing.
LEMMA DestroySetFreed ==
    ASSUME NEW S, NEW h, NEW r, h.ptr = ptr, h.misused = {}, IsHeap(h, Fields(kind)),
           IsHeap(r, Fields(kind)), Frees(h, r, S), DestroySet(S)
    PROVE  /\ r.ptr \in [Fields(kind) -> Marks]
           /\ \A f \in Fields(kind) : r.ptr[f] # "live"
           /\ Whole => r.misused = {}
  <1>1. DOMAIN h.ptr = Fields(kind) /\ r.ptr \in [Fields(kind) -> Marks]  BY DEF IsHeap
  <1>2. \A f \in Fields(kind) : r.ptr[f] # "live"  BY <1>1 DEF Frees, DestroySet
  <1>3. Whole => r.misused = {}  BY DEF Frees, DestroySet
  <1> QED BY <1>1, <1>2, <1>3

\* The object as it is.
Here == [ptr |-> ptr, misused |-> {}]

\* It is a heap with the fields of its kind.
LEMMA HereFacts ==
    ASSUME LifeTypes
    PROVE  Here.ptr = ptr /\ Here.misused = {} /\ IsHeap(Here, Fields(kind))
  BY DEF Here, IsHeap, LifeTypes, Marks

\* The destroy function of each kind leaves nothing live, and misuses nothing of
\* an object in which nothing failed.
LEMMA DestroyWhole ==
    ASSUME LifeTypes, Owned, NEW w \in BOOLEAN
    PROVE  /\ Destroyed(Here, w).ptr \in [Fields(kind) -> Marks]
           /\ \A f \in Fields(kind) : Destroyed(Here, w).ptr[f] # "live"
           /\ Whole => Destroyed(Here, w).misused = {}
  <1> DEFINE D == Fields(kind)
  <1>0. hasInit \in BOOLEAN /\ IsHeap(Here, D) /\ Here.ptr = ptr /\ Here.misused = {}
    BY HereFacts DEF LifeTypes
  <1>1. CASE kind = "conv"
    <2>1. D = ConvSet \cup ConvLazySet /\ ~IsRs(kind)  BY <1>1, AllFields DEF IsRs
    <2>2. ptr["conv"] = "live"  BY <1>1 DEF Owned, Base
    <2>3. Destroyed(Here, w) = DestroyConv(Here, hasInit, w)  BY <1>1 DEF Destroyed
    <2> HIDE DEF D
    <2>4. IsHeap(Destroyed(Here, w), D) /\ Frees(Here, Destroyed(Here, w), ConvFreed)
      BY <1>0, <2>1, <2>2, <2>3, DestroyConvFrees DEF ConvFreed
    <2>5. ConvFreed \subseteq ConvSet \cup ConvLazySet  BY DEF ConvFreed
    <2>6. DestroySet(ConvFreed)
      <3>1. \A f \in D : (ptr[f] = "live" => f \in ConvFreed)
                         /\ (Whole /\ f \in ConvFreed => ptr[f] = "live")
        BY <2>1, ConvFreedFacts
      <3> QED BY <2>1, <2>5, <3>1 DEF DestroySet, D
    <2> QED BY <1>0, <2>4, <2>6, DestroySetFreed DEF D
  <1>2. CASE kind = "sse"
    <2> DEFINE g == IF hasInit THEN Free(Here, {"oct_lookup"}, w) ELSE Here
               O == IF hasInit THEN {"oct_lookup"} ELSE {}
               r == DestroyConv(g, hasInit, w)
    <2>1. D = (ConvSet \cup ConvLazySet) \cup {"oct_lookup", "short_outs"} /\ ~IsRs(kind)
      BY <1>2, AllFields DEF IsRs
    <2>2. ptr["conv"] = "live"  BY <1>2 DEF Owned, Base
    <2>3. Destroyed(Here, w) = r  BY <1>2 DEF Destroyed
    <2>4. /\ "oct_lookup" \notin ConvSet \cup ConvLazySet /\ "short_outs" \notin ConvSet \cup ConvLazySet
          /\ "conv" \in ConvSet /\ "history_buffer" \in ConvLazySet
      BY DEF ConvSet, ConvLazySet, HistorySet
    <2>5. O \subseteq D /\ {"oct_lookup"} \subseteq D  BY <2>1
    <2> HIDE DEF D
    <2>6. IsHeap(g, D) /\ Frees(Here, g, O)
      <3>1. CASE hasInit  BY <1>0, <2>5, <3>1, FreeFrees
      <3>2. CASE ~hasInit
        <4>1. Frees(Here, Here, {})  BY <1>0 DEF Frees
        <4> QED BY <1>0, <3>2, <4>1
      <3> QED BY <3>1, <3>2
    <2>7. \A f \in ConvSet \cup ConvLazySet : g.ptr[f] = ptr[f]
      <3>1. \A f \in ConvSet \cup ConvLazySet : f \in DOMAIN Here.ptr /\ f \notin O
        BY <1>0, <2>1, <2>4 DEF IsHeap
      <3> HIDE DEF g, O
      <3> QED BY <1>0, <2>6, <3>1 DEF Frees
    <2> HIDE DEF g
    <2>8. IsHeap(r, D) /\ Frees(g, r, ConvFreed)
      BY <1>0, <2>1, <2>2, <2>4, <2>6, <2>7, DestroyConvFrees DEF ConvFreed
    <2>9. ConvFreed \subseteq ConvSet \cup ConvLazySet  BY DEF ConvFreed
    <2>10. \A f \in O : f \notin ConvFreed  BY <2>4, <2>9
    <2> HIDE DEF r
    <2>11. Frees(Here, r, O \cup ConvFreed)
      <3>1. ConvFreed \subseteq D  BY <2>1, <2>9
      <3> HIDE DEF O
      <3> QED BY <1>0, <2>5, <2>6, <2>8, <2>10, <3>1, FreesBoth
    <2>12. DestroySet(O \cup ConvFreed)
      <3>1. \A f \in ConvSet \cup ConvLazySet :
                (ptr[f] = "live" => f \in ConvFreed) /\ (Whole /\ f \in ConvFreed => ptr[f] = "live")
        BY <2>1, ConvFreedFacts
      <3>2. "oct_lookup" \in ToSet(Lazy(kind))  BY <1>2, KindFields
      <3>3. ptr["oct_lookup"] = "live" => hasInit  BY <1>0, <3>2 DEF Owned
      <3>4. ptr["short_outs"] # "live"  BY <1>2 DEF Owned
      <3>5. Whole /\ hasInit => ptr["oct_lookup"] = "live"  BY <3>2 DEF Whole
      <3>6. O \cup ConvFreed \subseteq D  BY <2>1, <2>5, <2>9
      <3>7. \A f \in D : ptr[f] = "live" => f \in O \cup ConvFreed
        BY <2>1, <3>1, <3>3, <3>4
      <3>8. Whole => \A f \in O \cup ConvFreed : ptr[f] = "live"
        BY <2>9, <3>1, <3>5
      <3> QED BY <3>6, <3>7, <3>8 DEF DestroySet, D
    <2> QED BY <1>0, <2>3, <2>8, <2>11, <2>12, DestroySetFreed DEF D
  <1>3. CASE kind = "viterbi"
    <2> DEFINE g == Free(Here, {"buf"}, w)
               e == DestroyConv(g, hasInit, w)
               r == Free(e, {"shim"}, w)
    <2>1. D = (ConvSet \cup ConvLazySet) \cup {"shim", "buf"} /\ ~IsRs(kind)
      BY <1>3, AllFields DEF IsRs
    <2>2. ptr["conv"] = "live"  BY <1>3 DEF Owned, Base
    <2>3. Destroyed(Here, w) = r  BY <1>3 DEF Destroyed
    <2>4. /\ "buf" \notin ConvSet \cup ConvLazySet /\ "shim" \notin ConvSet \cup ConvLazySet
          /\ "conv" \in ConvSet /\ "history_buffer" \in ConvLazySet
      BY DEF ConvSet, ConvLazySet, HistorySet
    <2>5. {"buf"} \subseteq D /\ {"shim"} \subseteq D  BY <2>1
    <2> HIDE DEF D
    <2>6. IsHeap(g, D) /\ Frees(Here, g, {"buf"})  BY <1>0, <2>5, FreeFrees
    <2>7. \A f \in ConvSet \cup ConvLazySet : g.ptr[f] = ptr[f]
      <3>1. \A f \in ConvSet \cup ConvLazySet : f \in DOMAIN Here.ptr /\ f # "buf"
        BY <1>0, <2>1, <2>4 DEF IsHeap
      <3> HIDE DEF g
      <3> QED BY <1>0, <2>6, <3>1 DEF Frees
    <2> HIDE DEF g
    <2>8. IsHeap(e, D) /\ Frees(g, e, ConvFreed)
      BY <1>0, <2>1, <2>2, <2>4, <2>6, <2>7, DestroyConvFrees DEF ConvFreed
    <2>9. ConvFreed \subseteq ConvSet \cup ConvLazySet  BY DEF ConvFreed
    <2>10. (\A f \in {"buf"} : f \notin ConvFreed) /\ \A f \in {"buf"} \cup ConvFreed : f \notin {"shim"}
      BY <2>4, <2>9
    <2> HIDE DEF e
    <2>11. IsHeap(r, D) /\ Frees(e, r, {"shim"})  BY <2>5, <2>8, FreeFrees
    <2> HIDE DEF r
    <2>12. ConvFreed \subseteq D /\ {"buf"} \cup ConvFreed \subseteq D  BY <2>1, <2>9
    <2>13. Frees(Here, e, {"buf"} \cup ConvFreed)
      BY <1>0, <2>5, <2>6, <2>8, <2>10, <2>12, FreesBoth
    <2>14. Frees(Here, r, ({"buf"} \cup ConvFreed) \cup {"shim"})
      <3> DEFINE A == {"buf"} \cup ConvFreed
      <3>1. A \subseteq D /\ Frees(Here, e, A) /\ \A f \in A : f \notin {"shim"}
        BY <2>10, <2>12, <2>13
      <3> HIDE DEF A
      <3>2. Frees(Here, r, A \cup {"shim"})  BY <1>0, <2>5, <2>8, <2>11, <3>1, FreesBoth
      <3> QED BY <3>2 DEF A
    <2>15. DestroySet(({"buf"} \cup ConvFreed) \cup {"shim"})
      <3>1. \A f \in ConvSet \cup ConvLazySet :
                (ptr[f] = "live" => f \in ConvFreed) /\ (Whole /\ f \in ConvFreed => ptr[f] = "live")
        BY <2>1, ConvFreedFacts
      <3>2. "buf" \in ToSet(Created(kind)) /\ "shim" \in ToSet(Created(kind))  BY <1>3, KindFields
      <3>3. Whole => ptr["buf"] = "live" /\ ptr["shim"] = "live"  BY <3>2 DEF Whole
      <3>4. ({"buf"} \cup ConvFreed) \cup {"shim"} \subseteq D  BY <2>5, <2>12
      <3>5. \A f \in D : ptr[f] = "live" => f \in ({"buf"} \cup ConvFreed) \cup {"shim"}
        BY <2>1, <3>1
      <3>6. Whole => \A f \in ({"buf"} \cup ConvFreed) \cup {"shim"} : ptr[f] = "live"
        BY <2>9, <3>1, <3>3
      <3> QED BY <3>4, <3>5, <3>6 DEF DestroySet, D
    <2> QED BY <1>0, <2>3, <2>11, <2>14, <2>15, DestroySetFreed DEF D
  <1>4. CASE kind = "rs"
    <2>1. D = RsSet \cup RsLazySet /\ IsRs(kind)  BY <1>4, AllFields DEF IsRs
    <2>2. Destroyed(Here, w) = DestroyRs(Here, w)  BY <1>4 DEF Destroyed
    <2> HIDE DEF D
    <2>3. IsHeap(Destroyed(Here, w), D) /\ Frees(Here, Destroyed(Here, w), RsFreed)
      BY <1>0, <2>1, <2>2, RsFreedFacts, DestroyRsFrees DEF RsFreed
    <2>4. DestroySet(RsFreed)  BY <2>1, RsFreedFacts DEF DestroySet, D
    <2> QED BY <1>0, <2>3, <2>4, DestroySetFreed DEF D
  <1>5. CASE kind = "rs_char"
    <2> DEFINE T == {"msg_out", "erasures", "shim"}
               g == DestroyRs(Here, w)
               r == Free(g, T, w)
    <2>1. D = (RsSet \cup RsLazySet) \cup T /\ IsRs(kind)  BY <1>5, AllFields DEF IsRs
    <2>2. Destroyed(Here, w) = r  BY <1>5 DEF Destroyed
    <2>3. \A f \in T : f \notin RsSet \cup RsLazySet /\ f # "history"
      BY DEF RsSet, RsLazySet, AllRows, Rows
    <2>4. T \subseteq D  BY <2>1
    <2>5. T \subseteq ToSet(Created(kind))  BY <1>5, KindFields
    <2> HIDE DEF D, T
    <2>6. IsHeap(g, D) /\ Frees(Here, g, RsFreed)
      BY <1>0, <2>1, RsFreedFacts, DestroyRsFrees DEF RsFreed
    <2> HIDE DEF g
    <2>7. IsHeap(r, D) /\ Frees(g, r, T)  BY <2>4, <2>6, FreeFrees
    <2> HIDE DEF r
    <2>8. RsFreed \subseteq D /\ \A f \in RsFreed : f \notin T  BY <2>1, <2>3, RsFreedFacts
    <2>9. Frees(Here, r, RsFreed \cup T)
      BY <1>0, <2>4, <2>6, <2>7, <2>8, FreesBoth
    <2>10. DestroySet(RsFreed \cup T)
      <3>1. RsFreed \cup T \subseteq D  BY <2>4, <2>8
      <3>2. \A f \in D : ptr[f] = "live" => f \in RsFreed \cup T
        BY <2>1, RsFreedFacts
      <3>3. Whole => \A f \in RsFreed \cup T :
                         ptr[f] \in {"live", "null"} /\ f # "history"
        BY <2>1, <2>3, <2>5, RsFreedFacts DEF Whole
      <3> QED BY <3>1, <3>2, <3>3 DEF DestroySet, D
    <2> QED BY <1>0, <2>2, <2>7, <2>9, <2>10, DestroySetFreed DEF D
  <1>6. kind \in {"conv", "sse", "viterbi", "rs", "rs_char"}
    BY KindsAssumption DEF LifeTypes
  <1> QED BY <1>1, <1>2, <1>3, <1>4, <1>5, <1>6

-----------------------------------------------------------------------------
\* The fields allocated before number n.
Prior(fields, n) == {fields[j] : j \in 1 .. n - 1}

\* The heap a is h after these allocations, of which number n failed.
Allocated(h, a, D, fields, n) ==
    /\ IsHeap(a, D) /\ a.misused = h.misused
    /\ n = 0 => \A f \in D : a.ptr[f] = IF f \in ToSet(fields) THEN "live" ELSE h.ptr[f]
    /\ n # 0 => \A f \in D : a.ptr[f] = IF f \in Prior(fields, n) THEN "live"
                                        ELSE IF f = fields[n] THEN "null" ELSE h.ptr[f]

\* What an allocation makes of a heap.
LEMMA AllocateFacts ==
    ASSUME NEW S, NEW fields \in Seq(S), NEW n \in 0 .. Len(fields),
           NEW D, NEW h, IsHeap(h, D)
    PROVE  Allocated(h, Allocate(h, fields, n), D, fields, n)
  <1> DEFINE made == ToSet(IF n = 0 THEN fields ELSE SubSeq(fields, 1, n - 1))
             p == [f \in DOMAIN h.ptr |->
                      IF f \in made THEN "live"
                      ELSE IF n # 0 /\ f = fields[n] THEN "null" ELSE h.ptr[f]]
             a == Allocate(h, fields, n)
  <1>1. h = [ptr |-> h.ptr, misused |-> h.misused] /\ h.ptr \in [D -> Marks] /\ DOMAIN h.ptr = D
    BY DEF IsHeap
  <1>2. a = [h EXCEPT !.ptr = p]  BY DEF Allocate
  <1>3. p \in [D -> Marks]  BY <1>1 DEF Marks
  <1>4. n # 0 => made = Prior(fields, n)
    <2> SUFFICES ASSUME n # 0 PROVE made = Prior(fields, n)
      OBVIOUS
    <2>1. made = {SubSeq(fields, 1, n - 1)[j] : j \in 1 .. n - 1}
      <3>1. DOMAIN SubSeq(fields, 1, n - 1) = 1 .. n - 1  OBVIOUS
      <3> QED BY <3>1 DEF ToSet
    <2>2. \A j \in 1 .. n - 1 : SubSeq(fields, 1, n - 1)[j] = fields[j]  OBVIOUS
    <2> QED BY <2>1, <2>2 DEF Prior
  <1>5. n = 0 => made = ToSet(fields)  OBVIOUS
  <1>6. \A f \in D : p[f] = IF f \in made THEN "live"
                            ELSE IF n # 0 /\ f = fields[n] THEN "null" ELSE h.ptr[f]
    BY <1>1
  <1> HIDE DEF p, made
  <1>7. a.ptr = p /\ a.misused = h.misused /\ a = [ptr |-> p, misused |-> h.misused]
    BY <1>1, <1>2
  <1> HIDE DEF a
  <1>8. IsHeap(a, D)  BY <1>3, <1>7 DEF IsHeap
  <1>9. n = 0 => \A f \in D : a.ptr[f] = IF f \in ToSet(fields) THEN "live" ELSE h.ptr[f]
    BY <1>5, <1>6, <1>7
  <1>10. n # 0 => \A f \in D : a.ptr[f] =
                          IF f \in Prior(fields, n) THEN "live"
                          ELSE IF f = fields[n] THEN "null" ELSE h.ptr[f]
    BY <1>4, <1>6, <1>7
  <1> QED BY <1>7, <1>8, <1>9, <1>10 DEF a, Allocated

\* The fields of the two wrappers.
ViterbiFields == <<"shim", "buf", "conv", "table", "bit_writer", "bit_reader">>
RsCharFields ==
    <<"shim", "rs", "field", "generator_roots", "generator",
      "encoded_polynomial", "encoded_remainder", "msg_out", "erasures">>

\* What is allocated before each field.
LEMMA ConvPrior ==
    ASSUME NEW n \in 1 .. 4
    PROVE  /\ Prior(ConvFields, n) = ConvUndo[n] /\ ConvUndo[n] \subseteq ConvSet
           /\ ConvFields[n] \in ConvSet \ ConvUndo[n]
           /\ n = 1 => ConvFields[n] = "conv" /\ ConvUndo[n] = {}
  <1>1. Prior(ConvFields, 1) = {} /\ Prior(ConvFields, 2) = {"conv"}
        /\ Prior(ConvFields, 3) = {"conv", "table"}
        /\ Prior(ConvFields, 4) = {"conv", "table", "bit_writer"}
    BY DEF Prior, ConvFields
  <1>2. n \in {1, 2, 3, 4}  OBVIOUS
  <1> QED BY <1>1, <1>2 DEF ConvUndo, ConvFields, ConvSet

\* The same for create_viterbi.
LEMMA ViterbiPrior ==
    ASSUME NEW n \in 1 .. 6
    PROVE  /\ n = 1 => Prior(ViterbiFields, n) = {}
           /\ n = 2 => Prior(ViterbiFields, n) = {"shim"} /\ ViterbiFields[n] = "buf"
           /\ n > 2 => /\ Prior(ViterbiFields, n) = {"shim", "buf"} \cup ConvUndo[n - 2]
                       /\ ViterbiFields[n] = ConvFields[n - 2]
  <1> DEFINE c == <<"shim", "buf", "conv", "table", "bit_writer", "bit_reader">>
  <1>1. Prior(c, 1) = {} /\ Prior(c, 2) = {"shim"} /\ Prior(c, 3) = {"shim", "buf"}
        /\ Prior(c, 4) = {"shim", "buf", "conv"}
        /\ Prior(c, 5) = {"shim", "buf", "conv", "table"}
        /\ Prior(c, 6) = {"shim", "buf", "conv", "table", "bit_writer"}
    BY DEF Prior
  <1>2. n \in {1, 2, 3, 4, 5, 6}  OBVIOUS
  <1>3. ViterbiFields = c  BY DEF ViterbiFields
  <1>4. c[2] = "buf" /\ c[3] = "conv" /\ c[4] = "table" /\ c[5] = "bit_writer" /\ c[6] = "bit_reader"
    OBVIOUS
  <1> HIDE DEF c
  <1>5. n > 2 => n - 2 \in {1, 2, 3, 4} /\ (n - 2 = 1 => n = 3) /\ (n - 2 = 2 => n = 4)
                 /\ (n - 2 = 3 => n = 5) /\ (n - 2 = 4 => n = 6)
    BY <1>2
  <1> QED BY <1>1, <1>2, <1>3, <1>4, <1>5 DEF ConvUndo, ConvFields

\* The same for correct_reed_solomon_create.
LEMMA RsPrior ==
    ASSUME NEW n \in 1 .. 6
    PROVE  /\ Prior(RsFields, n) \subseteq RsSet /\ RsFields[n] \in RsSet
           /\ n = 1 => Prior(RsFields, n) = {}
           /\ n > 1 => "rs" \in Prior(RsFields, n)
  <1>1. \A j \in 1 .. 6 : RsFields[j] \in RsSet  BY DEF RsFields, RsSet
  <1>2. Prior(RsFields, n) \subseteq RsSet  BY <1>1 DEF Prior
  <1>3. n = 1 => Prior(RsFields, n) = {}  BY DEF Prior
  <1>4. RsFields[1] = "rs"  BY DEF RsFields
  <1>5. n > 1 => "rs" \in Prior(RsFields, n)
    <2>1. n > 1 => 1 \in 1 .. n - 1  OBVIOUS
    <2> QED BY <1>4, <2>1 DEF Prior
  <1> QED BY <1>1, <1>2, <1>3, <1>5

\* The same for init_rs_char, up to the allocation of msg_out.
LEMMA RsCharPrior ==
    ASSUME NEW n \in 1 .. 8
    PROVE  /\ n = 1 => Prior(RsCharFields, n) = {}
           /\ n > 1 => Prior(RsCharFields, n) \subseteq {"shim"} \cup RsSet
           /\ n > 1 /\ n < 8 => RsCharFields[n] \in RsSet
           /\ n = 2 => Prior(RsCharFields, n) = {"shim"}
           /\ n > 2 => "rs" \in Prior(RsCharFields, n)
           /\ n = 8 => RsCharFields[n] = "msg_out" /\ RsSet \subseteq Prior(RsCharFields, n)
  <1> DEFINE c == <<"shim", "rs", "field", "generator_roots", "generator",
                    "encoded_polynomial", "encoded_remainder", "msg_out", "erasures">>
  <1>1. c[1] = "shim" /\ c[2] = "rs" /\ c[3] = "field" /\ c[4] = "generator_roots"
        /\ c[5] = "generator" /\ c[6] = "encoded_polynomial" /\ c[7] = "encoded_remainder"
        /\ c[8] = "msg_out"
    OBVIOUS
  <1>2. RsCharFields = c  BY DEF RsCharFields
  <1> HIDE DEF c
  <1>3. \A j \in 2 .. 7 : c[j] \in RsSet
    <2> SUFFICES ASSUME NEW j \in 2 .. 7 PROVE c[j] \in RsSet
      OBVIOUS
    <2>1. j \in {2, 3, 4, 5, 6, 7}  OBVIOUS
    <2> QED BY <1>1, <2>1 DEF RsSet
  <1>4. n > 1 => Prior(c, n) \subseteq {"shim"} \cup RsSet
    <2> SUFFICES ASSUME n > 1, NEW j \in 1 .. n - 1 PROVE c[j] \in {"shim"} \cup RsSet
      BY DEF Prior
    <2>1. j = 1 \/ j \in 2 .. 7  OBVIOUS
    <2> QED BY <1>1, <1>3, <2>1
  <1>5. n = 1 => Prior(c, n) = {}  BY DEF Prior
  <1>6. n = 2 => Prior(c, n) = {"shim"}  BY <1>1 DEF Prior
  <1>7. n > 2 => "rs" \in Prior(c, n)
    <2>1. n > 2 => 2 \in 1 .. n - 1  OBVIOUS
    <2> QED BY <1>1, <2>1 DEF Prior
  <1>8. n = 8 => RsSet \subseteq Prior(c, n)
    <2> SUFFICES ASSUME n = 8, NEW f \in RsSet PROVE f \in Prior(c, n)
      OBVIOUS
    <2>1. f \in {c[2], c[3], c[4], c[5], c[6], c[7]}  BY <1>1 DEF RsSet
    <2>2. {2, 3, 4, 5, 6, 7} \subseteq 1 .. n - 1  OBVIOUS
    <2> QED BY <2>1, <2>2 DEF Prior
  <1>9. n > 1 /\ n < 8 => n \in 2 .. 7  OBVIOUS
  <1> QED BY <1>1, <1>2, <1>3, <1>4, <1>5, <1>6, <1>7, <1>8, <1>9

-----------------------------------------------------------------------------
\* The object as malloc returns it.
New == [ptr |-> Fresh(kind), misused |-> {}]

\* Nothing in it is live; the Reed-Solomon codec's own memory is zeroed.
LEMMA NewFacts ==
    ASSUME kind \in Kinds
    PROVE  /\ IsHeap(New, Fields(kind)) /\ New.ptr = Fresh(kind) /\ New.misused = {}
           /\ \A f \in Fields(kind) : Fresh(kind)[f] \in {"unset", "null"}
           /\ IsRs(kind) => \A f \in RsPlain : Fresh(kind)[f] = "null"
  <1>1. \A f \in Fields(kind) : Fresh(kind)[f] \in {"unset", "null"}  BY DEF Fresh
  <1>2. Fresh(kind) \in [Fields(kind) -> Marks]  BY DEF Fresh, Marks
  <1>3. New.ptr = Fresh(kind) /\ New.misused = {}  BY DEF New
  <1>4. IsHeap(New, Fields(kind))  BY <1>2, <1>3 DEF IsHeap, New
  <1>5. IsRs(kind) => \A f \in RsPlain : Fresh(kind)[f] = "null"
    <2> SUFFICES ASSUME IsRs(kind), NEW f \in RsPlain PROVE Fresh(kind)[f] = "null"
      OBVIOUS
    <2>1. kind \in {"rs", "rs_char"}  BY DEF IsRs
    <2>2. RsSet \cup RsLazySet \subseteq Fields(kind)  BY <2>1, AllFields
    <2>3. {"shim", "msg_out", "erasures"} \cap (RsSet \cup RsLazySet) = {}
      BY DEF RsSet, RsLazySet, AllRows, Rows
    <2>4. f \in Fields(kind) /\ f \notin AllRows \cup {"shim", "msg_out", "erasures"}
      BY <2>2, <2>3 DEF RsPlain
    <2> QED BY <2>4 DEF Fresh
  <1> QED BY <1>1, <1>3, <1>4, <1>5

\* The lists of a kind.
LEMMA KindLists ==
    /\ \A k \in {"conv", "sse"} : Created(k) = ConvFields
    /\ Created("rs") = RsFields /\ Created("viterbi") = ViterbiFields
    /\ Created("rs_char") = RsCharFields
    /\ ConvFields \in Seq(ConvSet) /\ Len(ConvFields) = 4
    /\ RsFields \in Seq(RsSet) /\ Len(RsFields) = 6
    /\ ViterbiFields \in Seq(ConvSet \cup {"shim", "buf"}) /\ Len(ViterbiFields) = 6
    /\ RsCharFields \in Seq(RsSet \cup {"shim", "msg_out", "erasures"})
    /\ Len(RsCharFields) = 9 /\ RsCharFields[9] = "erasures"
  <1>1. ConvFields \in Seq(ConvSet) /\ Len(ConvFields) = 4  BY DEF ConvFields, ConvSet
  <1>2. RsFields \in Seq(RsSet) /\ Len(RsFields) = 6  BY DEF RsFields, RsSet
  <1>3. ViterbiFields \in Seq(ConvSet \cup {"shim", "buf"}) /\ Len(ViterbiFields) = 6
    BY DEF ConvSet, ViterbiFields
  <1>4. /\ RsCharFields \in Seq(RsSet \cup {"shim", "msg_out", "erasures"})
        /\ Len(RsCharFields) = 9 /\ RsCharFields[9] = "erasures"
    BY DEF RsSet, RsCharFields
  <1>5. Created("viterbi") = ViterbiFields /\ Created("rs_char") = RsCharFields
    BY FieldLists DEF ViterbiFields, RsCharFields
  <1> QED BY <1>1, <1>2, <1>3, <1>4, <1>5 DEF Created

\* What a failed create of the Reed-Solomon codec may hand to its destroy.
Partial(h) ==
    /\ \A f \in RsPlain : h.ptr[f] \in {"live", "null"}
    /\ \A f \in RsLazySet : h.ptr[f] # "live"
    /\ h.ptr["rs"] = "live" \/ \A f \in RsSet : h.ptr[f] # "live"

\* The heap h after the allocations P were made and `last` failed.
Halted(h, P, last) ==
    \A f \in Fields(kind) : h.ptr[f] = IF f \in P THEN "live"
                                       ELSE IF f = last THEN "null" ELSE New.ptr[f]

\* That is where create stops when allocation n of it fails.
LEMMA NewHalts ==
    ASSUME kind \in Kinds, NEW S, NEW fields \in Seq(S), NEW n \in 1 .. Len(fields)
    PROVE  /\ IsHeap(Allocate(New, fields, n), Fields(kind))
           /\ Allocate(New, fields, n).misused = {}
           /\ Halted(Allocate(New, fields, n), Prior(fields, n), fields[n])
  <1> DEFINE D == Fields(kind)
             h == Allocate(New, fields, n)
  <1>1. IsHeap(New, D) /\ New.misused = {}  BY NewFacts
  <1>2. n \in 0 .. Len(fields) /\ n # 0  OBVIOUS
  <1> HIDE DEF D
  <1>3. Allocated(New, h, D, fields, n)  BY <1>1, <1>2, AllocateFacts
  <1> HIDE DEF h
  <1> QED BY <1>1, <1>2, <1>3 DEF Halted, Allocated, D, h

\* A failed create of the Reed-Solomon codec frees all of its zeroed fields.
LEMMA RsUndone ==
    ASSUME NEW D, RsSet \cup RsLazySet \subseteq D, NEW h, IsHeap(h, D), h.misused = {},
           Partial(h), NEW w \in BOOLEAN
    PROVE  /\ IsHeap(DestroyRs(h, w), D) /\ DestroyRs(h, w).misused = {}
           /\ \A f \in RsSet \cup RsLazySet : DestroyRs(h, w).ptr[f] # "live"
           /\ \A f \in D : f \notin RsSet \cup RsLazySet => DestroyRs(h, w).ptr[f] = h.ptr[f]
  <1> DEFINE r == DestroyRs(h, w)
  <1>0. /\ \A f \in RsPlain : h.ptr[f] \in {"live", "null"}
        /\ \A f \in RsLazySet : h.ptr[f] # "live"
        /\ h.ptr["rs"] = "live" \/ \A f \in RsSet : h.ptr[f] # "live"
    BY DEF Partial
  <1>1. "generator_root_exp" \in RsLazySet /\ "element_exp" \in RsLazySet /\ "rs" \in RsSet
    BY DEF RsLazySet, RsSet
  <1>2. /\ IsHeap(r, D)
        /\ h.ptr["rs"] # "live" => Frees(h, r, {"rs"})
        /\ h.ptr["rs"] = "live" => Frees(h, r, RsPlain)
    BY <1>0, <1>1, DestroyRsFrees
  <1>3. DOMAIN h.ptr = D  BY DEF IsHeap
  <1>4. "history" \notin RsPlain /\ "rs" \in RsPlain /\ RsPlain \subseteq RsSet \cup RsLazySet
        /\ RsSet \subseteq RsPlain
    BY DEF RsPlain, RsSet, RsLazySet, AllRows, Rows
  <1> HIDE DEF r
  <1>5. CASE h.ptr["rs"] = "live"
    <2>1. r.misused = {}  BY <1>0, <1>2, <1>4, <1>5 DEF Frees
    <2>2. \A f \in RsSet \cup RsLazySet : r.ptr[f] # "live"  BY <1>0, <1>2, <1>3, <1>4, <1>5 DEF Frees
    <2>3. \A f \in D : f \notin RsSet \cup RsLazySet => r.ptr[f] = h.ptr[f]
      BY <1>0, <1>2, <1>3, <1>4, <1>5 DEF Frees
    <2> QED BY <1>2, <2>1, <2>2, <2>3 DEF r
  <1>6. CASE h.ptr["rs"] # "live"
    <2>1. r.misused = {}  BY <1>0, <1>2, <1>4, <1>6 DEF Frees
    <2>2. \A f \in RsSet \cup RsLazySet : r.ptr[f] # "live"  BY <1>0, <1>2, <1>3, <1>4, <1>6 DEF Frees
    <2>3. \A f \in D : f \notin RsSet \cup RsLazySet => r.ptr[f] = h.ptr[f]
      BY <1>0, <1>1, <1>2, <1>3, <1>6 DEF Frees
    <2> QED BY <1>2, <2>1, <2>2, <2>3 DEF r
  <1> QED BY <1>5, <1>6

\* delete_viterbi on a wrapper without its codec.
LEMMA DestroyShell ==
    ASSUME kind = "viterbi", NEW h, IsHeap(h, Fields(kind)), h.ptr["conv"] # "live",
           NEW w \in BOOLEAN
    PROVE  /\ IsHeap(Destroyed(h, w), Fields(kind))
           /\ Frees(h, Destroyed(h, w), ({"buf"} \cup {"conv"}) \cup {"shim"})
  <1> DEFINE D == Fields(kind)
             g == Free(h, {"buf"}, w)
             e == Free(g, {"conv"}, w)
             r == Free(e, {"shim"}, w)
  <1>1. {"buf"} \subseteq D /\ {"conv"} \subseteq D /\ {"shim"} \subseteq D
    BY AllFields DEF ConvSet
  <1> HIDE DEF D
  <1>2. IsHeap(g, D) /\ Frees(h, g, {"buf"})  BY <1>1, FreeFrees DEF D
  <1>3. g.ptr["conv"] # "live"
    <2>1. "conv" \in DOMAIN h.ptr  BY <1>1 DEF IsHeap, D
    <2> HIDE DEF g
    <2> QED BY <1>2, <2>1 DEF Frees
  <1>4. Destroyed(h, w) = r
    <2>1. Destroyed(h, w) = Free(DestroyConv(g, hasInit, w), {"shim"}, w)  BY DEF Destroyed
    <2>2. DestroyConv(g, hasInit, w) = e  BY <1>3 DEF DestroyConv
    <2> QED BY <2>1, <2>2
  <1> HIDE DEF g
  <1>5. IsHeap(e, D) /\ Frees(g, e, {"conv"})  BY <1>1, <1>2, FreeFrees
  <1> HIDE DEF e
  <1>6. IsHeap(r, D) /\ Frees(e, r, {"shim"})  BY <1>1, <1>5, FreeFrees
  <1> HIDE DEF r
  <1>7. \A f \in {"buf"} : f \notin {"conv"}  OBVIOUS
  <1>8. \A f \in {"buf"} \cup {"conv"} : f \notin {"shim"}  OBVIOUS
  <1>9. {"buf"} \cup {"conv"} \subseteq D  BY <1>1
  <1>10. IsHeap(h, D)  BY DEF D
  <1>11. Frees(h, e, {"buf"} \cup {"conv"})  BY <1>1, <1>2, <1>5, <1>7, <1>10, FreesBoth
  <1>12. Frees(h, r, ({"buf"} \cup {"conv"}) \cup {"shim"})
    BY <1>1, <1>5, <1>6, <1>8, <1>9, <1>10, <1>11, FreesBoth
  <1> QED BY <1>4, <1>6, <1>12 DEF D

\* What an error path of create leaves behind: nothing, or misuse after an
\* allocation that is fragile.
Cleared(r, f) ==
    /\ r.ptr \in [Fields(kind) -> Marks]
    /\ r.misused = {} => \A g \in Fields(kind) : r.ptr[g] # "live"
    /\ r.misused # {} => f \in Fragile

\* correct_convolutional_create, and its SSE twin: only the first test missing
\* there can misuse anything.
LEMMA ConvCreateFails ==
    ASSUME kind \in Kinds, kind \in {"conv", "sse"}, NEW n \in 1 .. 4, NEW w \in BOOLEAN
    PROVE  Cleared(Undone(Allocate(New, ConvFields, n), n, w), ConvFields[n])
  <1> DEFINE D == Fields(kind)
             h == Allocate(New, ConvFields, n)
             r == Undone(h, n, w)
  <1>1. ConvSet \subseteq D  BY AllFields
  <1>2. /\ IsHeap(h, D) /\ h.misused = {}
        /\ \A f \in D : h.ptr[f] = IF f \in Prior(ConvFields, n) THEN "live"
                                   ELSE IF f = ConvFields[n] THEN "null" ELSE New.ptr[f]
    <2>1. n \in 0 .. Len(ConvFields) /\ n # 0 /\ ConvFields \in Seq(ConvSet)  BY KindLists
    <2>2. IsHeap(New, D) /\ New.misused = {}  BY NewFacts
    <2> HIDE DEF D
    <2>3. Allocated(New, h, D, ConvFields, n)  BY <2>1, <2>2, AllocateFacts
    <2> HIDE DEF h
    <2> QED BY <2>1, <2>2, <2>3 DEF Allocated
  <1>3. Prior(ConvFields, n) = ConvUndo[n]  BY ConvPrior
  <1>4. \A f \in D : New.ptr[f] # "live"  BY NewFacts
  <1>5. \A f \in D : h.ptr[f] = "live" <=> f \in ConvUndo[n]
    <2> HIDE DEF h, D
    <2> QED BY <1>2, <1>3, <1>4
  <1>6. CASE kind = "sse" /\ n = 1
    <2>1. r = Use(h, {"conv"})  BY <1>6 DEF Undone
    <2>2. h.ptr["conv"] = "null"
      <3>1. "conv" \in D /\ "conv" \notin ConvUndo[n] /\ ConvFields[n] = "conv"
        BY <1>1, <1>6, ConvPrior DEF ConvSet
      <3> HIDE DEF h, D
      <3> QED BY <1>2, <1>3, <3>1
    <2>3. r.ptr = h.ptr /\ "conv" \in r.misused
      <3>1. h = [ptr |-> h.ptr, misused |-> h.misused]  BY <1>2 DEF IsHeap
      <3>2. "conv" \in {f \in {"conv"} : h.ptr[f] # "live"}  BY <2>2
      <3> HIDE DEF h
      <3> QED BY <2>1, <3>1, <3>2 DEF Use
    <2>4. ConvFields[n] \in Fragile  BY <1>6, ConvPrior DEF Fragile
    <2>5. h.ptr \in [D -> Marks]  BY <1>2 DEF IsHeap
    <2> HIDE DEF h, r
    <2> QED BY <2>3, <2>4, <2>5 DEF Cleared, h, r
  <1>7. CASE kind = "conv" \/ n # 1
    <2>1. r = Free(h, ConvUndo[n], w)  BY <1>7 DEF Undone
    <2> HIDE DEF h, r, D
    <2>0. \A f \in ConvUndo[n] : h.ptr[f] = "live"  BY <1>1, <1>5, ConvPrior
    <2>2. /\ IsHeap(r, D) /\ r.misused = {}
          /\ \A f \in D : r.ptr[f] = IF f \in ConvUndo[n] THEN "freed" ELSE h.ptr[f]
      <3>1. ConvUndo[n] \subseteq D /\ "history" \notin ConvUndo[n]
        BY <1>1, ConvPrior DEF ConvSet
      <3>2. IsHeap(r, D) /\ Frees(h, r, ConvUndo[n])  BY <1>2, <2>1, <3>1, FreeFrees
      <3>3. DOMAIN h.ptr = D  BY <1>2 DEF IsHeap
      <3> QED BY <1>2, <2>0, <3>1, <3>2, <3>3 DEF Frees
    <2>3. \A f \in D : r.ptr[f] # "live"  BY <1>5, <2>2
    <2>4. r.ptr \in [D -> Marks]  BY <2>2 DEF IsHeap
    <2> QED BY <2>2, <2>3, <2>4 DEF Cleared, D, h, r
  <1> QED BY <1>6, <1>7

\* create_viterbi: only buf, which delete_viterbi tests before conv was set.
LEMMA ViterbiCreateFails ==
    ASSUME kind \in Kinds, kind = "viterbi", NEW n \in 1 .. 6, NEW w \in BOOLEAN
    PROVE  Cleared(Undone(Allocate(New, ViterbiFields, n), n, w), ViterbiFields[n])
  <1> DEFINE D == Fields(kind)
             c == ViterbiFields
             h == Allocate(New, c, n)
             r == Undone(h, n, w)
             Shell == ({"buf"} \cup {"conv"}) \cup {"shim"}
  <1>1. ConvSet \subseteq D /\ "buf" \in D /\ "shim" \in D /\ "conv" \in D  BY AllFields DEF ConvSet
  <1>2. /\ IsHeap(h, D) /\ h.misused = {}
        /\ \A f \in D : h.ptr[f] = IF f \in Prior(c, n) THEN "live"
                                   ELSE IF f = c[n] THEN "null" ELSE New.ptr[f]
    <2> DEFINE F == ConvSet \cup {"shim", "buf"}
    <2>1. n \in 0 .. Len(c) /\ n # 0 /\ c \in Seq(F)
      <3>1. c \in Seq(F) /\ Len(c) = 6  BY KindLists
      <3> HIDE DEF c, F
      <3> QED BY <3>1
    <2>2. IsHeap(New, D) /\ New.misused = {}  BY NewFacts
    <2> HIDE DEF D, F
    <2>3. Allocated(New, h, D, c, n)  BY <2>1, <2>2, AllocateFacts
    <2> HIDE DEF h
    <2> QED BY <2>1, <2>2, <2>3 DEF Allocated
  <1>3. \A f \in D : New.ptr[f] # "live"  BY NewFacts
  <1>4. \A f \in D : h.ptr[f] = "live" <=> f \in Prior(c, n)
    <2> HIDE DEF h, D, c
    <2> QED BY <1>2, <1>3
  <1>5. \A a : (IsHeap(a, D) /\ a.ptr["conv"] # "live" /\ r = Destroyed(a, w)
                    /\ (\A f \in D : a.ptr[f] = "live" => f \in {"buf", "shim"}))
                   => /\ r.ptr \in [D -> Marks] /\ \A f \in D : r.ptr[f] # "live"
                      /\ ((\A f \in Shell : a.ptr[f] \in {"live", "null"}) /\ a.misused = {})
                              => r.misused = {}
    <2> SUFFICES ASSUME NEW a, IsHeap(a, D), a.ptr["conv"] # "live", r = Destroyed(a, w),
                        \A f \in D : a.ptr[f] = "live" => f \in {"buf", "shim"}
                 PROVE  /\ r.ptr \in [D -> Marks] /\ \A f \in D : r.ptr[f] # "live"
                        /\ ((\A f \in Shell : a.ptr[f] \in {"live", "null"}) /\ a.misused = {})
                              => r.misused = {}
      OBVIOUS
    <2> HIDE DEF r
    <2>1. IsHeap(r, D) /\ Frees(a, r, Shell)  BY DestroyShell
    <2>2. r.ptr \in [D -> Marks] /\ DOMAIN a.ptr = D  BY <2>1 DEF IsHeap
    <2>3. "history" \notin Shell  OBVIOUS
    <2>4. {"buf", "shim"} \subseteq Shell  OBVIOUS
    <2> HIDE DEF Shell
    <2> QED BY <2>1, <2>2, <2>3, <2>4 DEF Frees
  <1>6. CASE n = 1
    <2>1. r = h /\ Prior(c, n) = {}  BY <1>6, ViterbiPrior DEF Undone
    <2>2. h.ptr \in [D -> Marks]  BY <1>2 DEF IsHeap
    <2> HIDE DEF h, r, c, D
    <2>3. r.ptr \in [D -> Marks] /\ r.misused = {} /\ \A f \in D : r.ptr[f] # "live"
      BY <1>2, <1>4, <2>1, <2>2
    <2> QED BY <2>3 DEF Cleared, D, r, h, c
  <1>7. CASE n = 2
    <2>1. r = Destroyed(h, w) /\ Prior(c, n) = {"shim"} /\ c[n] = "buf"
      BY <1>7, ViterbiPrior DEF Undone
    <2>2. h.ptr["conv"] # "live" /\ \A f \in D : h.ptr[f] = "live" => f \in {"buf", "shim"}
      <3> HIDE DEF h, c, D
      <3> QED BY <1>1, <1>4, <2>1
    <2>3. c[n] \in Fragile  BY <2>1 DEF Fragile
    <2> HIDE DEF h, r, c, D
    <2>4. r.ptr \in [D -> Marks] /\ \A f \in D : r.ptr[f] # "live"
      BY <1>2, <1>5, <2>1, <2>2
    <2> QED BY <2>3, <2>4 DEF Cleared, h, r, c, D
  <1>8. CASE n > 2
    <2> DEFINE m == n - 2
               g == Free(h, ConvUndo[m], w)
               a == Assign(g, "conv", "null")
    <2>1. m \in 1 .. 4  BY <1>8
    <2>2. r = Destroyed(a, w)  BY <1>8 DEF Undone
    <2>3. Prior(c, n) = {"shim", "buf"} \cup ConvUndo[m] /\ c[n] = ConvFields[m]
      BY <1>8, ViterbiPrior
    <2>4. ConvUndo[m] \subseteq ConvSet /\ {"shim", "buf"} \cap ConvSet = {}
      BY <2>1, ConvPrior DEF ConvSet
    <2> HIDE DEF h, r, c, D, m
    <2>5. \A f \in ConvUndo[m] : h.ptr[f] = "live"
      BY <1>1, <1>4, <2>3, <2>4
    <2>6. /\ IsHeap(g, D) /\ g.misused = {}
          /\ \A f \in D : g.ptr[f] = IF f \in ConvUndo[m] THEN "freed" ELSE h.ptr[f]
      <3>1. ConvUndo[m] \subseteq D /\ "history" \notin ConvUndo[m]
        BY <1>1, <2>1, ConvPrior DEF ConvSet
      <3>2. IsHeap(g, D) /\ Frees(h, g, ConvUndo[m])  BY <1>2, <3>1, FreeFrees
      <3>3. DOMAIN h.ptr = D  BY <1>2 DEF IsHeap
      <3> HIDE DEF g
      <3> QED BY <1>2, <2>5, <3>1, <3>2, <3>3 DEF Frees
    <2> HIDE DEF g
    <2>7. /\ a = [ptr |-> [g.ptr EXCEPT !["conv"] = "null"], misused |-> {}]
          /\ g.ptr \in [D -> Marks]
      BY <2>6 DEF Assign, IsHeap
    <2>8. a.ptr = [g.ptr EXCEPT !["conv"] = "null"] /\ a.misused = {}  BY <2>7
    <2>9. a.ptr \in [D -> Marks]  BY <1>1, <2>7, <2>8 DEF Marks
    <2>10. a = [ptr |-> a.ptr, misused |-> a.misused]  BY <2>7, <2>8
    <2>11. IsHeap(a, D)  BY <2>9, <2>10 DEF IsHeap
    <2>12. a.ptr["conv"] = "null" /\ \A f \in D : f # "conv" => a.ptr[f] = g.ptr[f]
      BY <1>1, <2>7, <2>8
    <2> HIDE DEF a
    <2>13. \A f \in D : a.ptr[f] = "live" => f \in {"buf", "shim"}
      BY <1>4, <2>3, <2>6, <2>12
    <2>14. a.ptr["buf"] = "live" /\ a.ptr["shim"] = "live"
      <3>1. "buf" \notin ConvUndo[m] /\ "shim" \notin ConvUndo[m]  BY <2>4
      <3> QED BY <1>1, <1>4, <2>3, <2>6, <2>12, <3>1
    <2>15. \A f \in Shell : a.ptr[f] \in {"live", "null"}  BY <2>12, <2>14
    <2> HIDE DEF Shell
    <2>16. r.ptr \in [D -> Marks] /\ r.misused = {} /\ \A f \in D : r.ptr[f] # "live"
      BY <1>5, <2>2, <2>8, <2>11, <2>12, <2>13, <2>15
    <2> QED BY <2>16 DEF Cleared, D, r, h, c
  <1> QED BY <1>6, <1>7, <1>8

\* What a Reed-Solomon create has made when an allocation fails.
LEMMA RsMade ==
    ASSUME kind \in Kinds, IsRs(kind), NEW h, NEW P, NEW last,
           P \subseteq {"shim"} \cup RsSet, last \in RsSet \cup {"msg_out"},
           "rs" \in P \/ P \cap RsSet = {},
           Halted(h, P, last)
    PROVE  /\ Partial(h)
           /\ \A f \in Fields(kind) : h.ptr[f] = "live" => f \in {"shim"} \cup RsSet
  <1>0. \A f \in Fields(kind) : h.ptr[f] = IF f \in P THEN "live"
                                             ELSE IF f = last THEN "null" ELSE New.ptr[f]
    BY DEF Halted
  <1>1. kind \in {"rs", "rs_char"}  BY DEF IsRs
  <1>2. RsSet \cup RsLazySet \subseteq Fields(kind)  BY <1>1, AllFields
  <1>3. /\ \A f \in Fields(kind) : New.ptr[f] # "live"
        /\ \A f \in RsPlain : New.ptr[f] = "null"
    BY NewFacts
  <1>4. /\ \A f \in RsLazySet : f \notin {"shim"} \cup RsSet
        /\ RsPlain \subseteq Fields(kind) /\ "rs" \in RsSet
    BY <1>2 DEF RsPlain, RsSet, RsLazySet, AllRows, Rows
  <1> HIDE DEF New
  <1>5. \A f \in RsPlain : h.ptr[f] \in {"live", "null"}  BY <1>0, <1>3, <1>4
  <1>6. \A f \in RsLazySet : h.ptr[f] # "live"  BY <1>0, <1>2, <1>3, <1>4
  <1>7. h.ptr["rs"] = "live" \/ \A f \in RsSet : h.ptr[f] # "live"
    BY <1>0, <1>2, <1>3, <1>4
  <1>8. \A f \in Fields(kind) : h.ptr[f] = "live" => f \in {"shim"} \cup RsSet  BY <1>0, <1>3
  <1> QED BY <1>5, <1>6, <1>7, <1>8 DEF Partial

\* correct_reed_solomon_create.
LEMMA RsCreateFails ==
    ASSUME kind \in Kinds, kind = "rs", NEW n \in 1 .. 6, NEW w \in BOOLEAN
    PROVE  Cleared(Undone(Allocate(New, RsFields, n), n, w), RsFields[n])
  <1> DEFINE D == Fields(kind)
             c == RsFields
             P == Prior(c, n)
             h == Allocate(New, c, n)
             r == Undone(h, n, w)
  <1>1. D = RsSet \cup RsLazySet /\ IsRs(kind)  BY AllFields DEF IsRs
  <1>2. IsHeap(h, D) /\ h.misused = {} /\ Halted(h, P, c[n])
    <2>1. n \in 1 .. Len(c) /\ c \in Seq(RsSet)  BY KindLists
    <2> HIDE DEF c
    <2> QED BY <2>1, NewHalts
  <1>3. r = DestroyRs(h, w)  BY DEF Undone, Destroyed
  <1>4. P \subseteq {"shim"} \cup RsSet /\ c[n] \in RsSet \cup {"msg_out"}
        /\ ("rs" \in P \/ P \cap RsSet = {})
    BY RsPrior
  <1> HIDE DEF h, P, c
  <1>5. Partial(h)  BY <1>1, <1>2, <1>4, RsMade
  <1> HIDE DEF r, D
  <1>6. /\ IsHeap(r, D) /\ r.misused = {}
        /\ \A f \in RsSet \cup RsLazySet : r.ptr[f] # "live"
    <2>1. RsSet \cup RsLazySet \subseteq D  BY <1>1
    <2> QED BY <1>2, <1>3, <1>5, <2>1, RsUndone
  <1>7. r.ptr \in [D -> Marks]  BY <1>6 DEF IsHeap
  <1> QED BY <1>1, <1>6, <1>7 DEF Cleared, D, h, r, c

\* init_rs_char; what it frees twice or unset is fragile.
LEMMA RsCharCreateFails ==
    ASSUME kind \in Kinds, kind = "rs_char", NEW n \in 1 .. 8, NEW w \in BOOLEAN
    PROVE  Cleared(Undone(Allocate(New, RsCharFields, n), n, w), RsCharFields[n])
  <1> DEFINE D == Fields(kind)
             T == {"msg_out", "erasures", "shim"}
             c == RsCharFields
             P == Prior(c, n)
             h == Allocate(New, c, n)
             r == Undone(h, n, w)
             g == DestroyRs(h, w)
  <1>1. D = (RsSet \cup RsLazySet) \cup T /\ IsRs(kind)  BY AllFields DEF IsRs
  <1>2. IsHeap(h, D) /\ h.misused = {} /\ Halted(h, P, c[n])
    <2> DEFINE F == RsSet \cup {"shim", "msg_out", "erasures"}
    <2>1. n \in 1 .. Len(c) /\ c \in Seq(F)
      <3>1. c \in Seq(F) /\ Len(c) = 9  BY KindLists
      <3> HIDE DEF c, F
      <3> QED BY <3>1
    <2> HIDE DEF c, F
    <2> QED BY <2>1, NewHalts
  <1>3. CASE n = 1
    <2>1. r = h /\ Prior(RsCharFields, n) = {}  BY <1>3, RsCharPrior DEF Undone
    <2>2. h.ptr \in [D -> Marks]  BY <1>2 DEF IsHeap
    <2>3. \A f \in D : New.ptr[f] # "live"  BY NewFacts
    <2> HIDE DEF h, r, D, P, c
    <2>4. r.ptr \in [D -> Marks] /\ r.misused = {} /\ \A f \in D : r.ptr[f] # "live"
      BY <1>2, <2>1, <2>2, <2>3 DEF Halted, D, P, c
    <2> QED BY <2>4 DEF Cleared, D, r, h, c
  <1>4. CASE n > 1
    <2>1. RsCharFields[n] \in RsSet \cup {"msg_out"}
      <3>1. n < 8 \/ n = 8  OBVIOUS
      <3> QED BY <1>4, <3>1, RsCharPrior
    <2>2. RsCharFields[n] \in Fragile  BY <2>1, KindFields DEF Fragile
    <2>3. Partial(h) /\ \A f \in D : h.ptr[f] = "live" => f \in {"shim"} \cup RsSet
      <3>1. n = 2 => P \cap RsSet = {}
        <4>1. "shim" \notin RsSet  BY DEF RsSet
        <4> QED BY <4>1, RsCharPrior
      <3>2. P \subseteq {"shim"} \cup RsSet /\ ("rs" \in P \/ P \cap RsSet = {})
        <4>1. n = 2 \/ n > 2  BY <1>4
        <4> HIDE DEF P
        <4>2. n > 2 => "rs" \in P  BY RsCharPrior DEF P
        <4>3. P \subseteq {"shim"} \cup RsSet  BY <1>4, RsCharPrior DEF P
        <4> QED BY <3>1, <4>1, <4>2, <4>3
      <3>3. c[n] \in RsSet \cup {"msg_out"}  BY <2>1
      <3> HIDE DEF P, h, c
      <3> QED BY <1>1, <1>2, <3>2, <3>3, RsMade
    <2> HIDE DEF h, D
    <2>4. /\ IsHeap(g, D) /\ g.misused = {}
          /\ \A f \in RsSet \cup RsLazySet : g.ptr[f] # "live"
      <3>1. RsSet \cup RsLazySet \subseteq D  BY <1>1
      <3> QED BY <1>2, <2>3, <3>1, RsUndone
    <2>5. T \subseteq D /\ "rs" \in D /\ "rs" \notin T  BY <1>1 DEF RsSet
    <2>6. \E b : /\ IsHeap(b, D) /\ r = Free(b, T, w)
                 /\ \A f \in RsSet \cup RsLazySet : b.ptr[f] # "live"
      <3>1. CASE n = 8
        <4>1. r = Destroyed(h, w)
          <5>1. Len(RsFields) = 6  BY KindLists
          <5> QED BY <3>1, <5>1 DEF Undone
        <4>2. Destroyed(h, w) = Free(g, T, w)  BY DEF Destroyed
        <4> HIDE DEF g
        <4> QED BY <2>4, <4>1, <4>2
      <3>2. CASE n < 8
        <4> DEFINE a == Assign(g, "rs", "null")
                   b == DestroyRs(a, w)
        <4>1. r = Free(b, T, w)
          <5>1. Len(RsFields) = 6  BY KindLists
          <5>2. r = Destroyed(a, w)  BY <1>4, <3>2, <5>1 DEF Undone
          <5> QED BY <5>2 DEF Destroyed
        <4> HIDE DEF g
        <4>2. g.ptr \in [D -> Marks]  BY <2>4 DEF IsHeap
        <4>3. a.ptr = [g.ptr EXCEPT !["rs"] = "null"] /\ a.misused = {}
              /\ a = [ptr |-> a.ptr, misused |-> a.misused]
          <5>1. g = [ptr |-> g.ptr, misused |-> {}]  BY <2>4 DEF IsHeap
          <5> QED BY <5>1 DEF Assign
        <4>4. a.ptr \in [D -> Marks]  BY <2>5, <4>2, <4>3 DEF Marks
        <4>5. IsHeap(a, D)  BY <4>3, <4>4 DEF IsHeap
        <4>6. a.ptr["rs"] = "null" /\ \A f \in D : f # "rs" => a.ptr[f] = g.ptr[f]
          BY <2>5, <4>2, <4>3
        <4> HIDE DEF a
        <4>7. IsHeap(b, D) /\ Frees(a, b, {"rs"})
          BY <1>1, <4>5, <4>6, DestroyRsFrees
        <4> HIDE DEF b
        <4>8. DOMAIN a.ptr = D  BY <4>5 DEF IsHeap
        <4>9. \A f \in RsSet \cup RsLazySet : b.ptr[f] # "live"
          BY <1>1, <2>4, <4>6, <4>7, <4>8 DEF Frees
        <4> QED BY <4>1, <4>7, <4>9
      <3>3. n < 8 \/ n = 8  OBVIOUS
      <3> QED BY <3>1, <3>2, <3>3
    <2> HIDE DEF r, T
    <2>7. PICK b : /\ IsHeap(b, D) /\ r = Free(b, T, w)
                   /\ \A f \in RsSet \cup RsLazySet : b.ptr[f] # "live"
      BY <2>6
    <2>8. IsHeap(r, D) /\ Frees(b, r, T)  BY <2>5, <2>7, FreeFrees
    <2>9. r.ptr \in [D -> Marks] /\ DOMAIN b.ptr = D  BY <2>7, <2>8 DEF IsHeap
    <2>10. \A f \in D : r.ptr[f] # "live"  BY <1>1, <2>7, <2>8, <2>9 DEF Frees
    <2> QED BY <2>2, <2>9, <2>10 DEF Cleared, D, r, h, c
  <1> QED BY <1>3, <1>4

\* What create makes goes by the kind, and none of it is lazy.
LEMMA CreatedLists ==
    ASSUME kind \in Kinds
    PROVE  /\ \E S : Created(kind) \in Seq(S)
           /\ ToSet(Created(kind)) \cap ToSet(Lazy(kind)) = {}
           /\ Fields(kind) = ToSet(Created(kind)) \cup ToSet(Lazy(kind))
           /\ Base(kind) \subseteq ToSet(Created(kind)) \ {"erasures"}
           /\ ~IsRs(kind) => ToSet(HistoryFields) \subseteq ToSet(Lazy(kind))
           /\ kind = "sse" => "short_outs" \in ToSet(Lazy(kind))
  <1>1. kind \in {"conv", "sse", "rs", "viterbi", "rs_char"}  BY KindsAssumption
  <1>2. \E S : Created(kind) \in Seq(S)
    <2>1. CASE kind \in {"conv", "sse"}  BY <2>1, KindLists
    <2>2. CASE kind = "viterbi"  BY <2>2, KindLists
    <2>3. CASE kind = "rs"  BY <2>3, KindLists
    <2>4. CASE kind = "rs_char"  BY <2>4, KindLists
    <2> QED BY <1>1, <2>1, <2>2, <2>3, <2>4
  <1>3. ToSet(Created(kind)) \cap ToSet(Lazy(kind)) = {}
    <2>1. (ConvSet \cup {"shim", "buf"}) \cap (ConvLazySet \cup {"oct_lookup", "short_outs"}) = {}
      BY DEF ConvSet, ConvLazySet, HistorySet
    <2>2. (RsSet \cup {"shim", "msg_out", "erasures"}) \cap RsLazySet = {}
      BY DEF RsSet, RsLazySet, AllRows, Rows
    <2>3. CASE kind \in {"conv", "sse", "viterbi"}  BY <2>1, <2>3, KindFields
    <2>4. CASE kind \in {"rs", "rs_char"}  BY <2>2, <2>4, KindFields
    <2> QED BY <1>1, <2>3, <2>4
  <1>4. Base(kind) \subseteq ToSet(Created(kind)) \ {"erasures"}
    <2>1. CASE kind \in {"conv", "sse", "viterbi"}  BY <2>1, KindFields DEF Base, ConvSet
    <2>2. CASE kind \in {"rs", "rs_char"}  BY <2>2, KindFields DEF Base, RsSet
    <2> QED BY <1>1, <2>1, <2>2
  <1>5. ~IsRs(kind) => ToSet(HistoryFields) \subseteq ToSet(Lazy(kind))
    BY <1>1, KindFields DEF IsRs, ConvLazySet
  <1>6. kind = "sse" => "short_outs" \in ToSet(Lazy(kind))  BY KindFields
  <1> QED BY <1>2, <1>3, <1>4, <1>5, <1>6 DEF Fields

\* A create that goes through: everything is live, but for the erasures when
\* they failed, and nothing lazy has been set.
LEMMA CreateMakes ==
    ASSUME kind \in Kinds, NEW n \in Failing(Created(kind)), Succeeds(n)
    PROVE  LET h == Allocate(New, Created(kind), n)
           IN  /\ h.ptr \in [Fields(kind) -> Marks] /\ h.misused = {}
               /\ \A f \in ToSet(Created(kind)) \ {"erasures"} : h.ptr[f] = "live"
               /\ n = 0 => \A f \in ToSet(Created(kind)) : h.ptr[f] = "live"
               /\ n # 0 => Created(kind)[n] = "erasures" /\ kind = "rs_char"
               /\ \A f \in ToSet(Lazy(kind)) :
                      h.ptr[f] = Fresh(kind)[f] /\ h.ptr[f] # "live"
  <1> DEFINE D == Fields(kind)
             c == Created(kind)
             h == Allocate(New, c, n)
  <1>1. IsHeap(New, D) /\ New.misused = {} /\ New.ptr = Fresh(kind)
        /\ \A f \in D : Fresh(kind)[f] # "live"
    BY NewFacts
  <1>2. PICK S : c \in Seq(S)  BY CreatedLists
  <1>3. n \in 0 .. Len(c)  BY DEF Failing
  <1>4. D = ToSet(c) \cup ToSet(Lazy(kind)) /\ ToSet(c) \cap ToSet(Lazy(kind)) = {}
    BY CreatedLists
  <1>5. n # 0 => c[n] = "erasures" /\ kind = "rs_char"  BY DEF Succeeds
  <1>6. n # 0 => Prior(c, n) = ToSet(c) \ {"erasures"} /\ "erasures" \in ToSet(c)
    <2> SUFFICES ASSUME n # 0
                 PROVE  Prior(c, n) = ToSet(c) \ {"erasures"} /\ "erasures" \in ToSet(c)
      OBVIOUS
    <2>1. c = RsCharFields  BY <1>5, KindLists
    <2>2. Len(c) = 9  BY <2>1, KindLists
    <2>3. \A j \in 1 .. 8 : c[j] # "erasures"  BY <2>1 DEF RsCharFields
    <2>4. n = 9
      <3>1. n \in 1 .. 9  BY <1>3, <2>2
      <3> QED BY <1>5, <2>3, <3>1
    <2>5. ToSet(c) = {c[j] : j \in 1 .. 9}
      <3>1. DOMAIN c = 1 .. 9  BY <1>2, <2>2
      <3> QED BY <3>1 DEF ToSet
    <2>6. Prior(c, n) = {c[j] : j \in 1 .. 8}  BY <2>4 DEF Prior
    <2>7. 1 .. 9 = (1 .. 8) \cup {9}  OBVIOUS
    <2> HIDE DEF c
    <2> QED BY <1>5, <2>3, <2>4, <2>5, <2>6, <2>7
  <1> HIDE DEF D, c
  <1>7. Allocated(New, h, D, c, n)  BY <1>1, <1>2, <1>3, AllocateFacts
  <1> HIDE DEF h
  <1>8. /\ IsHeap(h, D) /\ h.misused = {}
        /\ \A f \in ToSet(c) \ {"erasures"} : h.ptr[f] = "live"
        /\ n = 0 => \A f \in ToSet(c) : h.ptr[f] = "live"
        /\ \A f \in ToSet(Lazy(kind)) : h.ptr[f] = New.ptr[f]
    BY <1>1, <1>4, <1>5, <1>6, <1>7 DEF Allocated
  <1>9. h.ptr \in [D -> Marks]  BY <1>8 DEF IsHeap
  <1>10. \A f \in ToSet(Lazy(kind)) : h.ptr[f] = Fresh(kind)[f] /\ h.ptr[f] # "live"
    BY <1>1, <1>4, <1>8
  <1> QED BY <1>5, <1>8, <1>9, <1>10 DEF h, c, D

\* A create that fails clears up, or was fragile.
LEMMA CreateFails ==
    ASSUME kind \in Kinds, NEW n \in Failing(Created(kind)), ~Succeeds(n), NEW w \in BOOLEAN
    PROVE  n # 0 /\ Cleared(Undone(Allocate(New, Created(kind), n), n, w), Created(kind)[n])
  <1>1. n # 0  BY DEF Succeeds
  <1>2. kind \in {"conv", "sse", "rs", "viterbi", "rs_char"}  BY KindsAssumption
  <1>3. CASE kind \in {"conv", "sse"}
    <2>1. Created(kind) = ConvFields /\ Len(ConvFields) = 4  BY <1>3, KindLists
    <2>2. n \in 1 .. 4  BY <1>1, <2>1 DEF Failing
    <2> QED BY <1>1, <1>3, <2>1, <2>2, ConvCreateFails
  <1>4. CASE kind = "viterbi"
    <2>1. Created(kind) = ViterbiFields /\ Len(ViterbiFields) = 6  BY <1>4, KindLists
    <2>2. n \in 1 .. 6  BY <1>1, <2>1 DEF Failing
    <2> QED BY <1>1, <1>4, <2>1, <2>2, ViterbiCreateFails
  <1>5. CASE kind = "rs"
    <2>1. Created(kind) = RsFields /\ Len(RsFields) = 6  BY <1>5, KindLists
    <2>2. n \in 1 .. 6  BY <1>1, <2>1 DEF Failing
    <2> QED BY <1>1, <1>5, <2>1, <2>2, RsCreateFails
  <1>6. CASE kind = "rs_char"
    <2>1. Created(kind) = RsCharFields /\ Len(RsCharFields) = 9 /\ RsCharFields[9] = "erasures"
      BY <1>6, KindLists
    <2>2. n \in 1 .. 9  BY <1>1, <2>1 DEF Failing
    <2>3. n # 9  BY <1>6, <2>1 DEF Succeeds
    <2>4. n \in 1 .. 8  BY <2>2, <2>3
    <2> QED BY <1>1, <1>6, <2>1, <2>4, RsCharCreateFails
  <1> QED BY <1>2, <1>3, <1>4, <1>5, <1>6

\* Create keeps the invariant.
LEMMA CreateStep ==
    ASSUME LifeInv, NEW n \in Failing(Created(kind)), NEW w \in BOOLEAN, Create(n, w)
    PROVE  LifeInv'
  <1> DEFINE c == Created(kind)
             h == Allocate(New, c, n)
             u == Undone(h, n, w)
  <1>1. kind \in Kinds /\ kind' = kind /\ hasInit' = FALSE  BY DEF LifeInv, LifeTypes, Create
  <1>2. CASE Succeeds(n)
    <2>1. handle' = "held" /\ ptr' = h.ptr /\ misused' = h.misused
          /\ failed' = IF n = 0 THEN {} ELSE {c[n]}
      BY <1>2 DEF Create, New
    <2>2. /\ h.ptr \in [Fields(kind) -> Marks] /\ h.misused = {}
          /\ \A f \in ToSet(c) \ {"erasures"} : h.ptr[f] = "live"
          /\ n = 0 => \A f \in ToSet(c) : h.ptr[f] = "live"
          /\ n # 0 => c[n] = "erasures" /\ kind = "rs_char"
          /\ \A f \in ToSet(Lazy(kind)) : h.ptr[f] = Fresh(kind)[f] /\ h.ptr[f] # "live"
      BY <1>1, <1>2, CreateMakes
    <2> HIDE DEF h
    <2>3. LifeTypes'  BY <1>1, <2>1, <2>2 DEF LifeTypes, Marks
    <2>4. OnlyFragileFailuresMisuse' /\ NothingLeaks'
      BY <2>1, <2>2 DEF OnlyFragileFailuresMisuse, NothingLeaks
    <2>5. Owned'  BY <1>1, <2>1, <2>2, CreatedLists DEF Owned
    <2>6. failed' \cap Fragile' = {} => Whole'
      <3> SUFFICES ASSUME failed' \cap Fragile' = {} PROVE Whole'
        OBVIOUS
      <3>1. n = 0
        <4> SUFFICES ASSUME n # 0 PROVE FALSE
          OBVIOUS
        <4>1. failed' = {"erasures"} /\ kind' = "rs_char"  BY <1>1, <2>1, <2>2
        <4>2. "erasures" \in Fragile'  BY <4>1 DEF Fragile
        <4> QED BY <4>1, <4>2
      <3> QED BY <1>1, <2>1, <2>2, <3>1 DEF Whole
    <2> QED BY <2>3, <2>4, <2>5, <2>6 DEF LifeInv
  <1>3. CASE ~Succeeds(n)
    <2>1. handle' = "none" /\ ptr' = u.ptr /\ misused' = u.misused
          /\ failed' = IF n = 0 THEN {} ELSE {c[n]}
      BY <1>3 DEF Create, New
    <2>2. n # 0 /\ Cleared(u, c[n])  BY <1>1, <1>3, CreateFails
    <2> HIDE DEF u
    <2>3. LifeTypes'  BY <1>1, <2>1, <2>2 DEF LifeTypes, Cleared, Marks
    <2>4. OnlyFragileFailuresMisuse'
      <3>1. Fragile' = Fragile  BY <1>1 DEF Fragile
      <3> QED BY <2>1, <2>2, <3>1 DEF OnlyFragileFailuresMisuse, Cleared
    <2>5. NothingLeaks'
      <3>1. DOMAIN u.ptr = Fields(kind)  BY <2>2 DEF Cleared
      <3> QED BY <2>1, <2>2, <3>1 DEF NothingLeaks, Cleared
    <2> QED BY <2>1, <2>3, <2>4, <2>5 DEF LifeInv
  <1> QED BY <1>2, <1>3

\* So does destroy.
LEMMA DestroyStep ==
    ASSUME LifeInv, NEW w \in BOOLEAN, Destroy(w)
    PROVE  LifeInv'
  <1> DEFINE r == Destroyed(Here, w)
  <1>1. /\ handle = "held" /\ misused = {} /\ handle' = "none"
        /\ ptr' = r.ptr /\ misused' = r.misused
        /\ kind' = kind /\ hasInit' = hasInit /\ failed' = failed
    BY DEF Destroy, Here
  <1>2. LifeTypes /\ Owned /\ (failed \cap Fragile = {} => Whole)  BY <1>1 DEF LifeInv
  <1>3. /\ r.ptr \in [Fields(kind) -> Marks]
        /\ \A f \in Fields(kind) : r.ptr[f] # "live"
        /\ Whole => r.misused = {}
    BY <1>2, DestroyWhole
  <1> HIDE DEF r
  <1>4. LifeTypes'  BY <1>1, <1>2, <1>3 DEF LifeTypes, Marks
  <1>5. OnlyFragileFailuresMisuse'
    <2>1. Fragile' = Fragile  BY <1>1 DEF Fragile
    <2> QED BY <1>1, <1>2, <1>3, <2>1 DEF OnlyFragileFailuresMisuse
  <1>6. NothingLeaks'
    <2>1. DOMAIN r.ptr = Fields(kind)  BY <1>3
    <2> QED BY <1>1, <1>3, <2>1 DEF NothingLeaks
  <1> QED BY <1>1, <1>4, <1>5, <1>6 DEF LifeInv

-----------------------------------------------------------------------------
\* The lists of the first decode.
SseDecoder ==
    <<"distances", "pair_lookup", "history_buffer", "history", "slices",
      "fetched", "errors", "oct_lookup", "short_outs">>

\* The lists of all convolutional decoders begin alike.
LEMMA LazyLists ==
    ASSUME kind \in Kinds
    PROVE  /\ \E S : Lazy(kind) \in Seq(S)
           /\ ~IsRs(kind) => /\ Len(Lazy(kind)) \in {7, 9}
                             /\ \A j \in 1 .. Len(Lazy(kind)) : Lazy(kind)[j] = SseDecoder[j]
           /\ kind = "sse" \/ IsRs(kind) \/ Len(Lazy(kind)) = 7
  <1>1. kind \in {"conv", "sse", "rs", "viterbi", "rs_char"}  BY KindsAssumption
  <1>2. CASE kind = "sse"
    <2>1. Lazy(kind) = SseDecoder  BY <1>2, FieldLists DEF SseDecoder
    <2>2. SseDecoder \in Seq(ConvLazySet \cup {"oct_lookup", "short_outs"}) /\ Len(SseDecoder) = 9
      BY DEF SseDecoder, ConvLazySet, HistorySet
    <2> QED BY <1>2, <2>1, <2>2
  <1>3. CASE kind \in {"conv", "viterbi"}
    <2> DEFINE c == <<"distances", "pair_lookup", "history_buffer", "history",
                       "slices", "fetched", "errors">>
    <2>1. Lazy(kind) = c  BY <1>3, FieldLists DEF Lazy
    <2>2. c \in Seq(ConvLazySet) /\ Len(c) = 7  BY DEF ConvLazySet, HistorySet
    <2>3. \A j \in 1 .. 7 : c[j] = SseDecoder[j]  BY DEF SseDecoder
    <2> HIDE DEF c
    <2>4. /\ Lazy(kind) \in Seq(ConvLazySet) /\ Len(Lazy(kind)) = 7
          /\ \A j \in 1 .. Len(Lazy(kind)) : Lazy(kind)[j] = SseDecoder[j]
      BY <2>1, <2>2, <2>3
    <2> QED BY <2>4
  <1>4. CASE kind \in {"rs", "rs_char"}
    <2>1. Lazy(kind) = RsDecoder /\ IsRs(kind)  BY <1>4 DEF Lazy, IsRs
    <2>2. RsDecoder \in Seq(RsLazySet)  BY DEF RsDecoder, RsLazySet, AllRows, Rows
    <2> QED BY <2>1, <2>2
  <1> QED BY <1>1, <1>2, <1>3, <1>4

\* What the first decode has of the ring when an allocation fails.
LEMMA SsePrior ==
    ASSUME NEW n \in 1 .. 9
    PROVE  /\ "short_outs" \notin Prior(SseDecoder, n)
           /\ n \in 1 .. 3 => Prior(SseDecoder, n) \cap HistorySet = {}
           /\ n \in 4 .. 9 => "history_buffer" \in Prior(SseDecoder, n)
           /\ SseDecoder[n] \in HistorySet <=> n \in 3 .. 6
           /\ SseDecoder[n] = "history_buffer" <=> n = 3
           /\ SseDecoder[n] = "oct_lookup" <=> n = 8
           /\ SseDecoder[n] = "short_outs" <=> n = 9
  <1> DEFINE c == SseDecoder
  <1>1. /\ c[1] = "distances" /\ c[2] = "pair_lookup" /\ c[3] = "history_buffer"
        /\ c[4] = "history" /\ c[5] = "slices" /\ c[6] = "fetched"
        /\ c[7] = "errors" /\ c[8] = "oct_lookup" /\ c[9] = "short_outs"
    BY DEF SseDecoder
  <1>2. HistorySet = {"history_buffer", "history", "slices", "fetched"}  BY DEF HistorySet
  <1>3. n \in {1, 2, 3, 4, 5, 6, 7, 8, 9}  OBVIOUS
  <1> HIDE DEF c
  <1>4. \A j \in 1 .. 8 : c[j] # "short_outs"
    <2> SUFFICES ASSUME NEW j \in 1 .. 8 PROVE c[j] # "short_outs"
      OBVIOUS
    <2>1. j \in {1, 2, 3, 4, 5, 6, 7, 8}  OBVIOUS
    <2> QED BY <1>1, <2>1
  <1>5. "short_outs" \notin Prior(c, n)
    <2>1. 1 .. n - 1 \subseteq 1 .. 8  OBVIOUS
    <2> QED BY <1>4, <2>1 DEF Prior
  <1>6. n \in 1 .. 3 => Prior(c, n) \cap HistorySet = {}
    <2> SUFFICES ASSUME n \in 1 .. 3, NEW j \in 1 .. n - 1 PROVE c[j] \notin HistorySet
      BY DEF Prior
    <2>1. j \in {1, 2}  OBVIOUS
    <2> QED BY <1>1, <1>2, <2>1
  <1>7. n \in 4 .. 9 => "history_buffer" \in Prior(c, n)
    <2>1. n \in 4 .. 9 => 3 \in 1 .. n - 1  OBVIOUS
    <2> QED BY <1>1, <2>1 DEF Prior
  <1>8. /\ c[n] \in HistorySet <=> n \in 3 .. 6
        /\ c[n] = "history_buffer" <=> n = 3
        /\ c[n] = "oct_lookup" <=> n = 8
        /\ c[n] = "short_outs" <=> n = 9
    BY <1>1, <1>2, <1>3
  <1> QED BY <1>5, <1>6, <1>7, <1>8 DEF c

\* What stays of an object whose first decode failed.
Shrunk(r) ==
    /\ r.ptr \in [Fields(kind) -> Marks]
    /\ r.misused = {} =>
           /\ \A f \in Base(kind) : r.ptr[f] = "live"
           /\ ~IsRs(kind)
           /\ \A f \in HistorySet : r.ptr[f] = "live" => r.ptr["history_buffer"] = "live"
           /\ kind = "sse" => r.ptr["short_outs"] # "live"

\* A failed first decode of the Reed-Solomon codec has freed it and goes on.
LEMMA RsInitFails ==
    ASSUME LifeTypes, Owned, IsRs(kind), ~hasInit,
           NEW n \in 1 .. Len(Lazy(kind)), NEW w \in BOOLEAN,
           NEW h, IsHeap(h, Fields(kind)), h.ptr = ptr
    PROVE  Shrunk(InitUndone(Allocate(h, Lazy(kind), n), n, w))
  <1> DEFINE D == Fields(kind)
             c == Lazy(kind)
             a == Allocate(h, c, n)
             g == DestroyRs(a, w)
             r == InitUndone(a, n, w)
  <1>0. kind \in Kinds /\ kind \in {"rs", "rs_char"}  BY DEF LifeTypes, IsRs
  <1>1. RsSet \cup RsLazySet \subseteq D /\ "rs" \in RsSet  BY <1>0, AllFields DEF RsSet
  <1>2. PICK S : c \in Seq(S)  BY <1>0, LazyLists
  <1>3. "rs" \notin ToSet(c) /\ "rs" \in Base(kind)
    BY <1>0, KindFields DEF RsLazySet, AllRows, Rows, Base
  <1>4. n \in 1 .. Len(c) /\ n # 0 /\ Prior(c, n) \subseteq ToSet(c) /\ c[n] \in ToSet(c)
    <2>1. ToSet(c) = {c[j] : j \in 1 .. Len(c)}
      <3> HIDE DEF c
      <3>1. DOMAIN c = 1 .. Len(c)  BY <1>2
      <3> QED BY <3>1 DEF ToSet
    <2>2. n \in 1 .. Len(c) /\ n # 0  OBVIOUS
    <2> HIDE DEF c
    <2>3. Len(c) \in Nat  BY <1>2
    <2>4. 1 .. n - 1 \subseteq 1 .. Len(c)  BY <2>2, <2>3
    <2> QED BY <2>1, <2>2, <2>4 DEF Prior
  <1>5. r = Use(g, {"rs"})
    <2>1. ToSet(c) = RsLazySet  BY <1>0, KindFields
    <2>2. "short_outs" \notin RsLazySet /\ "oct_lookup" \notin RsLazySet
      BY DEF RsLazySet, AllRows, Rows
    <2>3. Lazy(kind)[n] # "short_outs" /\ Lazy(kind)[n] # "oct_lookup"  BY <1>4, <2>1, <2>2
    <2> QED BY <2>3 DEF InitUndone
  <1> HIDE DEF D, c
  <1>6. Allocated(h, a, D, c, n)
    <2>1. n \in 0 .. Len(c)  BY <1>4
    <2> QED BY <1>2, <2>1, AllocateFacts DEF D
  <1> HIDE DEF a
  <1>7. IsHeap(a, D) /\ a.ptr["rs"] = "live"
    <2>1. ptr["rs"] = "live"  BY <1>3 DEF Owned
    <2>2. "rs" \notin Prior(c, n) /\ "rs" # c[n]  BY <1>3, <1>4 DEF c
    <2> QED BY <1>1, <1>4, <1>6, <2>1, <2>2 DEF Allocated
  <1>8. /\ IsHeap(g, D) /\ g.ptr["rs"] = "freed"
    <2>1. IsHeap(g, D) /\ \E T : "rs" \in T /\ Frees(a, g, T)
      <3> DEFINE T == (ToSet(RsFields \o RsDecoder) \ AllRows)
                         \cup UNION {Rows(t) : t \in {t \in {"generator_root_exp", "element_exp"} :
                                                          a.ptr[t] = "live"}}
      <3>2. g = Free(a, T, w)  BY <1>7 DEF DestroyRs
      <3>3. ToSet(RsFields \o RsDecoder) = RsSet \cup RsLazySet
        <4>1. RsFields \in Seq(RsSet)  BY KindLists
        <4>2. RsDecoder \in Seq(RsLazySet)  BY DEF RsDecoder, RsLazySet, AllRows, Rows
        <4>3. Lazy("rs") = RsDecoder  BY DEF Lazy
        <4> QED BY <4>1, <4>2, <4>3, ToSetConcat, KindFields
      <3>4. \A t \in {"generator_root_exp", "element_exp"} : Rows(t) \subseteq RsLazySet
        BY DEF Rows, RsLazySet, AllRows
      <3>5. T \subseteq D  BY <1>1, <3>3, <3>4
      <3>6. "rs" \in T  BY <1>1, <3>3 DEF AllRows, Rows
      <3> HIDE DEF T, g
      <3> QED BY <1>7, <3>2, <3>5, <3>6, FreeFrees
    <2>2. DOMAIN a.ptr = D /\ "rs" \in D  BY <1>1, <1>7 DEF IsHeap
    <2> HIDE DEF g
    <2> QED BY <1>7, <2>1, <2>2 DEF Frees
  <1> HIDE DEF g
  <1>9. r.ptr = g.ptr /\ "rs" \in r.misused
    <2>1. g = [ptr |-> g.ptr, misused |-> g.misused]  BY <1>8 DEF IsHeap
    <2>2. "rs" \in {f \in {"rs"} : g.ptr[f] # "live"}  BY <1>8
    <2> QED BY <1>5, <2>1, <2>2 DEF Use
  <1>10. r.ptr \in [D -> Marks]  BY <1>8, <1>9 DEF IsHeap
  <1> HIDE DEF r
  <1> QED BY <1>9, <1>10 DEF Shrunk, D, r, a, c

\* The teardown of an object with a ring.
LEMMA TeardownFrees ==
    ASSUME NEW D, NEW h, IsHeap(h, D), ConvSet \cup ConvLazySet \subseteq D,
           NEW w \in BOOLEAN, h.ptr["history_buffer"] = "live"
    PROVE  /\ IsHeap(Teardown(h, TRUE, w), D)
           /\ Frees(h, Teardown(h, TRUE, w),
                    ({"table", "bit_writer", "bit_reader"}
                         \cup {"pair_lookup", "errors", "distances"}) \cup HistorySet)
  <1> DEFINE S1 == {"table", "bit_writer", "bit_reader"}
             S2 == {"pair_lookup", "errors", "distances"}
             S == S1 \cup S2
             g1 == Free(h, S1, w)
             g2 == Free(g1, S2, w)
             g3 == FreeHistory(g2, w)
  <1>1. S1 \subseteq D /\ S2 \subseteq D /\ HistorySet \subseteq D /\ S \subseteq D
    BY DEF ConvSet, ConvLazySet
  <1>2. Teardown(h, TRUE, w) = g3  BY DEF Teardown
  <1>3. /\ \A f \in S1 : f \notin S2
        /\ \A f \in S : f \notin HistorySet
        /\ "history_buffer" \in HistorySet
    BY DEF HistorySet
  <1> HIDE DEF S1, S2
  <1>4. IsHeap(g1, D) /\ Frees(h, g1, S1)  BY <1>1, FreeFrees
  <1> HIDE DEF g1
  <1>5. IsHeap(g2, D) /\ Frees(g1, g2, S2)  BY <1>1, <1>4, FreeFrees
  <1> HIDE DEF g2
  <1>6. Frees(h, g2, S)  BY <1>1, <1>3, <1>4, <1>5, FreesBoth
  <1> HIDE DEF S
  <1>7. g2.ptr["history_buffer"] = "live"
    <2>1. DOMAIN h.ptr = D /\ "history_buffer" \in D /\ "history_buffer" \notin S
      BY <1>1, <1>3 DEF IsHeap
    <2> QED BY <1>6, <2>1 DEF Frees
  <1>8. IsHeap(g3, D) /\ Frees(g2, g3, HistorySet)  BY <1>1, <1>5, <1>7, FreeHistoryFrees
  <1> HIDE DEF g3
  <1>9. Frees(h, g3, S \cup HistorySet)  BY <1>1, <1>3, <1>5, <1>6, <1>8, FreesBoth
  <1> QED BY <1>2, <1>8, <1>9 DEF S, S1, S2

\* Setting a pointer to null.
LEMMA AssignNull ==
    ASSUME NEW D, NEW h, IsHeap(h, D), NEW f \in D
    PROVE  /\ IsHeap(Assign(h, f, "null"), D)
           /\ Assign(h, f, "null").misused = h.misused
           /\ \A g \in D : Assign(h, f, "null").ptr[g] = IF g = f THEN "null" ELSE h.ptr[g]
  <1> DEFINE a == Assign(h, f, "null")
  <1>1. h = [ptr |-> h.ptr, misused |-> h.misused] /\ h.ptr \in [D -> Marks]  BY DEF IsHeap
  <1>2. a = [ptr |-> [h.ptr EXCEPT ![f] = "null"], misused |-> h.misused]
    BY <1>1 DEF Assign
  <1> HIDE DEF a
  <1>3. a.ptr = [h.ptr EXCEPT ![f] = "null"] /\ a.misused = h.misused
        /\ a = [ptr |-> a.ptr, misused |-> a.misused]
    BY <1>2
  <1>4. a.ptr \in [D -> Marks]  BY <1>1, <1>3 DEF Marks
  <1>5. \A g \in D : a.ptr[g] = IF g = f THEN "null" ELSE h.ptr[g]  BY <1>1, <1>3
  <1> QED BY <1>3, <1>4, <1>5 DEF IsHeap, a

\* history_buffer_create cleans up after itself, and the object forgets the ring.
LEMMA HistoryUndoneFacts ==
    ASSUME NEW D, NEW a, IsHeap(a, D), HistorySet \subseteq D, NEW w \in BOOLEAN,
           NEW f \in HistorySet,
           a.ptr["history_buffer"] = "live" \/ \A g \in HistorySet : a.ptr[g] # "live"
    PROVE  /\ HistoryUndone(a, f, w).ptr \in [D -> Marks]
           /\ \A g \in HistorySet : HistoryUndone(a, f, w).ptr[g] # "live"
           /\ \A g \in D \ HistorySet : HistoryUndone(a, f, w).ptr[g] = a.ptr[g]
  <1> DEFINE e == IF f = "slices" THEN Free(a, {"history"}, w) ELSE a
             b == FreeHistory(e, w)
             r == Assign(b, "history_buffer", "null")
  <1>1. HistoryUndone(a, f, w) = r  BY KindFields DEF HistoryUndone
  <1>2. "history" \in HistorySet /\ "history_buffer" \in HistorySet  BY DEF HistorySet
  <1>3. /\ IsHeap(e, D)
        /\ \A g \in D : g # "history" => e.ptr[g] = a.ptr[g]
        /\ a.ptr["history"] # "live" => e.ptr["history"] # "live"
    <2>1. CASE f = "slices"
      <3>1. e = Free(a, {"history"}, w)  BY <2>1
      <3>2. {"history"} \subseteq D /\ DOMAIN a.ptr = D  BY <1>2 DEF IsHeap
      <3> HIDE DEF e
      <3>3. IsHeap(e, D) /\ Frees(a, e, {"history"})  BY <3>1, <3>2, FreeFrees
      <3> QED BY <3>2, <3>3 DEF Frees
    <2>2. CASE f # "slices"  BY <2>2
    <2> QED BY <2>1, <2>2
  <1> HIDE DEF e
  <1>4. /\ IsHeap(b, D)
        /\ \A g \in HistorySet : b.ptr[g] # "live"
        /\ \A g \in D \ HistorySet : b.ptr[g] = a.ptr[g]
    <2>1. DOMAIN e.ptr = D  BY <1>3 DEF IsHeap
    <2>2. e.ptr["history_buffer"] = a.ptr["history_buffer"]  BY <1>2, <1>3
    <2>3. CASE a.ptr["history_buffer"] = "live"
      <3>1. IsHeap(b, D) /\ Frees(e, b, HistorySet)  BY <1>3, <2>2, <2>3, FreeHistoryFrees
      <3> HIDE DEF b
      <3> QED BY <1>2, <1>3, <2>1, <3>1 DEF Frees
    <2>4. CASE a.ptr["history_buffer"] # "live"
      <3>1. IsHeap(b, D) /\ Frees(e, b, {"history_buffer"})
        BY <1>3, <2>2, <2>4, FreeHistoryFrees
      <3> HIDE DEF b
      <3>2. \A g \in HistorySet : e.ptr[g] # "live"  BY <1>3, <2>4
      <3> QED BY <1>2, <1>3, <2>1, <3>1, <3>2 DEF Frees
    <2> QED BY <2>3, <2>4
  <1> HIDE DEF b
  <1>5. "history_buffer" \in D  BY <1>2
  <1>6. /\ IsHeap(r, D)
        /\ \A g \in D : r.ptr[g] = IF g = "history_buffer" THEN "null" ELSE b.ptr[g]
    BY <1>4, <1>5, AssignNull
  <1> HIDE DEF r
  <1>7. r.ptr \in [D -> Marks]  BY <1>6 DEF IsHeap
  <1> QED BY <1>1, <1>2, <1>4, <1>6, <1>7

\* A failed first decode of a convolutional codec leaves an object that destroy
\* finds its way through.
LEMMA ConvInitFails ==
    ASSUME LifeTypes, Owned, ~IsRs(kind), ~hasInit,
           NEW n \in 1 .. Len(Lazy(kind)), NEW w \in BOOLEAN,
           NEW h, IsHeap(h, Fields(kind)), h.ptr = ptr
    PROVE  Shrunk(InitUndone(Allocate(h, Lazy(kind), n), n, w))
  <1> DEFINE D == Fields(kind)
             c == Lazy(kind)
             P == Prior(SseDecoder, n)
             f == SseDecoder[n]
             a == Allocate(h, c, n)
             r == InitUndone(a, n, w)
             Rest == {"table", "bit_writer", "bit_reader"} \cup {"pair_lookup", "errors", "distances"}
  <1>0. kind \in Kinds /\ kind \in {"conv", "sse", "viterbi"}
    BY KindsAssumption DEF LifeTypes, IsRs
  <1>1. /\ ConvSet \cup ConvLazySet \subseteq D
        /\ kind = "sse" => "short_outs" \in D
        /\ HistorySet \subseteq ConvLazySet
    BY <1>0, AllFields DEF ConvLazySet
  <1>2. /\ \E S : c \in Seq(S)
        /\ Len(c) \in {7, 9} /\ (kind # "sse" => Len(c) = 7)
        /\ \A j \in 1 .. Len(c) : c[j] = SseDecoder[j]
    BY <1>0, LazyLists
  <1>3. n \in 1 .. 9 /\ n # 0 /\ (kind # "sse" => n \in 1 .. 7) /\ n \in 0 .. Len(c)
    <2> HIDE DEF c
    <2>1. n \in 1 .. Len(c)  BY DEF c
    <2> QED BY <1>2, <2>1
  <1>4. c[n] = f /\ Prior(c, n) = P
    <2>1. n \in 1 .. Len(c)  OBVIOUS
    <2> HIDE DEF c
    <2>2. \A j \in 1 .. n - 1 : j \in 1 .. Len(c)  BY <1>2, <2>1
    <2>3. \A j \in 1 .. n - 1 : c[j] = SseDecoder[j]  BY <1>2, <2>2
    <2> QED BY <1>2, <2>1, <2>3 DEF Prior
  <1>5. P \cup {f} \subseteq ToSet(c)
    <2> HIDE DEF c, f, P
    <2>1. PICK S : c \in Seq(S)  BY <1>2
    <2>2. ToSet(c) = {c[j] : j \in 1 .. Len(c)}
      <3>1. DOMAIN c = 1 .. Len(c)  BY <2>1
      <3> QED BY <3>1 DEF ToSet
    <2>3. n \in 1 .. Len(c) /\ \A j \in 1 .. n - 1 : j \in 1 .. Len(c)  BY <1>2, <1>3 DEF c
    <2>4. c[n] \in ToSet(c)  BY <2>2, <2>3
    <2>5. Prior(c, n) \subseteq ToSet(c)  BY <2>2, <2>3 DEF Prior
    <2> QED BY <1>4, <2>4, <2>5
  <1>6. /\ IsHeap(a, D)
        /\ \A g \in D : a.ptr[g] = IF g \in P THEN "live" ELSE IF g = f THEN "null" ELSE ptr[g]
    <2>1. PICK S : c \in Seq(S)  BY <1>2
    <2>2. IsHeap(h, D)  OBVIOUS
    <2> HIDE DEF D, c, P, f
    <2>3. Allocated(h, a, D, c, n)  BY <1>3, <2>1, <2>2, AllocateFacts
    <2> HIDE DEF a
    <2> QED BY <1>3, <1>4, <2>3 DEF Allocated
  <1>7. a.ptr \in [D -> Marks] /\ DOMAIN a.ptr = D
    <2> HIDE DEF a
    <2> QED BY <1>6 DEF IsHeap
  <1>8. \A g \in Base(kind) : a.ptr[g] = "live" /\ g \in D /\ g \in {"conv", "shim"}
    <2>1. Base(kind) \subseteq ToSet(Created(kind)) /\ ToSet(Created(kind)) \cap ToSet(c) = {}
          /\ D = ToSet(Created(kind)) \cup ToSet(c)
      BY <1>0, CreatedLists
    <2>2. \A g \in Base(kind) : ptr[g] = "live"  BY DEF Owned
    <2>3. Base(kind) \subseteq {"conv", "shim"}  BY <1>0 DEF Base
    <2> HIDE DEF a, P, f, c, D
    <2> QED BY <1>5, <1>6, <2>1, <2>2, <2>3
  <1>9. \A g \in HistorySet \cup (IF kind = "sse" THEN {"short_outs"} ELSE {}) :
            g \notin P => a.ptr[g] # "live"
    <2>1. \A g \in ToSet(c) : ptr[g] # "live"  BY DEF Owned
    <2>2. HistorySet \cup (IF kind = "sse" THEN {"short_outs"} ELSE {}) \subseteq ToSet(c)
      BY <1>0, <1>1, KindFields
    <2>3. ToSet(c) \subseteq D  BY DEF Fields
    <2> HIDE DEF a, P, f, c, D
    <2> QED BY <1>6, <2>1, <2>2, <2>3
  <1>10. /\ "short_outs" \notin P
         /\ n \in 1 .. 3 => P \cap HistorySet = {}
         /\ n \in 4 .. 9 => "history_buffer" \in P
         /\ f \in HistorySet <=> n \in 3 .. 6
         /\ f = "history_buffer" <=> n = 3
         /\ f = "oct_lookup" <=> n = 8
         /\ f = "short_outs" <=> n = 9
    BY <1>3, SsePrior
  <1>11. kind = "sse" => a.ptr["short_outs"] # "live"  BY <1>9, <1>10
  <1>12. r = IF n = 9 THEN Use(a, {"short_outs"})
             ELSE IF n = 8 THEN Teardown(a, TRUE, w) ELSE HistoryUndone(a, f, w)
    <2> HIDE DEF a, P
    <2>1. Lazy(kind)[n] = f  BY <1>4
    <2>2. f = "short_outs" \/ f = "oct_lookup" \/ (f # "short_outs" /\ f # "oct_lookup")  OBVIOUS
    <2> HIDE DEF f
    <2> QED BY <1>10, <2>1, <2>2 DEF InitUndone
  <1>13. "history_buffer" \in HistorySet /\ "short_outs" \notin HistorySet
         /\ "conv" \notin HistorySet /\ "shim" \notin HistorySet
    BY DEF HistorySet
  <1>14. n \in 4 .. 9 => a.ptr["history_buffer"] = "live"
    <2>1. "history_buffer" \in D  BY <1>1, <1>13
    <2> HIDE DEF a, P, f, D
    <2> QED BY <1>6, <1>10, <2>1
  <1> HIDE DEF a, P, f, c, D, r
  <1>15. CASE n = 9
    <2>1. r = Use(a, {"short_outs"}) /\ kind = "sse"  BY <1>3, <1>12, <1>15
    <2>2. r.ptr = a.ptr /\ "short_outs" \in r.misused
      <3>1. a = [ptr |-> a.ptr, misused |-> a.misused]  BY <1>6 DEF IsHeap
      <3>2. "short_outs" \in {g \in {"short_outs"} : a.ptr[g] # "live"}  BY <1>11, <2>1
      <3> QED BY <2>1, <3>1, <3>2 DEF Use
    <2> QED BY <1>7, <2>2 DEF Shrunk, D, r, a, c
  <1>16. CASE n = 8
    <2> DEFINE S == Rest \cup HistorySet
    <2>1. r = Teardown(a, TRUE, w) /\ a.ptr["history_buffer"] = "live"
      BY <1>12, <1>14, <1>16
    <2>2. IsHeap(r, D) /\ Frees(a, r, S)  BY <1>1, <1>6, <2>1, TeardownFrees
    <2>3. "conv" \notin S /\ "shim" \notin S /\ "short_outs" \notin S /\ HistorySet \subseteq S
      BY <1>13
    <2> HIDE DEF S, Rest
    <2>4. \A g \in D : g \notin S => r.ptr[g] = a.ptr[g]  BY <1>7, <2>2 DEF Frees
    <2>5. \A g \in Base(kind) : r.ptr[g] = "live"  BY <1>8, <2>3, <2>4
    <2>6. \A g \in HistorySet : r.ptr[g] # "live"  BY <1>1, <1>7, <2>2, <2>3 DEF Frees
    <2>7. kind = "sse" => r.ptr["short_outs"] # "live"  BY <1>1, <1>11, <2>3, <2>4
    <2>8. r.ptr \in [D -> Marks]  BY <2>2 DEF IsHeap
    <2> QED BY <2>5, <2>6, <2>7, <2>8 DEF Shrunk, D, r, a, c
  <1>17. CASE n \in 3 .. 6
    <2>1. r = HistoryUndone(a, f, w) /\ f \in HistorySet
      <3>1. n # 9 /\ n # 8  BY <1>17
      <3>2. r = HistoryUndone(a, f, w)  BY <1>12, <3>1
      <3>3. f \in HistorySet  BY <1>10, <1>17
      <3> QED BY <3>2, <3>3
    <2>2. a.ptr["history_buffer"] = "live" \/ \A g \in HistorySet : a.ptr[g] # "live"
      <3>1. n = 3 \/ n \in 4 .. 9  BY <1>17
      <3>2. n = 3 => \A g \in HistorySet : g \notin P  BY <1>10
      <3> QED BY <1>9, <1>14, <3>1, <3>2
    <2>3. HistorySet \subseteq D  BY <1>1
    <2>4. /\ r.ptr \in [D -> Marks]
          /\ \A g \in HistorySet : r.ptr[g] # "live"
          /\ \A g \in D \ HistorySet : r.ptr[g] = a.ptr[g]
      BY <1>6, <2>1, <2>2, <2>3, HistoryUndoneFacts
    <2>5. \A g \in Base(kind) : r.ptr[g] = "live"  BY <1>8, <1>13, <2>4
    <2>6. kind = "sse" => r.ptr["short_outs"] # "live"  BY <1>1, <1>11, <1>13, <2>4
    <2> QED BY <2>4, <2>5, <2>6 DEF Shrunk, D, r, a, c
  <1>18. CASE n \in {1, 2, 7}
    <2>1. r = HistoryUndone(a, f, w) /\ f \notin HistorySet
      <3>1. n # 9 /\ n # 8  BY <1>18
      <3>2. r = HistoryUndone(a, f, w)  BY <1>12, <3>1
      <3>3. f \notin HistorySet  BY <1>10, <1>18
      <3> QED BY <3>2, <3>3
    <2>2. r = a  BY <2>1, KindFields DEF HistoryUndone
    <2>3. \A g \in HistorySet : a.ptr[g] = "live" => a.ptr["history_buffer"] = "live"
      <3>1. n = 7 \/ n \in 1 .. 3  BY <1>18
      <3>2. n \in 1 .. 3 => \A g \in HistorySet : g \notin P  BY <1>10
      <3> QED BY <1>9, <1>14, <3>1, <3>2
    <2>4. r.ptr \in [D -> Marks] /\ \A g \in Base(kind) : r.ptr[g] = "live"  BY <1>7, <1>8, <2>2
    <2> QED BY <1>11, <2>2, <2>3, <2>4 DEF Shrunk, D, r, a, c
  <1>19. n = 9 \/ n = 8 \/ n \in 3 .. 6 \/ n \in {1, 2, 7}  BY <1>3
  <1> QED BY <1>15, <1>16, <1>17, <1>18, <1>19

-----------------------------------------------------------------------------
\* What a decode follows before the decoder is made.
LEMMA UsedFacts ==
    ASSUME LifeTypes, NEW used \in UsedBefore
    PROVE  LET h == Use([ptr |-> ptr, misused |-> {}], used)
           IN  /\ IsHeap(h, Fields(kind)) /\ h.ptr = ptr
               /\ Whole => h.misused = {}
               /\ Whole => \A f \in used : ptr[f] = "live"
  <1> DEFINE h == Use([ptr |-> ptr, misused |-> {}], used)
  <1>1. h = [ptr |-> ptr, misused |-> {} \cup {f \in used : ptr[f] # "live"}]
    BY DEF Use
  <1>2. IsHeap(h, Fields(kind)) /\ h.ptr = ptr  BY <1>1 DEF IsHeap, LifeTypes, Marks
  <1>3. Whole => \A f \in used : ptr[f] = "live"
    <2>1. kind # "rs_char" => used = {}  BY DEF UsedBefore
    <2>2. kind = "rs_char" => used \subseteq {"erasures"}  BY DEF UsedBefore
    <2>3. kind = "rs_char" => "erasures" \in ToSet(Created(kind))  BY KindFields
    <2> QED BY <2>1, <2>2, <2>3 DEF Whole
  <1> QED BY <1>1, <1>2, <1>3

\* The first decode makes the decoder.
LEMMA InitMakes ==
    ASSUME LifeTypes, Owned, NEW h, IsHeap(h, Fields(kind)), h.ptr = ptr
    PROVE  LET a == Allocate(h, Lazy(kind), 0)
               r == IF kind = "sse" THEN Assign(a, "short_outs", "null") ELSE a
           IN  /\ r.ptr \in [Fields(kind) -> Marks] /\ r.misused = h.misused
               /\ \A f \in ToSet(Created(kind)) : r.ptr[f] = ptr[f]
               /\ \A f \in ToSet(Lazy(kind)) :
                      r.ptr[f] = IF f = "short_outs" THEN "null" ELSE "live"
  <1> DEFINE D == Fields(kind)
             c == Lazy(kind)
             a == Allocate(h, c, 0)
             r == IF kind = "sse" THEN Assign(a, "short_outs", "null") ELSE a
  <1>1. kind \in Kinds  BY DEF LifeTypes
  <1>2. PICK S : c \in Seq(S)  BY <1>1, LazyLists
  <1>3. /\ D = ToSet(Created(kind)) \cup ToSet(c)
        /\ ToSet(Created(kind)) \cap ToSet(c) = {}
        /\ kind = "sse" => "short_outs" \in ToSet(c)
    BY <1>1, CreatedLists
  <1>4. kind # "sse" => "short_outs" \notin ToSet(c)
    <2>1. "short_outs" \notin ConvLazySet /\ "short_outs" \notin RsLazySet
      BY DEF ConvLazySet, HistorySet, RsLazySet, AllRows, Rows
    <2>2. kind \in {"conv", "sse", "rs", "viterbi", "rs_char"}  BY <1>1, KindsAssumption
    <2> QED BY <2>1, <2>2, KindFields
  <1> HIDE DEF D, c
  <1>5. Allocated(h, a, D, c, 0)
    <2>1. 0 \in 0 .. Len(c) /\ IsHeap(h, D)  BY <1>2 DEF D
    <2> QED BY <1>2, <2>1, AllocateFacts
  <1> HIDE DEF a
  <1>6. /\ IsHeap(a, D) /\ a.misused = h.misused
        /\ \A f \in D : a.ptr[f] = IF f \in ToSet(c) THEN "live" ELSE ptr[f]
    BY <1>5 DEF Allocated
  <1>7. /\ IsHeap(r, D) /\ r.misused = h.misused
        /\ \A f \in D : r.ptr[f] = IF kind = "sse" /\ f = "short_outs" THEN "null" ELSE a.ptr[f]
    <2>1. CASE kind = "sse"
      <3>1. r = Assign(a, "short_outs", "null") /\ "short_outs" \in D  BY <1>3, <2>1
      <3> QED BY <1>6, <2>1, <3>1, AssignNull
    <2>2. CASE kind # "sse"  BY <1>6, <2>2
    <2> QED BY <2>1, <2>2
  <1> HIDE DEF r
  <1>8. r.ptr \in [D -> Marks]  BY <1>7 DEF IsHeap
  <1>9. \A f \in ToSet(Created(kind)) : r.ptr[f] = ptr[f]  BY <1>3, <1>6, <1>7
  <1>10. \A f \in ToSet(c) : r.ptr[f] = IF f = "short_outs" THEN "null" ELSE "live"
    BY <1>3, <1>4, <1>6, <1>7
  <1> QED BY <1>7, <1>8, <1>9, <1>10 DEF r, a, c, D

\* The first decode and the others keep the invariant.
LEMMA PrepareStep ==
    ASSUME LifeInv, NEW n \in Failing(Lazy(kind)), NEW used \in UsedBefore,
           NEW w \in BOOLEAN, PrepareDecode(n, used, w)
    PROVE  LifeInv'
  <1> DEFINE h == Use([ptr |-> ptr, misused |-> {}], used)
             c == Lazy(kind)
             a == Allocate(h, c, n)
             m == IF kind = "sse" THEN Assign(a, "short_outs", "null") ELSE a
             r == IF hasInit THEN Use(h, Lasting)
                  ELSE IF n # 0 THEN InitUndone(a, n, w) ELSE m
  <1>1. /\ handle = "held" /\ misused = {} /\ (hasInit => n = 0)
        /\ ptr' = r.ptr /\ misused' = r.misused
        /\ hasInit' = (hasInit \/ InitFlag(n))
        /\ failed' = IF n = 0 THEN failed ELSE failed \cup {c[n]}
        /\ kind' = kind /\ handle' = handle
    BY DEF PrepareDecode
  <1>2. LifeTypes /\ Owned /\ (failed \cap Fragile = {} => Whole)  BY <1>1 DEF LifeInv
  <1>3. /\ kind \in Kinds /\ hasInit \in BOOLEAN /\ ptr \in [Fields(kind) -> Marks]
    BY <1>2 DEF LifeTypes, Marks
  <1>4. /\ IsHeap(h, Fields(kind)) /\ h.ptr = ptr
        /\ Whole => h.misused = {}
    BY <1>2, UsedFacts
  <1>5. Fragile' = Fragile  BY <1>1 DEF Fragile
  <1>6. NothingLeaks'  BY <1>1 DEF NothingLeaks
  <1>7. CASE hasInit
    <2> DEFINE g == Use(h, Lasting)
    <2>1. ptr' = g.ptr /\ misused' = g.misused /\ hasInit' = hasInit /\ failed' = failed
      BY <1>1, <1>7
    <2> HIDE DEF h
    <2>2. g.ptr = ptr /\ g.misused = h.misused \cup {f \in Lasting : ptr[f] # "live"}
      <3>1. h = [ptr |-> h.ptr, misused |-> h.misused]  BY <1>4 DEF IsHeap
      <3> QED BY <1>4, <3>1 DEF Use
    <2> HIDE DEF g
    <2>3. Whole => misused' = {}
      <3> SUFFICES ASSUME Whole, NEW f \in Lasting PROVE ptr[f] = "live"
        BY <1>4, <2>1, <2>2
      <3>1. f \in ToSet(Created(kind)) \cup ToSet(c) /\ f # "short_outs"
        BY DEF Lasting, Fields
      <3> QED BY <1>7, <3>1 DEF Whole
    <2>4. Owned' /\ (Whole => Whole')
      BY <1>1, <1>2, <2>1, <2>2 DEF Owned, Whole
    <2>5. LifeTypes'  BY <1>1, <1>2, <2>1, <2>2 DEF LifeTypes
    <2>6. OnlyFragileFailuresMisuse'
      BY <1>2, <1>5, <2>1, <2>3 DEF OnlyFragileFailuresMisuse
    <2> QED BY <1>2, <1>5, <1>6, <2>1, <2>4, <2>5, <2>6 DEF LifeInv
  <1>8. CASE ~hasInit /\ n = 0
    <2>1. /\ ptr' = m.ptr /\ misused' = m.misused /\ hasInit' = TRUE /\ failed' = failed
      BY <1>1, <1>8 DEF InitFlag
    <2> HIDE DEF h
    <2>2. /\ m.ptr \in [Fields(kind) -> Marks] /\ m.misused = h.misused
          /\ \A f \in ToSet(Created(kind)) : m.ptr[f] = ptr[f]
          /\ \A f \in ToSet(c) : m.ptr[f] = IF f = "short_outs" THEN "null" ELSE "live"
      <3>1. a = Allocate(h, c, 0)  BY <1>8
      <3> HIDE DEF a
      <3> QED BY <1>2, <1>4, <3>1, InitMakes
    <2> HIDE DEF m
    <2>3. LifeTypes'  BY <1>1, <1>3, <2>1, <2>2 DEF LifeTypes, Marks
    <2>4. Owned'
      <3>1. \A f \in Base(kind) : m.ptr[f] = "live"
        BY <1>2, <1>3, <2>2, CreatedLists DEF Owned
      <3>2. ~IsRs(kind) => m.ptr["history_buffer"] = "live"
        <4>1. "history_buffer" \in ToSet(HistoryFields)  BY KindFields DEF HistorySet
        <4>2. ~IsRs(kind) => "history_buffer" \in ToSet(c)  BY <1>3, <4>1, CreatedLists
        <4> QED BY <2>2, <4>2
      <3>3. kind = "sse" => m.ptr["short_outs"] # "live"  BY <1>3, <2>2, CreatedLists
      <3>4. IsRs(kind) => \A f \in ToSet(c) : m.ptr[f] = "live"
        <4> SUFFICES ASSUME IsRs(kind) PROVE "short_outs" \notin ToSet(c)
          BY <2>2
        <4>1. kind \in {"rs", "rs_char"}  BY DEF IsRs
        <4> QED BY <4>1, KindFields DEF RsLazySet, AllRows, Rows
      <3> QED BY <1>1, <2>1, <3>1, <3>2, <3>3, <3>4 DEF Owned
    <2>5. Whole => Whole'
      <3> SUFFICES ASSUME Whole PROVE Whole'
        OBVIOUS
      <3>1. failed = {} /\ \A f \in ToSet(Created(kind)) : ptr[f] = "live"  BY DEF Whole
      <3> QED BY <1>1, <2>1, <2>2, <3>1 DEF Whole
    <2>6. OnlyFragileFailuresMisuse'
      BY <1>2, <1>4, <1>5, <2>1, <2>2 DEF OnlyFragileFailuresMisuse
    <2> QED BY <1>2, <1>5, <1>6, <2>1, <2>3, <2>4, <2>5, <2>6 DEF LifeInv
  <1>9. CASE ~hasInit /\ n # 0
    <2> DEFINE u == InitUndone(a, n, w)
    <2>1. /\ ptr' = u.ptr /\ misused' = u.misused /\ hasInit' = ~IsRs(kind)
          /\ failed' = failed \cup {c[n]}
      BY <1>1, <1>9 DEF InitFlag, IsRs
    <2>2. n \in 1 .. Len(c) /\ c[n] \in Fragile
      <3>1. PICK S : c \in Seq(S)  BY <1>3, LazyLists
      <3>2. n \in 1 .. Len(c)  BY <1>9 DEF Failing
      <3>3. c[n] \in ToSet(c)
        <4> HIDE DEF c
        <4>1. DOMAIN c = 1 .. Len(c)  BY <3>1
        <4> QED BY <3>2, <4>1 DEF ToSet
      <3> QED BY <3>2, <3>3 DEF Fragile
    <2>3. Shrunk(u)
      <3> HIDE DEF h
      <3>1. CASE IsRs(kind)  BY <1>2, <1>4, <1>9, <2>2, <3>1, RsInitFails
      <3>2. CASE ~IsRs(kind)  BY <1>2, <1>4, <1>9, <2>2, <3>2, ConvInitFails
      <3> QED BY <3>1, <3>2
    <2> HIDE DEF u
    <2>4. LifeTypes'  BY <1>1, <1>3, <2>1, <2>3 DEF LifeTypes, Marks, Shrunk, IsRs
    <2>5. failed' \cap Fragile' # {}  BY <1>5, <2>1, <2>2
    <2>6. OnlyFragileFailuresMisuse'  BY <2>5 DEF OnlyFragileFailuresMisuse
    <2>7. misused' = {} => Owned'
      BY <1>1, <2>1, <2>3, KindFields DEF Owned, Shrunk
    <2> QED BY <1>6, <2>4, <2>5, <2>6, <2>7 DEF LifeInv
  <1> QED BY <1>3, <1>7, <1>8, <1>9

\* A step that leaves the object alone.
LEMMA IdleStep ==
    ASSUME LifeInv, UNCHANGED codecVars
    PROVE  LifeInv'
  <1>1. /\ kind' = kind /\ handle' = handle /\ hasInit' = hasInit /\ ptr' = ptr
        /\ failed' = failed /\ misused' = misused
    BY DEF codecVars
  <1> QED BY <1>1 DEF LifeInv, LifeTypes, OnlyFragileFailuresMisuse, NothingLeaks,
                      Owned, Whole, Fragile

\* It holds at the start.
LEMMA LifeInit ==
    CodecInit => LifeInv
  <1> SUFFICES ASSUME CodecInit PROVE LifeInv
    OBVIOUS
  <1>1. kind \in Kinds /\ handle = "none" /\ hasInit = FALSE /\ ptr = Fresh(kind) /\ misused = {}
    BY DEF CodecInit
  <1>2. IsHeap(New, Fields(kind)) /\ New.ptr = ptr
        /\ \A f \in Fields(kind) : ptr[f] # "live"
    BY <1>1, NewFacts
  <1>3. LifeTypes  BY <1>1, <1>2 DEF LifeTypes, IsHeap, Marks
  <1>4. NothingLeaks  BY <1>2, <1>3 DEF NothingLeaks, LifeTypes
  <1>5. OnlyFragileFailuresMisuse  BY <1>1 DEF OnlyFragileFailuresMisuse
  <1> QED BY <1>1, <1>3, <1>4, <1>5 DEF LifeInv

\* What the flag means follows.
LEMMA FlagFollows ==
    LifeInv => FlagTellsTheTruth
  <1> SUFFICES ASSUME LifeInv, handle = "held", misused = {}, failed = {},
                      NEW f \in ToSet(Lazy(kind)) \ {"short_outs"}
               PROVE  (ptr[f] = "live") = hasInit
    BY DEF FlagTellsTheTruth
  <1>1. Whole /\ kind \in Kinds /\ hasInit \in BOOLEAN  BY DEF LifeInv, LifeTypes
  <1>2. Fresh(kind)[f] # "live"  BY <1>1, NewFacts DEF Fields
  <1>3. CASE hasInit = TRUE  BY <1>1, <1>3 DEF Whole
  <1>4. CASE hasInit = FALSE
    <2>1. ptr[f] = Fresh(kind)[f]  BY <1>1, <1>4 DEF Whole
    <2> QED BY <1>2, <1>4, <2>1
  <1> QED BY <1>1, <1>3, <1>4

\* Every step of a session keeps the invariant of the object.
LEMMA LifeNext ==
    ASSUME LifeInv, [ShimNext]_allVars
    PROVE  LifeInv'
  <1>1. CASE \E n \in Failing(Created(kind)), bits \in BufferBits, wild \in BOOLEAN :
                 CreateCodec(n, bits, wild)
    BY <1>1, CreateStep DEF CreateCodec
  <1>2. CASE \E wild \in BOOLEAN : DestroyCodec(wild)
    BY <1>2, DestroyStep DEF DestroyCodec
  <1>3. CASE \E n \in Failing(Lazy(kind)), wild \in BOOLEAN :
                 \/ \E x \in Surplus : Update(order - 1 + x, n, wild)
                 \/ \E b \in DirectBlocks : b[1] = order /\ DirectDecode(b[2], n, wild)
                 \/ \E used \in UsedBefore : OtherDecode(n, used, wild)
    <2>1. {} \in UsedBefore  BY DEF UsedBefore
    <2>2. PICK n \in Failing(Lazy(kind)), wild \in BOOLEAN :
                 \E used \in UsedBefore : PrepareDecode(n, used, wild)
      BY <1>3, <2>1 DEF Update, DirectDecode, OtherDecode
    <2> QED BY <2>2, PrepareStep
  <1>4. CASE InitViterbi \/ DecodeSteps \/ \E bits \in ChainbackBits : Chainback(bits)
    <2>1. UNCHANGED codecVars
      BY <1>4 DEF InitViterbi, DecodeSteps, DecodeStep, Return, Chainback
    <2> QED BY <2>1, IdleStep
  <1>5. CASE Crashed \/ UNCHANGED allVars
    <2>1. UNCHANGED codecVars  BY <1>5 DEF Crashed, allVars
    <2> QED BY <2>1, IdleStep
  <1> QED BY <1>1, <1>2, <1>3, <1>4, <1>5 DEF ShimNext

\* The invariant of the object in every session.
THEOREM LifeInvariance == ShimSpec => []LifeInv
<1>1. ShimInit => LifeInv
  BY LifeInit DEF ShimInit
<1>2. LifeInv /\ [ShimNext]_allVars => LifeInv'
  BY LifeNext
<1> QED
  BY <1>1, <1>2, PTL DEF ShimSpec

\* Nothing is freed twice, or freed or followed without having been set, in any
\* order of calls on an object of any kind, unless a fragile allocation failed.
THEOREM MisuseNeedsFragileFailure == ShimSpec => []OnlyFragileFailuresMisuse
<1>1. LifeInv => OnlyFragileFailuresMisuse
  BY DEF LifeInv
<1> QED
  BY <1>1, LifeInvariance, PTL

\* Nothing that an object owned outlives it, or a create that failed, whichever
\* allocation it was that failed.
THEOREM ObjectsDoNotLeak == ShimSpec => []NothingLeaks
<1>1. LifeInv => NothingLeaks
  BY DEF LifeInv
<1> QED
  BY <1>1, LifeInvariance, PTL

\* has_init_decode is set exactly when the decoder's fields are.
THEOREM FlagIsTrue == ShimSpec => []FlagTellsTheTruth
<1> QED
  BY FlagFollows, LifeInvariance, PTL
=============================================================================
