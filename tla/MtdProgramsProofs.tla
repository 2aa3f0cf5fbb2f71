------------------------- MODULE MtdProgramsProofs -------------------------
(* What the block writer and the programs that write flash promise, for    *)
(* partitions and erase blocks of every size, every stream of data, every  *)
(* set of images and any number of runs, failures and power cuts.          *)
EXTENDS MtdPrograms, SequenceTheorems, FiniteSetTheorems, TLAPS


\* The retries of write_block, which the type of retry rests on.
Retries == phase \in {"erase", "program", "verify"} => retry \in 0 .. 1

\* The blocks already written lie behind the file offset and behind the block
\* in work, so nothing that follows touches them.
Ahead ==
    \A i \in 1 .. Len(log) :
        /\ log[i].at < fd
        /\ phase \in Writing \cup {"wipe"} => log[i].at < pos

Typed == MtdTypeOK /\ Retries
IInv == Typed /\ Ahead /\ StreamInOrder
-----------------------------------------------------------------------------
(* Sequences of units and the blocks cut from them. *)

LEMMA BlockOfSeq ==
    ASSUME NEW s \in Seq(Int), Len(s) = Units
    PROVE  s \in [1 .. Units -> Int]
OBVIOUS

LEMMA ErasedIsBlock == ErasedBlock \in [1 .. Units -> Int]
BY DEF ErasedBlock, Erased

\* A prefix and what follows it are sequences of the lengths one expects.
LEMMA CutType ==
    ASSUME NEW s \in Seq(Int), NEW n \in Nat, n <= Len(s)
    PROVE  /\ First(s, n) \in Seq(Int) /\ Len(First(s, n)) = n
           /\ Rest(s, n) \in Seq(Int)
BY SubSeqProperties DEF First, Rest

LEMMA FillType ==
    ASSUME NEW s \in Seq(Int), NEW t \in Seq(Int)
    PROVE  s \o t \in Seq(Int) /\ Len(s \o t) = Len(s) + Len(t)
BY ConcatProperties

LEMMA PaddingType ==
    ASSUME NEW n \in Nat
    PROVE  /\ [i \in 1 .. n |-> Zero] \in Seq(Int)
           /\ Len([i \in 1 .. n |-> Zero]) = n
BY DEF Zero

\* Programming or erasing a block leaves a medium.
LEMMA FlashBlock ==
    ASSUME flash \in [Blocks -> [1 .. Units -> Int]],
           NEW p, NEW b \in [1 .. Units -> Int]
    PROVE  [flash EXCEPT ![p] = b] \in [Blocks -> [1 .. Units -> Int]]
OBVIOUS

LEMMA FlashUnit ==
    ASSUME flash \in [Blocks -> [1 .. Units -> Int]],
           NEW p \in Blocks, NEW u, NEW v \in Int
    PROVE  [flash EXCEPT ![p][u] = v] \in [Blocks -> [1 .. Units -> Int]]
OBVIOUS

LEMMA LogType ==
    ASSUME NEW S, NEW s \in Seq(S), NEW e \in S
    PROVE  /\ Append(s, e) \in Seq(S) /\ Len(Append(s, e)) = Len(s) + 1
           /\ \A i \in 1 .. Len(s) : Append(s, e)[i] = s[i]
           /\ Append(s, e)[Len(s) + 1] = e
BY AppendProperties
-----------------------------------------------------------------------------
(* Every step keeps the types.  The actions are taken in the order of the  *)
(* module.                                                                 *)

LEMMA InitTyped == MtdInit => Typed
<1> SUFFICES ASSUME MtdInit PROVE Typed
    OBVIOUS
<1>1. /\ flash \in [Blocks -> [1 .. Units -> Int]]
      /\ bad \subseteq Blocks /\ worn \subseteq Blocks \ bad
      /\ fd \in 0 .. NBlocks /\ pos \in 0 .. NBlocks
      /\ at \in 0 .. Units /\ retry \in 0 .. 2
    BY SizesAssumption DEF MtdInit
<1>2. /\ stored \in Seq(Int) /\ Len(stored) <= Units /\ data \in Seq(Int)
      /\ block \in [1 .. Units -> Int]
      /\ skipped \in Seq(Blocks)
      /\ log \in Seq([at : Blocks, data : [1 .. Units -> Int]])
    BY SizesAssumption, ErasedIsBlock DEF MtdInit
<1>3. /\ phase = "closed" /\ call = "none" /\ ret = "ok" /\ mishaps = 0
    BY DEF MtdInit
<1> QED BY <1>1, <1>2, <1>3, MaxMishapsAssumption DEF Typed, MtdTypeOK, Retries, Writing

LEMMA OpenWriteTyped == ASSUME Typed, OpenWrite PROVE Typed'
BY SizesAssumption DEF Typed, MtdTypeOK, Retries, Writing, OpenWrite

LEMMA CallEraseTyped == ASSUME Typed, CallErase PROVE Typed'
BY SizesAssumption DEF Typed, MtdTypeOK, Retries, Writing, CallErase, cursors, buffers

LEMMA CallCloseTyped == ASSUME Typed, CallClose PROVE Typed'
BY SizesAssumption DEF Typed, MtdTypeOK, Retries, Writing, CallClose, cursors, buffers

LEMMA AbandonTyped == ASSUME Typed, Abandon PROVE Typed'
BY SizesAssumption DEF Typed, MtdTypeOK, Retries, Writing, Abandon, cursors, buffers

LEMMA WriteReturnsTyped == ASSUME Typed, WriteReturns PROVE Typed'
BY SizesAssumption DEF Typed, MtdTypeOK, Retries, Writing, WriteReturns, Return, cursors, buffers

LEMMA EraseRestTyped == ASSUME Typed, EraseRest PROVE Typed'
BY SizesAssumption DEF Typed, MtdTypeOK, Retries, Writing, EraseRest, buffers

LEMMA CloseTyped == ASSUME Typed, Close PROVE Typed'
BY SizesAssumption DEF Typed, MtdTypeOK, Retries, Writing, Close, Return, cursors, buffers

LEMMA CheckBadTyped == ASSUME Typed, CheckBad PROVE Typed'
<1>1. CASE pos \in bad /\ skipped' = Append(skipped, pos) /\ pos' = pos + 1
           /\ UNCHANGED <<retry, phase>>
  <2>1. pos \in Blocks /\ skipped' \in Seq(Blocks)
    BY <1>1, LogType DEF Typed, MtdTypeOK
  <2>2. pos' \in 0 .. NBlocks
    BY <1>1, <2>1, SizesAssumption DEF Blocks
  <2> QED
    BY <1>1, <2>1, <2>2 DEF Typed, MtdTypeOK, Retries, Writing, CheckBad, buffers
<1>2. CASE pos \notin bad /\ pos < NBlocks /\ retry' = 0 /\ phase' = "erase"
           /\ UNCHANGED <<skipped, pos>>
  <2>1. pos \in Blocks \ bad
    BY <1>2, SizesAssumption DEF Typed, MtdTypeOK, Blocks
  <2> QED
    BY <1>2, <2>1 DEF Typed, MtdTypeOK, Retries, Writing, CheckBad, buffers
<1> QED BY <1>1, <1>2 DEF CheckBad

LEMMA OutOfSpaceTyped == ASSUME Typed, OutOfSpace PROVE Typed'
BY SizesAssumption, ErasedIsBlock DEF Typed, MtdTypeOK, Retries, Writing, OutOfSpace, LeaveBlock, Return

\* A failed call counts as a mishap, and the bound on mishaps is kept.
LEMMA FailsCount == ASSUME mishaps \in 0 .. MaxMishaps, NEW op, Fails(op)
                    PROVE mishaps' \in 0 .. MaxMishaps
BY MaxMishapsAssumption DEF Fails, Mishap

LEMMA EraseTyped == ASSUME Typed, Erase PROVE Typed'
<1>1. flash' \in [Blocks -> [1 .. Units -> Int]]
  BY ErasedIsBlock, FlashBlock DEF Typed, MtdTypeOK, Erase
<1>2. mishaps' \in 0 .. MaxMishaps
  BY FailsCount DEF Typed, MtdTypeOK, Erase
<1>3. /\ at' \in 0 .. Units /\ (phase' = "program" => at' < Units)
      /\ retry' \in 0 .. 2 /\ phase' \in {"program", "erase", "giveup"}
      /\ phase' # "giveup" => retry' \in 0 .. 1
  BY SMTT(30), SizesAssumption DEF Typed, MtdTypeOK, Retries, Erase, Again
<1> QED
  BY <1>1, <1>2, <1>3 DEF Typed, MtdTypeOK, Retries, Writing, Erase, buffers

LEMMA ProgramTyped == ASSUME Typed, Program PROVE Typed'
<1>1. pos \in Blocks /\ at + 1 \in 1 .. Units
  BY SizesAssumption DEF Typed, MtdTypeOK, Program, Writing
<1>2. block[at + 1] \in Int /\ Torn \in Int
  <2>1. block \in [1 .. Units -> Int]
    BY DEF Typed, MtdTypeOK
  <2> QED BY <1>1, <2>1 DEF Torn
<1>3. flash' \in [Blocks -> [1 .. Units -> Int]]
  <2>1. flash \in [Blocks -> [1 .. Units -> Int]]
    BY DEF Typed, MtdTypeOK
  <2>2. \E v \in Int : flash' = [flash EXCEPT ![pos][at + 1] = v]
    BY <1>2 DEF Program
  <2> QED BY <1>1, <2>1, <2>2, FlashUnit
<1>4. mishaps' \in 0 .. MaxMishaps
  BY FailsCount DEF Typed, MtdTypeOK, Program
<1>5. /\ at' \in 0 .. Units /\ (phase' = "program" => at' < Units)
      /\ phase' \in {"program", "verify"}
  BY SMTT(30), <1>1, SizesAssumption DEF Typed, MtdTypeOK, Program
<1> QED
  BY <1>3, <1>4, <1>5 DEF Typed, MtdTypeOK, Retries, Writing, Program, buffers

LEMMA VerifyTyped == ASSUME Typed, Verify PROVE Typed'
<1>1. pos \in Blocks \ bad /\ retry \in 0 .. 1
  BY DEF Typed, MtdTypeOK, Retries, Verify, Writing
<1>2. mishaps' \in 0 .. MaxMishaps /\ fd' \in 0 .. NBlocks
  <2>1. mishaps' \in 0 .. MaxMishaps
    BY FailsCount DEF Typed, MtdTypeOK, Verify
  <2>2. fd' \in 0 .. NBlocks
    BY <1>1, SizesAssumption DEF Verify, Blocks
  <2> QED BY <2>1, <2>2
<1>3. CASE /\ log' = Append(log, [at |-> pos, data |-> block])
           /\ stored' = Stored /\ phase' = "idle" /\ LeaveBlock
  <2>1. [at |-> pos, data |-> block] \in [at : Blocks, data : [1 .. Units -> Int]]
    BY <1>1 DEF Typed, MtdTypeOK
  <2>2. log' \in Seq([at : Blocks, data : [1 .. Units -> Int]])
    BY <1>3, <2>1, LogType DEF Typed, MtdTypeOK
  <2>3. stored' \in Seq(Int) /\ Len(stored') <= Units
    BY <1>3, SizesAssumption DEF Typed, MtdTypeOK, Stored
  <2>4. block' \in [1 .. Units -> Int]
    BY <1>3, ErasedIsBlock DEF LeaveBlock
  <2> QED
    BY <1>2, <1>3, <2>2, <2>3, <2>4, SizesAssumption
    DEF Typed, MtdTypeOK, Retries, Writing, Verify, LeaveBlock
<1>4. CASE Again("erase") /\ at' = 0 /\ UNCHANGED <<log, stored, block, pos>>
  <2>1. /\ retry' \in 0 .. 2 /\ phase' \in {"erase", "giveup"}
        /\ phase' = "erase" => retry' \in 0 .. 1
    BY <1>1, <1>4 DEF Again
  <2> QED
    BY <1>1, <1>2, <1>4, <2>1, SizesAssumption
    DEF Typed, MtdTypeOK, Retries, Writing, Verify
<1> QED BY <1>3, <1>4 DEF Verify

LEMMA GiveUpTyped == ASSUME Typed, GiveUp PROVE Typed'
<1>1. pos \in Blocks \ bad
  BY DEF Typed, MtdTypeOK, GiveUp, Writing
<1>2. skipped' \in Seq(Blocks)
  BY <1>1, LogType DEF Typed, MtdTypeOK, GiveUp
<1>3. flash' \in [Blocks -> [1 .. Units -> Int]]
  BY ErasedIsBlock, FlashBlock DEF Typed, MtdTypeOK, GiveUp
<1>4. mishaps' \in 0 .. MaxMishaps
  BY FailsCount DEF Typed, MtdTypeOK, GiveUp
<1>5. pos' \in 0 .. NBlocks
  BY <1>1, SizesAssumption DEF GiveUp, Blocks
<1> QED
  BY <1>2, <1>3, <1>4, <1>5 DEF Typed, MtdTypeOK, Retries, Writing, GiveUp, buffers

LEMMA WipeTyped == ASSUME Typed, Wipe PROVE Typed'
<1>1. flash' \in [Blocks -> [1 .. Units -> Int]]
  BY ErasedIsBlock, FlashBlock DEF Typed, MtdTypeOK, Wipe
<1>2. mishaps' \in 0 .. MaxMishaps
  BY FailsCount DEF Typed, MtdTypeOK, Wipe
<1>3. pos \in 0 .. NBlocks
  BY DEF Typed, MtdTypeOK
<1>4. pos' \in 0 .. NBlocks
  BY <1>3, SizesAssumption DEF Wipe
<1>5. phase' \in {"wipe", "idle"} /\ call' \in {call, "none"}
  BY DEF Wipe, Return
<1> QED
  BY <1>1, <1>2, <1>4, <1>5 DEF Typed, MtdTypeOK, Retries, Writing, Wipe, buffers

LEMMA PowerCutTyped == ASSUME Typed, PowerCut PROVE Typed'
<1>1. flash' \in [Blocks -> [1 .. Units -> Int]]
  <2>1. Torn \in Int /\ [u \in 1 .. Units |-> Torn] \in [1 .. Units -> Int]
    BY DEF Torn
  <2>2. flash \in [Blocks -> [1 .. Units -> Int]]
    BY DEF Typed, MtdTypeOK
  <2>3. CASE flash' = [flash EXCEPT ![pos] = [u \in 1 .. Units |-> Torn]]
    BY <2>1, <2>2, <2>3, FlashBlock
  <2>4. CASE phase = "program" /\ flash' = [flash EXCEPT ![pos][at + 1] = Torn]
    <3>1. pos \in Blocks
      BY <2>4 DEF Typed, MtdTypeOK, Writing
    <3> QED BY <2>1, <2>2, <2>4, <3>1, FlashUnit
  <2> QED BY <2>2, <2>3, <2>4 DEF PowerCut
<1>2. mishaps' \in 0 .. MaxMishaps
  BY MaxMishapsAssumption DEF Typed, MtdTypeOK, PowerCut, Mishap
<1>3. block' \in [1 .. Units -> Int]
  BY ErasedIsBlock DEF PowerCut, LeaveBlock
<1>4. /\ phase' = "closed" /\ call' = "none" /\ ret' = "ok"
      /\ UNCHANGED <<bad, worn>>
  BY DEF PowerCut
<1> QED
  BY <1>1, <1>2, <1>3, <1>4, SizesAssumption, SMTT(60)
  DEF Typed, MtdTypeOK, Retries, Writing, PowerCut, LeaveBlock

LEMMA CallWriteTyped == ASSUME Typed, NEW d \in Seq(Int), CallWrite(d) PROVE Typed'
BY SizesAssumption DEF Typed, MtdTypeOK, Retries, Writing, CallWrite, cursors

LEMMA CoalesceTyped == ASSUME Typed, Coalesce PROVE Typed'
<1> DEFINE n == Lowest(Units - Len(stored), Len(data))
           filled == stored \o First(data, n)
<1>1. /\ n \in Nat /\ n <= Len(data) /\ Len(stored) + n <= Units
  BY SizesAssumption DEF Typed, MtdTypeOK, Lowest
<1>2. /\ First(data, n) \in Seq(Int) /\ Len(First(data, n)) = n
      /\ Rest(data, n) \in Seq(Int)
  BY <1>1, CutType DEF Typed, MtdTypeOK
<1>3. filled \in Seq(Int) /\ Len(filled) <= Units
  BY <1>1, <1>2, FillType DEF Typed, MtdTypeOK
<1>4. stored' = filled /\ data' = Rest(data, n)
  BY DEF Coalesce
<1>5. CASE Len(filled) = Units /\ StartBlock(filled)
  <2>1. block' \in [1 .. Units -> Int]
    BY <1>3, <1>5, BlockOfSeq DEF StartBlock
  <2> HIDE DEF n, filled
  <2> QED
    BY <1>2, <1>3, <1>4, <1>5, <2>1
    DEF Typed, MtdTypeOK, Retries, Writing, Coalesce, StartBlock
<1>6. CASE UNCHANGED <<block, pos, phase>>
  <2> HIDE DEF n, filled
  <2> QED
    BY <1>2, <1>3, <1>4, <1>6 DEF Typed, MtdTypeOK, Retries, Writing, Coalesce
<1> QED BY <1>5, <1>6 DEF Coalesce

LEMMA WriteDirectlyTyped == ASSUME Typed, WriteDirectly PROVE Typed'
BY SizesAssumption, CutType, BlockOfSeq DEF Typed, MtdTypeOK, Retries, Writing, WriteDirectly, StartBlock

LEMMA PadTyped == ASSUME Typed, Pad PROVE Typed'
<1> DEFINE padding == [i \in 1 .. Units - Len(stored) |-> Zero]
           filled == stored \o padding
<1>1. Units - Len(stored) \in Nat
  BY SizesAssumption DEF Typed, MtdTypeOK
<1>2. padding \in Seq(Int) /\ Len(padding) = Units - Len(stored)
  BY <1>1, PaddingType
<1>3. filled \in Seq(Int) /\ Len(filled) = Units
  <2>1. stored \in Seq(Int) /\ Len(stored) \in Nat
    BY DEF Typed, MtdTypeOK
  <2>2. filled \in Seq(Int) /\ Len(filled) = Len(stored) + Len(padding)
    <3> HIDE DEF padding
    <3> QED BY <1>2, <2>1, FillType
  <2> HIDE DEF padding, filled
  <2> QED BY <1>2, <2>1, <2>2, SizesAssumption
<1>4. stored' = filled /\ StartBlock(filled)
  BY DEF Pad
<1>5. block' \in [1 .. Units -> Int]
  BY <1>3, <1>4, BlockOfSeq DEF StartBlock
<1> HIDE DEF padding, filled
<1>6. /\ stored' \in Seq(Int) /\ Len(stored') <= Units
      /\ pos' \in 0 .. NBlocks /\ phase' = "check"
  BY <1>3, <1>4, SizesAssumption DEF Typed, MtdTypeOK, StartBlock
<1> QED
  BY <1>5, <1>6
  DEF Typed, MtdTypeOK, Retries, Writing, Pad, StartBlock

LEMMA StepTyped == ASSUME Typed, [MtdNext]_mtdVars PROVE Typed'
<1>1. CASE UNCHANGED mtdVars
  BY <1>1 DEF Typed, MtdTypeOK, Retries, mtdVars
<1>2. CASE MtdStep
  BY <1>2, CoalesceTyped, WriteDirectlyTyped, WriteReturnsTyped, PadTyped,
     EraseRestTyped, CloseTyped, CheckBadTyped, OutOfSpaceTyped, EraseTyped,
     ProgramTyped, VerifyTyped, GiveUpTyped, WipeTyped DEF MtdStep
<1>3. CASE \E d \in Seq(Int) : CallWrite(d)
  BY <1>3, CallWriteTyped
<1> QED
  BY <1>1, <1>2, <1>3, OpenWriteTyped, CallEraseTyped, CallCloseTyped,
     AbandonTyped, PowerCutTyped DEF MtdNext

\* The types hold for every partition, whatever its callers write and whatever
\* fails; the block in work is never a bad one (mtdutils.c:420-429).
THEOREM TypeCorrect == MtdSpec => []MtdTypeOK
<1>1. MtdInit => Typed
  BY InitTyped
<1>2. Typed /\ [MtdNext]_mtdVars => Typed'
  BY StepTyped
<1>3. Typed => MtdTypeOK
  BY DEF Typed
<1> QED BY <1>1, <1>2, <1>3, PTL DEF MtdSpec
-----------------------------------------------------------------------------
(* What has been written stays where it is. *)

InWork == phase \in Writing \cup {"wipe"}

LEMMA EntryType ==
    ASSUME NEW l \in Seq([at : Blocks, data : [1 .. Units -> Int]]),
           NEW i \in 1 .. Len(l)
    PROVE  l[i].at \in Blocks
<1>1. l[i] \in [at : Blocks, data : [1 .. Units -> Int]]
  <2> DEFINE L == [at : Blocks, data : [1 .. Units -> Int]]
  <2>1. l \in Seq(L)
    OBVIOUS
  <2> HIDE DEF L
  <2>2. l[i] \in L
    BY <2>1
  <2> QED BY <2>2 DEF L
<1> QED BY <1>1

\* A step that writes nothing down keeps the order, when it touches no block but
\* the one in work and moves the cursors only forward.
LEMMA Behind ==
    ASSUME IInv, MtdTypeOK', UNCHANGED <<log, bad>>,
           \/ UNCHANGED flash
           \/ InWork /\ \A b \in Blocks \ {pos} : flash'[b] = flash[b],
           fd' = fd \/ (InWork /\ pos <= fd'),
           InWork' => \/ fd <= pos'
                      \/ InWork /\ pos <= pos'
    PROVE  Ahead' /\ StreamInOrder'
<1> SUFFICES ASSUME NEW i \in 1 .. Len(log)
             PROVE  /\ log[i].at < fd' /\ (InWork' => log[i].at < pos')
                    /\ log[i].at \notin bad /\ flash'[log[i].at] = log[i].data
                    /\ \A j \in 1 .. Len(log) : i < j => log[i].at < log[j].at
    BY DEF Ahead, StreamInOrder, InWork
<1>1. log[i].at \in Blocks
  BY EntryType DEF IInv, Typed, MtdTypeOK
<1>2. /\ log[i].at \in Int /\ fd \in Int /\ pos \in Int /\ fd' \in Int /\ pos' \in Int
  <2>1. log[i].at \in Int
    BY <1>1 DEF Blocks
  <2>2. fd \in 0 .. NBlocks /\ pos \in 0 .. NBlocks
    BY DEF IInv, Typed, MtdTypeOK
  <2>3. fd' \in 0 .. NBlocks /\ pos' \in 0 .. NBlocks
    BY DEF MtdTypeOK
  <2> QED BY <2>1, <2>2, <2>3
<1>3. log[i].at < fd /\ (InWork => log[i].at < pos)
  BY DEF IInv, Ahead, InWork
<1>4. /\ log[i].at \notin bad /\ flash[log[i].at] = log[i].data
      /\ \A j \in 1 .. Len(log) : i < j => log[i].at < log[j].at
  BY DEF IInv, StreamInOrder
<1>5. log[i].at < fd' /\ (InWork' => log[i].at < pos')
  BY <1>2, <1>3
<1>6. flash'[log[i].at] = flash[log[i].at]
  BY <1>1, <1>2, <1>3
<1> QED BY <1>4, <1>5, <1>6

\* A block that was read back as written becomes the last of the log.
LEMMA WrittenStays ==
    ASSUME IInv, MtdTypeOK', Verify, flash[pos] = block,
           log' = Append(log, [at |-> pos, data |-> block]),
           fd' = pos + 1, phase' = "idle"
    PROVE  Ahead' /\ StreamInOrder'
<1> DEFINE e == [at |-> pos, data |-> block]
           L == [at : Blocks, data : [1 .. Units -> Int]]
<1>1. pos \in Blocks \ bad /\ pos \in Int /\ InWork
  BY DEF IInv, Typed, MtdTypeOK, Verify, Writing, InWork, Blocks
<1>2. e \in L /\ log \in Seq(L)
  BY <1>1 DEF IInv, Typed, MtdTypeOK
<1>3. /\ Len(log') = Len(log) + 1 /\ log'[Len(log) + 1] = e
      /\ \A i \in 1 .. Len(log) : log'[i] = log[i]
  <2> HIDE DEF L
  <2> QED BY <1>2, LogType
<1>4. Len(log) \in Nat /\ \A i \in 1 .. Len(log) : log[i].at \in Int
  <2>1. \A i \in 1 .. Len(log) : log[i].at \in Blocks
    BY <1>2, EntryType
  <2> QED BY <1>2, <2>1 DEF Blocks
<1>5. flash' = flash /\ bad' = bad
  BY DEF Verify
<1>6. \A i \in 1 .. Len(log) :
         /\ log[i].at < pos /\ log[i].at \notin bad
         /\ flash[log[i].at] = log[i].data
         /\ \A j \in 1 .. Len(log) : i < j => log[i].at < log[j].at
  BY <1>1 DEF IInv, Ahead, StreamInOrder, InWork
<1>7. \A i \in 1 .. Len(log') : i \in 1 .. Len(log) \/ i = Len(log) + 1
  BY <1>3, <1>4
<1>8. Ahead'
  <2> SUFFICES ASSUME NEW i \in 1 .. Len(log') PROVE log'[i].at < fd'
      BY DEF Ahead, Writing
  <2>1. CASE i \in 1 .. Len(log)
    BY <1>1, <1>3, <1>4, <1>6, <2>1
  <2>2. CASE i = Len(log) + 1
    BY <1>1, <1>3, <2>2
  <2> QED BY <1>7, <2>1, <2>2
<1>9. StreamInOrder'
  <2> SUFFICES ASSUME NEW i \in 1 .. Len(log')
               PROVE  /\ log'[i].at \notin bad /\ flash[log'[i].at] = log'[i].data
                      /\ \A j \in 1 .. Len(log') : i < j => log'[i].at < log'[j].at
      BY <1>5 DEF StreamInOrder
  <2>1. CASE i \in 1 .. Len(log)
    BY <1>3, <1>4, <1>6, <1>7, <2>1
  <2>2. CASE i = Len(log) + 1
    BY <1>1, <1>3, <1>4, <1>7, <2>2
  <2> QED BY <1>7, <2>1, <2>2
<1> QED BY <1>8, <1>9

\* Nothing is written yet.
LEMMA Nothing == ASSUME log' = <<>> PROVE Ahead' /\ StreamInOrder'
BY DEF Ahead, StreamInOrder

LEMMA InterfaceKeeps ==
    ASSUME IInv, MtdTypeOK',
           \/ \E d \in Seq(Int) : CallWrite(d)
           \/ CallErase \/ CallClose \/ Abandon \/ WriteReturns \/ Close
    PROVE  Ahead' /\ StreamInOrder'
<1>1. UNCHANGED <<log, bad, flash, fd>> /\ ~InWork'
  BY DEF CallWrite, CallErase, CallClose, Abandon, WriteReturns, Close, cursors,
         InWork, Writing
<1>2. InWork' => fd <= pos' \/ (InWork /\ pos <= pos')
  BY <1>1
<1>3. fd' = fd \/ (InWork /\ pos <= fd')
  BY <1>1
<1>4. UNCHANGED flash \/ (InWork /\ \A b \in Blocks \ {pos} : flash'[b] = flash[b])
  BY <1>1
<1>5. UNCHANGED <<log, bad>>
  BY <1>1
<1> QED BY <1>2, <1>3, <1>4, <1>5, Behind

LEMMA StreamKeeps ==
    ASSUME IInv, MtdTypeOK', Coalesce \/ WriteDirectly \/ Pad \/ EraseRest
    PROVE  Ahead' /\ StreamInOrder'
<1>1. UNCHANGED <<log, bad, flash, fd>>
  BY DEF Coalesce, WriteDirectly, Pad, EraseRest
<1>2. InWork' => pos' = fd
  BY DEF Coalesce, WriteDirectly, Pad, EraseRest, StartBlock, InWork, Writing
<1>3. fd \in Int
  BY DEF IInv, Typed, MtdTypeOK
<1>4. InWork' => fd <= pos' \/ (InWork /\ pos <= pos')
  BY <1>2, <1>3
<1>5. fd' = fd \/ (InWork /\ pos <= fd')
  BY <1>1
<1>6. UNCHANGED flash \/ (InWork /\ \A b \in Blocks \ {pos} : flash'[b] = flash[b])
  BY <1>1
<1>7. UNCHANGED <<log, bad>>
  BY <1>1
<1> QED BY <1>4, <1>5, <1>6, <1>7, Behind

LEMMA BlockKeeps ==
    ASSUME IInv, MtdTypeOK',
           CheckBad \/ OutOfSpace \/ Erase \/ Program \/ GiveUp \/ Wipe
    PROVE  Ahead' /\ StreamInOrder'
<1>1. InWork /\ UNCHANGED <<log, bad, fd>>
  BY DEF CheckBad, OutOfSpace, Erase, Program, GiveUp, Wipe, InWork, Writing
<1>2. \/ UNCHANGED flash
      \/ \A b \in Blocks \ {pos} : flash'[b] = flash[b]
  BY DEF CheckBad, OutOfSpace, Erase, Program, GiveUp, Wipe, IInv, Typed, MtdTypeOK
<1>3. pos \in Int
  BY DEF IInv, Typed, MtdTypeOK
<1>4. InWork' => pos <= pos'
  BY <1>3 DEF CheckBad, OutOfSpace, Erase, Program, GiveUp, Wipe, LeaveBlock,
              InWork, Writing
<1>5. InWork' => fd <= pos' \/ (InWork /\ pos <= pos')
  BY <1>1, <1>4
<1>6. fd' = fd \/ (InWork /\ pos <= fd')
  BY <1>1
<1>7. UNCHANGED flash \/ (InWork /\ \A b \in Blocks \ {pos} : flash'[b] = flash[b])
  BY <1>1, <1>2
<1>8. UNCHANGED <<log, bad>>
  BY <1>1
<1> QED BY <1>5, <1>6, <1>7, <1>8, Behind

LEMMA VerifyKeeps == ASSUME IInv, MtdTypeOK', Verify PROVE Ahead' /\ StreamInOrder'
<1>1. CASE /\ flash[pos] = block /\ fd' = pos + 1 /\ phase' = "idle"
           /\ log' = Append(log, [at |-> pos, data |-> block])
  BY <1>1, WrittenStays
<1>2. CASE fd' \in {pos, pos + 1} /\ UNCHANGED <<log, pos>>
  <2>1. pos \in Int /\ InWork /\ UNCHANGED <<bad, flash>>
    BY DEF IInv, Typed, MtdTypeOK, Verify, InWork, Writing
  <2> QED BY <1>2, <2>1, Behind
<1> QED BY <1>1, <1>2 DEF Verify

LEMMA InitKeeps == MtdInit => IInv
<1>1. MtdInit => log = <<>>
  BY DEF MtdInit
<1> QED BY <1>1, InitTyped DEF IInv, Ahead, StreamInOrder

LEMMA StepKeeps == ASSUME IInv, [MtdNext]_mtdVars PROVE IInv'
<1>1. Typed'
  BY StepTyped DEF IInv
<1>2. MtdTypeOK'
  BY <1>1 DEF Typed
<1>3. Ahead' /\ StreamInOrder'
  <2>1. CASE UNCHANGED mtdVars
    BY <2>1 DEF IInv, Ahead, StreamInOrder, mtdVars
  <2>2. CASE OpenWrite \/ PowerCut
    BY <2>2, Nothing DEF OpenWrite, PowerCut
  <2>3. CASE MtdStep
    BY <1>2, <2>3, InterfaceKeeps, StreamKeeps, BlockKeeps, VerifyKeeps DEF MtdStep
  <2> QED
    BY <1>2, <2>1, <2>2, <2>3, InterfaceKeeps DEF MtdNext
<1> QED BY <1>1, <1>3 DEF IInv

\* Every block the writer reported stays on the medium, good and in order, for
\* every partition, every stream and every number of failures (mtdutils.c:399-547).
THEOREM StreamsInOrder == MtdSpec => []StreamInOrder
<1>1. IInv => StreamInOrder
  BY DEF IInv
<1> QED BY <1>1, InitKeeps, StepKeeps, PTL DEF MtdSpec
-----------------------------------------------------------------------------
(* The blocks that are not bad are counted from the start of the           *)
(* partition: a block of the stream has one place, and every place a block.*)

\* How many blocks of g lie below block p.
Below(g, p) == Cardinality({x \in g : x < p})

LEMMA NatMin ==
    ASSUME NEW S \in SUBSET Nat, S # {}
    PROVE  \E m \in S : \A k \in S : m <= k
<1> DEFINE R == OpToRel(<, Nat)
<1>1. IsWellFoundedOn(R, Nat)
  BY NatLessThanWellFounded
<1>2. ASSUME NEW x \in Nat, NEW y \in Nat, x < y PROVE <<x, y>> \in R
  BY <1>2 DEF OpToRel
<1> HIDE DEF R
<1>3. PICK x \in S : \A y \in S : ~(<<y, x>> \in R)
  BY <1>1, WFMin
<1>4. ASSUME NEW y \in S PROVE x <= y
  <2>1. ~(y < x)
    BY <1>2, <1>3
  <2>2. x \in Nat /\ y \in Nat
    OBVIOUS
  <2> QED BY <2>1, <2>2
<1> QED BY <1>4

LEMMA BelowType ==
    ASSUME NEW g \in SUBSET Blocks, NEW p \in Int
    PROVE  IsFiniteSet({x \in g : x < p}) /\ Below(g, p) \in Nat
<1>1. IsFiniteSet(Blocks)
  BY FS_Interval, SizesAssumption DEF Blocks
<1>2. {x \in g : x < p} \in SUBSET Blocks
  OBVIOUS
<1>3. IsFiniteSet({x \in g : x < p})
  BY <1>1, <1>2, FS_Subset
<1> QED BY <1>3, FS_CardinalityType DEF Below

LEMMA BlocksInt ==
    \A x \in Blocks : x \in Int /\ x \in Nat /\ 0 <= x /\ x < NBlocks
BY SizesAssumption DEF Blocks

LEMMA BelowZero == ASSUME NEW g \in SUBSET Blocks PROVE Below(g, 0) = 0
<1>1. {x \in g : x < 0} = {}
  <2>1. ASSUME NEW x \in g PROVE ~(x < 0)
    BY BlocksInt
  <2> QED BY <2>1
<1> QED BY <1>1, FS_EmptySet DEF Below

LEMMA BelowNext ==
    ASSUME NEW g \in SUBSET Blocks, NEW p \in Int
    PROVE  Below(g, p + 1) = IF p \in g THEN Below(g, p) + 1 ELSE Below(g, p)
<1> DEFINE S == {x \in g : x < p}
           T == {x \in g : x < p + 1}
<1>1. ASSUME NEW x \in g PROVE x < p + 1 <=> x < p \/ x = p
  BY BlocksInt
<1>2. CASE p \in g
  <2>1. ASSUME NEW x PROVE x \in T <=> x \in S \cup {p}
    BY <1>1, <1>2
  <2>2. p \notin S
    BY <1>2
  <2>3. IsFiniteSet(S)
    BY BelowType
  <2>4. Below(g, p) = Cardinality(S) /\ Below(g, p + 1) = Cardinality(T)
    BY DEF Below
  <2> HIDE DEF S, T
  <2>5. T = S \cup {p}
    BY <2>1
  <2>6. Cardinality(S \cup {p}) = Cardinality(S) + 1
    BY <2>2, <2>3, FS_AddElement
  <2> QED BY <1>2, <2>4, <2>5, <2>6
<1>3. CASE p \notin g
  <2>1. ASSUME NEW x PROVE x \in T <=> x \in S
    BY <1>1, <1>3
  <2>2. Below(g, p) = Cardinality(S) /\ Below(g, p + 1) = Cardinality(T)
    BY DEF Below
  <2> HIDE DEF S, T
  <2>3. T = S
    BY <2>1
  <2> QED BY <1>3, <2>2, <2>3
<1> QED BY <1>2, <1>3

LEMMA BelowMonotone ==
    ASSUME NEW g \in SUBSET Blocks, NEW p \in Int, NEW q \in Int, p <= q
    PROVE  Below(g, p) <= Below(g, q)
<1> DEFINE S == {x \in g : x < p}
           T == {x \in g : x < q}
<1>1. ASSUME NEW x \in S PROVE x \in T
  <2>1. x \in g /\ x < p /\ x \in Int
    BY BlocksInt
  <2> QED BY <2>1
<1>2. IsFiniteSet(T)
  BY BelowType
<1>3. Below(g, p) = Cardinality(S) /\ Below(g, q) = Cardinality(T)
  BY DEF Below
<1> HIDE DEF S, T
<1>4. S \in SUBSET T
  BY <1>1
<1>5. Cardinality(S) <= Cardinality(T)
  BY <1>2, <1>4, FS_Subset
<1> QED BY <1>3, <1>5

\* A block of g counts for every cursor behind it.
LEMMA BelowStrict ==
    ASSUME NEW g \in SUBSET Blocks, NEW c \in g, NEW q \in Int, c < q
    PROVE  Below(g, c) < Below(g, q)
<1>1. c \in Int /\ c + 1 \in Int /\ c + 1 <= q
  BY BlocksInt
<1>2. Below(g, c + 1) = Below(g, c) + 1
  BY <1>1, BelowNext
<1>3. Below(g, c + 1) <= Below(g, q)
  BY <1>1, BelowMonotone
<1>4. Below(g, c) \in Nat /\ Below(g, q) \in Nat
  BY <1>1, BelowType
<1> QED BY <1>2, <1>3, <1>4

LEMMA BelowUnique ==
    ASSUME NEW g \in SUBSET Blocks, NEW c \in g, NEW d \in g, Below(g, c) = Below(g, d)
    PROVE  c = d
<1>1. c \in Int /\ d \in Int
  BY BlocksInt
<1>2. Below(g, c) \in Nat /\ Below(g, d) \in Nat
  BY <1>1, BelowType
<1>3. ~(c < d)
  <2>1. ASSUME c < d PROVE Below(g, c) < Below(g, d)
    BY <1>1, <2>1, BelowStrict
  <2> QED BY <1>2, <2>1
<1>4. ~(d < c)
  <2>1. ASSUME d < c PROVE Below(g, d) < Below(g, c)
    BY <1>1, <2>1, BelowStrict
  <2> QED BY <1>2, <2>1
<1> QED BY <1>1, <1>3, <1>4

LEMMA BelowReached ==
    ASSUME NEW g \in SUBSET Blocks, NEW k \in Nat, k < Below(g, NBlocks)
    PROVE  \E c \in g : Below(g, c) = k
<1> DEFINE S == {p \in Nat : k < Below(g, p)}
<1>1. NBlocks \in S
  BY SizesAssumption
<1>2. PICK m \in S : \A p \in S : m <= p
  BY <1>1, NatMin
<1>3. m \in Nat /\ k < Below(g, m)
  BY <1>2
<1>4. m # 0
  BY <1>3, BelowZero
<1>5. m - 1 \in Nat /\ m - 1 \notin S
  BY <1>2, <1>3, <1>4
<1>6. ~(k < Below(g, m - 1))
  BY <1>5
<1>7. Below(g, m - 1) \in Nat
  <2>1. m - 1 \in Int
    BY <1>5
  <2> QED BY <2>1, BelowType
<1>8. Below(g, m) = IF m - 1 \in g THEN Below(g, m - 1) + 1 ELSE Below(g, m - 1)
  <2>1. m - 1 \in Int /\ (m - 1) + 1 = m
    BY <1>3
  <2>2. Below(g, (m - 1) + 1) = IF m - 1 \in g THEN Below(g, m - 1) + 1 ELSE Below(g, m - 1)
    BY <2>1, BelowNext
  <2> QED BY <2>1, <2>2
<1>9. m - 1 \in g /\ Below(g, m - 1) = k
  BY <1>3, <1>6, <1>7, <1>8
<1> QED BY <1>9

\* Every block of g lies below the end of the partition.
LEMMA BelowEnd ==
    ASSUME NEW g \in SUBSET Blocks
    PROVE  IsFiniteSet(g) /\ Below(g, NBlocks) = Cardinality(g)
<1>1. {x \in g : x < NBlocks} = g
  <2>1. ASSUME NEW x \in g PROVE x < NBlocks
    BY BlocksInt
  <2> QED BY <2>1
<1>2. IsFiniteSet(Blocks)
  BY FS_Interval, SizesAssumption DEF Blocks
<1>3. IsFiniteSet(g)
  BY <1>2, FS_Subset
<1> QED BY <1>1, <1>3 DEF Below
-----------------------------------------------------------------------------
(* The programs: the place of a unit in what a reader gets.                *)


Good == Blocks \ bad
Total == Cardinality(Good)

\* The blocks of the stream that lie before block p.
Place(p) == Below(Good, p)

\* The x-th unit a reader comes to.
Stream(x) == UnitFrom(0, x)
-----------------------------------------------------------------------------
(* The reader: every unit of the stream has one place.                     *)

\* Counting from block b is counting from the start, less what lies before b.
LEMMA BelowFrom ==
    ASSUME NEW g \in SUBSET Blocks, NEW b \in Int, NEW q \in Int, b <= q
    PROVE  Below(g, q) = Below(g, b) + Below({x \in g : x >= b}, q)
<1> DEFINE S == {x \in g : x < b}
           h == {x \in g : x >= b}
           T == {x \in h : x < q}
           R == {x \in g : x < q}
<1>1. ASSUME NEW x PROVE x \in R <=> x \in S \cup T
  <2>1. x \in g => x \in Int
    BY BlocksInt
  <2> QED BY <2>1
<1>2. ASSUME NEW x PROVE ~(x \in S /\ x \in T)
  <2>1. x \in g => x \in Int
    BY BlocksInt
  <2> QED BY <2>1
<1>3. IsFiniteSet(S)
  BY BelowType
<1>4. IsFiniteSet(T) /\ Below(h, q) \in Nat
  <2>1. h \in SUBSET Blocks
    OBVIOUS
  <2> HIDE DEF h
  <2> QED BY <2>1, BelowType
<1>5. Below(g, q) = Cardinality(R) /\ Below(g, b) = Cardinality(S) /\ Below(h, q) = Cardinality(T)
  BY DEF Below
<1>6. Below(g, b) \in Nat
  BY BelowType
<1> HIDE DEF R, S, T
<1>7. R = S \cup T /\ S \cap T = {}
  BY <1>1, <1>2
<1>8. Cardinality(S \cup T) = Cardinality(S) + Cardinality(T) - Cardinality(S \cap T)
  BY <1>3, <1>4, FS_Union
<1>9. Cardinality(S \cap T) = 0
  BY <1>7, FS_EmptySet
<1> HIDE DEF h
<1>10. Below(g, q) = Below(g, b) + Below(h, q)
  BY <1>4, <1>5, <1>6, <1>7, <1>8, <1>9
<1> QED BY <1>10 DEF h

LEMMA PlaceType ==
    ASSUME NEW p \in Int
    PROVE  Place(p) \in Nat /\ Total \in Nat /\ Place(0) = 0 /\ Place(NBlocks) = Total
<1>1. Good \in SUBSET Blocks
  BY DEF Good
<1>2. Place(p) \in Nat
  BY <1>1, BelowType DEF Place
<1>3. Place(0) = 0
  BY <1>1, BelowZero DEF Place
<1>4. Place(NBlocks) = Total
  BY <1>1, BelowEnd DEF Place, Total
<1>5. Total \in Nat
  BY <1>1, BelowEnd, FS_CardinalityType DEF Total
<1> QED BY <1>2, <1>3, <1>4, <1>5

\* A good block, its place and the places around it.
LEMMA PlaceOfBlock ==
    ASSUME NEW c \in Good
    PROVE  Place(c + 1) = Place(c) + 1 /\ Place(c) < Total /\ Place(c) \in Nat
<1>1. Good \in SUBSET Blocks /\ c \in Int /\ c < NBlocks /\ NBlocks \in Int
  BY BlocksInt, SizesAssumption DEF Good
<1>2. Place(c + 1) = Place(c) + 1
  BY <1>1, BelowNext DEF Place
<1>3. Place(c) < Place(NBlocks)
  BY <1>1, BelowStrict DEF Place
<1> QED BY <1>1, <1>2, <1>3, PlaceType

LEMMA PlaceOfBad ==
    ASSUME NEW p \in bad, p \in Int
    PROVE  Place(p + 1) = Place(p)
<1>1. Good \in SUBSET Blocks /\ p \notin Good
  BY DEF Good
<1> QED BY <1>1, BelowNext DEF Place

\* The k-th block from b on is the one at that place.
LEMMA NthPlace ==
    ASSUME NEW b \in 0 .. NBlocks, NEW k \in Nat \ {0}, Place(b) + k <= Total
    PROVE  /\ Nth(b, k) \in Good
           /\ Place(Nth(b, k)) = Place(b) + (k - 1)
<1> DEFINE g == GoodFrom(b)
<1>1. Good \in SUBSET Blocks /\ b \in Int /\ NBlocks \in Int /\ b <= NBlocks
  BY SizesAssumption DEF Good
<1>2. g = {x \in Good : x >= b} /\ g \in SUBSET Blocks
  BY DEF GoodFrom, Good
<1>3. Place(b) \in Nat /\ Total \in Nat /\ Place(NBlocks) = Total
  BY <1>1, PlaceType
<1>4. ASSUME NEW c \in g
      PROVE  /\ c \in Good /\ c \in Int /\ b <= c /\ Below(g, c) \in Nat
             /\ Cardinality({x \in g : x <= c}) = Below(g, c) + 1
             /\ Place(c) = Place(b) + Below(g, c)
  <2>1. c \in Good /\ c \in Int /\ b <= c
    BY <1>1, <1>2, BlocksInt
  <2>2. \A x \in g : x <= c <=> x < c + 1
    <3>1. \A x \in g : x \in Int
      BY <1>2, BlocksInt
    <3> QED BY <2>1, <3>1
  <2> HIDE DEF g
  <2>3. {x \in g : x <= c} = {x \in g : x < c + 1}
    BY <2>2
  <2>4. Cardinality({x \in g : x <= c}) = Below(g, c + 1)
    BY <2>3 DEF Below
  <2>5. Below(g, c + 1) = Below(g, c) + 1
    BY <1>2, <2>1, BelowNext
  <2>6. Below(Good, c) = Below(Good, b) + Below({x \in Good : x >= b}, c)
    BY <1>1, <2>1, BelowFrom
  <2>7. Below(g, c) \in Nat
    BY <1>2, <2>1, BelowType
  <2> QED BY <1>2, <2>1, <2>4, <2>5, <2>6, <2>7 DEF Place
<1>5. Total = Place(b) + Below(g, NBlocks)
  <2>1. Below(Good, NBlocks) = Below(Good, b) + Below({x \in Good : x >= b}, NBlocks)
    BY <1>1, BelowFrom
  <2> QED BY <1>2, <1>3, <2>1 DEF Place
<1>6. Below(g, NBlocks) \in Nat
  BY <1>1, <1>2, BelowType
<1>7. PICK c \in g : Below(g, c) = k - 1
  <2>1. k - 1 \in Nat /\ k - 1 < Below(g, NBlocks)
    BY <1>3, <1>5, <1>6
  <2> HIDE DEF g
  <2> QED BY <1>2, <2>1, BelowReached
<1>8. Cardinality({x \in g : x <= c}) = k
  BY <1>4, <1>7
<1>9. Nth(b, k) \in g /\ Cardinality({x \in g : x <= Nth(b, k)}) = k
  BY <1>8 DEF Nth
<1> QED
  <2> DEFINE d == Nth(b, k)
  <2>1. d \in g /\ Cardinality({x \in g : x <= d}) = k
    BY <1>9
  <2> HIDE DEF d, g
  <2>2. /\ d \in Good /\ Below(g, d) \in Nat
        /\ k = Below(g, d) + 1 /\ Place(d) = Place(b) + Below(g, d)
    BY <1>4, <2>1
  <2>3. Place(d) = Place(b) + (k - 1)
    BY <1>3, <2>2
  <2> QED BY <2>2, <2>3 DEF d
\* Two good blocks with one place are one block.
LEMMA PlaceUnique ==
    ASSUME NEW c \in Good, NEW d \in Good, Place(c) = Place(d)
    PROVE  c = d
<1>1. Good \in SUBSET Blocks
  BY DEF Good
<1> QED BY <1>1, BelowUnique DEF Place

\* The unit at an index, as a block and a unit of it.
LEMMA Split ==
    ASSUME NEW x \in Nat \ {0}
    PROVE  /\ (x - 1) \div Units \in Nat
           /\ 1 + ((x - 1) % Units) \in 1 .. Units
           /\ x = ((x - 1) \div Units) * Units + (1 + ((x - 1) % Units))
<1>1. Units \in Nat /\ Units > 0 /\ x - 1 \in Nat
  BY SizesAssumption
<1>2. (x - 1) = Units * ((x - 1) \div Units) + ((x - 1) % Units)
  BY <1>1
<1>3. (x - 1) % Units \in 0 .. Units - 1 /\ (x - 1) \div Units \in Nat
  BY <1>1
<1> QED BY <1>1, <1>2, <1>3

LEMMA Join ==
    ASSUME NEW q \in Nat, NEW u \in 1 .. Units
    PROVE  /\ q * Units + u \in Nat \ {0}
           /\ ((q * Units + u) - 1) \div Units = q
           /\ 1 + (((q * Units + u) - 1) % Units) = u
<1> DEFINE a == q * Units + (u - 1)
<1>1. Units \in Nat /\ Units > 0 /\ u - 1 \in 0 .. Units - 1
  BY SizesAssumption
<1>2. q * Units \in Nat
  BY <1>1
<1>3. a \div Units = q /\ a % Units = u - 1
  BY <1>1
<1>4. (q * Units + u) - 1 = a
  BY <1>1, <1>2
<1> QED BY <1>1, <1>2, <1>3, <1>4

\* The unit of the stream that stands in unit u of good block c.
LEMMA StreamOfBlock ==
    ASSUME NEW c \in Good, NEW u \in 1 .. Units
    PROVE  Stream(Place(c) * Units + u) = flash[c][u]
<1> DEFINE q == Place(c)
<1>1. q \in Nat /\ q < Total /\ Total \in Nat /\ Place(0) = 0
  BY PlaceOfBlock, PlaceType
<1>2. Nth(0, 1 + q) = c
  <2>1. 1 + q \in Nat \ {0} /\ Place(0) + (1 + q) <= Total
    BY <1>1
  <2>2. 0 \in 0 .. NBlocks
    BY SizesAssumption
  <2>3. /\ Nth(0, 1 + q) \in Good
        /\ Place(Nth(0, 1 + q)) = Place(0) + ((1 + q) - 1)
    BY <2>1, <2>2, NthPlace
  <2>4. Place(Nth(0, 1 + q)) = Place(c)
    BY <1>1, <2>3
  <2> QED BY <2>3, <2>4, PlaceUnique
<1> HIDE DEF q
<1>3. /\ ((q * Units + u) - 1) \div Units = q
      /\ 1 + (((q * Units + u) - 1) % Units) = u
  BY <1>1, Join
<1>4. Stream(q * Units + u) = flash[c][u]
  BY <1>2, <1>3 DEF Stream, UnitFrom
<1> QED BY <1>4 DEF q

\* Every unit of the stream stands in one.
LEMMA StreamStands ==
    ASSUME NEW x \in 1 .. Total * Units
    PROVE  \E c \in Good, u \in 1 .. Units :
               x = Place(c) * Units + u /\ Stream(x) = flash[c][u]
<1> DEFINE q == (x - 1) \div Units
           u == 1 + ((x - 1) % Units)
<1>1. Total \in Nat /\ Place(0) = 0 /\ Units \in Nat /\ Units > 0
  BY PlaceType, SizesAssumption
<1>2. x \in Nat \ {0} /\ x <= Total * Units
  BY <1>1
<1>3. q \in Nat /\ u \in 1 .. Units /\ x = q * Units + u
  BY <1>2, Split
<1> HIDE DEF q, u
<1>4. q < Total
  BY <1>1, <1>2, <1>3
<1>5. 0 \in 0 .. NBlocks
  BY SizesAssumption
<1>6. Nth(0, 1 + q) \in Good /\ Place(Nth(0, 1 + q)) = q
  <2>1. 1 + q \in Nat \ {0} /\ Place(0) + (1 + q) <= Total
    BY <1>1, <1>3, <1>4
  <2>2. /\ Nth(0, 1 + q) \in Good
        /\ Place(Nth(0, 1 + q)) = Place(0) + ((1 + q) - 1)
    BY <1>5, <2>1, NthPlace
  <2> QED BY <1>1, <1>3, <2>2
<1>7. Stream(Place(Nth(0, 1 + q)) * Units + u) = flash[Nth(0, 1 + q)][u]
  BY <1>3, <1>6, StreamOfBlock
<1> QED BY <1>3, <1>6, <1>7

\* A reader at block b reads on where the blocks before b end.
LEMMA UnitFromPlace ==
    ASSUME NEW b \in 0 .. NBlocks, NEW u \in Nat \ {0},
           Place(b) * Units + u <= Total * Units
    PROVE  UnitFrom(b, u) = Stream(Place(b) * Units + u)
<1> DEFINE q == (u - 1) \div Units
           v == 1 + ((u - 1) % Units)
           p == Place(b)
<1>1. /\ p \in Nat /\ Total \in Nat /\ Units \in Nat /\ Units > 0
  <2>1. b \in Int
    BY SizesAssumption
  <2> QED BY <2>1, PlaceType, SizesAssumption
<1>2. q \in Nat /\ v \in 1 .. Units /\ u = q * Units + v
  BY Split
<1>3. UnitFrom(b, u) = flash[Nth(b, 1 + q)][v]
  BY DEF UnitFrom
<1>4. p * Units + u <= Total * Units
  OBVIOUS
<1> HIDE DEF q, v
<1>5. p + (1 + q) <= Total
  <2> HIDE DEF p
  <2>1. p * Units + (q * Units + v) <= Total * Units
    BY <1>2, <1>4
  <2>2. (p + q) * Units + v <= Total * Units
    BY <1>1, <1>2, <2>1
  <2>3. p + q < Total
    BY <1>1, <1>2, <2>2
  <2> QED BY <1>1, <1>2, <2>3
<1>6. Nth(b, 1 + q) \in Good /\ Place(Nth(b, 1 + q)) = p + q
  <2>1. 1 + q \in Nat \ {0} /\ Place(b) + (1 + q) <= Total
    BY <1>1, <1>2, <1>5
  <2>2. /\ Nth(b, 1 + q) \in Good
        /\ Place(Nth(b, 1 + q)) = Place(b) + ((1 + q) - 1)
    BY <2>1, NthPlace
  <2> QED BY <1>1, <1>2, <2>2
<1>7. Stream((p + q) * Units + v) = flash[Nth(b, 1 + q)][v]
  BY <1>2, <1>6, StreamOfBlock
<1>8. (p + q) * Units + v = p * Units + u
  <2> HIDE DEF p
  <2> QED BY <1>1, <1>2
<1> QED BY <1>3, <1>7, <1>8
LEMMA StreamType ==
    ASSUME flash \in [Blocks -> [1 .. Units -> Int]], NEW x \in 1 .. Total * Units
    PROVE  Stream(x) \in Int
<1>1. PICK c \in Good, u \in 1 .. Units : Stream(x) = flash[c][u]
  BY StreamStands
<1>2. c \in Blocks
  BY DEF Good
<1>3. flash[c] \in [1 .. Units -> Int]
  BY <1>2
<1> QED BY <1>1, <1>3

LEMMA GoodLeft ==
    ASSUME NEW b \in 0 .. NBlocks
    PROVE  /\ Cardinality(GoodFrom(b)) = Total - Place(b)
           /\ Place(b) \in Nat /\ Total \in Nat /\ Place(b) <= Total
<1>1. Good \in SUBSET Blocks /\ b \in Int /\ NBlocks \in Int /\ b <= NBlocks
  BY SizesAssumption DEF Good
<1>2. GoodFrom(b) = {x \in Good : x >= b} /\ GoodFrom(b) \in SUBSET Blocks
  BY DEF GoodFrom, Good
<1>3. Cardinality(GoodFrom(b)) = Below(GoodFrom(b), NBlocks)
  BY <1>2, BelowEnd
<1>4. Below(Good, NBlocks) = Below(Good, b) + Below({x \in Good : x >= b}, NBlocks)
  BY <1>1, BelowFrom
<1>5. Below(GoodFrom(b), NBlocks) \in Nat
  BY <1>1, <1>2, BelowType
<1>6. Place(b) \in Nat /\ Total \in Nat /\ Place(NBlocks) = Total
  BY <1>1, PlaceType
<1>7. Total = Place(b) + Cardinality(GoodFrom(b))
  BY <1>2, <1>3, <1>4, <1>6 DEF Place
<1> QED BY <1>3, <1>5, <1>6, <1>7

\* How many blocks a reader fetches for m units.
Fetched(m) == IF m <= 0 THEN 0 ELSE (m + Units - 1) \div Units

LEMMA FetchedIs ==
    ASSUME NEW m \in Int
    PROVE  /\ Fetched(m) \in Nat
           /\ m <= Fetched(m) * Units
           /\ m > 0 => Fetched(m) > 0 /\ Fetched(m) * Units < m + Units
           /\ m <= 0 => Fetched(m) = 0
           /\ \A d \in Nat : Fetched(m) <= d <=> m <= d * Units
<1> DEFINE k == Fetched(m)
<1>1. Units \in Nat /\ Units > 0
  BY SizesAssumption
<1>2. CASE m <= 0
  <2>1. k = 0
    BY <1>2 DEF Fetched
  <2>2. \A d \in Nat : d * Units \in Nat
    BY <1>1
  <2> HIDE DEF k
  <2>3. \A d \in Nat : k <= d /\ m <= d * Units
    BY <1>2, <2>1, <2>2
  <2>4. k * Units = 0
    BY <1>1, <2>1
  <2> QED BY <1>2, <2>1, <2>3, <2>4 DEF k
<1>3. CASE m > 0
  <2>1. m + (Units - 1) \in Nat /\ k = (m + (Units - 1)) \div Units
    BY <1>1, <1>3 DEF Fetched
  <2>2. k \in Nat
    BY <1>1, <2>1
  <2>3. m <= k * Units /\ k * Units < m + Units
    BY <1>1, <2>1
  <2> HIDE DEF k
  <2>4. k > 0
    BY <1>1, <1>3, <2>2, <2>3
  <2>5. ASSUME NEW d \in Nat PROVE k <= d <=> m <= d * Units
    <3>1. ASSUME k <= d PROVE m <= d * Units
      <4>1. k * Units <= d * Units
        BY <1>1, <2>2, <3>1
      <4>2. k * Units \in Nat /\ d * Units \in Nat
        BY <1>1, <2>2
      <4> QED BY <2>3, <4>1, <4>2
    <3>2. ASSUME d < k PROVE d * Units < m
      <4>1. d * Units + Units <= k * Units
        BY <1>1, <2>2, <3>2
      <4>2. k * Units \in Nat /\ d * Units \in Nat
        BY <1>1, <2>2
      <4> QED BY <1>1, <2>3, <4>1, <4>2
    <3>3. d * Units \in Nat
      BY <1>1
    <3> QED BY <2>2, <3>1, <3>2, <3>3
  <2> QED BY <1>3, <2>2, <2>3, <2>4, <2>5 DEF k
<1> QED BY <1>2, <1>3

\* What a reader at block b with l units in its buffer has before it: the unit
\* at index i of the buffer and the blocks from b on.
At(b, s, i) == IF i <= Len(s) THEN s[i] ELSE Stream(Place(b) * Units + (i - Len(s)))

LEMMA ReadingStops ==
    ASSUME NEW b \in 0 .. NBlocks, NEW s \in Seq(Int), NEW n \in Nat,
           n > Len(s) + (Total - Place(b)) * Units
    PROVE  Reading(b, s, n) = [ok |-> FALSE, units |-> <<>>, fd |-> NBlocks, buf |-> <<>>]
<1> DEFINE d == Total - Place(b)
<1>1. Cardinality(GoodFrom(b)) = d /\ d \in Nat
  BY GoodLeft
<1> HIDE DEF d
<1>2. d * Units \in Nat /\ Len(s) \in Nat
  BY <1>1, SizesAssumption
<1>3. n - Len(s) > d * Units /\ n - Len(s) \in Int
  BY <1>2 DEF d
<1>4. Fetched(n - Len(s)) > d
  BY <1>1, <1>2, <1>3, FetchedIs
<1> QED BY <1>1, <1>4, Zenon DEF Reading, Fetched
\* A read that has enough before it: what it returns, what stays in the buffer
\* and where the file offset comes to stand.
LEMMA ReadingGoesOn ==
    ASSUME NEW b \in 0 .. NBlocks, NEW s \in Seq(Int), NEW n \in Nat,
           flash \in [Blocks -> [1 .. Units -> Int]],
           n <= Len(s) + (Total - Place(b)) * Units
    PROVE  LET r == Reading(b, s, n)
           IN  /\ r.ok
               /\ r.units \in Seq(Int) /\ Len(r.units) = n
               /\ \A i \in 1 .. n : r.units[i] = At(b, s, i)
               /\ r.buf \in Seq(Int) /\ (Len(s) < Units => Len(r.buf) < Units)
               /\ \A i \in 1 .. Len(r.buf) : r.buf[i] = At(b, s, n + i)
               /\ r.fd \in 0 .. NBlocks
               /\ Place(r.fd) * Units + Len(s) = Place(b) * Units + n + Len(r.buf)
<1> DEFINE d == Total - Place(b)
           m == n - Len(s)
           k == Fetched(m)
           N == k * Units
           p == Place(b)
           t == [u \in 1 .. N |-> UnitFrom(b, u)]
           all == s \o t
           r == Reading(b, s, n)
<1>1. /\ Cardinality(GoodFrom(b)) = d /\ d \in Nat
      /\ p \in Nat /\ Total \in Nat /\ p + d = Total
      /\ Units \in Nat /\ Units > 0 /\ Len(s) \in Nat /\ m \in Int
  BY GoodLeft, SizesAssumption
<1>2. n <= Len(s) + d * Units
  OBVIOUS
<1> HIDE DEF d, p
<1>3. m <= d * Units
  <2>1. d * Units \in Nat
    BY <1>1
  <2> QED BY <1>1, <1>2, <2>1
<1> HIDE DEF m
<1>4. /\ k \in Nat /\ m <= N /\ k <= d
      /\ m > 0 => k > 0 /\ N < m + Units
      /\ m <= 0 => k = 0
  BY <1>1, <1>3, FetchedIs
<1> HIDE DEF k
<1>5. N \in Nat /\ (k = 0 => N = 0)
  BY <1>1, <1>4
<1>6. ASSUME NEW u \in 1 .. N
      PROVE  /\ UnitFrom(b, u) = Stream(p * Units + u)
             /\ UnitFrom(b, u) \in Int
  <2>1. p * Units + u <= Total * Units /\ p * Units + u >= 1
    <3>1. N <= d * Units
      BY <1>1, <1>4
    <3>2. Total * Units = p * Units + d * Units
      BY <1>1
    <3>3. p * Units \in Nat /\ d * Units \in Nat
      BY <1>1
    <3> HIDE DEF N
    <3> QED BY <1>5, <3>1, <3>2, <3>3
  <2>2. p * Units \in Nat /\ Total * Units \in Nat /\ u \in Nat \ {0}
    <3>1. p * Units \in Nat /\ Total * Units \in Nat
      BY <1>1
    <3> HIDE DEF N
    <3> QED BY <1>5, <3>1
  <2>3. UnitFrom(b, u) = Stream(p * Units + u)
    BY <2>1, <2>2, UnitFromPlace DEF p
  <2>4. p * Units + u \in 1 .. Total * Units
    BY <2>1, <2>2
  <2> QED BY <2>3, <2>4, StreamType
<1> HIDE DEF N
<1>7. t \in Seq(Int) /\ Len(t) = N /\ \A u \in 1 .. N : t[u] = Stream(p * Units + u)
  BY <1>5, <1>6
<1> HIDE DEF t
<1>8. /\ all \in Seq(Int) /\ Len(all) = Len(s) + N
      /\ \A i \in 1 .. Len(all) : all[i] = IF i <= Len(s) THEN s[i] ELSE t[i - Len(s)]
  BY ZenonT(60), <1>7, ConcatProperties
<1> HIDE DEF all
<1>9. n <= Len(all)
  <2>1. m = n - Len(s)
    BY DEF m
  <2> QED BY <1>1, <1>4, <1>5, <1>8, <2>1
<1>10. r = [ok |-> TRUE, units |-> First(all, n), buf |-> Rest(all, n),
            fd |-> IF k = 0 THEN b ELSE Nth(b, k) + 1]
  <2>1. ~(k > Cardinality(GoodFrom(b)))
    BY <1>1, <1>4
  <2>2. k = IF n - Len(s) <= 0 THEN 0 ELSE (n - Len(s) + Units - 1) \div Units
    BY Zenon DEF k, m, Fetched
  <2>3. all = s \o [u \in 1 .. k * Units |-> UnitFrom(b, u)]
    BY DEF all, t, N
  <2> QED BY <2>1, <2>2, <2>3, Zenon DEF Reading
<1> HIDE DEF r
<1>11. /\ First(all, n) \in Seq(Int) /\ Len(First(all, n)) = n
       /\ \A i \in 1 .. n : First(all, n)[i] = all[i]
       /\ Rest(all, n) \in Seq(Int) /\ Len(Rest(all, n)) = Len(all) - n
       /\ \A i \in 1 .. Len(all) - n : Rest(all, n)[i] = all[n + i]
  <2>1. n + 1 \in 1 .. Len(all) + 1 /\ Len(all) \in Nat /\ n \in 0 .. Len(all)
    BY <1>8, <1>9
  <2> QED BY <1>8, <2>1, SubSeqProperties DEF First, Rest
<1>12. \A i \in 1 .. Len(all) : all[i] = At(b, s, i)
  <2> SUFFICES ASSUME NEW i \in 1 .. Len(all) PROVE all[i] = At(b, s, i)
    OBVIOUS
  <2>1. CASE i <= Len(s)
    BY <1>8, <2>1 DEF At
  <2>2. CASE i > Len(s)
    <3>1. i - Len(s) \in 1 .. N /\ all[i] = t[i - Len(s)]
      BY <1>5, <1>8, <2>2
    <3>2. At(b, s, i) = Stream(p * Units + (i - Len(s)))
      BY <1>1, <2>2 DEF At, p
    <3> QED BY <1>7, <3>1, <3>2
  <2> QED BY <1>1, <1>8, <2>1, <2>2
<1>13. r.fd \in 0 .. NBlocks /\ Place(r.fd) = p + k
  <2>1. CASE k = 0
    BY <1>1, <1>10, <2>1 DEF p
  <2>2. CASE k # 0
    <3> DEFINE c == Nth(b, k)
    <3>1. Place(b) + k <= Total /\ k \in Nat \ {0}
      BY <1>1, <1>4, <2>2 DEF p
    <3>2. c \in Good /\ Place(c) = p + (k - 1)
      BY <3>1, NthPlace DEF p
    <3>3. r.fd = c + 1
      BY <1>10, <2>2
    <3> HIDE DEF c
    <3>4. Place(c + 1) = Place(c) + 1 /\ c \in Nat /\ c < NBlocks
      BY <3>2, PlaceOfBlock, BlocksInt DEF Good
    <3> QED BY <1>1, <1>4, <3>2, <3>3, <3>4, SizesAssumption
  <2> QED BY <2>1, <2>2
<1>14. Place(r.fd) * Units = p * Units + N /\ p * Units \in Nat
  BY <1>1, <1>4, <1>13 DEF N
<1>15. Len(s) < Units => Len(Rest(all, n)) < Units
  <2>1. m = n - Len(s)
    BY DEF m
  <2>2. Len(Rest(all, n)) = N - m
    BY <1>1, <1>5, <1>8, <1>11, <2>1
  <2>3. m > 0 \/ (N = 0 /\ m <= 0)
    BY <1>1, <1>4, <1>5
  <2> QED BY <1>1, <1>4, <1>5, <2>1, <2>2, <2>3
<1>16. r.ok /\ r.units = First(all, n) /\ r.buf = Rest(all, n)
  BY <1>10
<1>17. /\ r.units \in Seq(Int) /\ Len(r.units) = n
       /\ \A i \in 1 .. n : r.units[i] = At(b, s, i)
  <2>1. \A i \in 1 .. n : i \in 1 .. Len(all)
    BY <1>8, <1>9
  <2> QED BY <1>11, <1>12, <1>16, <2>1
<1>18. /\ r.buf \in Seq(Int) /\ Len(r.buf) = Len(all) - n
       /\ \A i \in 1 .. Len(r.buf) : r.buf[i] = At(b, s, n + i)
  <2>1. \A i \in 1 .. Len(all) - n : n + i \in 1 .. Len(all)
    BY <1>8, <1>9
  <2> QED BY <1>11, <1>12, <1>16, <2>1
<1>19. Place(r.fd) * Units + Len(s) = p * Units + n + Len(r.buf)
  BY <1>1, <1>5, <1>8, <1>9, <1>14, <1>18
<1> QED
  BY <1>13, <1>15, <1>16, <1>17, <1>18, <1>19 DEF p, r
LEMMA FromStart ==
    ASSUME flash \in [Blocks -> [1 .. Units -> Int]], NEW n \in Nat
    PROVE  LET r == ReadFromStart(n)
           IN  IF n <= Total * Units
               THEN /\ r.ok /\ r.units \in Seq(Int) /\ Len(r.units) = n
                    /\ \A i \in 1 .. n : r.units[i] = Stream(i)
               ELSE ~r.ok /\ r.units = <<>>
<1>1. /\ 0 \in 0 .. NBlocks /\ <<>> \in Seq(Int) /\ Len(<<>>) = 0
      /\ Place(0) = 0 /\ Total \in Nat /\ Total - Place(0) = Total
      /\ Place(0) * Units = 0 /\ Total * Units \in Nat
  BY PlaceType, SizesAssumption
<1>2. CASE n <= Total * Units
  <2> DEFINE r == Reading(0, <<>>, n)
  <2>1. n <= Len(<<>>) + (Total - Place(0)) * Units
    BY <1>1, <1>2
  <2>2. /\ r.ok /\ r.units \in Seq(Int) /\ Len(r.units) = n
        /\ \A i \in 1 .. n : r.units[i] = At(0, <<>>, i)
    BY <1>1, <2>1, ReadingGoesOn
  <2>3. \A i \in 1 .. n : At(0, <<>>, i) = Stream(i)
    BY <1>1 DEF At
  <2> QED BY <1>2, <2>2, <2>3 DEF ReadFromStart
<1>3. CASE n > Total * Units
  <2>1. n > Len(<<>>) + (Total - Place(0)) * Units
    BY <1>1, <1>3
  <2>2. ReadFromStart(n) = [ok |-> FALSE, units |-> <<>>, fd |-> NBlocks, buf |-> <<>>]
    BY <1>1, <2>1, ReadingStops DEF ReadFromStart
  <2> QED BY <1>1, <1>3, <2>2
<1> QED BY <1>1, <1>2, <1>3
-----------------------------------------------------------------------------
(* The programs: what each variable holds, and which of their steps goes   *)
(* with which state of the block writer.                                   *)

ProgTyped ==
    /\ users \in {o \cap Programs : o \in Owners}
    /\ prog \in users \cup {"none"}
    /\ pc \in {"off", "compare", "open", "erase_first", "write", "close",
              "end_first", "reopen", "rewrite", "end"}
    /\ image \in Seq(Int) /\ misc \in Seq(Int)
    /\ off \in Nat /\ off <= Len(Source)
    /\ result \in {"none", "ok", "fail", "skipped", "unreadable"}
    /\ rfd \in 0 .. NBlocks /\ rbuf \in Seq(Int) /\ Len(rbuf) < Units
    /\ got \in Seq(Int) /\ Len(got) <= Len(image)
    /\ want \in [Fields -> Int] /\ hurt \in BOOLEAN /\ lost \in BOOLEAN
    /\ runs \in 0 .. MaxRuns

\* What the program in work, or the last one, was given.
Equipped ==
    /\ prog = "none" => pc = "off" /\ result = "none"
    /\ prog \in MiscPrograms => Len(misc) = Pages /\ Len(image) = 1 /\ off \in {0, Pages}
    /\ prog \notin MiscPrograms \cup {"none"} => image \in Images
    /\ prog = "write_to_partition" => off \in {0, Len(image)}
    /\ got # <<>> => prog \notin MiscPrograms \cup {"none"}

Control ==
    /\ pc \in {"off", "compare", "open", "reopen"} => phase = "closed" /\ call = "none"
    /\ pc = "erase_first" =>
         phase = "idle" /\ call = "none" /\ prog = "mtd_write" /\ off = 0
    /\ pc \in {"write", "rewrite"} =>
         /\ phase # "closed"
         /\ \/ call \in {"none", "write"}
            \/ call = "erase" /\ pc = "write" /\ prog = "mtd_write" /\ off = 0
    /\ pc = "close" => /\ phase # "closed" /\ call \in {"none", "erase"}
                       /\ prog \in {"write_raw_image", "write_to_partition"}
    /\ pc \in {"end", "end_first"} =>
         \/ phase = "closed" /\ call = "none"
         \/ phase # "closed" /\ call = "close"
    /\ phase \in Writing => call # "none"
    /\ phase = "wipe" => call = "erase"
    /\ call # "write" => data = <<>>
    /\ pc \in {"compare", "reopen", "rewrite", "end_first"} => prog = "flash_image"
    /\ pc \in {"close", "end"} => result \in {"none", "fail"}
    /\ pc \notin {"off", "close", "end"} => result = "none"
    /\ pc \in {"close", "end"} /\ result = "fail" => ret = "fail"
    /\ pc \in {"compare", "open"} => off = 0
    /\ pc = "end_first" => off = Len(Source)
    /\ pc \in {"close", "end"} /\ ret = "ok" /\ prog # "flash_image" => off = Len(Source)
    /\ pc = "rewrite" => off <= Units
    /\ pc = "end" /\ prog = "flash_image" => off = Units
    /\ prog = "flash_image" /\ call # "none" => ret = "ok"

ProgInv == ProgTyped /\ Equipped /\ Control

\* The programs of a partition are of one kind.
LEMMA OneOwner ==
    ASSUME ProgTyped
    PROVE  /\ users \subseteq ProgramKinds
           /\ \A p \in users : p \in MiscPrograms => users \subseteq MiscPrograms
           /\ "flash_image" \in users => users = {"flash_image"}
           /\ "none" \notin users
<1>1. PICK o \in Owners : users = o \cap Programs
  BY DEF ProgTyped
<1>2. CASE o = MiscPrograms
  BY <1>1, <1>2 DEF MiscPrograms, ProgramKinds
<1>3. CASE o = {"flash_image"}
  BY <1>1, <1>3 DEF MiscPrograms, ProgramKinds
<1>4. CASE o = ProgramKinds \ (MiscPrograms \cup {"flash_image"})
  BY <1>1, <1>4 DEF MiscPrograms, ProgramKinds
<1> QED BY <1>1, <1>2, <1>3, <1>4 DEF Owners

\* A step of the block writer, as its caller sees it.
LEMMA StepSeen ==
    ASSUME MtdTypeOK, Control, MtdStep
    PROVE  /\ call # "none" /\ call' \in {call, "none"}
           /\ call # "close" => phase' # "closed"
           /\ call = "close" => \/ phase' = "closed" /\ call' = "none"
                                \/ phase' # "closed" /\ call' = "close"
           /\ phase' \in Writing => call' # "none"
           /\ phase' = "wipe" => call' = "erase"
           /\ call' # "write" => data' = <<>>
           /\ ret' = ret \/ (ret' = "fail" /\ call' = "none")
<1>1. CASE Coalesce \/ WriteDirectly \/ WriteReturns
  BY <1>1 DEF Coalesce, WriteDirectly, WriteReturns, StartBlock, Writing, cursors, buffers,
              Return, Control
<1>2. CASE Pad \/ EraseRest \/ Close
  BY <1>2 DEF Pad, EraseRest, Close, StartBlock, Writing, cursors, buffers,
              Return, Control
<1>3. CASE CheckBad \/ OutOfSpace \/ Erase \/ Program
  BY <1>3 DEF CheckBad, OutOfSpace, Erase, Program, Again, LeaveBlock, Writing, cursors,
              buffers, Return, Control
<1>4. CASE Verify \/ GiveUp \/ Wipe
  BY <1>4 DEF Verify, GiveUp, Wipe, Again, LeaveBlock, Writing, cursors, buffers,
              Return, Control
<1> QED BY <1>1, <1>2, <1>3, <1>4 DEF MtdStep

LEMMA WorkProg == ASSUME MtdTypeOK, ProgInv, Work PROVE ProgInv' /\ MtdNext
<1>1. UNCHANGED progVars /\ MtdStep
  BY DEF Work
<1>2. ProgTyped' /\ Equipped'
  BY <1>1 DEF ProgInv, ProgTyped, Equipped, progVars, Source
<1>3. Control'
  BY <1>1, StepSeen DEF ProgInv, Control, progVars, Source
<1> QED BY <1>1, <1>2, <1>3 DEF ProgInv, MtdNext
\* A start of a program, which reads the partition first or not at all.
LEMMA StartProg ==
    ASSUME ProgInv, NEW p \in Programs, NEW i \in Images, Start(p, i)
    PROVE  ProgInv' /\ UNCHANGED mtdVars
<1>1. /\ p \in users /\ p \notin MiscPrograms /\ p # "none" /\ p \in ProgramKinds
      /\ i \in Seq(Int) /\ Len(i) > 0 /\ UNCHANGED mtdVars
  BY OneOwner, ImagesAssumption DEF Start, ProgInv
<1>2. runs' \in 0 .. MaxRuns
  BY MaxRunsAssumption DEF Start, ProgInv, ProgTyped
<1>3. ProgTyped'
  BY <1>1, <1>2, SizesAssumption DEF Start, ProgInv, ProgTyped, Goto, Source
<1>4. Equipped'
  BY <1>1 DEF Start, ProgInv, Equipped
<1>5. Control'
  BY <1>1 DEF Start, ProgInv, Control, Goto, mtdVars, Writing
<1> QED BY <1>1, <1>3, <1>4, <1>5 DEF ProgInv

LEMMA GivenType == ASSUME ProgTyped, Equipped PROVE Given \in [Fields -> Int]
<1>1. CASE prog \in MiscPrograms
  <2>1. image \in Seq(Int) /\ Len(image) = 1
    BY <1>1 DEF ProgTyped, Equipped
  <2>2. image[1] \in Int
    BY <2>1
  <2> QED BY <1>1, <2>2 DEF Given, ProgTyped
<1>2. CASE prog \notin MiscPrograms
  BY <1>2 DEF Given, ProgTyped
<1> QED BY <1>1, <1>2

LEMMA StartMiscProg ==
    ASSUME MtdTypeOK, ProgInv, NEW p \in Programs, NEW v \in MiscValues, StartMisc(p, v)
    PROVE  ProgInv' /\ UNCHANGED mtdVars
<1> DEFINE r == ReadFromStart(Pages)
<1>1. /\ p \in users /\ p \in MiscPrograms /\ p \in ProgramKinds /\ p # "none"
      /\ users \subseteq MiscPrograms /\ v \in Int /\ UNCHANGED mtdVars
  BY OneOwner, MiscValuesAssumption DEF StartMisc, ProgInv, MiscPrograms, ProgramKinds
<1>2. r.ok
  BY DEF StartMisc
<1>3. flash \in [Blocks -> [1 .. Units -> Int]] /\ Pages \in Nat
  BY DEF MtdTypeOK, Pages
<1>4. r.units \in Seq(Int) /\ Len(r.units) = 2
  BY <1>2, <1>3, FromStart DEF Pages
<1>5. misc' = [r.units EXCEPT ![UnitOf[FieldOf[p]]] = v]
  BY DEF StartMisc
<1> HIDE DEF r
<1>6. misc' \in Seq(Int) /\ Len(misc') = 2
  BY <1>1, <1>4, <1>5 DEF UnitOf, FieldOf, MiscPrograms
<1>7. want' \in [Fields -> Int]
  <2>1. Given \in [Fields -> Int]
    BY GivenType DEF ProgInv
  <2>2. want' = [f \in Fields |-> IF r.units[UnitOf[f]] = Given[f] THEN Given[f] ELSE want[f]]
    BY DEF StartMisc, r
  <2> QED BY <2>1, <2>2 DEF ProgInv, ProgTyped
<1>8. runs' \in 0 .. MaxRuns
  BY MaxRunsAssumption DEF StartMisc, ProgInv, ProgTyped
<1>9. got = <<>>
  BY <1>1 DEF ProgInv, ProgTyped, Equipped
<1>10. image' = <<v>> /\ image' \in Seq(Int) /\ Len(image') = 1
  BY <1>1 DEF StartMisc
<1>11. ProgTyped'
  BY SMTT(30), <1>1, <1>6, <1>7, <1>8, <1>9, <1>10
  DEF StartMisc, ProgInv, ProgTyped, Goto, Source, reader, Pages
<1>12. Equipped'
  BY <1>1, <1>6, <1>9, <1>10 DEF StartMisc, ProgInv, Equipped, Goto, reader, Pages, MiscPrograms
<1>13. Control'
  BY <1>1 DEF StartMisc, ProgInv, Control, Goto, mtdVars, Writing, MiscPrograms
<1> QED BY <1>1, <1>11, <1>12, <1>13 DEF ProgInv

\* The steps between two calls of the interface.
LEMMA CompareProg == ASSUME ProgInv, Compare PROVE ProgInv' /\ UNCHANGED mtdVars
<1>1. UNCHANGED mtdVars
  BY DEF Compare
<1>2. pc = "compare" /\ pc' \in {"off", "open"} /\ result' \in {result, "skipped"}
      /\ (pc' = "open" => result' = result)
      /\ UNCHANGED <<users, prog, image, off, reader, miscVars, runs>>
  BY Zenon DEF Compare, Goto
<1>3. ProgTyped' /\ Equipped'
  BY <1>2 DEF ProgInv, ProgTyped, Equipped, Control, Source, reader, miscVars
<1>4. Control'
  BY <1>1, <1>2 DEF ProgInv, Control, mtdVars, Writing, Source, miscVars
<1> QED BY <1>1, <1>3, <1>4 DEF ProgInv

LEMMA OpenProg == ASSUME ProgInv, Open \/ Reopen PROVE ProgInv' /\ OpenWrite
<1>1. OpenWrite
  BY DEF Open, Reopen
<1>2. /\ pc' \in {"erase_first", "write", "rewrite"} /\ off' \in {0, off}
      /\ UNCHANGED <<users, prog, image, result, reader, miscVars, runs>> /\ prog # "none"
  BY DEF Open, Reopen, Goto, ProgInv, Equipped
<1>3. Source' = Source /\ Len(Source) \in Nat
  BY <1>2 DEF ProgInv, ProgTyped, Source, miscVars
<1>4. off' \in Nat /\ off' <= Len(Source')
  BY <1>2, <1>3 DEF ProgInv, ProgTyped
<1>5. ProgTyped'
  BY <1>2, <1>4 DEF ProgInv, ProgTyped, reader, miscVars
<1>6. Equipped'
  BY <1>2 DEF ProgInv, Equipped, reader, miscVars
<1>7. Control'
  BY <1>1, SizesAssumption
  DEF ProgInv, Control, Open, Reopen, OpenWrite, Goto, Writing, Source, miscVars
<1> QED BY <1>1, <1>5, <1>6, <1>7 DEF ProgInv

LEMMA EraseProg ==
    ASSUME ProgInv, EraseFirst \/ (Written /\ CallErase) \/ (WriteFailed /\ CallErase)
    PROVE  ProgInv'
<1>1. ProgTyped' /\ Equipped'
  BY ZenonT(60) DEF ProgInv, ProgTyped, Equipped, Control, EraseFirst, Written, WriteFailed,
         CallErase, CallClose, Abandon, Goto, Source, reader, miscVars
<1>2. Control'
  BY DEF ProgInv, ProgTyped, Control, EraseFirst, Written, WriteFailed,
         CallErase, CallClose, Abandon, Ready, Goto, Source, reader, miscVars, Writing,
         buffers
<1> QED BY <1>1, <1>2 DEF ProgInv
\* What a program hands to the writer is a sequence of units of its source.
LEMMA ChunkType ==
    ASSUME ProgInv, WriteChunk
    PROVE  \E n \in Chunks :
             /\ n \in Nat \ {0} /\ off + n <= Len(Source) /\ off' = off + n
             /\ Chunk(n) \in Seq(Int) /\ Len(Chunk(n)) = n
             /\ CallWrite(Chunk(n))
<1>1. PICK n \in Chunks : CallWrite(Chunk(n)) /\ off' = off + n
  BY DEF WriteChunk
<1>2. Source \in Seq(Int) /\ off \in Nat /\ off < Len(Source) /\ Len(image) \in Nat
  BY DEF WriteChunk, ProgInv, ProgTyped, Source
<1>3. n \in Nat \ {0} /\ off + n <= Len(Source)
  <2>1. CASE prog \in MiscPrograms
    <3>1. n = Pages /\ Source = misc
      BY <2>1 DEF Chunks, Source, MiscPrograms
    <3>2. Len(misc) = Pages /\ off \in {0, Pages}
      BY <2>1 DEF ProgInv, Equipped
    <3> QED BY <1>2, <3>1, <3>2 DEF Pages
  <2>2. CASE prog = "write_to_partition"
    BY <1>2, <2>2 DEF Chunks, Source, ProgInv, Equipped, MiscPrograms
  <2>3. CASE prog = "write_raw_image"
    <3>1. n \in 1 .. Lowest(Units, Len(image) - off) /\ Source = image
      BY <2>3 DEF Chunks, Source, MiscPrograms
    <3> QED BY <1>2, <3>1, SizesAssumption DEF Lowest
  <2>4. CASE prog \notin MiscPrograms \cup {"write_to_partition", "write_raw_image"}
    BY <1>2, <2>4 DEF Chunks
  <2> QED BY <2>1, <2>2, <2>3, <2>4
<1>4. [j \in 1 .. n |-> Zero] \in Seq(Int) /\ Len([j \in 1 .. n |-> Zero]) = n
  BY <1>3, PaddingType
<1>5. SubSeq(Source, off + 1, off + n) \in Seq(Int) /\ Len(SubSeq(Source, off + 1, off + n)) = n
  BY <1>2, <1>3, SubSeqProperties
<1>6. Chunk(n) \in Seq(Int) /\ Len(Chunk(n)) = n
  BY <1>4, <1>5 DEF Chunk
<1> QED BY <1>1, <1>3, <1>6

LEMMA WriteProg ==
    ASSUME ProgInv, WriteChunk
    PROVE  ProgInv' /\ \E d \in Seq(Int) : CallWrite(d)
<1>1. PICK n \in Chunks :
             /\ n \in Nat \ {0} /\ off + n <= Len(Source) /\ off' = off + n
             /\ Chunk(n) \in Seq(Int) /\ Len(Chunk(n)) = n
             /\ CallWrite(Chunk(n))
  BY ChunkType
<1>2. /\ pc \in {"write", "rewrite"} /\ Ready /\ ret = "ok" /\ off < Limit
      /\ UNCHANGED <<users, prog, pc, image, result, reader, miscVars, runs>>
  BY DEF WriteChunk
<1>3. Source' = Source /\ off \in Nat /\ Len(Source) \in Nat
  BY <1>2 DEF ProgInv, ProgTyped, Source, miscVars
<1>4. ProgTyped'
  BY <1>1, <1>2, <1>3 DEF ProgInv, ProgTyped, reader, miscVars
<1>5. Equipped'
  <2>1. prog \in MiscPrograms => off' \in {0, Pages}
    <3> SUFFICES ASSUME prog \in MiscPrograms PROVE off' \in {0, Pages}
      OBVIOUS
    <3>1. n = Pages /\ Source = misc
      BY DEF Chunks, Source, MiscPrograms
    <3>2. Len(misc) = Pages /\ off \in {0, Pages}
      BY DEF ProgInv, Equipped
    <3> QED BY <1>1, <1>3, <3>1, <3>2 DEF Pages
  <2>2. prog = "write_to_partition" => off' \in {0, Len(image)}
    BY <1>1, <1>3 DEF ProgInv, Equipped, Chunks, Source, MiscPrograms
  <2> QED BY <1>2, <2>1, <2>2 DEF ProgInv, Equipped, reader, miscVars
<1>6. Control'
  <2>1. pc = "rewrite" => n = 1 /\ off < Units
    BY <1>2 DEF ProgInv, Control, Chunks, Limit, MiscPrograms
  <2>2. pc = "rewrite" => off' <= Units
    BY <1>1, <1>3, <2>1, SizesAssumption
  <2>3. call' = "write" /\ phase' = phase /\ ret' = ret /\ phase = "idle" /\ pc' = pc /\ prog' = prog
    BY <1>1, <1>2 DEF CallWrite, Ready
  <2> QED BY <1>2, <2>2, <2>3 DEF ProgInv, Control, Writing
<1> QED BY <1>1, <1>4, <1>5, <1>6 DEF ProgInv

LEMMA CloseProg ==
    ASSUME ProgInv, (Written /\ CallClose) \/ CloseAfterErase \/ Rewritten
                    \/ (WriteFailed /\ CallClose)
    PROVE  ProgInv'
<1>1. /\ pc' \in {"end", "end_first"} /\ result' \in {result, "fail"} /\ prog # "none"
      /\ UNCHANGED <<users, prog, image, off, reader, misc, want, hurt, runs>>
      /\ lost' \in {lost, lost \/ GaveUp}
  BY DEF Written, CloseAfterErase, Rewritten, WriteFailed, CallErase, CallClose, Abandon,
         Goto, miscVars, ProgInv, Equipped
<1>2. ProgTyped' /\ Equipped'
  BY <1>1 DEF ProgInv, ProgTyped, Equipped, Source, reader
<1>3. Control'
  <2>1. CASE Written /\ CallClose
    BY <2>1 DEF ProgInv, ProgTyped, Control, Written, CallErase, CallClose,
         Ready, Goto, Source, reader, miscVars, Writing, buffers
  <2>2. CASE CloseAfterErase
    BY <2>2 DEF ProgInv, ProgTyped, Control, CloseAfterErase, CallClose,
         Ready, Goto, Source, reader, miscVars, Writing, buffers
  <2>3. CASE Rewritten
    BY <2>3, SizesAssumption DEF ProgInv, ProgTyped, Control, Rewritten, CallClose,
         Ready, Goto, Source, reader, miscVars, Writing, buffers
  <2>4. CASE WriteFailed /\ CallClose
    BY <2>4 DEF ProgInv, ProgTyped, Control, WriteFailed, CallErase, CallClose, Abandon,
         Ready, Goto, Source, reader, miscVars, Writing, buffers
  <2> QED BY <2>1, <2>2, <2>3, <2>4
<1> QED BY <1>2, <1>3 DEF ProgInv

LEMMA LeaveProg ==
    ASSUME ProgInv, SourceTooShort \/ (WriteFailed /\ Abandon)
    PROVE  ProgInv'
<1>1. ProgTyped' /\ Equipped'
  BY DEF ProgInv, ProgTyped, Equipped, Control, SourceTooShort, WriteFailed, CallErase,
         CallClose, Abandon, Goto, Source, reader, miscVars
<1>2. Control'
  BY DEF ProgInv, ProgTyped, Control, SourceTooShort, WriteFailed, CallErase, CallClose,
         Abandon, Ready, Goto, Source, reader, miscVars, Writing, buffers
<1> QED BY <1>1, <1>2 DEF ProgInv

LEMMA EndProg == ASSUME ProgInv, FirstPassEnds \/ Finished PROVE ProgInv' /\ UNCHANGED mtdVars
<1>1. UNCHANGED mtdVars /\ UNCHANGED <<users, prog, image, off, reader, misc, runs>>
  BY DEF FirstPassEnds, Finished
<1>2. want' \in [Fields -> Int] /\ hurt' \in BOOLEAN /\ lost' \in BOOLEAN
  BY GivenType DEF FirstPassEnds, Finished, ProgInv, ProgTyped
<1>3. /\ pc' \in {"off", "reopen"} /\ result' \in {"none", "ok", "fail"}
      /\ prog # "none" /\ phase = "closed" /\ call = "none"
      /\ (pc' = "reopen" => pc = "end_first" /\ result' = result)
  BY DEF FirstPassEnds, Finished, Goto, ProgInv, ProgTyped, Equipped, Control
<1>4. ProgTyped' /\ Equipped'
  BY <1>1, <1>2, <1>3 DEF ProgInv, ProgTyped, Equipped, Source, reader
<1>5. Control'
  BY <1>1, <1>3 DEF ProgInv, Control, mtdVars, Writing
<1> QED BY <1>1, <1>4, <1>5 DEF ProgInv
\* A read goes on where the last one stopped; one without enough before it gives
\* nothing.
LEMMA ReadOn ==
    ASSUME MtdTypeOK, ProgTyped, NEW n \in Nat
    PROVE  LET r == Reading(rfd, rbuf, n)
           IN  /\ r.units \in Seq(Int) /\ r.buf \in Seq(Int) /\ Len(r.buf) < Units
               /\ r.fd \in 0 .. NBlocks /\ Len(r.units) \in {0, n}
<1> DEFINE r == Reading(rfd, rbuf, n)
<1>1. /\ rfd \in 0 .. NBlocks /\ rbuf \in Seq(Int) /\ Len(rbuf) < Units
      /\ flash \in [Blocks -> [1 .. Units -> Int]]
  BY DEF MtdTypeOK, ProgTyped
<1>2. CASE n <= Len(rbuf) + (Total - Place(rfd)) * Units
  <2>1. /\ r.units \in Seq(Int) /\ Len(r.units) = n /\ r.buf \in Seq(Int)
        /\ Len(r.buf) < Units /\ r.fd \in 0 .. NBlocks
    BY <1>1, <1>2, ReadingGoesOn
  <2> QED BY <2>1
<1>3. CASE n > Len(rbuf) + (Total - Place(rfd)) * Units
  <2>1. r = [ok |-> FALSE, units |-> <<>>, fd |-> NBlocks, buf |-> <<>>]
    BY <1>1, <1>3, ReadingStops
  <2> HIDE DEF r
  <2>2. /\ r.units \in Seq(Int) /\ Len(r.units) = 0 /\ r.buf \in Seq(Int)
        /\ Len(r.buf) < Units /\ r.fd \in 0 .. NBlocks
    BY <2>1, SizesAssumption
  <2> QED BY <2>2 DEF r
<1>4. (Total - Place(rfd)) * Units \in Int /\ Len(rbuf) \in Nat
  <2>1. Total - Place(rfd) \in Int
    BY <1>1, GoodLeft
  <2> DEFINE d == Total - Place(rfd)
  <2> HIDE DEF d
  <2>2. d * Units \in Int
    BY <2>1, SizesAssumption DEF d
  <2> QED BY <1>1, <2>2 DEF d
<1> QED BY <1>2, <1>3, <1>4

LEMMA ReadProg == ASSUME MtdTypeOK, ProgInv, ReadMore PROVE ProgInv' /\ UNCHANGED mtdVars
<1>1. PICK n \in 1 .. Units + 1 :
         LET r == Reading(rfd, rbuf, n)
         IN  /\ Len(got) + n <= Len(image)
             /\ got' = got \o r.units
             /\ rfd' = r.fd /\ rbuf' = r.buf
             /\ result' = IF r.ok THEN "ok" ELSE "unreadable"
  BY DEF ReadMore
<1>2. n \in Nat
  BY SizesAssumption
<1> DEFINE r == Reading(rfd, rbuf, n)
<1>3. /\ r.units \in Seq(Int) /\ r.buf \in Seq(Int) /\ Len(r.buf) < Units
      /\ r.fd \in 0 .. NBlocks /\ Len(r.units) \in {0, n}
  BY <1>2, ReadOn DEF ProgInv
<1>4. /\ UNCHANGED mtdVars /\ pc = "off" /\ prog \notin MiscPrograms /\ result = "ok"
      /\ UNCHANGED <<users, prog, pc, image, off, miscVars, runs>>
  BY DEF ReadMore
<1>5. /\ Len(got) + n <= Len(image) /\ got' = got \o r.units
      /\ rfd' = r.fd /\ rbuf' = r.buf /\ result' \in {"ok", "unreadable"}
  BY <1>1
<1> HIDE DEF r
<1>6. got' \in Seq(Int) /\ Len(got') <= Len(image)
  <2>1. got \in Seq(Int) /\ image \in Seq(Int) /\ Len(got) <= Len(image)
    BY DEF ProgInv, ProgTyped
  <2>2. got' \in Seq(Int) /\ Len(got') = Len(got) + Len(r.units)
    BY <1>3, <1>5, <2>1, FillType
  <2>3. Len(got) \in Nat /\ Len(image) \in Nat
    BY <2>1
  <2> QED BY <1>2, <1>3, <1>5, <2>1, <2>2, <2>3
<1>7. ProgTyped'
  BY <1>3, <1>4, <1>5, <1>6 DEF ProgInv, ProgTyped, Source, miscVars
<1>8. prog # "none"
  BY <1>4 DEF ProgInv, Equipped
<1>9. Equipped'
  BY <1>4, <1>8 DEF ProgInv, Equipped, miscVars
<1>10. Control'
  BY <1>4 DEF ProgInv, Control, mtdVars, Writing, Source, miscVars
<1> QED BY <1>4, <1>7, <1>9, <1>10 DEF ProgInv

LEMMA CutProg == ASSUME ProgInv, Cut PROVE ProgInv' /\ PowerCut
<1>1. /\ PowerCut /\ pc' = "off" /\ result' = "none" /\ hurt' \in BOOLEAN /\ lost' \in BOOLEAN
      /\ UNCHANGED <<users, prog, image, off, reader, misc, want, runs>>
  BY DEF Cut, Goto
<1>2. ProgTyped' /\ Equipped'
  BY <1>1 DEF ProgInv, ProgTyped, Equipped, Source, reader
<1>3. phase' = "closed" /\ call' = "none" /\ data' = <<>>
  BY <1>1 DEF PowerCut
<1>4. Control'
  BY <1>1, <1>3 DEF Control, Writing
<1> QED BY <1>1, <1>2, <1>4 DEF ProgInv

LEMMA InitProg == ASSUME Init PROVE MtdInit /\ ProgInv
<1>1. MtdInit /\ MtdTypeOK
  BY InitKeeps DEF Init, IInv, Typed
<1>2. want \in [Fields -> Int]
  <2> DEFINE r == ReadFromStart(Pages)
  <2>1. flash \in [Blocks -> [1 .. Units -> Int]] /\ Pages \in Nat
    BY <1>1 DEF MtdTypeOK, Pages
  <2>2. want = [f \in Fields |-> IF r.ok THEN r.units[UnitOf[f]] ELSE Erased]
    BY DEF Init
  <2>3. r.ok => r.units \in Seq(Int) /\ Len(r.units) = 2
    BY <2>1, FromStart DEF Pages
  <2> HIDE DEF r
  <2>4. \A f \in Fields : UnitOf[f] \in 1 .. 2
    BY DEF Fields, UnitOf
  <2>5. r.ok => \A f \in Fields : r.units[UnitOf[f]] \in Int
    BY <2>3, <2>4
  <2> QED BY <2>2, <2>5 DEF Erased
<1>3. Len(<<>>) = 0 /\ 0 <= Len(Source)
  BY DEF Init, Source, MiscPrograms
<1>4. ProgTyped
  <2>1. users \in {o \cap Programs : o \in Owners}
    BY DEF Init
  <2>2. <<>> \in Seq(Int) /\ 0 \in 0 .. NBlocks /\ 0 < Units /\ 0 \in 0 .. MaxRuns
    BY SizesAssumption, MaxRunsAssumption
  <2>3. /\ prog = "none" /\ pc = "off" /\ image = <<>> /\ off = 0 /\ result = "none"
        /\ rfd = 0 /\ rbuf = <<>> /\ got = <<>>
        /\ misc = <<>> /\ hurt = FALSE /\ lost = FALSE /\ runs = 0
    BY DEF Init
  <2>4. off \in Nat /\ off <= Len(Source)
    BY <1>3, <2>3
  <2>5. Len(rbuf) < Units /\ Len(got) <= Len(image)
    BY <1>3, <2>2, <2>3
  <2>6. prog \in users \cup {"none"} /\ hurt \in BOOLEAN /\ lost \in BOOLEAN
    BY <2>3
  <2>7. image \in Seq(Int) /\ misc \in Seq(Int) /\ rbuf \in Seq(Int) /\ got \in Seq(Int)
    BY <2>2, <2>3
  <2> QED BY <1>2, <2>1, <2>2, <2>3, <2>4, <2>5, <2>6, <2>7 DEF ProgTyped
<1>5. Equipped
  BY DEF Init, Equipped, MiscPrograms
<1>6. Control
  BY DEF Init, MtdInit, Control, Writing
<1> QED BY <1>1, <1>4, <1>5, <1>6 DEF ProgInv

\* Every step of a program is one of the writer's, or none of its business.
LEMMA NextProg ==
    ASSUME MtdTypeOK, ProgInv, [Next]_vars
    PROVE  ProgInv' /\ [MtdNext]_mtdVars
<1>1. CASE UNCHANGED vars
  BY <1>1 DEF vars, progVars, mtdVars, ProgInv, ProgTyped, Equipped, Control, Source
<1>2. CASE \E p \in Programs, i \in Images : Start(p, i)
  BY <1>2, StartProg
<1>3. CASE \E p \in Programs, v \in MiscValues : StartMisc(p, v)
  BY <1>3, StartMiscProg
<1>4. CASE Run
  <2>1. CASE Compare \/ FirstPassEnds \/ Finished
    BY <2>1, CompareProg, EndProg
  <2>2. CASE Open \/ Reopen
    BY <2>2, OpenProg DEF MtdNext
  <2>3. CASE WriteChunk
    BY <2>3, WriteProg DEF MtdNext
  <2>4. CASE EraseFirst
    <3>1. CallErase
      BY <2>4 DEF EraseFirst
    <3> QED BY <2>4, <3>1, EraseProg DEF MtdNext
  <2>5. CASE Written
    <3>1. CallErase \/ CallClose
      BY <2>5 DEF Written
    <3> QED BY <2>5, <3>1, EraseProg, CloseProg DEF MtdNext
  <2>6. CASE CloseAfterErase \/ Rewritten
    <3>1. CallClose
      BY <2>6 DEF CloseAfterErase, Rewritten
    <3> QED BY <2>6, <3>1, CloseProg DEF MtdNext
  <2>7. CASE SourceTooShort
    <3>1. Abandon
      BY <2>7 DEF SourceTooShort
    <3> QED BY <2>7, <3>1, LeaveProg DEF MtdNext
  <2>8. CASE WriteFailed
    <3>1. CallErase \/ CallClose \/ Abandon
      BY <2>8 DEF WriteFailed
    <3> QED BY <2>8, <3>1, EraseProg, CloseProg, LeaveProg DEF MtdNext
  <2> QED BY <1>4, <2>1, <2>2, <2>3, <2>4, <2>5, <2>6, <2>7, <2>8 DEF Run
<1>5. CASE Work
  BY <1>5, WorkProg
<1>6. CASE ReadMore
  BY <1>6, ReadProg
<1>7. CASE Cut
  BY <1>7, CutProg DEF MtdNext
<1> QED BY <1>1, <1>2, <1>3, <1>4, <1>5, <1>6, <1>7 DEF Next

BlockInv == IInv /\ ProgInv

LEMMA BlockKept ==
    /\ Init => BlockInv
    /\ BlockInv /\ [Next]_vars => BlockInv' /\ [MtdNext]_mtdVars
<1>1. ASSUME Init PROVE BlockInv
  BY <1>1, InitProg, InitKeeps DEF BlockInv
<1>2. ASSUME BlockInv, [Next]_vars PROVE BlockInv' /\ [MtdNext]_mtdVars
  <2>1. ProgInv' /\ [MtdNext]_mtdVars
    BY <1>2, NextProg DEF BlockInv, IInv, Typed
  <2> QED BY <1>2, <2>1, StepKeeps DEF BlockInv
<1> QED BY <1>1, <1>2

LEMMA TypeFollows == BlockInv => TypeOK
<1> SUFFICES ASSUME BlockInv PROVE TypeOK
  OBVIOUS
<1>1. MtdTypeOK /\ ProgTyped /\ Equipped
  BY DEF BlockInv, IInv, Typed, ProgInv
<1>2. prog \in ProgramKinds \cup {"none"}
  BY <1>1, OneOwner DEF ProgTyped
<1>3. off \in 0 .. Len(image) + Pages
  BY <1>1 DEF ProgTyped, Equipped, Source, Pages
<1> QED BY <1>1, <1>2, <1>3 DEF TypeOK, ProgTyped

\* The types of the programs, whatever images and values they are given.
THEOREM ProgramTypes == Spec => []TypeOK
BY BlockKept, TypeFollows, PTL DEF Spec

\* The programs call the writer the way its interface allows: every run of theirs
\* is a run of it (flash_image.c:81-138, install.c:341-409, bootloader.c:97-139).
THEOREM CallersComply == Spec => MtdSpec
<1>1. Init => MtdInit
  BY InitProg
<1> QED BY <1>1, BlockKept, PTL DEF Spec, MtdSpec

\* What the writer promises holds for every program that writes through it.
THEOREM ProgramsInOrder == Spec => []StreamInOrder
<1>1. BlockInv => StreamInOrder
  BY DEF BlockInv, IInv
<1> QED BY <1>1, BlockKept, PTL DEF Spec
-----------------------------------------------------------------------------
(* The stream: what the blocks written so far, the buffers and the data    *)
(* still to come make together is what the program in work means to write. *)

\* The unit at every index of what the program writes in this pass: its source,
\* in the first pass of flash_image with zeros for the header, then padding.
FirstPass == prog = "flash_image" /\ pc \in {"write", "end_first"}
Script == [x \in Nat |-> IF FirstPass /\ x <= Header THEN Zero
                         ELSE IF x \in 1 .. Len(Source) THEN Source[x] ELSE Zero]

\* s is what stands in t behind index k.
Carries(t, s, k) == \A u \in 1 .. Len(s) : s[u] = t[k + u]

InPass == pc \in {"erase_first", "write", "close", "rewrite", "end_first", "end"}
Writes == pc \in {"erase_first", "write", "rewrite"}
Base == Len(log) * Units

Logged ==
    \A j \in 1 .. Len(log) :
        /\ Place(log[j].at) = j - 1
        /\ \A u \in 1 .. Units : log[j].data[u] = Script[(j - 1) * Units + u]

\* Between two blocks.
Waiting ==
    /\ Place(fd) = Len(log)
    /\ Len(stored) < Units
    /\ Carries(Script, stored, Base)
    /\ Carries(Script, data, Base + Len(stored))
    /\ Writes => Base + Len(stored) + Len(data) = off
    /\ ~Writes /\ stored = <<>> => Base >= off
    /\ ~Writes /\ stored # <<>> => Base + Len(stored) = off

\* In write_block.
Moving ==
    /\ Place(pos) = Len(log)
    /\ stored = <<>> \/ Len(stored) = Units
    /\ \A u \in 1 .. Units : block[u] = Script[Base + u]
    /\ Carries(Script, data, Base + Units)
    /\ Writes => Base + Units + Len(data) = off
    /\ ~Writes => Base < off /\ off <= Base + Units

Streaming ==
    InPass /\ ~GaveUp /\ ret = "ok" =>
        /\ Logged
        /\ phase \in {"idle", "wipe"} => Waiting
        /\ phase \in Writing => Moving
        /\ phase = "closed" => Base >= off

LEMMA CutValues ==
    ASSUME NEW s \in Seq(Int), NEW n \in Nat, n <= Len(s)
    PROVE  /\ First(s, n) \in Seq(Int) /\ Len(First(s, n)) = n
           /\ \A i \in 1 .. n : First(s, n)[i] = s[i]
           /\ Rest(s, n) \in Seq(Int) /\ Len(Rest(s, n)) = Len(s) - n
           /\ \A i \in 1 .. Len(s) - n : Rest(s, n)[i] = s[n + i]
<1>1. n + 1 \in 1 .. Len(s) + 1 /\ Len(s) \in Nat /\ n \in 0 .. Len(s)
  OBVIOUS
<1>2. /\ SubSeq(s, 1, n) \in Seq(Int) /\ Len(SubSeq(s, 1, n)) = n
      /\ \A i \in 1 .. n : SubSeq(s, 1, n)[i] = s[i]
  BY <1>1, SubSeqProperties
<1>3. /\ SubSeq(s, n + 1, Len(s)) \in Seq(Int) /\ Len(SubSeq(s, n + 1, Len(s))) = Len(s) - n
      /\ \A i \in 1 .. Len(s) - n : SubSeq(s, n + 1, Len(s))[i] = s[n + i]
  BY <1>1, SubSeqProperties
<1> QED BY <1>2, <1>3 DEF First, Rest

LEMMA JoinValues ==
    ASSUME NEW s \in Seq(Int), NEW t \in Seq(Int)
    PROVE  /\ s \o t \in Seq(Int) /\ Len(s \o t) = Len(s) + Len(t)
           /\ Len(s) \in Nat /\ Len(t) \in Nat
           /\ \A i \in 1 .. Len(s) + Len(t) :
                 (s \o t)[i] = IF i <= Len(s) THEN s[i] ELSE t[i - Len(s)]
BY ConcatProperties

LEMMA CarriesMore ==
    ASSUME NEW t, NEW s \in Seq(Int), NEW d \in Seq(Int), NEW k \in Nat,
           NEW n \in Nat, n <= Len(d),
           Carries(t, s, k), Carries(t, d, k + Len(s))
    PROVE  /\ s \o First(d, n) \in Seq(Int) /\ Len(s \o First(d, n)) = Len(s) + n
           /\ Rest(d, n) \in Seq(Int) /\ Len(Rest(d, n)) = Len(d) - n
           /\ Carries(t, s \o First(d, n), k)
           /\ Carries(t, Rest(d, n), k + (Len(s) + n))
<1> DEFINE f == First(d, n)
           r == Rest(d, n)
<1>1. /\ f \in Seq(Int) /\ Len(f) = n /\ \A i \in 1 .. n : f[i] = d[i]
      /\ r \in Seq(Int) /\ Len(r) = Len(d) - n
      /\ \A i \in 1 .. Len(d) - n : r[i] = d[n + i]
  BY CutValues
<1> HIDE DEF f, r
<1>2. /\ s \o f \in Seq(Int) /\ Len(s \o f) = Len(s) + n /\ Len(s) \in Nat
      /\ \A i \in 1 .. Len(s) + n : (s \o f)[i] = IF i <= Len(s) THEN s[i] ELSE f[i - Len(s)]
  BY <1>1, JoinValues
<1>3. \A u \in 1 .. Len(s) : s[u] = t[k + u]
  BY DEF Carries
<1>4. \A u \in 1 .. Len(d) : d[u] = t[(k + Len(s)) + u]
  BY DEF Carries
<1>5. Carries(t, s \o f, k)
  <2> SUFFICES ASSUME NEW u \in 1 .. Len(s) + n PROVE (s \o f)[u] = t[k + u]
    BY <1>2 DEF Carries
  <2>1. CASE u <= Len(s)
    <3>1. u \in 1 .. Len(s)
      BY <1>2, <2>1
    <3> QED BY <1>2, <1>3, <2>1, <3>1
  <2>2. CASE u > Len(s)
    <3>1. u - Len(s) \in 1 .. n /\ u - Len(s) \in 1 .. Len(d)
      BY <1>2, <2>2
    <3>2. (s \o f)[u] = d[u - Len(s)]
      BY <1>1, <1>2, <2>2, <3>1
    <3>3. (k + Len(s)) + (u - Len(s)) = k + u
      BY <1>2
    <3> QED BY <1>4, <3>1, <3>2, <3>3
  <2> QED BY <1>2, <2>1, <2>2
<1>6. Carries(t, r, k + (Len(s) + n))
  <2> SUFFICES ASSUME NEW u \in 1 .. Len(d) - n PROVE r[u] = t[(k + (Len(s) + n)) + u]
    BY <1>1 DEF Carries
  <2>1. n + u \in 1 .. Len(d) /\ r[u] = d[n + u]
    <3>1. Len(d) \in Nat
      OBVIOUS
    <3> QED BY <1>1, <3>1
  <2>2. (k + Len(s)) + (n + u) = (k + (Len(s) + n)) + u
    BY <1>2
  <2> QED BY <1>4, <2>1, <2>2
<1> QED BY <1>1, <1>2, <1>5, <1>6 DEF f, r

LEMMA CarriesNone == ASSUME NEW t, NEW k PROVE Carries(t, <<>>, k)
BY DEF Carries

LEMMA BaseType == ASSUME MtdTypeOK PROVE Len(log) \in Nat /\ Base \in Nat
<1>1. Len(log) \in Nat
  BY DEF MtdTypeOK
<1> QED BY <1>1, SizesAssumption DEF Base

\* What has been written down is in the stream, where a reader comes to it.
LEMMA LoggedStream ==
    ASSUME IInv, Logged, NEW x \in 1 .. Base
    PROVE  x <= Total * Units /\ Stream(x) = Script[x]
<1> DEFINE q == (x - 1) \div Units
           u == 1 + ((x - 1) % Units)
           e == log[q + 1]
<1>1. MtdTypeOK /\ Len(log) \in Nat /\ Units \in Nat /\ Units > 0 /\ Total \in Nat /\ Base \in Nat
  BY BaseType, SizesAssumption, PlaceType DEF IInv, Typed
<1>2. q \in Nat /\ u \in 1 .. Units /\ x = q * Units + u
  BY <1>1, Split
<1> HIDE DEF q, u
<1>3. q < Len(log)
  BY <1>1, <1>2 DEF Base
<1>4. q + 1 \in 1 .. Len(log) /\ (q + 1) - 1 = q
  BY <1>1, <1>2, <1>3
<1>5. Place(e.at) = q /\ e.data[u] = Script[q * Units + u]
  BY <1>2, <1>4 DEF Logged
<1>6. e.at \in Good /\ flash[e.at] = e.data
  <2>1. e.at \in Blocks
    BY <1>1, <1>4, EntryType DEF MtdTypeOK
  <2> QED BY <1>4, <2>1 DEF IInv, StreamInOrder, Good
<1> HIDE DEF e
<1>7. q < Total
  BY <1>5, <1>6, PlaceOfBlock
<1>8. Stream(q * Units + u) = flash[e.at][u]
  BY <1>2, <1>5, <1>6, StreamOfBlock
<1>9. q * Units + Units <= Total * Units /\ q * Units \in Nat /\ Total * Units \in Nat
  BY <1>1, <1>2, <1>7
<1> QED BY <1>1, <1>2, <1>5, <1>6, <1>8, <1>9
\* A program that is not itself stepping has the same text to write.
LEMMA ScriptStays ==
    ASSUME UNCHANGED progVars
    PROVE  Script' = Script /\ off' = off /\ (InPass' <=> InPass) /\ (Writes' <=> Writes)
BY DEF progVars, Script, FirstPass, Source, InPass, Writes

LEMMA GaveUpStays == ASSUME UNCHANGED <<skipped, bad>> PROVE GaveUp' <=> GaveUp
BY DEF GaveUp, Skipped

LEMMA LoggedStays ==
    ASSUME Logged, UNCHANGED <<log, bad>>, Script' = Script
    PROVE  Logged' /\ Base' = Base
BY DEF Logged, Base, Place, Good

LEMMA WaitingStays ==
    ASSUME Waiting, UNCHANGED <<log, bad, fd, stored, data>>,
           Script' = Script, off' = off, Writes' <=> Writes
    PROVE  Waiting'
<1>1. Base' = Base /\ Place(fd)' = Place(fd)
  BY DEF Base, Place, Good
<1> QED BY <1>1 DEF Waiting

LEMMA MovingStays ==
    ASSUME Moving, UNCHANGED <<log, bad, pos, stored, data, block>>,
           Script' = Script, off' = off, Writes' <=> Writes
    PROVE  Moving'
<1>1. Base' = Base /\ Place(pos)' = Place(pos)
  BY DEF Base, Place, Good
<1> QED BY <1>1 DEF Moving

LEMMA CoalesceStreams ==
    ASSUME BlockInv, Streaming, Coalesce, UNCHANGED progVars
    PROVE  Streaming'
<1> SUFFICES ASSUME InPass', ~GaveUp', ret' = "ok" PROVE Streaming'
  BY DEF Streaming
<1> DEFINE n == Lowest(Units - Len(stored), Len(data))
           filled == stored \o First(data, n)
<1>1. /\ Script' = Script /\ off' = off /\ InPass /\ (Writes' <=> Writes) /\ ~GaveUp /\ ret = "ok"
      /\ log' = log /\ fd' = fd /\ phase = "idle" /\ Base' = Base /\ call = "write"
  BY ScriptStays, GaveUpStays DEF Coalesce, Base
<1>2. Logged /\ Waiting
  BY <1>1 DEF Streaming
<1>3. MtdTypeOK /\ stored \in Seq(Int) /\ data \in Seq(Int) /\ Base \in Nat
  BY BaseType DEF BlockInv, IInv, Typed, MtdTypeOK
<1>4. /\ Len(stored) \in Nat /\ Len(data) \in Nat /\ Units \in Nat /\ Len(stored) < Units
      /\ data # <<>> /\ Len(data) > 0
  BY <1>2, <1>3, SizesAssumption DEF Waiting, Coalesce
<1>5. /\ n \in Nat /\ n <= Len(data) /\ Len(stored) + n <= Units /\ n > 0
      /\ Len(stored) + n # Units => n = Len(data)
  BY <1>4 DEF Lowest
<1>6. /\ stored' = filled /\ data' = Rest(data, n)
      /\ IF Len(filled) = Units THEN StartBlock(filled) ELSE UNCHANGED <<block, pos, phase>>
  BY DEF Coalesce
<1> HIDE DEF n
<1>7. /\ filled \in Seq(Int) /\ Len(filled) = Len(stored) + n
      /\ Rest(data, n) \in Seq(Int) /\ Len(Rest(data, n)) = Len(data) - n
      /\ Carries(Script, filled, Base)
      /\ Carries(Script, Rest(data, n), Base + (Len(stored) + n))
  BY <1>2, <1>3, <1>5, CarriesMore DEF Waiting
<1> HIDE DEF filled
<1>8. /\ Place(fd) = Len(log)
      /\ Writes => Base + Len(stored) + Len(data) = off
      /\ Writes
  <2>1. Writes
    BY <1>1 DEF BlockInv, ProgInv, Control, InPass, Writes
  <2> QED BY <1>2, <2>1 DEF Waiting
<1>9. /\ Len(filled) \in Nat /\ Len(data') \in Nat /\ Base + Len(filled) + Len(data') = off
      /\ Len(filled) # Units => Len(filled) < Units
  <2>1. Len(filled) = Len(stored) + n /\ Len(data') = Len(data) - n
    BY <1>6, <1>7
  <2>2. Base + Len(stored) + Len(data) = off /\ Base \in Nat
    BY <1>3, <1>8
  <2> QED BY <1>4, <1>5, <2>1, <2>2
<1>10. Logged'
  BY <1>1, <1>2 DEF Logged, Place, Good, Coalesce
<1>11. Place(fd)' = Place(fd) /\ Place(pos)' = Below(Good, pos')
  BY <1>1 DEF Place, Good, Coalesce
<1>12. CASE Len(filled) = Units
  <2>1. phase' = "check" /\ block' = filled /\ pos' = fd
    BY <1>6, <1>12 DEF StartBlock
  <2>2. \A u \in 1 .. Units : filled[u] = Script[Base + u]
    BY <1>7, <1>12 DEF Carries
  <2>3. Carries(Script', data', Base' + Units)
    BY <1>1, <1>6, <1>7, <1>12
  <2>4. Base + Units + Len(data') = off
    BY <1>12, <1>9
  <2>5. Place(pos)' = Len(log')
    BY <1>1, <1>8, <1>11, <2>1 DEF Place
  <2>6. Moving'
    BY <1>1, <1>6, <1>8, <1>12, <2>1, <2>2, <2>3, <2>4, <2>5 DEF Moving
  <2> QED BY <1>10, <2>1, <2>6 DEF Streaming
<1>13. CASE Len(filled) # Units
  <2>1. phase' = "idle"
    BY <1>1, <1>6, <1>13
  <2>2. Len(stored') < Units /\ Base + Len(stored') + Len(data') = off
    BY <1>6, <1>13, <1>9
  <2>3. Carries(Script', stored', Base') /\ Carries(Script', data', Base' + Len(stored'))
    BY <1>1, <1>6, <1>7
  <2>4. Place(fd)' = Len(log')
    BY <1>1, <1>8, <1>11
  <2>5. Waiting'
    BY <1>1, <1>8, <2>2, <2>3, <2>4 DEF Waiting
  <2> QED BY <1>10, <2>1, <2>5 DEF Streaming, Writing
<1> QED BY <1>12, <1>13
LEMMA DirectStreams ==
    ASSUME BlockInv, Streaming, WriteDirectly, UNCHANGED progVars
    PROVE  Streaming'
<1> SUFFICES ASSUME InPass', ~GaveUp', ret' = "ok" PROVE Streaming'
  BY DEF Streaming
<1>1. /\ Script' = Script /\ off' = off /\ InPass /\ (Writes' <=> Writes) /\ ~GaveUp /\ ret = "ok"
      /\ log' = log /\ bad' = bad /\ phase = "idle" /\ Base' = Base /\ call = "write"
      /\ stored = <<>> /\ stored' = <<>> /\ Len(data) >= Units /\ data' = Rest(data, Units)
      /\ phase' = "check" /\ block' = First(data, Units) /\ pos' = fd
  BY ScriptStays, GaveUpStays DEF WriteDirectly, Base, StartBlock
<1>2. Logged /\ Waiting
  BY <1>1 DEF Streaming
<1>3. /\ data \in Seq(Int) /\ Base \in Nat /\ Units \in Nat /\ Len(data) \in Nat
      /\ Len(<<>>) = 0 /\ <<>> \in Seq(Int)
  BY BaseType, SizesAssumption DEF BlockInv, IInv, Typed, MtdTypeOK
<1>4. Writes
  BY <1>1 DEF BlockInv, ProgInv, Control, InPass, Writes
<1>5. Place(fd) = Len(log) /\ Carries(Script, data, Base) /\ Base + Len(data) = off
  BY <1>1, <1>2, <1>3, <1>4 DEF Waiting
<1>6. /\ \A i \in 1 .. Units : First(data, Units)[i] = data[i]
      /\ Len(Rest(data, Units)) = Len(data) - Units
      /\ \A i \in 1 .. Len(data) - Units : Rest(data, Units)[i] = data[Units + i]
  BY <1>1, <1>3, CutValues
<1>7. \A u \in 1 .. Units : block'[u] = Script[Base + u]
  <2>1. \A u \in 1 .. Units : u \in 1 .. Len(data)
    BY <1>1, <1>3
  <2> QED BY <1>1, <1>5, <1>6, <2>1 DEF Carries
<1>8. Carries(Script, data', Base + Units)
  <2> SUFFICES ASSUME NEW u \in 1 .. Len(data) - Units
               PROVE  Rest(data, Units)[u] = Script[(Base + Units) + u]
    BY <1>1, <1>6 DEF Carries
  <2>1. Units + u \in 1 .. Len(data) /\ Base + (Units + u) = (Base + Units) + u
    BY <1>1, <1>3
  <2> QED BY <1>5, <1>6, <2>1 DEF Carries
<1>9. Base + Units + Len(data') = off
  <2>1. Len(data') = Len(data) - Units
    BY <1>1, <1>6
  <2> QED BY <1>3, <1>5, <2>1
<1>10. Logged'
  BY <1>1, <1>2, LoggedStays
<1>11. Place(pos)' = Len(log')
  BY <1>1, <1>5 DEF Place, Good
<1>12. Moving'
  BY <1>1, <1>4, <1>7, <1>8, <1>9, <1>11 DEF Moving
<1> QED BY <1>1, <1>10, <1>12 DEF Streaming

\* What mtd_erase_blocks adds to the last block is what the text ends with.
LEMMA PadStreams ==
    ASSUME BlockInv, Streaming, Pad, UNCHANGED progVars
    PROVE  Streaming'
<1> SUFFICES ASSUME InPass', ~GaveUp', ret' = "ok" PROVE Streaming'
  BY DEF Streaming
<1> DEFINE k == Units - Len(stored)
           padding == [i \in 1 .. k |-> Zero]
           filled == stored \o padding
<1>1. /\ Script' = Script /\ off' = off /\ InPass /\ (Writes' <=> Writes) /\ ~GaveUp /\ ret = "ok"
      /\ log' = log /\ bad' = bad /\ phase = "idle" /\ Base' = Base
      /\ call \in {"erase", "close"} /\ stored # <<>> /\ data' = data
      /\ phase' = "check" /\ pos' = fd
  BY ScriptStays, GaveUpStays DEF Pad, Base, StartBlock
<1>2. stored' = filled /\ block' = filled
  BY DEF Pad, StartBlock
<1>3. Logged /\ Waiting
  BY <1>1 DEF Streaming
<1>4. /\ stored \in Seq(Int) /\ Base \in Nat /\ Units \in Nat /\ Len(stored) \in Nat
      /\ Len(stored) > 0 /\ Len(stored) < Units /\ k \in Nat
  BY SMTT(30), <1>1, <1>3, BaseType, SizesAssumption DEF BlockInv, IInv, Typed, MtdTypeOK, Waiting
<1>5. data = <<>> /\ Len(data) = 0
  BY <1>1 DEF BlockInv, ProgInv, Control
<1>6. Base + Len(stored) = off /\ ~Writes
  <2>1. CASE Writes
    <3>1. off = 0
      BY <1>1, <2>1 DEF Writes, BlockInv, ProgInv, Control
    <3>2. Base + Len(stored) + Len(data) = off
      BY <1>3, <2>1 DEF Waiting
    <3> QED BY <1>4, <1>5, <3>1, <3>2
  <2>2. CASE ~Writes
    BY <1>1, <1>3, <2>2 DEF Waiting
  <2> QED BY <2>1, <2>2
<1>7. off >= Len(Source)
  <2>1. pc \in {"close", "end_first", "end"}
    BY <1>1, <1>6 DEF InPass, Writes
  <2>2. Len(Source) \in Nat /\ off \in Nat /\ Len(log) \in Nat
    BY BaseType DEF BlockInv, ProgInv, ProgTyped, Source, IInv, Typed
  <2>3. CASE pc = "end" /\ prog = "flash_image"
    <3>1. off = Units
      BY <2>3 DEF BlockInv, ProgInv, Control
    <3>2. Len(log) * Units + Len(stored) = Units
      BY <1>6, <3>1 DEF Base
    <3>3. Len(log) = 0 \/ Len(log) * Units >= Units
      BY <1>4, <2>2
    <3>4. 0 * Units = 0
      BY <1>4
    <3> QED BY <1>4, <3>2, <3>3, <3>4
  <2>4. CASE ~(pc = "end" /\ prog = "flash_image")
    <3>1. off = Len(Source)
      BY <1>1, <2>1, <2>4 DEF BlockInv, ProgInv, Control
    <3> QED BY <2>2, <3>1
  <2> QED BY <2>3, <2>4
<1>8. padding \in Seq(Int) /\ Len(padding) = k
  BY <1>4, PaddingType
<1>9. /\ Len(filled) = Units
      /\ \A i \in 1 .. Units : filled[i] = IF i <= Len(stored) THEN stored[i] ELSE Zero
  <2> HIDE DEF padding
  <2>1. /\ Len(stored \o padding) = Len(stored) + Len(padding)
        /\ \A i \in 1 .. Len(stored) + Len(padding) :
             (stored \o padding)[i] = IF i <= Len(stored) THEN stored[i] ELSE padding[i - Len(stored)]
    BY <1>4, <1>8, JoinValues
  <2>2. Len(stored) + Len(padding) = Units
    BY <1>4, <1>8
  <2>3. \A i \in 1 .. Units : i > Len(stored) => i - Len(stored) \in 1 .. k
    BY <1>4
  <2>4. \A i \in 1 .. k : padding[i] = Zero
    BY DEF padding
  <2>5. \A i \in 1 .. Units : i > Len(stored) => padding[i - Len(stored)] = Zero
    BY <2>3, <2>4
  <2> QED BY <1>4, <2>1, <2>2, <2>5
<1> HIDE DEF filled, padding
<1>10. ASSUME NEW u \in 1 .. Units PROVE filled[u] = Script[Base + u]
  <2>1. CASE u <= Len(stored)
    <3>1. u \in 1 .. Len(stored)
      BY <1>4, <2>1
    <3> QED BY <1>3, <1>9, <2>1, <3>1 DEF Waiting, Carries
  <2>2. CASE u > Len(stored)
    <3>1. Base + u > off /\ Base + u \in Nat
      BY <1>4, <1>6, <2>2
    <3>2. off \in Nat /\ Len(Source) \in Nat
      BY DEF BlockInv, ProgInv, ProgTyped, Source
    <3>3. ~(Base + u \in 1 .. Len(Source))
      BY <1>7, <3>1, <3>2
    <3>4. Script[Base + u] = Zero
      BY <3>1, <3>3 DEF Script
    <3> QED BY <1>4, <1>9, <2>2, <3>4
  <2> QED BY <1>4, <2>1, <2>2
<1>11. Base < off /\ off <= Base + Units
  BY <1>4, <1>6
<1>12. Logged'
  BY <1>1, <1>3, LoggedStays
<1>13. Place(pos)' = Len(log')
  BY <1>1, <1>3 DEF Place, Good, Waiting
<1>14. Carries(Script', data', Base' + Units)
  BY <1>1, <1>5, CarriesNone
<1>15. Moving'
  BY <1>1, <1>2, <1>6, <1>9, <1>10, <1>11, <1>13, <1>14 DEF Moving
<1> QED BY <1>1, <1>12, <1>15 DEF Streaming
\* The steps that change neither the stream nor where it goes on.
LEMMA QuietStreams ==
    ASSUME BlockInv, Streaming, WriteReturns \/ EraseRest \/ Close \/ Erase \/ Program \/ Wipe,
           UNCHANGED progVars
    PROVE  Streaming'
<1> SUFFICES ASSUME InPass', ~GaveUp', ret' = "ok" PROVE Streaming'
  BY DEF Streaming
<1>1. /\ Script' = Script /\ off' = off /\ InPass /\ (Writes' <=> Writes) /\ ~GaveUp
      /\ ret = "ok" /\ UNCHANGED <<log, bad, fd, stored, data, block>>
  BY ScriptStays, GaveUpStays
  DEF WriteReturns, EraseRest, Close, Erase, Program, Wipe, cursors, buffers
<1>2. Logged' /\ Base' = Base
  BY <1>1, LoggedStays DEF Streaming
<1>3. CASE WriteReturns \/ EraseRest \/ Close \/ Wipe
  <2>1. phase \in {"idle", "wipe"} /\ phase' \in {"idle", "wipe", "closed"}
    BY <1>3 DEF WriteReturns, EraseRest, Close, Wipe
  <2>2. Waiting
    BY <1>1, <2>1 DEF Streaming
  <2>3. Waiting'
    BY <1>1, <2>2, WaitingStays
  <2>4. phase' = "closed" => Base' >= off'
    <3> SUFFICES ASSUME phase' = "closed" PROVE Base >= off
      BY <1>1, <1>2
    <3>1. Close
      BY <1>3, <2>1 DEF WriteReturns, EraseRest, Wipe
    <3>2. call = "close" /\ stored = <<>>
      BY <3>1 DEF Close
    <3>3. ~Writes
      BY <3>2 DEF Writes, BlockInv, ProgInv, Control
    <3> QED BY <2>2, <3>2, <3>3 DEF Waiting
  <2> QED BY <1>2, <2>1, <2>3, <2>4 DEF Streaming, Writing
<1>4. CASE Erase \/ Program
  <2>1. phase \in Writing /\ phase' \in Writing /\ pos' = pos
    BY <1>4 DEF Erase, Program, Again, Writing
  <2>2. Moving
    BY <1>1, <2>1 DEF Streaming
  <2>3. Moving'
    BY <1>1, <2>1, <2>2, MovingStays
  <2> QED BY <1>2, <2>1, <2>3 DEF Streaming, Writing
<1> QED BY <1>3, <1>4

LEMMA CheckStreams ==
    ASSUME BlockInv, Streaming, CheckBad, UNCHANGED progVars
    PROVE  Streaming'
<1> SUFFICES ASSUME InPass', ~GaveUp', ret' = "ok" PROVE Streaming'
  BY DEF Streaming
<1>1. /\ Script' = Script /\ off' = off /\ InPass /\ (Writes' <=> Writes)
      /\ ret = "ok" /\ UNCHANGED <<log, bad, fd, stored, data, block>>
      /\ phase \in Writing /\ phase' \in Writing
  BY ScriptStays DEF CheckBad, cursors, buffers, Writing
<1>2. ~GaveUp
  <2> SUFFICES ASSUME GaveUp PROVE FALSE
    OBVIOUS
  <2>1. PICK i \in 1 .. Len(skipped) : skipped[i] \notin bad
    BY DEF GaveUp, Skipped
  <2>2. skipped \in Seq(Blocks) /\ Len(skipped) \in Nat
    BY DEF BlockInv, IInv, Typed, MtdTypeOK
  <2>3. CASE skipped' = skipped
    BY <1>1, <2>1, <2>3 DEF GaveUp, Skipped
  <2>4. CASE skipped' = Append(skipped, pos) /\ pos \in bad
    <3>1. pos \in Blocks
      BY <2>4 DEF BlockInv, IInv, Typed, MtdTypeOK
    <3>2. Len(skipped') = Len(skipped) + 1 /\ skipped'[i] = skipped[i]
      BY <2>2, <2>4, <3>1, LogType
    <3>3. i \in 1 .. Len(skipped')
      BY <2>2, <3>2
    <3>4. skipped'[i] \in Skipped' \ bad'
      BY <1>1, <2>1, <3>2, <3>3 DEF Skipped
    <3> QED BY <3>4 DEF GaveUp
  <2> QED BY <2>3, <2>4 DEF CheckBad
<1>3. Logged /\ Moving
  BY <1>1, <1>2 DEF Streaming
<1>4. Logged' /\ Base' = Base
  BY <1>1, <1>3, LoggedStays
<1>5. CASE pos' = pos
  <2>1. Moving'
    BY <1>1, <1>3, <1>5, MovingStays
  <2> QED BY <1>1, <1>4, <2>1 DEF Streaming, Writing
<1>6. CASE pos \in bad /\ pos' = pos + 1
  <2>1. Place(pos') = Place(pos)
    <3>1. pos \in Int
      BY DEF BlockInv, IInv, Typed, MtdTypeOK
    <3> QED BY <1>6, <3>1, PlaceOfBad
  <2>2. Place(pos)' = Len(log')
    BY <1>1, <1>3, <2>1 DEF Place, Good, Moving
  <2>3. Moving'
    BY <1>1, <1>3, <1>4, <2>2 DEF Moving
  <2> QED BY <1>1, <1>4, <2>3 DEF Streaming, Writing
<1> QED BY <1>5, <1>6 DEF CheckBad

\* A block that was given up is not a bad one.
LEMMA GiveUpSeen ==
    ASSUME MtdTypeOK, GiveUp
    PROVE  GaveUp'
<1>1. pos \in Blocks \ bad /\ skipped \in Seq(Blocks) /\ Len(skipped) \in Nat
  BY DEF GiveUp, MtdTypeOK, Writing
<1>2. skipped' = Append(skipped, pos) /\ bad' = bad
  BY DEF GiveUp
<1>3. Len(skipped') = Len(skipped) + 1 /\ skipped'[Len(skipped) + 1] = pos
  BY <1>1, <1>2, LogType
<1>4. Len(skipped) + 1 \in 1 .. Len(skipped')
  BY <1>1, <1>3
<1>5. pos \in Skipped'
  BY <1>3, <1>4 DEF Skipped
<1> QED BY <1>1, <1>2, <1>5 DEF GaveUp

LEMMA VerifyStreams ==
    ASSUME BlockInv, Streaming, Verify, UNCHANGED progVars
    PROVE  Streaming'
<1> SUFFICES ASSUME InPass', ~GaveUp', ret' = "ok" PROVE Streaming'
  BY DEF Streaming
<1>1. /\ Script' = Script /\ off' = off /\ InPass /\ (Writes' <=> Writes) /\ ~GaveUp
      /\ ret = "ok" /\ UNCHANGED <<bad, data>> /\ phase \in Writing
  BY ScriptStays, GaveUpStays DEF Verify, Writing
<1>2. Logged /\ Moving
  BY <1>1 DEF Streaming
<1>3. CASE UNCHANGED <<log, stored, block, pos>> /\ phase' \in Writing
  <2>1. Logged' /\ Moving'
    BY <1>1, <1>2, <1>3, LoggedStays, MovingStays
  <2> QED BY <1>3, <2>1 DEF Streaming, Writing
<1>4. CASE /\ fd' = pos + 1 /\ log' = Append(log, [at |-> pos, data |-> block])
           /\ stored' = Stored /\ phase' = "idle"
  <2> DEFINE e == [at |-> pos, data |-> block]
             L == [at : Blocks, data : [1 .. Units -> Int]]
  <2>1. /\ pos \in Blocks \ bad /\ pos \in Int /\ block \in [1 .. Units -> Int]
        /\ log \in Seq(L) /\ Len(log) \in Nat /\ e \in L
    BY BlocksInt DEF BlockInv, IInv, Typed, MtdTypeOK, Verify, Writing
  <2>2. /\ Len(log') = Len(log) + 1 /\ log'[Len(log) + 1] = e
        /\ \A i \in 1 .. Len(log) : log'[i] = log[i]
    <3> HIDE DEF L, e
    <3>1. log' = Append(log, e)
      BY <1>4 DEF e
    <3> QED BY <2>1, <3>1, LogType
  <2>3. Place(pos) = Len(log) /\ Place(pos + 1) = Len(log) + 1
    <3>1. pos \in Good
      BY <2>1 DEF Good
    <3> QED BY <1>2, <3>1, PlaceOfBlock DEF Moving
  <2>4. Base' = Base + Units /\ Base \in Nat /\ Units \in Nat /\ Units > 0
    BY <2>1, <2>2, SizesAssumption DEF Base
  <2>5. \A p : Place(p)' = Below(Good, p')
    BY <1>1 DEF Place, Good
  <2>6. Logged'
    <3> SUFFICES ASSUME NEW j \in 1 .. Len(log')
                 PROVE  /\ Below(Good, log'[j].at) = j - 1
                        /\ \A u \in 1 .. Units : log'[j].data[u] = Script[(j - 1) * Units + u]
      BY <1>1 DEF Logged, Place, Good
    <3>1. CASE j \in 1 .. Len(log)
      BY <1>2, <2>2, <3>1 DEF Logged, Place
    <3>2. CASE j = Len(log) + 1
      <4>1. j - 1 = Len(log) /\ log'[j].at = pos /\ log'[j].data = block
        BY <2>1, <2>2, <3>2
      <4>2. \A u \in 1 .. Units : block[u] = Script[Len(log) * Units + u]
        BY <1>2 DEF Moving, Base
      <4> QED BY <2>3, <4>1, <4>2 DEF Place
    <3> QED BY <2>1, <2>2, <3>1, <3>2
  <2>7. stored' = <<>> /\ Len(stored') = 0
    BY <1>2, <1>4 DEF Moving, Stored
  <2>8. Carries(Script', stored', Base') /\ Carries(Script', data', Base' + Len(stored'))
    <3>1. Base' + Len(stored') = Base + Units
      BY <2>4, <2>7
    <3> QED BY <1>1, <1>2, <2>7, <3>1, CarriesNone DEF Moving
  <2>9. Place(fd)' = Len(log')
    BY <1>1, <1>4, <2>2, <2>3 DEF Place, Good
  <2>10. /\ Writes => Base' + Len(stored') + Len(data') = off
         /\ ~Writes => Base' >= off
    <3>1. Base' + Len(stored') = Base + Units
      BY <2>4, <2>7
    <3> QED BY <1>1, <1>2, <2>4, <3>1 DEF Moving
  <2>11. Waiting'
    BY <1>1, <2>4, <2>7, <2>8, <2>9, <2>10 DEF Waiting
  <2> QED BY <1>4, <2>6, <2>11 DEF Streaming, Writing
<1> QED BY <1>3, <1>4 DEF Verify, Again, Writing

LEMMA WorkStreams == ASSUME BlockInv, Streaming, Work PROVE Streaming'
<1>1. UNCHANGED progVars /\ MtdStep /\ MtdTypeOK
  BY DEF Work, BlockInv, IInv, Typed
<1>2. CASE OutOfSpace
  BY <1>2 DEF OutOfSpace, Streaming
<1>3. CASE GiveUp
  BY <1>1, <1>3, GiveUpSeen DEF Streaming
<1> QED
  BY <1>1, <1>2, <1>3, CoalesceStreams, DirectStreams, PadStreams, QuietStreams,
     CheckStreams, VerifyStreams DEF MtdStep
\* A context that was just opened stands at the start of the text.
LEMMA OpenStreams ==
    ASSUME BlockInv, Open \/ Reopen
    PROVE  Streaming'
<1>1. /\ log' = <<>> /\ stored' = <<>> /\ fd' = 0 /\ phase' = "idle" /\ data' = data
      /\ bad' = bad
  BY DEF Open, Reopen, OpenWrite
<1>2. data = <<>> /\ off' = 0
  BY DEF Open, Reopen, BlockInv, ProgInv, Control
<1>3. Writes'
  BY DEF Open, Reopen, Goto, Writes
<1>4. /\ Len(log') = 0 /\ Base' = 0 /\ Len(stored') = 0 /\ Len(data') = 0
      /\ Units \in Nat /\ Units > 0
  <2>1. Len(<<>>) = 0 /\ 0 * Units = 0
    BY SizesAssumption
  <2> QED BY <1>1, <1>2, <2>1, SizesAssumption DEF Base
<1>5. Place(fd)' = 0
  <2>1. Place(0) = 0
    BY PlaceType
  <2> QED BY <1>1, <2>1 DEF Place, Good
<1>6. Carries(Script', stored', Base') /\ Carries(Script', data', Base' + Len(stored'))
  BY <1>1, <1>2, CarriesNone
<1>7. Waiting'
  BY <1>2, <1>3, <1>4, <1>5, <1>6 DEF Waiting
<1>8. Logged'
  BY <1>4 DEF Logged
<1> QED BY <1>1, <1>7, <1>8 DEF Streaming, Writing

LEMMA ChunkStreams ==
    ASSUME BlockInv, Streaming, WriteChunk
    PROVE  Streaming'
<1> SUFFICES ASSUME InPass', ~GaveUp', ret' = "ok" PROVE Streaming'
  BY DEF Streaming
<1>1. PICK n \in Chunks :
             /\ n \in Nat \ {0} /\ off + n <= Len(Source) /\ off' = off + n
             /\ Chunk(n) \in Seq(Int) /\ Len(Chunk(n)) = n
             /\ CallWrite(Chunk(n))
  BY ChunkType DEF BlockInv
<1>2. /\ UNCHANGED <<flash, bad, worn, cursors, stored, block, skipped, log, phase, ret, mishaps>>
      /\ data' = Chunk(n) /\ phase = "idle" /\ call = "none" /\ ret = "ok"
      /\ pc \in {"write", "rewrite"}
      /\ UNCHANGED <<users, prog, pc, image, result, reader, miscVars, runs>>
  BY <1>1 DEF CallWrite, WriteChunk
<1>3. Script' = Script /\ InPass /\ Writes /\ Writes' /\ ~GaveUp
  <2>1. Script' = Script
    BY <1>2 DEF Script, FirstPass, Source, miscVars
  <2> QED BY <1>2, <2>1, GaveUpStays DEF InPass, Writes
<1>4. Logged /\ Waiting
  BY <1>2, <1>3 DEF Streaming
<1>5. Logged' /\ Base' = Base
  BY <1>2, <1>3, <1>4, LoggedStays
<1>6. data = <<>> /\ Len(data) = 0
  BY <1>2 DEF BlockInv, ProgInv, Control
<1>7. /\ Base \in Nat /\ Len(stored) \in Nat /\ off \in Nat /\ Source \in Seq(Int)
      /\ Base + Len(stored) = off
  <2>1. /\ Base \in Nat /\ Len(stored) \in Nat /\ off \in Nat /\ Source \in Seq(Int)
    BY BaseType DEF BlockInv, IInv, Typed, MtdTypeOK, ProgInv, ProgTyped, Source
  <2>2. Base + Len(stored) + Len(data) = off
    BY <1>3, <1>4 DEF Waiting
  <2> QED BY <1>6, <2>1, <2>2
<1>8. ASSUME NEW j \in 1 .. n PROVE Chunk(n)[j] = Script[off + j]
  <2>1. off + j \in Nat /\ off + j \in 1 .. Len(Source)
    BY <1>1, <1>7
  <2>2. CASE prog = "flash_image" /\ pc = "write" /\ off = 0
    <3>1. n = 1
      BY <1>1, <2>2 DEF Chunks, MiscPrograms
    <3>2. Chunk(n)[j] = Zero
      BY <2>2 DEF Chunk
    <3>3. FirstPass /\ off + j <= Header
      BY <2>2, <3>1 DEF FirstPass, Header
    <3> QED BY <2>1, <3>2, <3>3 DEF Script
  <2>3. CASE ~(prog = "flash_image" /\ pc = "write" /\ off = 0)
    <3>1. Chunk(n) = SubSeq(Source, off + 1, off + n)
      BY <2>3 DEF Chunk
    <3>2. SubSeq(Source, off + 1, off + n)[j] = Source[off + j]
      BY <1>1, <1>7, SubSeqProperties
    <3>3. ~(FirstPass /\ off + j <= Header)
      BY <1>2, <1>7, <2>3 DEF FirstPass, Header
    <3> QED BY <2>1, <3>1, <3>2, <3>3 DEF Script
  <2> QED BY <2>2, <2>3
<1>9. Carries(Script, Chunk(n), Base + Len(stored))
  BY <1>1, <1>7, <1>8 DEF Carries
<1>10. Base' + Len(stored') + Len(data') = off'
  BY <1>1, <1>2, <1>5, <1>7 DEF cursors
<1>11. Place(fd)' = Len(log')
  BY <1>2, <1>4 DEF Place, Good, Waiting, cursors
<1>12. Waiting'
  BY <1>2, <1>3, <1>4, <1>5, <1>9, <1>10, <1>11 DEF Waiting
<1> QED BY <1>2, <1>5, <1>12 DEF Streaming, Writing

\* Erasing what follows, and closing, end the calls that write.
LEMMA CallStreams ==
    ASSUME BlockInv, Streaming,
           EraseFirst \/ Written \/ CloseAfterErase \/ Rewritten
    PROVE  Streaming'
<1> SUFFICES ASSUME InPass', ~GaveUp', ret' = "ok" PROVE Streaming'
  BY DEF Streaming
<1>1. CallErase \/ CallClose
  BY DEF EraseFirst, Written, CloseAfterErase, Rewritten
<1>2. /\ UNCHANGED <<log, bad, fd, stored, data, skipped>> /\ phase' = "idle"
      /\ phase = "idle" /\ call = "none" /\ ret = "ok"
  BY <1>1 DEF CallErase, CallClose, cursors, buffers
<1>3. UNCHANGED <<users, prog, image, off, misc>>
  BY DEF EraseFirst, Written, CloseAfterErase, Rewritten, miscVars
<1>4. Script' = Script
  <2>1. FirstPass' <=> FirstPass
    BY <1>3 DEF FirstPass, EraseFirst, Written, CloseAfterErase, Rewritten, Goto,
                BlockInv, ProgInv, Control
  <2>2. Source' = Source
    BY <1>3 DEF Source
  <2> QED BY <2>1, <2>2 DEF Script
<1>5. InPass /\ ~GaveUp /\ (Writes' => Writes)
  BY <1>2, GaveUpStays DEF InPass, Writes, EraseFirst, Written, CloseAfterErase, Rewritten, Goto
<1>6. Logged /\ Waiting
  BY <1>2, <1>5 DEF Streaming
<1>7. Logged' /\ Base' = Base
  BY <1>2, <1>4, <1>6, LoggedStays
<1>8. Place(fd)' = Len(log')
  BY <1>2, <1>6 DEF Place, Good, Waiting
<1>9. data = <<>> /\ Len(data) = 0
  BY <1>2 DEF BlockInv, ProgInv, Control
<1>10. Base \in Nat /\ Len(stored) \in Nat /\ off \in Nat
  BY BaseType DEF BlockInv, IInv, Typed, MtdTypeOK, ProgInv, ProgTyped
<1>11. /\ Writes => Base + Len(stored) = off
       /\ ~Writes /\ stored = <<>> => Base >= off
       /\ ~Writes /\ stored # <<>> => Base + Len(stored) = off
  BY <1>6, <1>9, <1>10 DEF Waiting
<1>12. stored = <<>> => Len(stored) = 0
  OBVIOUS
<1>13. /\ Writes' => Base' + Len(stored') + Len(data') = off'
       /\ ~Writes' /\ stored' = <<>> => Base' >= off'
       /\ ~Writes' /\ stored' # <<>> => Base' + Len(stored') = off'
  BY <1>2, <1>3, <1>5, <1>7, <1>9, <1>10, <1>11, <1>12
<1>14. Waiting'
  BY <1>2, <1>4, <1>6, <1>7, <1>8, <1>13 DEF Waiting
<1> QED BY <1>2, <1>7, <1>14 DEF Streaming, Writing

LEMMA NextStreams == ASSUME BlockInv, Streaming, [Next]_vars PROVE Streaming'
<1>1. CASE UNCHANGED vars
  <2>1. UNCHANGED progVars /\ UNCHANGED mtdVars
    BY <1>1 DEF vars
  <2>2. Script' = Script /\ off' = off /\ (InPass' <=> InPass) /\ (Writes' <=> Writes)
    BY <2>1, ScriptStays
  <2>3. GaveUp' <=> GaveUp
    BY <2>1, GaveUpStays DEF mtdVars
  <2>4. UNCHANGED <<log, bad, fd, stored, data, pos, block, phase, ret>>
    BY <2>1 DEF mtdVars
  <2>5. /\ Logged => Logged' /\ Base' = Base
        /\ Waiting => Waiting' 
        /\ Moving => Moving'
    BY <2>2, <2>4, LoggedStays, WaitingStays, MovingStays
  <2>6. Base' = Base
    BY <2>4 DEF Base
  <2> QED BY <2>2, <2>3, <2>4, <2>5, <2>6 DEF Streaming
<1>2. CASE (\E p \in Programs, i \in Images : Start(p, i)) \/ Compare
           \/ (\E p \in Programs, v \in MiscValues : StartMisc(p, v))
  <2>1. pc' \in {"compare", "open", "off"}
    BY <1>2 DEF Start, StartMisc, Compare, Goto
  <2> QED BY <2>1 DEF Streaming, InPass
<1>3. CASE ReadMore \/ Cut \/ FirstPassEnds \/ Finished \/ SourceTooShort
  <2>1. pc' \in {"off", "reopen"}
    BY <1>3 DEF ReadMore, Cut, FirstPassEnds, Finished, SourceTooShort, Goto
  <2> QED BY <2>1 DEF Streaming, InPass
<1>4. CASE WriteFailed
  <2>1. ret' = "fail"
    BY <1>4 DEF WriteFailed, CallErase, CallClose, Abandon
  <2> QED BY <2>1 DEF Streaming
<1> QED
  BY <1>1, <1>2, <1>3, <1>4, OpenStreams, ChunkStreams, CallStreams, WorkStreams
  DEF Next, Run

\* A program that closed with everything written has its text in the stream.
LEMMA Delivered ==
    ASSUME BlockInv, Streaming, InPass, ~GaveUp, ret = "ok", phase = "closed",
           NEW x \in 1 .. off
    PROVE  x <= Total * Units /\ Stream(x) = Script[x]
<1>1. Logged /\ Base >= off /\ Base \in Nat /\ off \in Nat
  BY BaseType DEF Streaming, BlockInv, IInv, Typed, ProgInv, ProgTyped
<1>2. x \in 1 .. Base
  BY <1>1
<1> QED BY <1>1, <1>2, LoggedStream DEF BlockInv
-----------------------------------------------------------------------------
(* What a step may do to the stream: only the block in work changes, and   *)
(* its units are erased, torn or those of the block that is written.       *)

\* A block in work holds what was programmed so far and is erased behind it.
Programmed ==
    phase = "program" =>
        \A u \in 1 .. Units : flash[pos][u] = IF u <= at THEN block[u] ELSE Erased

LEMMA InitProgrammed == MtdInit => Programmed
BY DEF MtdInit, Programmed

LEMMA EraseProgrammed == ASSUME MtdTypeOK, Erase PROVE Programmed'
<1> SUFFICES ASSUME phase' = "program" PROVE Programmed'
  BY DEF Programmed
<1>1. flash' = [flash EXCEPT ![pos] = ErasedBlock] /\ at' = 0 /\ pos' = pos
  BY DEF Erase, Again
<1>2. pos \in Blocks /\ DOMAIN flash = Blocks
  BY DEF MtdTypeOK, Erase, Writing
<1>3. flash'[pos] = ErasedBlock
  BY <1>1, <1>2
<1>4. \A u \in 1 .. Units : ErasedBlock[u] = Erased /\ ~(u <= 0)
  BY DEF ErasedBlock
<1> QED BY <1>1, <1>3, <1>4 DEF Programmed

LEMMA ProgramProgrammed == ASSUME MtdTypeOK, Programmed, Program PROVE Programmed'
<1> SUFFICES ASSUME phase' = "program" PROVE Programmed'
  BY DEF Programmed
<1>1. /\ flash' = [flash EXCEPT ![pos][at + 1] = block[at + 1]] /\ at' = at + 1
      /\ pos' = pos /\ block' = block /\ phase = "program"
  BY DEF Program, buffers
<1>2. /\ pos \in Blocks /\ flash \in [Blocks -> [1 .. Units -> Int]]
      /\ at \in Nat /\ at < Units /\ Units \in Nat
  BY <1>1, SizesAssumption DEF MtdTypeOK, Writing
<1>3. \A u \in 1 .. Units :
        flash'[pos][u] = IF u = at + 1 THEN block[at + 1] ELSE flash[pos][u]
  BY <1>1, <1>2
<1>4. \A u \in 1 .. Units : flash[pos][u] = IF u <= at THEN block[u] ELSE Erased
  BY <1>1 DEF Programmed
<1>5. ASSUME NEW u \in 1 .. Units
      PROVE  flash'[pos][u] = IF u <= at + 1 THEN block[u] ELSE Erased
  <2>1. CASE u = at + 1
    BY <1>2, <1>3, <2>1
  <2>2. CASE u # at + 1
    <3>1. flash'[pos][u] = flash[pos][u] /\ (u <= at + 1 <=> u <= at)
      BY <1>2, <1>3, <2>2
    <3> QED BY <1>4, <3>1
  <2> QED BY <2>1, <2>2
<1> QED BY <1>1, <1>5 DEF Programmed

LEMMA NextProgrammed ==
    ASSUME MtdTypeOK, Programmed, [MtdNext]_mtdVars
    PROVE  Programmed'
<1>1. CASE UNCHANGED mtdVars
  BY <1>1 DEF mtdVars, Programmed
<1>2. CASE OpenWrite \/ (\E d \in Seq(Int) : CallWrite(d)) \/ CallErase \/ CallClose
           \/ Abandon \/ PowerCut
  <2>1. phase' \in {"idle", "closed"}
    BY <1>2 DEF OpenWrite, CallWrite, CallErase, CallClose, Abandon, PowerCut
  <2> QED BY <2>1 DEF Programmed
<1>3. CASE Coalesce \/ WriteDirectly \/ WriteReturns \/ Pad \/ EraseRest \/ Close
  <2>1. phase' # "program"
    BY <1>3 DEF Coalesce, WriteDirectly, WriteReturns, Pad, EraseRest, Close, StartBlock
  <2> QED BY <2>1 DEF Programmed
<1>4. CASE CheckBad \/ OutOfSpace \/ Verify \/ GiveUp \/ Wipe
  <2>1. phase' # "program"
    BY <1>4 DEF CheckBad, OutOfSpace, Verify, GiveUp, Wipe, Again
  <2> QED BY <2>1 DEF Programmed
<1> QED
  BY <1>1, <1>2, <1>3, <1>4, EraseProgrammed, ProgramProgrammed DEF MtdNext, MtdStep

Special == {Erased, Torn, Zero}

\* What a step, or a power cut in one, does to the medium while write_block is
\* at work.
LEMMA Touched ==
    ASSUME MtdTypeOK, Programmed, MtdStep \/ PowerCut, phase # "wipe", ~GaveUp'
    PROVE  \/ flash' = flash
           \/ /\ phase \in Writing /\ pos \in Good
              /\ \A b \in Blocks \ {pos} : flash'[b] = flash[b]
              /\ \A u \in 1 .. Units : flash'[pos][u] \in {Erased, Torn, block[u]}
<1>1. flash \in [Blocks -> [1 .. Units -> Int]] /\ Units \in Nat
  BY SizesAssumption DEF MtdTypeOK
<1>2. phase \in {"erase", "program", "verify", "giveup"} => pos \in Good /\ pos \in Blocks
  BY DEF MtdTypeOK, Good, Writing
<1>3. CASE phase \in {"erase", "giveup"}
           /\ (flash' = [flash EXCEPT ![pos] = ErasedBlock]
               \/ flash' = [flash EXCEPT ![pos] = [u \in 1 .. Units |-> Torn]])
  <2>1. flash'[pos] = ErasedBlock \/ flash'[pos] = [u \in 1 .. Units |-> Torn]
    BY <1>1, <1>2, <1>3
  <2>2. \A u \in 1 .. Units : flash'[pos][u] \in {Erased, Torn, block[u]}
    BY <2>1 DEF ErasedBlock
  <2>3. \A b \in Blocks \ {pos} : flash'[b] = flash[b]
    BY <1>1, <1>3
  <2> QED BY <1>2, <1>3, <2>2, <2>3 DEF Writing
<1>4. CASE phase = "program" /\ \E v \in {Torn, block[at + 1]} :
              flash' = [flash EXCEPT ![pos][at + 1] = v]
  <2>1. PICK v \in {Torn, block[at + 1]} : flash' = [flash EXCEPT ![pos][at + 1] = v]
    BY <1>4
  <2>2. \A u \in 1 .. Units : flash'[pos][u] = IF u = at + 1 THEN v ELSE flash[pos][u]
    BY <1>1, <1>2, <1>4, <2>1
  <2>3. \A u \in 1 .. Units : flash[pos][u] \in {Erased, block[u]}
    BY <1>4 DEF Programmed
  <2>4. \A u \in 1 .. Units : flash'[pos][u] \in {Erased, Torn, block[u]}
    BY <2>1, <2>2, <2>3
  <2>5. \A b \in Blocks \ {pos} : flash'[b] = flash[b]
    BY <1>1, <2>1
  <2> QED BY <1>2, <1>4, <2>4, <2>5 DEF Writing
<1>5. CASE PowerCut
  BY <1>3, <1>4, <1>5 DEF PowerCut
<1>6. CASE MtdStep
  <2>1. CASE Coalesce \/ WriteDirectly \/ WriteReturns \/ Pad \/ EraseRest \/ Close
             \/ CheckBad \/ OutOfSpace \/ Verify
    BY <2>1 DEF Coalesce, WriteDirectly, WriteReturns, Pad, EraseRest, Close, CheckBad,
                OutOfSpace, Verify
  <2>2. CASE Erase
    BY <1>3, <2>2 DEF Erase
  <2>3. CASE Program
    BY <1>4, <2>3 DEF Program
  <2>4. CASE GiveUp
    BY <2>4, GiveUpSeen
  <2>5. CASE Wipe
    BY <2>5 DEF Wipe
  <2> QED BY <1>6, <2>1, <2>2, <2>3, <2>4, <2>5 DEF MtdStep
<1> QED BY <1>5, <1>6
LEMMA NthOfPlace == ASSUME NEW c \in Good PROVE Nth(0, 1 + Place(c)) = c
<1> DEFINE q == Place(c)
<1>1. q \in Nat /\ q < Total /\ Total \in Nat /\ Place(0) = 0
  BY PlaceOfBlock, PlaceType
<1>2. 1 + q \in Nat \ {0} /\ Place(0) + (1 + q) <= Total
  BY <1>1
<1>3. 0 \in 0 .. NBlocks
  BY SizesAssumption
<1>4. /\ Nth(0, 1 + q) \in Good
      /\ Place(Nth(0, 1 + q)) = Place(0) + ((1 + q) - 1)
  BY <1>2, <1>3, NthPlace
<1>5. Place(Nth(0, 1 + q)) = Place(c)
  BY <1>1, <1>4
<1> QED BY <1>4, <1>5, PlaceUnique

\* That holds before and after every step.
Found == \A c \in Good : Nth(0, 1 + Place(c)) = c

LEMMA FoundAlways == Found
BY NthOfPlace DEF Found

LEMMA FoundNext == Found'
BY FoundAlways, PTL

\* A unit of the stream before and after a step.
LEMMA StreamMoves ==
    ASSUME bad' = bad, NEW x \in 1 .. Total * Units
    PROVE  \E c \in Good, u \in 1 .. Units :
             /\ x = Place(c) * Units + u
             /\ Stream(x) = flash[c][u] /\ Stream(x)' = flash'[c][u]
<1>1. PICK c \in Good, u \in 1 .. Units :
           x = Place(c) * Units + u /\ Stream(x) = flash[c][u]
  BY StreamStands
<1>2. PICK q \in Nat : q = Place(c)
  BY PlaceOfBlock
<1>3. Place(c)' = q /\ c \in Good'
  BY <1>2 DEF Place, Good
<1>4. Nth(0, 1 + q)' = c
  BY <1>3, FoundNext DEF Found
<1>5. /\ ((q * Units + u) - 1) \div Units = q
      /\ 1 + (((q * Units + u) - 1) % Units) = u
  BY Join
<1>6. (x - 1) \div Units = q /\ 1 + ((x - 1) % Units) = u
  BY <1>1, <1>2, <1>5
<1>7. Stream(x)' = flash'[Nth(0, 1 + q)'][u]
  BY <1>6 DEF Stream, UnitFrom
<1> QED BY <1>1, <1>4, <1>7

LEMMA TotalStays == ASSUME bad' = bad PROVE Total' = Total /\ Good' = Good
BY DEF Total, Good

\* A step that touches only the first block of the stream leaves the others.
LEMMA Elsewhere ==
    ASSUME bad' = bad, NEW p \in Good, Place(p) = 0,
           \A b \in Blocks \ {p} : flash'[b] = flash[b],
           NEW x \in 1 .. Total * Units, x > Units
    PROVE  Stream(x)' = Stream(x)
<1>1. PICK c \in Good, u \in 1 .. Units :
             /\ x = Place(c) * Units + u
             /\ Stream(x) = flash[c][u] /\ Stream(x)' = flash'[c][u]
  BY StreamMoves
<1>2. c # p
  <2> SUFFICES ASSUME c = p PROVE FALSE
    OBVIOUS
  <2>1. x = 0 * Units + u /\ 0 * Units = 0
    BY <1>1, SizesAssumption
  <2> QED BY <2>1, SizesAssumption
<1>3. c \in Blocks
  BY DEF Good
<1> QED BY <1>1, <1>2, <1>3

\* A unit of the first block of the stream is where that block is.
LEMMA InFirstBlock ==
    ASSUME bad' = bad, NEW p \in Good, Place(p) = 0, NEW u \in 1 .. Units
    PROVE  Stream(u) = flash[p][u] /\ Stream(u)' = flash'[p][u] /\ u \in 1 .. Total * Units
<1>1. Units \in Nat /\ Total \in Nat /\ Total > 0
  BY SizesAssumption, PlaceOfBlock, PlaceType
<1>2. Total * Units >= Units
  BY <1>1
<1>3. u \in 1 .. Total * Units
  BY <1>1, <1>2
<1>4. PICK c \in Good, v \in 1 .. Units :
             /\ u = Place(c) * Units + v
             /\ Stream(u) = flash[c][v] /\ Stream(u)' = flash'[c][v]
  BY <1>3, StreamMoves
<1>5. Place(c) \in Nat
  BY PlaceOfBlock
<1> DEFINE q == Place(c)
<1>6. q = 0
  <2>1. q \in Nat /\ u = q * Units + v
    BY <1>4, <1>5
  <2> HIDE DEF q
  <2>2. q = 0 \/ q * Units >= Units
    BY <1>1, <2>1
  <2> QED BY <1>1, <2>1, <2>2
<1>7. v = u
  <2>1. u = 0 * Units + v /\ 0 * Units = 0
    BY <1>1, <1>4, <1>6
  <2> QED BY <1>1, <2>1
<1>8. c = p
  BY <1>6, PlaceUnique
<1> QED BY <1>3, <1>4, <1>7, <1>8

\* And a step at a later block leaves the first one.
LEMMA BehindFirst ==
    ASSUME bad' = bad, NEW p \in Good, Place(p) # 0,
           \A b \in Blocks \ {p} : flash'[b] = flash[b],
           NEW x \in 1 .. Total * Units, x <= Units
    PROVE  Stream(x)' = Stream(x)
<1>1. PICK c \in Good, u \in 1 .. Units :
             /\ x = Place(c) * Units + u
             /\ Stream(x) = flash[c][u] /\ Stream(x)' = flash'[c][u]
  BY StreamMoves
<1>2. c # p
  <2> SUFFICES ASSUME c = p PROVE FALSE
    OBVIOUS
  <2> DEFINE q == Place(c)
  <2>1. q \in Nat /\ q # 0 /\ x = q * Units + u
    BY <1>1, PlaceOfBlock
  <2> HIDE DEF q
  <2>2. q * Units >= Units
    BY <2>1, SizesAssumption
  <2>3. q * Units \in Nat
    BY <2>1, SizesAssumption
  <2> QED BY <2>1, <2>2, <2>3, SizesAssumption
<1>3. c \in Blocks
  BY DEF Good
<1> QED BY <1>1, <1>2, <1>3

\* What was given up stays given up while the program goes on.
LEMMA GaveUpGrows == ASSUME MtdTypeOK, MtdStep, ~GaveUp' PROVE ~GaveUp
<1>1. CASE UNCHANGED <<skipped, bad>>
  BY <1>1, GaveUpStays
<1>2. CASE CheckBad \/ GiveUp
  <2>1. skipped \in Seq(Blocks) /\ Len(skipped) \in Nat /\ bad' = bad
    BY <1>2 DEF MtdTypeOK, CheckBad, GiveUp
  <2>2. CASE UNCHANGED <<skipped, bad>>
    BY <2>2, GaveUpStays
  <2>3. CASE skipped' = Append(skipped, pos) /\ pos \in Blocks
    <3> SUFFICES ASSUME GaveUp PROVE GaveUp'
      OBVIOUS
    <3>1. PICK i \in 1 .. Len(skipped) : skipped[i] \notin bad
      BY DEF GaveUp, Skipped
    <3>2. Len(skipped') = Len(skipped) + 1 /\ skipped'[i] = skipped[i]
      BY <2>1, <2>3, LogType
    <3>3. i \in 1 .. Len(skipped')
      BY <2>1, <3>2
    <3>4. skipped'[i] \in Skipped' \ bad'
      BY <2>1, <3>1, <3>2, <3>3 DEF Skipped
    <3> QED BY <3>4 DEF GaveUp
  <2>4. pos \in bad => pos \in Blocks
    BY DEF MtdTypeOK
  <2>5. GiveUp => pos \in Blocks
    BY DEF GiveUp, MtdTypeOK, Writing
  <2> QED BY <1>2, <2>1, <2>2, <2>3, <2>4, <2>5 DEF CheckBad, GiveUp
<1> QED
  BY <1>1, <1>2 DEF MtdStep, Coalesce, WriteDirectly, WriteReturns, Pad, EraseRest, Close,
     OutOfSpace, Erase, Program, Verify, Wipe
LEMMA StreamStays ==
    ASSUME UNCHANGED <<flash, bad>>, NEW x \in 1 .. Total * Units
    PROVE  Stream(x)' = Stream(x)
<1>1. PICK c \in Good, u \in 1 .. Units : Stream(x) = flash[c][u] /\ Stream(x)' = flash'[c][u]
  BY StreamMoves
<1> QED BY <1>1

\* The image stands in the stream, from one index on.
Holds(i, from) == Len(i) <= Total * Units /\ \A x \in from + 1 .. Len(i) : Stream(x) = i[x]

LEMMA HoldsStays ==
    ASSUME UNCHANGED <<flash, bad>>, NEW i \in Seq(Int), NEW k \in Nat, Holds(i, k)
    PROVE  Holds(i, k)'
<1>1. Total' = Total /\ Total * Units \in Nat /\ Len(i) \in Nat
  BY SMTT(30), TotalStays, PlaceType, SizesAssumption
<1>2. \A x \in k + 1 .. Len(i) : x \in 1 .. Total * Units
  BY <1>1 DEF Holds
<1>3. \A x \in k + 1 .. Len(i) : Stream(x)' = Stream(x)
  BY <1>2, StreamStays
<1> QED BY <1>1, <1>3 DEF Holds

LEMMA RestStays ==
    ASSUME bad' = bad, NEW p \in Good, Place(p) = 0,
           \A b \in Blocks \ {p} : flash'[b] = flash[b],
           NEW i \in Seq(Int), Holds(i, Units)
    PROVE  Holds(i, Units)'
<1>1. /\ Total' = Total /\ Total * Units \in Nat /\ Len(i) \in Nat
      /\ Units \in Nat /\ Units > 0
  BY TotalStays, PlaceType, SizesAssumption
<1>2. \A x \in Units + 1 .. Len(i) : x \in 1 .. Total * Units /\ x > Units
  BY <1>1 DEF Holds
<1>3. \A x \in Units + 1 .. Len(i) : Stream(x)' = Stream(x)
  BY <1>2, Elsewhere
<1> QED BY <1>1, <1>3 DEF Holds
-----------------------------------------------------------------------------
(* What the programs leave behind.                                         *)

\* When all that was read fits in a block, that block is the first.
LEMMA OneBlock ==
    ASSUME BlockInv, Streaming, InPass, ~GaveUp, ret = "ok", phase \in Writing, off <= Units
    PROVE  Place(pos) = 0
<1>1. Moving
  BY DEF Streaming
<1>2. /\ Len(log) \in Nat /\ Base \in Nat /\ off \in Nat /\ Len(data) \in Nat
      /\ Units \in Nat /\ Units > 0 /\ Base = Len(log) * Units
  <2>1. /\ Len(log) \in Nat /\ Base \in Nat /\ off \in Nat /\ Len(data) \in Nat
    BY BaseType DEF BlockInv, IInv, Typed, MtdTypeOK, ProgInv, ProgTyped
  <2>2. Base = Len(log) * Units
    BY DEF Base
  <2> QED BY <2>1, <2>2, SizesAssumption
<1>3. Base < Units
  <2>1. CASE Writes
    <3>1. Base + Units + Len(data) = off
      BY <1>1, <2>1 DEF Moving
    <3> QED BY <1>2, <3>1
  <2>2. CASE ~Writes
    <3>1. Base < off
      BY <1>1, <2>2 DEF Moving
    <3> QED BY <1>2, <3>1
  <2> QED BY <2>1, <2>2
<1>4. Len(log) = 0 \/ Len(log) * Units >= Units
  BY <1>2
<1> QED BY <1>1, <1>2, <1>3, <1>4 DEF Moving

\* A block that was left out has been noted when the program is over or between
\* its passes.
Noted ==
    users \subseteq MiscPrograms \cup {"flash_image"}
    /\ pc \in {"off", "compare", "open", "reopen"} /\ GaveUp => lost

LEMMA NotedKept == ASSUME BlockInv, Noted, [Next]_vars PROVE Noted'
<1> SUFFICES ASSUME users' \subseteq MiscPrograms \cup {"flash_image"},
                    pc' \in {"off", "compare", "open", "reopen"}, GaveUp'
             PROVE  lost'
  BY DEF Noted
<1>1. CASE UNCHANGED vars
  <2>1. GaveUp' <=> GaveUp
    BY <1>1, GaveUpStays DEF vars, mtdVars
  <2> QED BY <1>1, <2>1 DEF vars, progVars, Noted
<1>2. CASE (\E p \in Programs, i \in Images : Start(p, i))
           \/ (\E p \in Programs, v \in MiscValues : StartMisc(p, v))
           \/ Compare \/ ReadMore
  <2>1. UNCHANGED mtdVars /\ users' = users /\ pc \in {"off", "compare"}
    BY <1>2 DEF Start, StartMisc, Compare, ReadMore
  <2>2. GaveUp
    BY <2>1, GaveUpStays DEF mtdVars
  <2>3. lost
    BY <2>1, <2>2 DEF Noted
  <2>4. CASE \E p \in Programs, i \in Images : Start(p, i)
    BY <2>1, <2>3, <2>4 DEF Start
  <2>5. CASE (\E p \in Programs, v \in MiscValues : StartMisc(p, v)) \/ Compare \/ ReadMore
    BY <2>3, <2>5 DEF StartMisc, Compare, ReadMore, miscVars
  <2> QED BY <1>2, <2>4, <2>5
<1>3. CASE Open \/ Reopen \/ WriteChunk \/ EraseFirst \/ Written \/ CloseAfterErase \/ Rewritten
  <2>1. pc' \notin {"off", "compare", "open", "reopen"}
    BY <1>3 DEF Open, Reopen, WriteChunk, EraseFirst, Written, CloseAfterErase, Rewritten, Goto
  <2> QED BY <2>1
<1>4. CASE SourceTooShort \/ WriteFailed \/ FirstPassEnds \/ Finished
  <2>1. lost' = (lost \/ GaveUp)
    BY <1>4 DEF SourceTooShort, WriteFailed, FirstPassEnds, Finished
  <2>2. UNCHANGED <<skipped, bad>>
    BY <1>4 DEF SourceTooShort, WriteFailed, FirstPassEnds, Finished, mtdVars, CallErase,
                CallClose, Abandon
  <2>3. GaveUp
    BY <2>2, GaveUpStays
  <2> QED BY <2>1, <2>3
<1>5. CASE Work
  <2>1. pc' = pc /\ call # "none"
    BY <1>5, StepSeen DEF Work, progVars, BlockInv, IInv, Typed, ProgInv
  <2> QED BY <2>1 DEF BlockInv, ProgInv, Control
<1>6. CASE Cut
  <2>1. skipped' = <<>>
    BY <1>6 DEF Cut, PowerCut
  <2> QED BY <2>1 DEF GaveUp, Skipped
<1> QED BY <1>1, <1>2, <1>3, <1>4, <1>5, <1>6 DEF Next, Run

\* From the end of the first pass of flash_image on, the rest of the image is in
\* place.
RestWritten ==
    prog = "flash_image" /\ pc \in {"reopen", "rewrite", "end"} /\ ~lost /\ ~GaveUp =>
        Holds(image, Units)

LEMMA RestWrittenKept ==
    ASSUME BlockInv, Streaming, Programmed, Noted, RestWritten, [Next]_vars
    PROVE  RestWritten'
<1> SUFFICES ASSUME prog' = "flash_image", pc' \in {"reopen", "rewrite", "end"},
                    ~lost', ~GaveUp'
             PROVE  Holds(image, Units)'
  BY DEF RestWritten
<1>1. /\ MtdTypeOK /\ Units \in Nat /\ Units > 0 /\ image \in Seq(Int)
      /\ (prog = "flash_image" => users = {"flash_image"})
  <2>1. prog = "flash_image" => users = {"flash_image"}
    BY OneOwner DEF BlockInv, ProgInv, ProgTyped
  <2> QED BY <2>1, SizesAssumption DEF BlockInv, IInv, Typed, ProgInv, ProgTyped
<1>2. ASSUME UNCHANGED <<flash, bad, prog, image, lost>>, ~GaveUp,
             pc \in {"reopen", "rewrite", "end"}
      PROVE  Holds(image, Units)'
  <2>1. PICK i \in Seq(Int) : i = image
    BY <1>1
  <2>2. Holds(i, Units)
    BY <1>2, <2>1 DEF RestWritten
  <2>3. Holds(i, Units)'
    BY <1>1, <1>2, <2>2, HoldsStays
  <2> QED BY <1>2, <2>1, <2>3
<1>3. CASE UNCHANGED vars
  <2>1. UNCHANGED <<flash, bad, skipped, prog, image, lost, pc>>
    BY <1>3 DEF vars, mtdVars, progVars
  <2>2. ~GaveUp
    BY <2>1, GaveUpStays
  <2> QED BY <1>2, <2>1, <2>2
<1>4. CASE WriteChunk \/ Rewritten
  <2>1. UNCHANGED <<flash, bad, skipped, prog, image, lost>>
    BY <1>4 DEF WriteChunk, Rewritten, CallWrite, CallClose, miscVars
  <2>2. ~GaveUp
    BY <2>1, GaveUpStays
  <2>3. pc \in {"reopen", "rewrite", "end"}
    BY <1>4 DEF WriteChunk, Rewritten
  <2> QED BY <1>2, <2>1, <2>2, <2>3
<1>5. CASE Reopen
  <2>1. UNCHANGED <<flash, bad, prog, image, lost, users>> /\ pc = "reopen"
    BY <1>5 DEF Reopen, OpenWrite, miscVars
  <2>2. ~GaveUp
    BY <1>1, <2>1 DEF Noted
  <2> QED BY <1>2, <2>1, <2>2
<1>6. CASE FirstPassEnds
  <2>1. /\ UNCHANGED mtdVars /\ image' = image /\ prog = "flash_image" /\ pc = "end_first"
        /\ phase = "closed" /\ ret = "ok" /\ ~GaveUp
    BY <1>6 DEF FirstPassEnds, Goto
  <2>2. off = Len(Source) /\ Source = image /\ InPass /\ image \in Images
    BY <2>1 DEF BlockInv, ProgInv, Control, Equipped, Source, InPass, MiscPrograms
  <2>3. \A x \in 1 .. Len(image) : x <= Total * Units /\ Stream(x) = Script[x]
    BY <2>1, <2>2, Delivered
  <2>4. Len(image) \in Nat /\ Len(image) > 0
    BY <1>1, <2>2, ImagesAssumption
  <2>5. Len(image) <= Total * Units
    BY <2>3, <2>4
  <2>6. \A x \in Units + 1 .. Len(image) : Stream(x) = image[x]
    <3> SUFFICES ASSUME NEW x \in Units + 1 .. Len(image) PROVE Stream(x) = image[x]
      OBVIOUS
    <3>1. x \in 1 .. Len(image) /\ ~(x <= Header) /\ x \in Nat
      BY <1>1, <2>4 DEF Header
    <3>2. Script[x] = image[x]
      BY <2>2, <3>1 DEF Script
    <3> QED BY <2>3, <3>1, <3>2
  <2>7. PICK i \in Seq(Int) : i = image
    BY <1>1
  <2>8. Holds(i, Units)
    BY <2>5, <2>6, <2>7 DEF Holds
  <2>9. Holds(i, Units)'
    BY <1>1, <2>1, <2>8, HoldsStays DEF mtdVars
  <2> QED BY <2>1, <2>7, <2>9
<1>7. CASE Work
  <2>1. MtdStep /\ UNCHANGED <<prog, pc, image, lost, off>>
    BY <1>7 DEF Work, progVars
  <2>2. /\ ~GaveUp /\ call # "none" /\ bad' = bad
    <3>1. bad' = bad
      BY <2>1 DEF MtdStep, Coalesce, WriteDirectly, WriteReturns, Pad, EraseRest, Close,
         CheckBad, OutOfSpace, Erase, Program, Verify, GiveUp, Wipe
    <3> QED BY <1>1, <2>1, <3>1, GaveUpGrows, StepSeen DEF BlockInv, ProgInv
  <2>3. /\ ret = "ok" /\ pc \in {"rewrite", "end"} /\ InPass /\ off <= Units /\ phase # "wipe"
    BY <1>1, <2>1, <2>2 DEF BlockInv, ProgInv, Control, InPass
  <2>4. CASE flash' = flash
    BY <1>2, <2>1, <2>2, <2>4
  <2>5. CASE /\ phase \in Writing /\ pos \in Good
             /\ \A b \in Blocks \ {pos} : flash'[b] = flash[b]
    <3>1. Place(pos) = 0
      BY <2>2, <2>3, <2>5, OneBlock
    <3>2. PICK i \in Seq(Int), p \in Good : i = image /\ p = pos
      BY <1>1, <2>5
    <3>3. Holds(i, Units)
      BY <2>1, <2>2, <3>2 DEF RestWritten
    <3>4. Holds(i, Units)'
      BY <2>2, <2>5, <3>1, <3>2, <3>3, RestStays
    <3> QED BY <2>1, <3>2, <3>4
  <2> QED BY <1>1, <2>1, <2>3, <2>4, <2>5, Touched
<1>8. CASE \/ \E p \in Programs, i \in Images : Start(p, i)
           \/ \E p \in Programs, v \in MiscValues : StartMisc(p, v)
           \/ Compare \/ ReadMore \/ Cut \/ Open \/ EraseFirst \/ SourceTooShort \/ Finished
  <2>1. pc' \notin {"reopen", "rewrite", "end"}
    BY <1>8 DEF Start, StartMisc, Compare, ReadMore, Cut, Open, EraseFirst, SourceTooShort,
                Finished, Goto
  <2> QED BY <2>1
<1>9. CASE Written \/ CloseAfterErase \/ WriteFailed
  <2>1. ~(prog' = "flash_image" /\ pc' \in {"reopen", "rewrite", "end"})
    BY <1>9 DEF Written, CloseAfterErase, WriteFailed, Goto, BlockInv, ProgInv, Control
  <2> QED BY <2>1
<1> QED BY <1>3, <1>4, <1>5, <1>6, <1>7, <1>8, <1>9 DEF Next, Run
\* A reader that has begun is where its bytes come from.
Reader ==
    /\ Place(rfd) * Units = Len(got) + Len(rbuf)
    /\ \A u \in 1 .. Len(got) : got[u] = Stream(u)
    /\ \A u \in 1 .. Len(rbuf) : rbuf[u] = Stream(Len(got) + u)

Readable ==
    prog \notin MiscPrograms =>
        /\ result \notin {"ok", "unreadable"} => got = <<>> /\ rbuf = <<>> /\ rfd = 0
        /\ result \in {"ok", "unreadable"} /\ ~lost /\ ~GaveUp /\ ret = "ok" =>
             result = "ok" /\ Holds(image, 0) /\ Reader

LEMMA FinishedReadable ==
    ASSUME BlockInv, Streaming, RestWritten, Readable, Finished
    PROVE  Readable'
<1> SUFFICES ASSUME prog \notin MiscPrograms PROVE Readable'
  BY DEF Finished, Readable
<1>1. /\ UNCHANGED mtdVars /\ UNCHANGED <<prog, image, off, reader>>
      /\ pc = "end" /\ phase = "closed" /\ result' \in {"fail", "ok"}
      /\ result \in {"none", "fail"} /\ MtdTypeOK
  BY DEF Finished, BlockInv, ProgInv, Control, IInv, Typed
<1>2. got = <<>> /\ rbuf = <<>> /\ rfd = 0
  BY <1>1 DEF Readable
<1>3. ASSUME result' = "ok", ~lost', ~GaveUp', ret' = "ok"
      PROVE  Holds(image, 0)'
  <2>1. /\ InPass /\ ~GaveUp /\ ~lost /\ ret = "ok" /\ Source = image
        /\ image \in Seq(Int) /\ image \in Images /\ off \in Nat
    BY <1>1, <1>3, GaveUpStays
    DEF Finished, mtdVars, InPass, Source, BlockInv, ProgInv, ProgTyped, Equipped
  <2>2. Len(image) \in Nat /\ Len(image) > 0 /\ Units \in Nat /\ Units > 0
    BY <2>1, ImagesAssumption, SizesAssumption
  <2>3. \A x \in 1 .. off : x <= Total * Units /\ Stream(x) = Script[x]
    BY <1>1, <2>1, Delivered
  <2>4. \A x \in 1 .. Len(image) : Script[x] = image[x]
    BY <1>1, <2>1, <2>2 DEF Script, FirstPass
  <2>5. Holds(image, 0)
    <3>1. CASE prog = "flash_image"
      <4>1. off = Units /\ Holds(image, Units)
        BY <1>1, <2>1, <3>1 DEF BlockInv, ProgInv, Control, RestWritten
      <4>2. \A x \in 0 + 1 .. Len(image) : x \in 1 .. off \/ x \in Units + 1 .. Len(image)
        BY <2>2, <4>1
      <4> QED BY <2>2, <2>3, <2>4, <4>1, <4>2 DEF Holds
    <3>2. CASE prog # "flash_image"
      <4>1. off = Len(image)
        BY <1>1, <2>1, <3>2 DEF BlockInv, ProgInv, Control
      <4>2. Len(image) <= Total * Units
        BY <2>2, <2>3, <4>1
      <4> QED BY <2>2, <2>3, <2>4, <4>1, <4>2 DEF Holds
    <3> QED BY <3>1, <3>2
  <2>6. PICK i \in Seq(Int), k \in Nat : i = image /\ k = 0
    BY <2>1
  <2>7. Holds(i, k)
    BY <2>5, <2>6
  <2>8. Holds(i, k)'
    BY <1>1, <2>7, HoldsStays DEF mtdVars
  <2> QED BY <1>1, <2>6, <2>8
<1>4. Reader'
  <2>1. Place(0) = 0 /\ Place(rfd)' = Place(rfd) /\ 0 * Units = 0 /\ Len(<<>>) = 0
    BY <1>1, PlaceType, SizesAssumption DEF Place, Good, mtdVars, reader
  <2> QED BY <1>1, <1>2, <2>1 DEF Reader, reader
<1> QED BY <1>1, <1>2, <1>3, <1>4 DEF Readable, reader

LEMMA ReadMoreReadable ==
    ASSUME BlockInv, Readable, ReadMore
    PROVE  Readable'
<1>1. PICK n \in 1 .. Units + 1 :
         LET r == Reading(rfd, rbuf, n)
         IN  /\ Len(got) + n <= Len(image)
             /\ got' = got \o r.units
             /\ rfd' = r.fd /\ rbuf' = r.buf
             /\ result' = IF r.ok THEN "ok" ELSE "unreadable"
  BY DEF ReadMore
<1> DEFINE r == Reading(rfd, rbuf, n)
           p == Place(rfd)
<1>2. /\ UNCHANGED mtdVars /\ UNCHANGED <<prog, image, lost>> /\ result = "ok"
      /\ prog \notin MiscPrograms /\ result' \in {"ok", "unreadable"}
  BY <1>1 DEF ReadMore, miscVars
<1>3. /\ MtdTypeOK /\ rfd \in 0 .. NBlocks /\ rbuf \in Seq(Int) /\ got \in Seq(Int)
      /\ image \in Seq(Int) /\ n \in Nat /\ Units \in Nat /\ Units > 0
      /\ flash \in [Blocks -> [1 .. Units -> Int]]
  BY SMTT(30), SizesAssumption DEF BlockInv, IInv, Typed, ProgInv, ProgTyped, MtdTypeOK
<1> SUFFICES ASSUME ~lost', ~GaveUp', ret' = "ok"
             PROVE  result' = "ok" /\ Holds(image, 0)' /\ Reader'
  BY <1>2 DEF Readable
<1>4. Holds(image, 0) /\ Reader
  <2>1. ~GaveUp
    BY <1>2, GaveUpStays DEF mtdVars
  <2> QED BY <1>2, <2>1 DEF Readable, mtdVars
<1>5. Holds(image, 0)'
  <2>1. PICK i \in Seq(Int), k \in Nat : i = image /\ k = 0
    BY <1>3
  <2>2. Holds(i, k)
    BY <1>4, <2>1
  <2>3. Holds(i, k)'
    BY <1>2, <1>3, <2>2, HoldsStays DEF mtdVars
  <2> QED BY <1>2, <2>1, <2>3
<1>6. /\ p \in Nat /\ Total \in Nat /\ p <= Total /\ p * Units = Len(got) + Len(rbuf)
      /\ Len(got) \in Nat /\ Len(rbuf) \in Nat /\ Len(image) \in Nat
      /\ Len(image) <= Total * Units /\ Len(got) + n <= Len(image)
  BY SMTT(30), <1>1, <1>3, <1>4, GoodLeft DEF Reader, Holds
<1>7. n <= Len(rbuf) + (Total - p) * Units
  <2> HIDE DEF p
  <2>1. (Total - p) * Units = Total * Units - p * Units
    BY <1>3, <1>6
  <2>2. Total * Units \in Nat /\ p * Units \in Nat
    BY <1>3, <1>6
  <2> QED BY <1>3, <1>6, <2>1, <2>2
<1>8. /\ r.ok
      /\ r.units \in Seq(Int) /\ Len(r.units) = n
      /\ \A i \in 1 .. n : r.units[i] = At(rfd, rbuf, i)
      /\ r.buf \in Seq(Int)
      /\ \A i \in 1 .. Len(r.buf) : r.buf[i] = At(rfd, rbuf, n + i)
      /\ r.fd \in 0 .. NBlocks
      /\ Place(r.fd) * Units + Len(rbuf) = p * Units + n + Len(r.buf)
  BY ZenonT(60), <1>3, <1>7, ReadingGoesOn
<1>9. got' = got \o r.units /\ rfd' = r.fd /\ rbuf' = r.buf /\ result' = "ok"
  BY <1>1, <1>8
<1> HIDE DEF r
<1>10. ASSUME NEW i \in Nat \ {0} PROVE At(rfd, rbuf, i) = Stream(Len(got) + i)
  <2>1. CASE i <= Len(rbuf)
    <3>1. i \in 1 .. Len(rbuf)
      BY <1>6, <2>1
    <3> QED BY <1>4, <2>1, <3>1 DEF At, Reader
  <2>2. CASE i > Len(rbuf)
    <3>1. At(rfd, rbuf, i) = Stream(p * Units + (i - Len(rbuf)))
      BY <1>6, <2>2 DEF At
    <3>2. p * Units + (i - Len(rbuf)) = Len(got) + i
      <4> HIDE DEF p
      <4> QED BY <1>6
    <3> QED BY <3>1, <3>2
  <2> QED BY <1>6, <2>1, <2>2
<1>11. /\ Len(got') = Len(got) + n
       /\ \A u \in 1 .. Len(got) + n : got'[u] = IF u <= Len(got) THEN got[u]
                                                 ELSE r.units[u - Len(got)]
  BY <1>3, <1>8, <1>9, JoinValues
<1>12. Len(got') + Len(rbuf') \in Nat /\ Place(rfd') * Units = Len(got') + Len(rbuf')
  <2>1. Place(r.fd) * Units + Len(rbuf) = p * Units + n + Len(r.buf) /\ Len(r.buf) \in Nat
    BY <1>8
  <2>2. Place(r.fd) * Units \in Nat
    <3>1. r.fd \in Int
      BY <1>8
    <3>2. Place(r.fd) \in Nat
      BY <3>1, PlaceType
    <3> DEFINE q == Place(r.fd)
    <3>3. q \in Nat
      BY <3>2
    <3> HIDE DEF q
    <3>4. q * Units \in Nat
      BY <1>3, <3>3
    <3> QED BY <3>4 DEF q
  <2>3. p * Units = Len(got) + Len(rbuf) /\ Len(got) \in Nat /\ Len(rbuf) \in Nat /\ n \in Nat
    BY <1>6
  <2> DEFINE x == Place(r.fd) * Units
             y == p * Units
             l == Len(r.buf)
  <2>4. x = (Len(got) + n) + l /\ (Len(got) + n) + l \in Nat
    <3>1. /\ x + Len(rbuf) = y + n + l /\ l \in Nat /\ x \in Nat
          /\ y = Len(got) + Len(rbuf)
      BY <2>1, <2>2, <2>3
    <3> HIDE DEF x, y, l
    <3> QED BY <2>3, <3>1
  <2>5. Len(got') = Len(got) + n /\ Len(rbuf') = l /\ Place(rfd') * Units = x
    BY <1>9, <1>11
  <2> HIDE DEF x, y, l
  <2> QED BY <2>4, <2>5
<1>13. \A u \in 1 .. Len(got') : got'[u] = Stream(u)
  <2> SUFFICES ASSUME NEW u \in 1 .. Len(got) + n PROVE got'[u] = Stream(u)
    BY <1>11
  <2>1. CASE u <= Len(got)
    <3>1. u \in 1 .. Len(got)
      BY <1>6, <2>1
    <3> QED BY <1>4, <1>11, <2>1, <3>1 DEF Reader
  <2>2. CASE u > Len(got)
    <3>1. u - Len(got) \in 1 .. n /\ u - Len(got) \in Nat \ {0} /\ Len(got) + (u - Len(got)) = u
      BY <1>3, <1>6, <2>2
    <3>2. got'[u] = At(rfd, rbuf, u - Len(got))
      <4>1. r.units[u - Len(got)] = At(rfd, rbuf, u - Len(got))
        BY <1>8, <3>1
      <4>2. got'[u] = IF u <= Len(got) THEN got[u] ELSE r.units[u - Len(got)]
        BY <1>11
      <4>3. ~(u <= Len(got))
        BY <1>6, <2>2
      <4> QED BY <4>1, <4>2, <4>3
    <3> QED BY <1>10, <3>1, <3>2
  <2> QED BY <1>3, <1>6, <2>1, <2>2
<1>14. \A u \in 1 .. Len(rbuf') : rbuf'[u] = Stream(Len(got') + u)
  <2> SUFFICES ASSUME NEW u \in 1 .. Len(r.buf) PROVE r.buf[u] = Stream((Len(got) + n) + u)
    BY <1>9, <1>11
  <2>1. n + u \in Nat \ {0} /\ Len(got) + (n + u) = (Len(got) + n) + u
    BY <1>3, <1>6, <1>8
  <2>2. r.buf[u] = At(rfd, rbuf, n + u)
    BY <1>8
  <2> QED BY <1>10, <2>1, <2>2
<1>15. Reader'
  <2>1. \A x \in 1 .. Total * Units : Stream(x)' = Stream(x)
    BY <1>2, StreamStays DEF mtdVars
  <2>2. Place(rfd)' = Place(rfd') /\ Total * Units \in Nat
    <3>1. Total * Units \in Nat
      BY <1>3, <1>6
    <3> QED BY <1>2, <3>1 DEF Place, Good, mtdVars
  <2>3. Len(got') + Len(rbuf') <= Total * Units
    <3>1. rfd' \in 0 .. NBlocks
      BY <1>8, <1>9
    <3>2. Place(rfd') \in Nat /\ Place(rfd') <= Total
      BY <3>1, GoodLeft
    <3> DEFINE q == Place(rfd')
    <3>3. q \in Nat /\ q <= Total /\ q * Units = Len(got') + Len(rbuf')
      BY <1>12, <3>2
    <3> HIDE DEF q
    <3>4. q * Units <= Total * Units
      BY <1>3, <1>6, <3>3
    <3> QED BY <3>3, <3>4
  <2>4. Len(got') \in Nat /\ Len(rbuf') \in Nat
    <3>1. Len(got') \in Nat
      BY <1>6, <1>11
    <3>2. Len(rbuf') \in Nat
      BY <1>8, <1>9
    <3> QED BY <3>1, <3>2
  <2>5. \A u \in 1 .. Len(got') : u \in 1 .. Total * Units
    BY <2>2, <2>3, <2>4
  <2>6. \A u \in 1 .. Len(rbuf') : Len(got') + u \in 1 .. Total * Units
    BY <2>2, <2>3, <2>4
  <2>7. \A u \in 1 .. Len(got') : got'[u] = Stream(u)'
    BY <1>13, <2>1, <2>5
  <2>8. \A u \in 1 .. Len(rbuf') : rbuf'[u] = (Stream(Len(got) + u))'
    <3> SUFFICES ASSUME NEW u \in 1 .. Len(rbuf')
                 PROVE  rbuf'[u] = (Stream(Len(got) + u))'
      OBVIOUS
    <3>1. PICK x \in 1 .. Total * Units : x = Len(got') + u
      BY <2>6
    <3>2. rbuf'[u] = Stream(x)'
      BY <1>14, <2>1, <3>1
    <3>3. (Stream(Len(got) + u))' = Stream(x)'
      BY <3>1 DEF Stream, UnitFrom
    <3> QED BY <3>2, <3>3
  <2> QED BY <1>12, <2>2, <2>7, <2>8 DEF Reader
<1> QED BY <1>5, <1>9, <1>15
LEMMA ReadableKept ==
    ASSUME BlockInv, BlockInv', Streaming, RestWritten, Readable, [Next]_vars
    PROVE  Readable'
<1>1. /\ MtdTypeOK /\ image \in Seq(Int) /\ Control /\ Control'
  BY DEF BlockInv, IInv, Typed, ProgInv, ProgTyped
<1>2. CASE UNCHANGED vars
  <2> SUFFICES ASSUME prog \notin MiscPrograms PROVE Readable'
    BY <1>2 DEF Readable, vars, progVars
  <2>1. /\ UNCHANGED <<flash, bad, skipped, ret>>
        /\ UNCHANGED <<prog, image, result, lost, rfd, rbuf, got>>
    BY <1>2 DEF vars, mtdVars, progVars
  <2> SUFFICES ASSUME result \in {"ok", "unreadable"}, ~lost, ~GaveUp', ret = "ok"
               PROVE  result = "ok" /\ Holds(image, 0)' /\ Reader'
    BY <2>1 DEF Readable
  <2>2. result = "ok" /\ Holds(image, 0) /\ Reader
    BY <2>1, GaveUpStays DEF Readable
  <2>3. Holds(image, 0)'
    <3>1. PICK i \in Seq(Int), k \in Nat : i = image /\ k = 0
      BY <1>1
    <3>2. Holds(i, k)'
      BY <2>1, <2>2, <3>1, HoldsStays
    <3> QED BY <2>1, <3>1, <3>2
  <2>4. Reader'
    <3>1. \A x \in Int : Stream(x)' = Stream(x)
      BY <2>1 DEF Stream, UnitFrom, Nth, GoodFrom
    <3>2. Place(rfd)' = Place(rfd)
      BY <2>1 DEF Place, Good
    <3>3. \A u \in 1 .. Len(got) : got'[u] = Stream(u)'
      BY <2>1, <2>2, <3>1 DEF Reader
    <3>4. \A u \in 1 .. Len(rbuf) : rbuf'[u] = (Stream(Len(got) + u))'
      BY <2>1, <2>2 DEF Reader, Stream, UnitFrom, Nth, GoodFrom
    <3> QED BY <2>1, <2>2, <3>2, <3>3, <3>4 DEF Reader
  <2> QED BY <2>2, <2>3, <2>4
<1>3. CASE \E p \in Programs, i \in Images : Start(p, i)
  BY <1>3 DEF Start, Readable
<1>4. CASE \E p \in Programs, v \in MiscValues : StartMisc(p, v)
  BY <1>4 DEF StartMisc, Readable
<1>5. CASE Finished
  BY <1>5, FinishedReadable
<1>6. CASE ReadMore
  BY <1>6, ReadMoreReadable
<1>7. CASE (Run /\ ~Finished) \/ Work \/ Cut
  <2>1. UNCHANGED <<prog, rfd, rbuf, got>>
    BY <1>7 DEF Run, Compare, Open, EraseFirst, WriteChunk, Written, CloseAfterErase,
                FirstPassEnds, Reopen, Rewritten, SourceTooShort, WriteFailed, Work, Cut,
                progVars, reader
  <2>2. pc # "off"
    <3>1. CASE Work
      <4>1. call # "none"
        BY <1>1, <3>1, StepSeen DEF Work
      <4> QED BY <1>1, <4>1 DEF Control
    <3>2. CASE ~Work
      BY <1>7, <3>2 DEF Run, Compare, Open, EraseFirst, WriteChunk, Written, CloseAfterErase,
                        FirstPassEnds, Reopen, Rewritten, SourceTooShort, WriteFailed, Cut
    <3> QED BY <3>1, <3>2
  <2>3. result \notin {"ok", "unreadable"}
    BY <1>1, <2>2 DEF Control
  <2>4. result' \notin {"ok", "unreadable"}
    <3>1. CASE pc' # "off"
      BY <1>1, <3>1 DEF Control
    <3>2. CASE pc' = "off" /\ ~Work
      BY <1>7, <2>3, <3>2 DEF Run, Compare, Open, EraseFirst, WriteChunk, Written,
         CloseAfterErase, FirstPassEnds, Reopen, Rewritten, SourceTooShort, WriteFailed, Cut, Goto
    <3>3. CASE Work
      BY <2>3, <3>3 DEF Work, progVars
    <3> QED BY <3>1, <3>2, <3>3
  <2> QED BY <2>1, <2>3, <2>4 DEF Readable
<1> QED BY <1>2, <1>3, <1>4, <1>5, <1>6, <1>7 DEF Next

\* All of it together.
WrittenInv == BlockInv /\ Streaming /\ Programmed /\ Noted /\ RestWritten /\ Readable

LEMMA WrittenKept ==
    /\ Init => WrittenInv
    /\ WrittenInv /\ [Next]_vars => WrittenInv'
<1>1. ASSUME Init PROVE WrittenInv
  <2>1. BlockInv /\ Programmed
    BY <1>1, BlockKept, InitProgrammed DEF Init
  <2>2. pc = "off" /\ result = "none" /\ got = <<>> /\ rbuf = <<>> /\ rfd = 0 /\ prog = "none"
    BY <1>1 DEF Init
  <2>3. ~GaveUp
    BY <1>1 DEF Init, MtdInit, GaveUp, Skipped
  <2> QED BY <2>1, <2>2, <2>3 DEF WrittenInv, Streaming, InPass, Noted, RestWritten, Readable
<1>2. ASSUME WrittenInv, [Next]_vars PROVE WrittenInv'
  <2>1. BlockInv' /\ [MtdNext]_mtdVars
    BY <1>2, BlockKept DEF WrittenInv
  <2>2. Streaming'
    BY <1>2, NextStreams DEF WrittenInv
  <2>3. Programmed'
    BY <1>2, <2>1, NextProgrammed DEF WrittenInv, BlockInv, IInv, Typed
  <2>4. Noted'
    BY <1>2, NotedKept DEF WrittenInv
  <2>5. RestWritten'
    BY <1>2, RestWrittenKept DEF WrittenInv
  <2>6. Readable'
    BY <1>2, <2>1, ReadableKept DEF WrittenInv
  <2> QED BY <2>1, <2>2, <2>3, <2>4, <2>5, <2>6 DEF WrittenInv
<1> QED BY <1>1, <1>2

LEMMA ReadFollows == ASSUME WrittenInv PROVE ReadBack
<1> SUFFICES ASSUME prog \notin MiscPrograms, ~lost, ~GaveUp, ret = "ok"
             PROVE  got = First(image, Len(got)) /\ result # "unreadable"
  BY DEF ReadBack
<1>1. got \in Seq(Int) /\ image \in Seq(Int) /\ Len(got) <= Len(image) /\ Len(got) \in Nat
      /\ Len(image) \in Nat
  BY DEF WrittenInv, BlockInv, ProgInv, ProgTyped
<1>2. CASE result \notin {"ok", "unreadable"}
  <2>1. got = <<>> /\ First(image, 0) = <<>>
    BY <1>1, <1>2 DEF WrittenInv, Readable, First
  <2> QED BY <1>2, <2>1
<1>3. CASE result \in {"ok", "unreadable"}
  <2>1. result = "ok" /\ Holds(image, 0) /\ Reader
    BY <1>3 DEF WrittenInv, Readable
  <2>2. \A u \in 1 .. Len(got) : got[u] = image[u]
    <3> SUFFICES ASSUME NEW u \in 1 .. Len(got) PROVE got[u] = image[u]
      OBVIOUS
    <3>1. u \in 0 + 1 .. Len(image)
      BY <1>1
    <3> QED BY <2>1, <3>1 DEF Reader, Holds
  <2>3. /\ First(image, Len(got)) \in Seq(Int) /\ Len(First(image, Len(got))) = Len(got)
        /\ \A u \in 1 .. Len(got) : First(image, Len(got))[u] = image[u]
    BY <1>1, CutValues
  <2>4. got = First(image, Len(got))
    BY <1>1, <2>2, <2>3, SeqEqual
  <2> QED BY <2>1, <2>4
<1> QED BY <1>2, <1>3

\* A program that reported success can be read back unit by unit, whatever blocks
\* are bad, failed or were retried, and through any sequence of reads
\* (mtdutils.c:299-366 against 399-496).
THEOREM ReadsBack == Spec => []ReadBack
BY WrittenKept, ReadFollows, PTL DEF Spec
-----------------------------------------------------------------------------
(* The header of an image, written last.                                   *)

\* An image is known by its header, and no header looks like a unit that was
\* never written whole.
Distinct == \A i \in Images : i[1] \notin Special /\ \A j \in Images : i[1] = j[1] => i = j

\* Where the first unit is that of an image, its other blocks are in place.
HeaderLast ==
    users = {"flash_image"} /\ ~lost /\ ~GaveUp /\ Total > 0 =>
        \A i \in Images : Stream(1) = i[1] => Holds(i, Units)

LEMMA FirstUnit == ASSUME Total > 0 PROVE 1 \in 1 .. Total * Units
<1>1. Total \in Nat /\ Units \in Nat /\ Units > 0
  BY PlaceType, SizesAssumption
<1>2. Total * Units >= Units /\ Total * Units \in Nat
  BY <1>1
<1> QED BY <1>1, <1>2

LEMMA HeaderOfInit == ASSUME Distinct, Init PROVE HeaderLast
<1> SUFFICES ASSUME Total > 0, NEW i \in Images, Stream(1) = i[1] PROVE FALSE
  BY DEF HeaderLast
<1>1. PICK v \in {Erased, Zero} : flash = [b \in Blocks |-> [u \in 1 .. Units |-> v]]
  BY DEF Init
<1>2. PICK c \in Good, u \in 1 .. Units : Stream(1) = flash[c][u]
  BY FirstUnit, StreamStands
<1>3. Stream(1) = v
  BY <1>1, <1>2 DEF Good
<1> QED BY <1>1, <1>3 DEF Distinct, Special

\* A write of a block of flash_image, or a power cut in one.
LEMMA HeaderOfBlock ==
    ASSUME WrittenInv, HeaderLast, Distinct, users = {"flash_image"}, ~lost, ~GaveUp,
           Total > 0, bad' = bad, phase \in Writing, pos \in Good,
           \A b \in Blocks \ {pos} : flash'[b] = flash[b],
           \A u \in 1 .. Units : flash'[pos][u] \in {Erased, Torn, block[u]},
           NEW i \in Images, Stream(1)' = i[1]
    PROVE  Holds(i, Units)'
<1>1. /\ prog = "flash_image" /\ InPass /\ ret = "ok" /\ call # "none" /\ IInv
      /\ pc \in {"write", "end_first", "rewrite", "end"}
      /\ image \in Images /\ image \in Seq(Int) /\ Source = image
      /\ Units \in Nat /\ Units > 0 /\ off \in Nat
  <2>1. call # "none" /\ pc \notin {"off", "compare", "open", "reopen"}
    BY DEF WrittenInv, BlockInv, ProgInv, Control, Writing
  <2>2. prog = "flash_image"
    BY <2>1 DEF WrittenInv, BlockInv, ProgInv, ProgTyped, Equipped
  <2>3. ret = "ok" /\ pc \in {"write", "end_first", "rewrite", "end"}
    BY <2>1, <2>2 DEF WrittenInv, BlockInv, ProgInv, ProgTyped, Control
  <2>4. image \in Images /\ image \in Seq(Int) /\ Source = image /\ off \in Nat /\ IInv
    BY <2>2 DEF WrittenInv, BlockInv, ProgInv, ProgTyped, Equipped, Source, MiscPrograms
  <2> QED BY <2>1, <2>2, <2>3, <2>4, SizesAssumption DEF InPass
<1>2. Logged /\ Moving
  BY <1>1 DEF WrittenInv, Streaming
<1>3. Len(log) \in Nat /\ Base \in Nat /\ Base = Len(log) * Units /\ Place(pos) = Len(log)
  <2>1. Len(log) \in Nat /\ Base \in Nat
    BY <1>1, BaseType DEF IInv, Typed
  <2> QED BY <1>2, <2>1 DEF Moving, Base
<1>4. i[1] \notin Special
  BY DEF Distinct
<1>5. 1 \in 1 .. Units /\ 1 \in 1 .. Total * Units
  BY <1>1, FirstUnit
<1>6. FirstPass => Script[1] = Zero
  BY DEF Script, Header
<1>7. CASE Place(pos) = 0
  <2>1. PICK p \in Good, k \in 1 .. Units : p = pos /\ k = 1
    BY <1>5
  <2>2. Stream(k)' = flash'[p][k]
    BY <1>7, <2>1, InFirstBlock
  <2>3. i[1] \in {Erased, Torn, block[1]}
    BY <1>5, <2>1, <2>2
  <2>4. Base + 1 = 1
    BY <1>1, <1>3, <1>7
  <2>5. block[1] = Script[1]
    BY <1>2, <1>5, <2>4 DEF Moving
  <2>6. i[1] = Script[1] /\ ~FirstPass
    BY <1>4, <1>6, <2>3, <2>5 DEF Special
  <2>7. Len(image) \in Nat /\ Len(image) > 0
    BY <1>1, ImagesAssumption
  <2>8. Script[1] = image[1]
    BY <1>1, <2>6, <2>7 DEF Script
  <2>9. i = image
    BY <1>1, <2>6, <2>8 DEF Distinct
  <2>10. pc \in {"rewrite", "end"}
    BY <1>1, <2>6 DEF FirstPass
  <2>11. Holds(i, Units)
    BY <1>1, <2>9, <2>10 DEF WrittenInv, RestWritten
  <2>12. i \in Seq(Int)
    BY ImagesAssumption
  <2> QED BY <1>7, <2>1, <2>11, <2>12, RestStays
<1>8. CASE Place(pos) # 0
  <2>1. PICK p \in Good, x \in 1 .. Total * Units : p = pos /\ x = 1
    BY <1>5
  <2>2. Stream(x)' = Stream(x)
    BY <1>1, <1>8, <2>1, BehindFirst
  <2>3. ~(off <= Units)
    BY <1>1, <1>8, OneBlock DEF WrittenInv
  <2>4. FirstPass
    BY <1>1, <2>3 DEF FirstPass, WrittenInv, BlockInv, ProgInv, Control
  <2>5. 1 \in 1 .. Base
    <3>1. Len(log) > 0 /\ Len(log) * Units >= Units
      BY <1>1, <1>3, <1>8
    <3> QED BY <1>1, <1>3, <3>1
  <2>6. Stream(1) = Zero
    BY <1>1, <1>2, <1>6, <2>4, <2>5, LoggedStream
  <2>7. i[1] = Zero
    BY <2>1, <2>2, <2>6
  <2> QED BY <1>4, <2>7 DEF Special
<1> QED BY <1>7, <1>8

LEMMA HeaderKept ==
    ASSUME Distinct, WrittenInv, HeaderLast, [Next]_vars
    PROVE  HeaderLast'
<1> SUFFICES ASSUME users' = {"flash_image"}, ~lost', ~GaveUp', (Total > 0)',
                    NEW i \in Images, Stream(1)' = i[1]
             PROVE  Holds(i, Units)'
  BY DEF HeaderLast
<1>1. /\ MtdTypeOK /\ ProgTyped /\ Control /\ users' = users /\ bad' = bad
      /\ i \in Seq(Int) /\ Units \in Nat
  <2>1. MtdTypeOK /\ ProgTyped /\ Control
    BY DEF WrittenInv, BlockInv, IInv, Typed, ProgInv
  <2>2. users' = users
    BY DEF Next, Run, Start, StartMisc, Compare, Open, EraseFirst, WriteChunk, Written,
           CloseAfterErase, FirstPassEnds, Reopen, Rewritten, SourceTooShort, WriteFailed,
           Finished, Work, ReadMore, Cut, progVars, vars
  <2>3. [MtdNext]_mtdVars
    BY BlockKept DEF WrittenInv
  <2>4. bad' = bad
    BY <2>3 DEF mtdVars, MtdNext, OpenWrite, CallWrite, CallErase, CallClose, Abandon, MtdStep,
       Coalesce, WriteDirectly, WriteReturns, Pad, EraseRest, Close, CheckBad, OutOfSpace,
       Erase, Program, Verify, GiveUp, Wipe, PowerCut
  <2> QED BY <2>1, <2>2, <2>4, ImagesAssumption, SizesAssumption
<1>2. Total > 0
  BY <1>1, TotalStays
<1>3. ASSUME flash' = flash, ~lost, ~GaveUp PROVE Holds(i, Units)'
  <2>1. PICK x \in 1 .. Total * Units : x = 1
    BY <1>2, FirstUnit
  <2>2. Stream(x)' = Stream(x)
    BY <1>1, <1>3, StreamStays
  <2>3. Holds(i, Units)
    BY <1>1, <1>2, <1>3, <2>1, <2>2 DEF HeaderLast
  <2> QED BY <1>1, <1>3, <2>3, HoldsStays
<1>4. CASE UNCHANGED vars
  <2>1. flash' = flash /\ ~lost /\ UNCHANGED <<skipped, bad>>
    BY <1>4 DEF vars, mtdVars, progVars
  <2> QED BY <1>3, <2>1, GaveUpStays
<1>5. CASE \E p \in Programs, j \in Images : Start(p, j)
  <2>1. PICK p \in Programs, j \in Images : Start(p, j)
    BY <1>5
  <2>2. UNCHANGED mtdVars /\ p = "flash_image"
    BY <1>1, <2>1 DEF Start
  <2>3. ~lost
    BY <2>1, <2>2 DEF Start
  <2> QED BY <1>3, <2>2, <2>3, GaveUpStays DEF mtdVars
<1>6. CASE \E p \in Programs, v \in MiscValues : StartMisc(p, v)
  BY <1>1, <1>6 DEF StartMisc, MiscPrograms
<1>7. CASE Open \/ Reopen
  <2>1. UNCHANGED <<flash, lost>> /\ pc \in {"open", "reopen"}
    BY <1>7 DEF Open, Reopen, OpenWrite, miscVars
  <2>2. ~GaveUp
    BY <1>1, <2>1 DEF WrittenInv, Noted
  <2> QED BY <1>3, <2>1, <2>2
<1>8. CASE Compare \/ EraseFirst \/ WriteChunk \/ Written \/ CloseAfterErase \/ FirstPassEnds
           \/ Rewritten \/ SourceTooShort \/ WriteFailed \/ Finished \/ ReadMore
  <2>1. UNCHANGED <<flash, skipped, bad>>
    BY <1>8 DEF Compare, EraseFirst, WriteChunk, Written, CloseAfterErase, FirstPassEnds,
       Rewritten, SourceTooShort, WriteFailed, Finished, ReadMore, mtdVars, CallErase,
       CallWrite, CallClose, Abandon
  <2>2. ~lost
    BY <1>8 DEF Compare, EraseFirst, WriteChunk, Written, CloseAfterErase, FirstPassEnds,
       Rewritten, SourceTooShort, WriteFailed, Finished, ReadMore, miscVars
  <2> QED BY <1>3, <2>1, <2>2, GaveUpStays
<1>9. CASE Work \/ Cut
  <2>1. (MtdStep \/ PowerCut) /\ ~lost /\ ~GaveUp
    <3>1. CASE Work
      BY <1>1, <3>1, GaveUpGrows DEF Work, progVars
    <3>2. CASE Cut
      BY <3>2 DEF Cut
    <3> QED BY <1>9, <3>1, <3>2
  <2>2. phase # "wipe"
    <3> SUFFICES ASSUME phase = "wipe" PROVE FALSE
      OBVIOUS
    <3>1. call = "erase" /\ prog \in {"mtd_write", "write_raw_image", "write_to_partition"}
      BY <1>1 DEF Control, ProgTyped
    <3> QED BY <1>1, <3>1 DEF ProgTyped
  <2>3. Programmed
    BY DEF WrittenInv
  <2>4. CASE flash' = flash
    BY <1>3, <2>1, <2>4
  <2>5. CASE /\ phase \in Writing /\ pos \in Good
             /\ \A b \in Blocks \ {pos} : flash'[b] = flash[b]
             /\ \A u \in 1 .. Units : flash'[pos][u] \in {Erased, Torn, block[u]}
    BY <1>1, <1>2, <2>1, <2>5, HeaderOfBlock
  <2> QED BY <1>1, <2>1, <2>2, <2>3, <2>4, <2>5, Touched
<1> QED BY <1>4, <1>5, <1>6, <1>7, <1>8, <1>9 DEF Next, Run
LEMMA HeaderFollows == ASSUME WrittenInv, HeaderLast PROVE HeaderMeansRest
<1> SUFFICES ASSUME NEW i \in Images, users = {"flash_image"}, ~lost, ~GaveUp,
                    ReadFromStart(Header).units = First(i, Header)
             PROVE  LET r == ReadFromStart(Len(i))
                    IN  r.ok /\ Rest(r.units, Units) = Rest(i, Units)
  BY DEF HeaderMeansRest
<1>1. /\ i \in Seq(Int) /\ Len(i) \in Nat /\ Len(i) > 0 /\ Header \in Nat /\ Header = 1
      /\ flash \in [Blocks -> [1 .. Units -> Int]]
      /\ Units \in Nat /\ Units > 0 /\ Total \in Nat /\ Total * Units \in Nat
  <2>1. flash \in [Blocks -> [1 .. Units -> Int]]
    BY DEF WrittenInv, BlockInv, IInv, Typed, MtdTypeOK
  <2>2. Units \in Nat /\ Units > 0 /\ Total \in Nat
    BY SizesAssumption, PlaceType
  <2>3. Total * Units \in Nat
    BY <2>2
  <2>4. i \in Seq(Int) /\ Len(i) \in Nat /\ Len(i) > 0
    BY ImagesAssumption
  <2> QED BY <2>1, <2>2, <2>3, <2>4 DEF Header
<1>2. First(i, Header) \in Seq(Int) /\ Len(First(i, Header)) = 1 /\ First(i, Header)[1] = i[1]
  <2>1. Header <= Len(i) /\ 1 \in 1 .. Header
    BY <1>1
  <2>2. /\ First(i, Header) \in Seq(Int) /\ Len(First(i, Header)) = Header
        /\ \A x \in 1 .. Header : First(i, Header)[x] = i[x]
    BY <1>1, <2>1, CutValues
  <2> QED BY <1>1, <2>1, <2>2
<1>3. Total > 0 /\ Stream(1) = i[1]
  <2> DEFINE r == ReadFromStart(Header)
  <2>1. IF Header <= Total * Units
        THEN r.ok /\ r.units \in Seq(Int) /\ Len(r.units) = Header
             /\ \A x \in 1 .. Header : r.units[x] = Stream(x)
        ELSE ~r.ok /\ r.units = <<>>
    BY <1>1, FromStart
  <2>2. Len(r.units) = 1 /\ Len(<<>>) = 0
    BY <1>2
  <2> HIDE DEF r
  <2>3. Header <= Total * Units
    BY <2>1, <2>2
  <2>4. Total # 0
    BY <1>1, <2>3
  <2>5. 1 \in 1 .. Header
    BY <1>1
  <2>6. r.units[1] = Stream(1)
    BY <2>1, <2>3, <2>5
  <2>7. r.units[1] = i[1]
    BY <1>2 DEF r
  <2> QED BY <1>1, <2>4, <2>6, <2>7
<1>4. Holds(i, Units)
  BY <1>3 DEF HeaderLast
<1> DEFINE r == ReadFromStart(Len(i))
<1>5. /\ r.ok /\ r.units \in Seq(Int) /\ Len(r.units) = Len(i)
      /\ \A x \in 1 .. Len(i) : r.units[x] = Stream(x)
  BY <1>1, <1>4, FromStart DEF Holds
<1> HIDE DEF r
<1>6. PICK t \in Seq(Int) : t = r.units
  BY <1>5
<1>7. Rest(t, Units) = Rest(i, Units)
  <2>1. CASE Units <= Len(i)
    <3>1. /\ Rest(i, Units) \in Seq(Int) /\ Len(Rest(i, Units)) = Len(i) - Units
          /\ \A x \in 1 .. Len(i) - Units : Rest(i, Units)[x] = i[Units + x]
      BY <1>1, <2>1, CutValues
    <3>2. /\ Rest(t, Units) \in Seq(Int) /\ Len(Rest(t, Units)) = Len(t) - Units
          /\ \A x \in 1 .. Len(t) - Units : Rest(t, Units)[x] = t[Units + x]
      <4>1. Units <= Len(t)
        BY <1>5, <1>6, <2>1
      <4> QED BY <1>1, <4>1, CutValues
    <3>3. \A x \in 1 .. Len(i) - Units : t[Units + x] = i[Units + x]
      <4> SUFFICES ASSUME NEW x \in 1 .. Len(i) - Units
                   PROVE  t[Units + x] = i[Units + x]
        OBVIOUS
      <4>1. Units + x \in 1 .. Len(i) /\ Units + x \in Units + 1 .. Len(i)
        BY <1>1
      <4> QED BY <1>4, <1>5, <1>6, <4>1 DEF Holds
    <3>4. Len(t) = Len(i)
      BY <1>5, <1>6
    <3>5. \A x \in 1 .. Len(Rest(t, Units)) : Rest(t, Units)[x] = Rest(i, Units)[x]
      BY <3>1, <3>2, <3>3, <3>4
    <3>6. Len(Rest(t, Units)) = Len(Rest(i, Units))
      BY <3>1, <3>2, <3>4
    <3> QED BY <3>1, <3>2, <3>5, <3>6, SeqEqual
  <2>2. CASE Len(i) < Units
    <3>1. Len(t) = Len(i) /\ Units + 1 \in Int /\ Len(i) < Units + 1 /\ Len(i) \in Int
      BY <1>1, <1>5, <1>6, <2>2
    <3>2. Rest(i, Units) = <<>> /\ Rest(t, Units) = <<>>
      BY <3>1, SubSeqEmpty DEF Rest
    <3> QED BY <3>2
  <2> QED BY <1>1, <2>1, <2>2
<1> QED BY <1>5, <1>6, <1>7 DEF r

\* An image whose header is in place is in place altogether, at every moment and
\* after any cut or failure, so that comparing the header is enough
\* (flash_image.c:94-138); it takes that two images differ in their headers.
THEOREM HeaderIsLast == Distinct => (Spec => []HeaderMeansRest)
<1> SUFFICES ASSUME Distinct PROVE Spec => []HeaderMeansRest
  OBVIOUS
<1> DEFINE HeaderInv == WrittenInv /\ HeaderLast
<1>1. Init => HeaderInv
  BY WrittenKept, HeaderOfInit
<1>2. HeaderInv /\ [Next]_vars => HeaderInv'
  BY WrittenKept, HeaderKept
<1>3. HeaderInv => HeaderMeansRest
  BY HeaderFollows
<1> HIDE DEF HeaderInv
<1> QED BY <1>1, <1>2, <1>3, PTL DEF Spec
-----------------------------------------------------------------------------
(* The fields of misc, rewritten together.                                 *)

\* The pages of misc lie in one erase block.
OneMiscBlock == Units >= Pages

\* A field, as a reader finds it.
FieldStands(f) ==
    LET c == Stream(UnitOf[f])
    IN  \/ c \in {want[f], Given[f]}
        \/ hurt /\ c \in Special
        \/ pc # "off" /\ c \in {Erased, Torn}

\* A field, as the program in work is about to write it.
FieldRead(f) == misc[UnitOf[f]] = Given[f] \/ (hurt /\ misc[UnitOf[f]] \in Special)

FieldsKept ==
    users \cap MiscPrograms # {} /\ ~lost /\ ~GaveUp /\ Total > 0 =>
        /\ ret = "ok"
        /\ \A f \in Fields : FieldStands(f) /\ (pc # "off" => FieldRead(f))

LEMMA FieldUnit ==
    ASSUME OneMiscBlock, Total > 0, NEW f \in Fields
    PROVE  UnitOf[f] \in 1 .. Units /\ UnitOf[f] \in 1 .. Total * Units
           /\ UnitOf[f] \in 1 .. Pages
<1>1. Total \in Nat /\ Units \in Nat /\ Units > 0
  BY PlaceType, SizesAssumption
<1>2. Total * Units >= Units /\ Total * Units \in Nat
  BY <1>1
<1>3. UnitOf[f] \in 1 .. 2
  BY DEF UnitOf, Fields
<1>4. Pages = 2 /\ Units >= 2
  BY DEF OneMiscBlock, Pages
<1> QED BY <1>1, <1>2, <1>3, <1>4

LEMMA FieldsOfInit == ASSUME OneMiscBlock, Init PROVE FieldsKept
<1>a. pc = "off"
  BY DEF Init
<1> SUFFICES ASSUME Total > 0, NEW f \in Fields PROVE ret = "ok" /\ Stream(UnitOf[f]) = want[f]
  <2>1. ret = "ok"
    BY DEF Init, MtdInit
  <2> QED BY <1>a, <2>1 DEF FieldsKept, FieldStands
<1>1. flash \in [Blocks -> [1 .. Units -> Int]] /\ ret = "ok"
  BY DEF Init, MtdInit
<1>2. Pages \in Nat /\ Pages <= Total * Units
  <2>1. Total \in Nat /\ Units \in Nat /\ Units >= Pages /\ Pages \in Nat
    BY PlaceType, SizesAssumption DEF OneMiscBlock, Pages
  <2>2. Total * Units >= Units /\ Total * Units \in Nat
    BY <2>1
  <2> QED BY <2>1, <2>2
<1>3. UnitOf[f] \in 1 .. Pages
  BY FieldUnit
<1>4. /\ ReadFromStart(Pages).ok
      /\ \A u \in 1 .. Pages : ReadFromStart(Pages).units[u] = Stream(u)
  BY <1>1, <1>2, FromStart
<1>5. want[f] = ReadFromStart(Pages).units[UnitOf[f]]
  BY <1>4 DEF Init
<1> QED BY <1>1, <1>3, <1>4, <1>5

\* What is in misc when a rewrite begins is what its fields were given.
LEMMA FieldsOfStart ==
    ASSUME OneMiscBlock, WrittenInv, FieldsKept, users \cap MiscPrograms # {},
           ~lost, ~GaveUp, Total > 0,
           NEW p \in Programs, NEW v \in MiscValues, StartMisc(p, v)
    PROVE  (ret = "ok" /\ \A f \in Fields : FieldStands(f) /\ FieldRead(f))'
<1> DEFINE r == ReadFromStart(Pages)
<1>1. /\ pc = "off" /\ p \in MiscPrograms /\ r.ok
      /\ misc' = [r.units EXCEPT ![UnitOf[FieldOf[p]]] = v]
      /\ want' = [f \in Fields |-> IF r.units[UnitOf[f]] = Given[f] THEN Given[f] ELSE want[f]]
      /\ prog' = p /\ image' = <<v>> /\ pc' = "open" /\ UNCHANGED mtdVars /\ hurt' = hurt
  BY DEF StartMisc, Goto, miscVars
<1>2. /\ flash \in [Blocks -> [1 .. Units -> Int]] /\ Pages \in Nat
      /\ ret = "ok" /\ \A f \in Fields : FieldStands(f)
  BY DEF WrittenInv, BlockInv, IInv, Typed, MtdTypeOK, FieldsKept, Pages
<1>3. /\ r.units \in Seq(Int) /\ Len(r.units) = Pages
      /\ \A u \in 1 .. Pages : r.units[u] = Stream(u)
  BY <1>1, <1>2, FromStart
<1> HIDE DEF r
<1>4. FieldOf[p] \in Fields /\ UnitOf[FieldOf[p]] \in 1 .. Pages
  <2>1. FieldOf[p] \in Fields
    BY <1>1 DEF FieldOf, Fields, MiscPrograms
  <2> QED BY <2>1, FieldUnit
<1>5. Given' = [want' EXCEPT ![FieldOf[p]] = v]
  BY <1>1 DEF Given
<1>6. ASSUME NEW f \in Fields PROVE FieldStands(f)' /\ FieldRead(f)'
  <2> DEFINE c == Stream(UnitOf[f])
  <2>1. UnitOf[f] \in 1 .. Pages /\ UnitOf[f] \in 1 .. Total * Units
    BY FieldUnit
  <2>2. r.units[UnitOf[f]] = c
    BY <1>3, <2>1
  <2>3. c' = c
    BY <1>1 DEF Stream, UnitFrom, Nth, GoodFrom, mtdVars
  <2>4. c \in {want[f], Given[f]} \/ (hurt /\ c \in Special)
    BY <1>1, <1>2 DEF FieldStands
  <2> HIDE DEF c
  <2>5. want'[f] = IF c = Given[f] THEN Given[f] ELSE want[f]
    BY <1>1, <2>2
  <2>6. c = want'[f] \/ (hurt /\ c \in Special)
    BY <2>4, <2>5
  <2>7. FieldStands(f)'
    BY <1>1, <2>3, <2>6 DEF FieldStands, c, Special
  <2>8. FieldRead(f)'
    <3>1. CASE f = FieldOf[p]
      <4>1. misc'[UnitOf[f]] = v
        BY <1>1, <1>3, <1>4, <3>1
      <4>2. Given'[f] = v
        BY <1>1, <1>5, <3>1
      <4> QED BY <4>1, <4>2 DEF FieldRead
    <3>2. CASE f # FieldOf[p]
      <4>1. UnitOf[f] # UnitOf[FieldOf[p]]
        BY <1>4, <3>2 DEF UnitOf, Fields
      <4>2. misc'[UnitOf[f]] = c
        BY <1>1, <1>3, <2>1, <2>2, <4>1
      <4>3. Given'[f] = want'[f]
        BY <1>1, <1>5, <3>2
      <4> QED BY <1>1, <2>6, <4>2, <4>3 DEF FieldRead, Special
    <3> QED BY <3>1, <3>2
  <2> QED BY <2>7, <2>8
<1>7. ret' = "ok"
  BY <1>1, <1>2 DEF mtdVars
<1> QED BY <1>6, <1>7
\* A rewrite in work: it is in its only pass and has read every field.
Rewriting == prog \in MiscPrograms /\ pc \in {"write", "end"} /\ call # "none"

LEMMA RewriteSeen ==
    ASSUME WrittenInv, users \cap MiscPrograms # {}
    PROVE  /\ users \subseteq MiscPrograms
           /\ call # "none" => Rewriting
           /\ pc # "off" => prog \in MiscPrograms /\ pc \in {"open", "write", "end"}
           /\ phase = "wipe" => FALSE
<1>1. /\ ProgTyped /\ Control /\ Equipped
  BY DEF WrittenInv, BlockInv, ProgInv
<1>2. users \subseteq MiscPrograms
  BY <1>1, OneOwner
<1>3. pc # "off" => prog \in MiscPrograms
  BY <1>1, <1>2 DEF ProgTyped, Equipped
<1>4. pc # "off" => pc \in {"open", "write", "end"}
  BY <1>1, <1>3 DEF ProgTyped, Control, MiscPrograms
<1>5. call # "none" => pc \in {"write", "end"}
  BY <1>1, <1>4 DEF Control
<1>6. phase = "wipe" => FALSE
  <2> SUFFICES ASSUME phase = "wipe" PROVE FALSE
    OBVIOUS
  <2>1. call = "erase" /\ pc \in {"write", "end"}
    BY <1>1, <1>5 DEF Control
  <2> QED BY <1>1, <1>3, <2>1 DEF Control, MiscPrograms
<1> QED BY <1>2, <1>3, <1>4, <1>5, <1>6 DEF Rewriting

\* What it writes goes to the first block that is not bad.
LEMMA RewriteFirst ==
    ASSUME WrittenInv, OneMiscBlock, Rewriting, ~GaveUp, ret = "ok", phase \in Writing
    PROVE  /\ Place(pos) = 0
           /\ \A f \in Fields : block[UnitOf[f]] = misc[UnitOf[f]]
<1>1. /\ BlockInv /\ Streaming /\ InPass /\ off <= Units /\ ~FirstPass /\ Source = misc
      /\ Len(misc) = Pages /\ Units \in Nat /\ Units > 0 /\ IInv
  <2>1. off \in {0, Pages} /\ Len(misc) = Pages
    BY DEF Rewriting, WrittenInv, BlockInv, ProgInv, Equipped
  <2>2. off <= Units
    BY <2>1, SizesAssumption DEF OneMiscBlock, Pages
  <2> QED BY <2>1, <2>2, SizesAssumption
      DEF Rewriting, WrittenInv, BlockInv, InPass, FirstPass, Source, MiscPrograms
<1>2. Place(pos) = 0
  BY <1>1, OneBlock
<1>3. Moving
  BY <1>1 DEF Streaming
<1>4. Len(log) = 0 /\ Base = 0
  <2>1. Len(log) = 0
    BY <1>2, <1>3 DEF Moving
  <2> QED BY <1>1, <2>1 DEF Base
<1>5. ASSUME NEW f \in Fields PROVE block[UnitOf[f]] = misc[UnitOf[f]]
  <2>1. UnitOf[f] \in 1 .. Pages /\ UnitOf[f] \in 1 .. Units /\ Base + UnitOf[f] = UnitOf[f]
    <3>1. UnitOf[f] \in 1 .. 2
      BY DEF UnitOf, Fields
    <3>2. Units >= 2 /\ Pages = 2
      BY DEF OneMiscBlock, Pages
    <3> QED BY <1>1, <1>4, <3>1, <3>2
  <2>2. block[UnitOf[f]] = Script[UnitOf[f]]
    BY <1>3, <2>1 DEF Moving
  <2>3. UnitOf[f] \in Nat /\ UnitOf[f] \in 1 .. Len(Source)
    BY <1>1, <2>1
  <2>4. Script[UnitOf[f]] = misc[UnitOf[f]]
    BY <1>1, <2>3 DEF Script
  <2> QED BY <2>2, <2>4
<1> QED BY <1>2, <1>5

\* A write of its block, or a power cut in one.
LEMMA FieldsOfBlock ==
    ASSUME WrittenInv, OneMiscBlock, Rewriting, ~GaveUp, Total > 0, bad' = bad,
           ret = "ok", \A f \in Fields : FieldStands(f) /\ FieldRead(f),
           UNCHANGED <<prog, image, want, misc>>,
           \/ pc' = pc /\ hurt' = hurt
           \/ hurt' = TRUE,
           phase \in Writing, pos \in Good,
           \A b \in Blocks \ {pos} : flash'[b] = flash[b],
           \A u \in 1 .. Units : flash'[pos][u] \in {Erased, Torn, block[u]},
           NEW f \in Fields
    PROVE  FieldStands(f)'
<1>1. Place(pos) = 0 /\ block[UnitOf[f]] = misc[UnitOf[f]]
  BY RewriteFirst
<1>2. PICK p \in Good, u \in 1 .. Units : p = pos /\ u = UnitOf[f]
  BY FieldUnit
<1>3. Stream(u)' = flash'[p][u]
  BY <1>1, <1>2, InFirstBlock
<1>4. Stream(u)' \in {Erased, Torn, misc[u]}
  BY <1>1, <1>2, <1>3
<1>5. misc[u] = Given[f] \/ (hurt /\ misc[u] \in Special)
  BY <1>2 DEF FieldRead
<1>6. Given' = Given /\ UnitOf[f]' = u
  BY <1>2 DEF Given
<1>7. pc # "off"
  BY DEF Rewriting
<1> DEFINE c == Stream(u)'
<1>8. c \in {Erased, Torn} \/ c = Given[f] \/ (hurt /\ c \in Special)
  BY <1>4, <1>5
<1> HIDE DEF c
<1>9. \/ c \in {want'[f], Given'[f]} \/ (hurt' /\ c \in Special)
      \/ (pc' # "off" /\ c \in {Erased, Torn})
  BY <1>6, <1>7, <1>8 DEF Special
<1>10. (Stream(UnitOf[f]))' = c
  BY <1>2 DEF c, Stream, UnitFrom
<1> QED BY <1>9, <1>10 DEF FieldStands
\* A rewrite that is closed has put every field where a reader finds it.
LEMMA FieldsOfFinished ==
    ASSUME WrittenInv, OneMiscBlock, users \cap MiscPrograms # {}, ~GaveUp, ret = "ok",
           \A f \in Fields : FieldRead(f), Finished
    PROVE  \A f \in Fields : FieldStands(f)'
<1>1. /\ pc = "end" /\ phase = "closed" /\ prog \in MiscPrograms
      /\ BlockInv /\ Streaming /\ ProgTyped /\ Equipped /\ Control
  BY RewriteSeen DEF Finished, WrittenInv, BlockInv, ProgInv
<1>2. /\ off = Pages /\ Source = misc /\ Len(misc) = Pages /\ InPass /\ ~FirstPass
      /\ result = "none"
  BY <1>1 DEF Control, Equipped, Source, InPass, FirstPass, MiscPrograms
<1>3. /\ want' = Given /\ hurt' = hurt /\ UNCHANGED mtdVars /\ UNCHANGED <<prog, image>>
  <2>1. result' = "ok"
    BY <1>2 DEF Finished
  <2>2. hurt' = hurt
    BY <1>1, <2>1 DEF Finished, ProgTyped
  <2> QED BY <2>1, <2>2 DEF Finished
<1>4. ASSUME NEW f \in Fields PROVE FieldStands(f)'
  <2>1. UnitOf[f] \in 1 .. off /\ UnitOf[f] \in 1 .. Len(Source) /\ UnitOf[f] \in Nat
    <3>1. UnitOf[f] \in 1 .. 2 /\ Pages = 2
      BY DEF UnitOf, Fields, Pages
    <3> QED BY <1>2, <3>1
  <2>2. Stream(UnitOf[f]) = Script[UnitOf[f]]
    BY <1>1, <1>2, <2>1, Delivered
  <2>3. Script[UnitOf[f]] = misc[UnitOf[f]]
    BY <1>2, <2>1 DEF Script
  <2> DEFINE c == Stream(UnitOf[f])
  <2>4. c' = c
    BY <1>3 DEF Stream, UnitFrom, Nth, GoodFrom, mtdVars
  <2>5. c = Given[f] \/ (hurt /\ c \in Special)
    BY <2>2, <2>3 DEF FieldRead
  <2> HIDE DEF c
  <2> QED BY <1>3, <2>4, <2>5 DEF FieldStands, c
<1> QED BY <1>4

LEMMA FieldsStay ==
    ASSUME OneMiscBlock, WrittenInv, FieldsKept, [Next]_vars
    PROVE  FieldsKept'
<1> SUFFICES ASSUME (users \cap MiscPrograms)' # {}, ~lost', ~GaveUp', (Total > 0)'
             PROVE  (/\ ret = "ok"
                     /\ \A f \in Fields : FieldStands(f) /\ (pc # "off" => FieldRead(f)))'
  BY DEF FieldsKept
<1>1. /\ MtdTypeOK /\ ProgTyped /\ Control /\ Equipped /\ users' = users /\ bad' = bad
      /\ users \cap MiscPrograms # {} /\ (users \cap MiscPrograms)' = users' \cap MiscPrograms
  <2>1. MtdTypeOK /\ ProgTyped /\ Control /\ Equipped
    BY DEF WrittenInv, BlockInv, IInv, Typed, ProgInv
  <2>2. users' = users
    BY DEF Next, Run, Start, StartMisc, Compare, Open, EraseFirst, WriteChunk, Written,
           CloseAfterErase, FirstPassEnds, Reopen, Rewritten, SourceTooShort, WriteFailed,
           Finished, Work, ReadMore, Cut, progVars, vars
  <2>3. [MtdNext]_mtdVars
    BY BlockKept DEF WrittenInv
  <2>4. bad' = bad
    BY <2>3 DEF mtdVars, MtdNext, OpenWrite, CallWrite, CallErase, CallClose, Abandon, MtdStep,
       Coalesce, WriteDirectly, WriteReturns, Pad, EraseRest, Close, CheckBad, OutOfSpace,
       Erase, Program, Verify, GiveUp, Wipe, PowerCut
  <2>5. (users \cap MiscPrograms)' = users' \cap MiscPrograms
    OBVIOUS
  <2> QED BY <2>1, <2>2, <2>4, <2>5
<1>2. /\ Total > 0 /\ users \subseteq MiscPrograms
      /\ call # "none" => Rewriting
      /\ pc # "off" => prog \in MiscPrograms /\ pc \in {"open", "write", "end"}
      /\ phase # "wipe"
  BY <1>1, TotalStays, RewriteSeen
<1>3. ASSUME ~lost, ~GaveUp
      PROVE  ret = "ok" /\ \A f \in Fields : FieldStands(f) /\ (pc # "off" => FieldRead(f))
  BY <1>1, <1>2, <1>3 DEF FieldsKept
<1>4. ASSUME UNCHANGED <<flash, prog, image, want, misc, hurt>>, ~lost, ~GaveUp,
             pc' = "off" <=> pc = "off", ret' \in {ret, "ok"}
      PROVE  (/\ ret = "ok"
              /\ \A f \in Fields : FieldStands(f) /\ (pc # "off" => FieldRead(f)))'
  <2>1. Given' = Given
    BY <1>4 DEF Given
  <2>2. ASSUME NEW f \in Fields PROVE FieldStands(f)' /\ (pc' # "off" => FieldRead(f)')
    <3>1. (Stream(UnitOf[f]))' = Stream(UnitOf[f])
      BY <1>1, <1>4 DEF Stream, UnitFrom, Nth, GoodFrom
    <3>2. FieldStands(f) /\ (pc # "off" => FieldRead(f))
      BY <1>3, <1>4
    <3>3. FieldStands(f)'
      BY <1>4, <2>1, <3>1, <3>2 DEF FieldStands
    <3>4. pc' # "off" => FieldRead(f)'
      BY <1>4, <2>1, <3>2 DEF FieldRead
    <3> QED BY <3>3, <3>4
  <2> QED BY <1>3, <1>4, <2>2
<1>5. CASE UNCHANGED vars
  <2>1. /\ UNCHANGED <<flash, prog, image, want, misc, hurt, pc, ret>>
        /\ UNCHANGED <<skipped, bad, lost>>
    BY <1>5 DEF vars, mtdVars, progVars
  <2> QED BY <1>4, <2>1, GaveUpStays
<1>6. CASE \E p \in Programs, v \in MiscValues : StartMisc(p, v)
  <2>1. PICK p \in Programs, v \in MiscValues : StartMisc(p, v)
    BY <1>6
  <2>2. ~lost /\ ~GaveUp
    BY <2>1, GaveUpStays DEF StartMisc, mtdVars
  <2> QED BY <1>1, <1>2, <2>1, <2>2, FieldsOfStart
<1>7. CASE Open
  <2>1. /\ UNCHANGED <<flash, prog, image, want, misc, hurt, lost>> /\ ret' = "ok"
        /\ pc = "open" /\ pc' # "off"
    BY <1>7 DEF Open, OpenWrite, miscVars, Goto
  <2>2. ~GaveUp
    BY <1>2, <2>1 DEF WrittenInv, Noted
  <2> QED BY <1>4, <2>1, <2>2
<1>8. CASE WriteChunk \/ Written
  <2>1. /\ UNCHANGED <<flash, prog, image, want, misc, hurt, lost, ret>>
        /\ UNCHANGED <<skipped, bad>> /\ pc # "off" /\ pc' # "off"
    BY <1>8 DEF WriteChunk, Written, CallWrite, CallClose, CallErase, miscVars, Goto
  <2> QED BY <1>4, <2>1, GaveUpStays
<1>9. CASE Finished
  <2>1. ~lost /\ ~GaveUp /\ pc = "end" /\ pc' = "off" /\ ret' = ret
    BY <1>9, GaveUpStays DEF Finished, Goto, mtdVars
  <2>2. ret = "ok" /\ \A f \in Fields : FieldRead(f)
    BY <1>3, <2>1
  <2> QED BY <1>1, <1>9, <2>1, <2>2, FieldsOfFinished
<1>10. CASE WriteFailed
  <2>1. ~lost /\ ~GaveUp /\ ret = "fail"
    BY <1>10, GaveUpStays DEF WriteFailed, CallErase, CallClose, Abandon
  <2> QED BY <1>3, <2>1
<1>11. CASE Work
  <2>1. ~lost /\ ~GaveUp /\ MtdStep /\ UNCHANGED <<prog, image, want, misc, hurt, pc>>
    BY <1>1, <1>11, GaveUpGrows DEF Work, progVars
  <2>2. /\ ret = "ok" /\ \A f \in Fields : FieldStands(f) /\ (pc # "off" => FieldRead(f))
    BY <1>3, <2>1
  <2>3. Rewriting
    BY <1>1, <1>2, <2>1, StepSeen
  <2>4. ret' = ret
    <3>1. CASE OutOfSpace
      <4>1. phase \in Writing /\ pos = NBlocks
        BY <1>1, <3>1, SizesAssumption DEF OutOfSpace, Writing, MtdTypeOK
      <4>2. Place(pos) = 0
        BY <2>1, <2>2, <2>3, <4>1, RewriteFirst
      <4>3. Place(NBlocks) = Total
        BY PlaceType
      <4> QED BY <1>2, <4>1, <4>2, <4>3
    <3>2. CASE ~OutOfSpace
      BY <2>1, <3>2 DEF MtdStep, Coalesce, WriteDirectly, WriteReturns, Pad, EraseRest, Close,
         CheckBad, Erase, Program, Verify, GiveUp, Wipe
    <3> QED BY <3>1, <3>2
  <2>5. CASE flash' = flash
    BY <1>4, <2>1, <2>4, <2>5
  <2>6. CASE /\ phase \in Writing /\ pos \in Good
             /\ \A b \in Blocks \ {pos} : flash'[b] = flash[b]
             /\ \A u \in 1 .. Units : flash'[pos][u] \in {Erased, Torn, block[u]}
    <3>1. \A f \in Fields : FieldStands(f) /\ FieldRead(f)
      BY <2>2, <2>3 DEF Rewriting
    <3>2. \A f \in Fields : FieldStands(f)'
      BY <1>1, <1>2, <2>1, <2>2, <2>3, <2>6, <3>1, FieldsOfBlock
    <3>3. Given' = Given
      BY <2>1 DEF Given
    <3>4. \A f \in Fields : FieldRead(f)'
      BY <2>1, <3>1, <3>3 DEF FieldRead
    <3> QED BY <2>2, <2>4, <3>2, <3>4
  <2>7. Programmed
    BY DEF WrittenInv
  <2> QED BY <1>1, <1>2, <2>1, <2>5, <2>6, <2>7, Touched
<1>12. CASE Cut
  <2>1. /\ ~lost /\ ~GaveUp /\ PowerCut /\ UNCHANGED <<prog, image, want, misc>>
        /\ pc' = "off" /\ ret' = "ok" /\ pc # "off"
        /\ hurt' = TRUE
    BY <1>2, <1>12 DEF Cut, PowerCut, Goto
  <2>2. ret = "ok" /\ \A f \in Fields : FieldStands(f) /\ FieldRead(f)
    BY <1>3, <2>1
  <2>3. Given' = Given
    BY <2>1 DEF Given
  <2>4. CASE flash' = flash
    <3>1. ASSUME NEW f \in Fields PROVE FieldStands(f)'
      <4>1. (Stream(UnitOf[f]))' = Stream(UnitOf[f])
        BY <1>1, <2>4 DEF Stream, UnitFrom, Nth, GoodFrom
      <4>2. FieldStands(f)
        BY <2>2
      <4> QED BY <2>1, <2>3, <4>1, <4>2 DEF FieldStands, Special
    <3> QED BY <2>1, <3>1
  <2>5. CASE /\ phase \in Writing /\ pos \in Good
             /\ \A b \in Blocks \ {pos} : flash'[b] = flash[b]
             /\ \A u \in 1 .. Units : flash'[pos][u] \in {Erased, Torn, block[u]}
    <3>1. Rewriting
      BY <1>1, <1>2, <2>5 DEF Control
    <3>2. \A f \in Fields : FieldStands(f)'
      BY <1>1, <1>2, <2>1, <2>2, <2>5, <3>1, FieldsOfBlock
    <3> QED BY <2>1, <3>2
  <2>6. Programmed
    BY DEF WrittenInv
  <2> QED BY <1>1, <1>2, <2>1, <2>4, <2>5, <2>6, Touched
<1>13. CASE \/ \E p \in Programs, i \in Images : Start(p, i)
            \/ ReadMore \/ Compare \/ EraseFirst \/ CloseAfterErase \/ FirstPassEnds
            \/ Reopen \/ Rewritten \/ SourceTooShort
  <2>1. CASE \E p \in Programs, i \in Images : Start(p, i)
    BY <1>2, <2>1 DEF Start
  <2>2. CASE ReadMore
    BY <1>1, <1>2, <2>2 DEF ReadMore, ProgTyped, Equipped
  <2>3. CASE Compare \/ EraseFirst \/ CloseAfterErase \/ FirstPassEnds \/ Reopen \/ Rewritten
             \/ SourceTooShort
    <3>1. pc \in {"compare", "erase_first", "close", "end_first", "reopen", "rewrite"}
      BY <2>3 DEF Compare, EraseFirst, CloseAfterErase, FirstPassEnds, Reopen, Rewritten,
                  SourceTooShort
    <3> QED BY <1>2, <3>1
  <2> QED BY <1>13, <2>1, <2>2, <2>3
<1> QED
  BY <1>5, <1>6, <1>7, <1>8, <1>9, <1>10, <1>11, <1>12, <1>13 DEF Next, Run

LEMMA FieldsFollow == ASSUME OneMiscBlock, WrittenInv, FieldsKept PROVE MiscKept
<1> DEFINE r == ReadFromStart(Pages)
<1> SUFFICES ASSUME users \cap MiscPrograms # {}, r.ok, ~lost, ~GaveUp, NEW f \in Fields
             PROVE  \/ r.units[UnitOf[f]] \in {want[f], Given[f]}
                    \/ hurt /\ r.units[UnitOf[f]] \in {Erased, Torn, Zero}
                    \/ pc # "off" /\ r.units[UnitOf[f]] \in {Erased, Torn}
  BY DEF MiscKept
<1>1. flash \in [Blocks -> [1 .. Units -> Int]] /\ Pages \in Nat /\ Pages = 2
  BY DEF WrittenInv, BlockInv, IInv, Typed, MtdTypeOK, Pages
<1>2. /\ Pages <= Total * Units
      /\ \A u \in 1 .. Pages : r.units[u] = Stream(u)
  BY <1>1, FromStart
<1> HIDE DEF r
<1>3. Total > 0
  BY <1>1, <1>2, PlaceType, SizesAssumption
<1>4. r.units[UnitOf[f]] = Stream(UnitOf[f])
  BY <1>2, <1>3, FieldUnit
<1>5. FieldStands(f)
  BY <1>3 DEF FieldsKept
<1> QED BY <1>4, <1>5 DEF FieldStands, Special

\* Rewriting misc for one field never gives the other an older value, whatever
\* blocks are bad or fail and wherever the power is cut (bootloader.c:97-139 and
\* rkbootloader.cpp:143-181); it takes that the ten pages lie in one erase block.
THEOREM MiscIsKept == OneMiscBlock => (Spec => []MiscKept)
<1> SUFFICES ASSUME OneMiscBlock PROVE Spec => []MiscKept
  OBVIOUS
<1> DEFINE MiscInv == WrittenInv /\ FieldsKept
<1>1. Init => MiscInv
  BY WrittenKept, FieldsOfInit
<1>2. MiscInv /\ [Next]_vars => MiscInv'
  BY WrittenKept, FieldsStay
<1>3. MiscInv => MiscKept
  BY FieldsFollow
<1> HIDE DEF MiscInv
<1> QED BY <1>1, <1>2, <1>3, PTL DEF Spec
=============================================================================
