----------------------------- MODULE MtdBlocks -----------------------------
(* The writer of mtdutils.c: a stream of units is cut into erase blocks,   *)
(* and every block goes to the next block of the partition that is not bad *)
(* and that reads back what was written.  Who calls it, with what, is left *)
(* open here; the modules that extend this one say it.                     *)
EXTENDS Integers, Sequences

CONSTANTS NBlocks,   \* erase blocks of the partition
          Units,     \* parts of an erase block, programmed one after the other
          Faults,    \* operations that may fail
          MaxMishaps \* bound on power cuts and failed operations together

FaultKinds == {"erase", "program", "reread"}

ASSUME SizesAssumption == NBlocks \in Nat /\ Units \in Nat \ {0}
ASSUME FaultsAssumption == Faults \subseteq FaultKinds
ASSUME MaxMishapsAssumption == MaxMishaps \in Nat

Blocks == 0 .. NBlocks - 1

Zero   == 0    \* the padding
Erased == -1   \* all ones
Torn   == -2   \* a unit whose programming failed or was cut

VARIABLES flash,    \* the medium
          bad,      \* blocks MEMGETBADBLOCK reports
          worn,     \* blocks that are worn out, which nobody has noticed
          fd,       \* the file offset, in blocks
          stored,   \* the part of ctx->buffer that is filled
          data,     \* what is left of the user's buffer
          block, pos, at, retry,  \* write_block: its data and local variables
          skipped,  \* ctx->bad_block_offsets
          log,      \* the blocks written, with their data (a ghost)
          phase,    \* where write_block is
          call,     \* the function of the interface that is running
          ret,      \* whether one has failed since mtd_write_partition
          mishaps   \* power cuts and failed operations so far

mtdVars == <<flash, bad, worn, fd, stored, data, block, pos, at, retry, skipped,
             log, phase, call, ret, mishaps>>
buffers == <<stored, data, block>>
cursors == <<fd, pos, at, retry>>

Writing == {"check", "erase", "program", "verify", "giveup"}

Lowest(a, b) == IF a < b THEN a ELSE b
First(s, n) == SubSeq(s, 1, n)
Rest(s, n) == SubSeq(s, n + 1, Len(s))
ErasedBlock == [u \in 1 .. Units |-> Erased]

Mishap == mishaps < MaxMishaps /\ mishaps' = mishaps + 1
Fails(op) == op \in Faults /\ Mishap

MtdInit ==
    /\ flash \in [Blocks -> [1 .. Units -> Int]]
    /\ bad \in SUBSET Blocks /\ worn \in SUBSET (Blocks \ bad)
    /\ fd = 0 /\ pos = 0 /\ at = 0 /\ retry = 0
    /\ stored = <<>> /\ data = <<>> /\ block = ErasedBlock
    /\ skipped = <<>> /\ log = <<>>
    /\ phase = "closed" /\ call = "none" /\ ret = "ok"
    /\ mishaps = 0
-----------------------------------------------------------------------------
(* The interface. *)

\* mtd_write_partition.
OpenWrite ==
    /\ phase = "closed" /\ call = "none"
    /\ phase' = "idle" /\ ret' = "ok"
    /\ fd' = 0 /\ stored' = <<>> /\ skipped' = <<>> /\ log' = <<>>
    /\ UNCHANGED <<flash, bad, worn, data, block, pos, at, retry, call, mishaps>>

\* mtd_write_data.
CallWrite(d) ==
    /\ phase = "idle" /\ call = "none" /\ ret = "ok"
    /\ call' = "write" /\ data' = d
    /\ UNCHANGED <<flash, bad, worn, cursors, stored, block, skipped, log, phase, ret, mishaps>>

\* mtd_erase_blocks(ctx, -1).
CallErase ==
    /\ phase = "idle" /\ call = "none"
    /\ call' = "erase"
    /\ UNCHANGED <<flash, bad, worn, cursors, buffers, skipped, log, phase, ret, mishaps>>

\* mtd_write_close: mtd_erase_blocks(ctx, 0), then the context is freed.
CallClose ==
    /\ phase = "idle" /\ call = "none"
    /\ call' = "close"
    /\ UNCHANGED <<flash, bad, worn, cursors, buffers, skipped, log, phase, ret, mishaps>>

\* A program that exits or returns without closing leaves what it stored behind.
Abandon ==
    /\ phase = "idle" /\ call = "none"
    /\ phase' = "closed"
    /\ UNCHANGED <<flash, bad, worn, cursors, buffers, skipped, log, call, ret, mishaps>>

Return == call' = "none"
-----------------------------------------------------------------------------
(* mtd_write_data and the padding of mtd_erase_blocks: what the next block *)
(* of the stream is.                                                       *)

StartBlock(b) ==
    /\ block' = b /\ pos' = fd /\ phase' = "check"

\* The local variables of write_block are gone.
LeaveBlock == block' = ErasedBlock /\ pos' = 0 /\ at' = 0 /\ retry' = 0

\* Part of the user's data goes through ctx->buffer when something is stored
\* already or less than a block is left.
Coalesce ==
    /\ phase = "idle" /\ call = "write" /\ data # <<>>
    /\ stored # <<>> \/ Len(data) < Units
    /\ LET n == Lowest(Units - Len(stored), Len(data))
           filled == stored \o First(data, n)
       IN  /\ stored' = filled
           /\ data' = Rest(data, n)
           /\ IF Len(filled) = Units
              THEN StartBlock(filled)
              ELSE UNCHANGED <<block, pos, phase>>
    /\ UNCHANGED <<flash, bad, worn, fd, at, retry, skipped, log, call, ret, mishaps>>

\* Complete blocks are written directly from the user's buffer.
WriteDirectly ==
    /\ phase = "idle" /\ call = "write" /\ data # <<>>
    /\ stored = <<>> /\ Len(data) >= Units
    /\ StartBlock(First(data, Units))
    /\ data' = Rest(data, Units)
    /\ UNCHANGED <<flash, bad, worn, fd, stored, at, retry, skipped, log, call, ret, mishaps>>

WriteReturns ==
    /\ phase = "idle" /\ call = "write" /\ data = <<>>
    /\ Return
    /\ UNCHANGED <<flash, bad, worn, cursors, buffers, skipped, log, phase, ret, mishaps>>

\* mtd_erase_blocks pads what is stored and writes it.
Pad ==
    /\ phase = "idle" /\ call \in {"erase", "close"} /\ stored # <<>>
    /\ LET filled == stored \o [i \in 1 .. Units - Len(stored) |-> Zero]
       IN  stored' = filled /\ StartBlock(filled)
    /\ UNCHANGED <<flash, bad, worn, fd, data, at, retry, skipped, log, call, ret, mishaps>>

\* An erasure of the whole partition, whatever was written.
EraseRestAll ==
    /\ phase = "idle" /\ call = "erase" /\ stored = <<>>
    /\ phase' = "wipe" /\ pos' = 0
    /\ UNCHANGED <<flash, bad, worn, fd, at, retry, buffers, skipped, log, call, ret, mishaps>>

\* The blocks from the file offset on are erased; the offset does not move.
EraseRest ==
    /\ phase = "idle" /\ call = "erase" /\ stored = <<>>
    /\ phase' = "wipe" /\ pos' = fd
    /\ UNCHANGED <<flash, bad, worn, fd, at, retry, buffers, skipped, log, call, ret, mishaps>>

Close ==
    /\ phase = "idle" /\ call = "close" /\ stored = <<>>
    /\ phase' = "closed" /\ Return
    /\ UNCHANGED <<flash, bad, worn, cursors, buffers, skipped, log, ret, mishaps>>
-----------------------------------------------------------------------------
(* write_block *)

\* A write_block that does not ask MEMGETBADBLOCK.
CheckBadNever ==
    /\ phase = "check" /\ pos < NBlocks
    /\ retry' = 0 /\ phase' = "erase"
    /\ UNCHANGED <<skipped, pos>>
    /\ UNCHANGED <<flash, bad, worn, fd, at, buffers, log, call, ret, mishaps>>

CheckBad ==
    /\ phase = "check"
    /\ \/ /\ pos < NBlocks /\ pos \in bad
          /\ skipped' = Append(skipped, pos)
          /\ pos' = pos + 1
          /\ UNCHANGED <<retry, phase>>
       \/ /\ pos < NBlocks /\ pos \notin bad
          /\ retry' = 0 /\ phase' = "erase"
          /\ UNCHANGED <<skipped, pos>>
    /\ UNCHANGED <<flash, bad, worn, fd, at, buffers, log, call, ret, mishaps>>

\* ENOSPC: every function of the interface returns -1; mtd_write_close frees
\* the context all the same.
OutOfSpace ==
    /\ phase = "check" /\ pos >= NBlocks
    /\ phase' = IF call = "close" THEN "closed" ELSE "idle"
    /\ data' = <<>>
    /\ Return /\ ret' = "fail"
    /\ LeaveBlock
    /\ UNCHANGED <<flash, bad, worn, fd, stored, skipped, log, mishaps>>

\* A loop that does not count its retries.
AgainForever(next) == retry' = retry /\ phase' = next

Again(next) ==
    /\ retry' = retry + 1
    /\ phase' = IF retry = 0 THEN next ELSE "giveup"

Erase ==
    /\ phase = "erase"
    /\ \/ /\ flash' = [flash EXCEPT ![pos] = ErasedBlock]
          /\ at' = 0 /\ phase' = "program"
          /\ UNCHANGED <<retry, mishaps>>
       \/ /\ Fails("erase")
          /\ Again("erase")
          /\ UNCHANGED <<flash, at>>
    /\ UNCHANGED <<bad, worn, fd, pos, buffers, skipped, log, call, ret>>

\* write(): the driver programs the block unit by unit.
Program ==
    /\ phase = "program"
    /\ \/ /\ pos \notin worn
          /\ flash' = [flash EXCEPT ![pos][at + 1] = block[at + 1]]
          /\ at' = at + 1
          /\ phase' = IF at + 1 = Units THEN "verify" ELSE "program"
          /\ UNCHANGED mishaps
       \/ /\ IF pos \in worn THEN UNCHANGED mishaps ELSE Fails("program")
          /\ flash' = [flash EXCEPT ![pos][at + 1] = Torn]
          /\ phase' = "verify"
          /\ UNCHANGED at
    /\ UNCHANGED <<bad, worn, fd, pos, retry, buffers, skipped, log, call, ret>>

Stored == IF Len(stored) = Units THEN <<>> ELSE stored

Verify ==
    /\ phase = "verify"
    /\ \/ /\ flash[pos] = block
          /\ fd' = pos + 1
          /\ log' = Append(log, [at |-> pos, data |-> block])
          /\ stored' = Stored
          /\ phase' = "idle"
          /\ LeaveBlock
          /\ UNCHANGED mishaps
       \/ /\ flash[pos] # block
          /\ fd' = pos + 1
          /\ Again("erase") /\ at' = 0
          /\ UNCHANGED <<log, stored, block, pos, mishaps>>
       \/ /\ Fails("reread")
          /\ fd' = pos
          /\ Again("erase") /\ at' = 0
          /\ UNCHANGED <<log, stored, block, pos>>
    /\ UNCHANGED <<flash, bad, worn, data, skipped, call, ret>>

\* A block that failed twice is erased once more and left out of the stream.
GiveUp ==
    /\ phase = "giveup"
    /\ skipped' = Append(skipped, pos)
    /\ \/ flash' = [flash EXCEPT ![pos] = ErasedBlock] /\ UNCHANGED mishaps
       \/ Fails("erase") /\ UNCHANGED flash
    /\ pos' = pos + 1 /\ phase' = "check"
    /\ UNCHANGED <<bad, worn, fd, at, retry, buffers, log, call, ret>>
-----------------------------------------------------------------------------
(* The loop of mtd_erase_blocks. *)
Wipe ==
    /\ phase = "wipe"
    /\ IF pos < NBlocks
       THEN /\ \/ pos \in bad /\ UNCHANGED <<flash, mishaps>>
               \/ /\ pos \notin bad /\ UNCHANGED mishaps
                  /\ flash' = [flash EXCEPT ![pos] = ErasedBlock]
               \/ pos \notin bad /\ Fails("erase") /\ UNCHANGED flash
            /\ pos' = pos + 1
            /\ UNCHANGED <<phase, call>>
       ELSE /\ phase' = "idle" /\ Return
            /\ pos' = 0 /\ UNCHANGED <<flash, mishaps>>
    /\ UNCHANGED <<bad, worn, fd, at, retry, buffers, skipped, log, ret>>

\* The power is cut; a block that is being erased or programmed is left
\* anywhere between its two states.
PowerCut ==
    /\ Mishap
    /\ \/ UNCHANGED flash
       \/ /\ phase \in {"erase", "giveup", "wipe"} /\ pos \in Blocks \ bad
          /\ flash' = [flash EXCEPT ![pos] = [u \in 1 .. Units |-> Torn]]
       \/ /\ phase = "program"
          /\ flash' = [flash EXCEPT ![pos][at + 1] = Torn]
    /\ phase' = "closed" /\ call' = "none" /\ ret' = "ok"
    /\ data' = <<>> /\ stored' = <<>> /\ skipped' = <<>> /\ log' = <<>>
    /\ fd' = 0 /\ LeaveBlock
    /\ UNCHANGED <<bad, worn>>

MtdStep == \/ Coalesce \/ WriteDirectly \/ WriteReturns \/ Pad \/ EraseRest
           \/ Close \/ CheckBad \/ OutOfSpace \/ Erase \/ Program \/ Verify
           \/ GiveUp \/ Wipe

MtdNext == \/ OpenWrite \/ \E d \in Seq(Int) : CallWrite(d)
           \/ CallErase \/ CallClose \/ Abandon \/ MtdStep \/ PowerCut

MtdSpec == MtdInit /\ [][MtdNext]_mtdVars
-----------------------------------------------------------------------------
\* The blocks in bad_block_offsets.
Skipped == {skipped[i] : i \in 1 .. Len(skipped)}

\* Where every variable stands, and that the block in work is one of the
\* partition's and not a bad one.
MtdTypeOK ==
    /\ flash \in [Blocks -> [1 .. Units -> Int]]
    /\ bad \subseteq Blocks /\ worn \subseteq Blocks \ bad
    /\ fd \in 0 .. NBlocks /\ pos \in 0 .. NBlocks
    /\ at \in 0 .. Units /\ retry \in 0 .. 2
    /\ stored \in Seq(Int) /\ Len(stored) <= Units
    /\ data \in Seq(Int)
    /\ block \in [1 .. Units -> Int]
    /\ skipped \in Seq(Blocks)
    /\ log \in Seq([at : Blocks, data : [1 .. Units -> Int]])
    /\ phase \in {"closed", "idle", "wipe"} \cup Writing
    /\ call \in {"none", "write", "erase", "close"}
    /\ ret \in {"ok", "fail"}
    /\ mishaps \in 0 .. MaxMishaps
    /\ phase \in Writing \ {"check"} => pos \in Blocks \ bad
    /\ phase = "program" => at < Units

\* What write_block promises its callers (mtdutils.c:399-462): the blocks it
\* said were written stand on the medium, in the order of the stream and never
\* in a bad block, whatever failed, was skipped or was erased after them.
StreamInOrder ==
    \A i \in 1 .. Len(log) :
        /\ log[i].at \notin bad
        /\ flash[log[i].at] = log[i].data
        /\ \A j \in 1 .. Len(log) : i < j => log[i].at < log[j].at
=============================================================================
