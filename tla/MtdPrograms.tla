---------------------------- MODULE MtdPrograms ----------------------------
(* The programs that write flash through mtdutils: flash_image.c, the raw  *)
(* writes of the updater, of applypatch and of the update engine, and the  *)
(* rewrite of misc by recovery and by the update engine; and the readers   *)
(* that look at what they left.                                            *)
EXTENDS MtdBlocks, FiniteSets

CONSTANTS Programs,   \* which of them may run
          Images,     \* the images they write, sequences of units
          MiscValues, \* what the fields of misc are given
          MaxRuns     \* bound on the programs run one after the other

ProgramKinds == {"flash_image", "write_raw_image", "write_to_partition",
                 "mtd_write", "misc_bcb", "misc_ab"}
MiscPrograms == {"misc_bcb", "misc_ab"}
\* A partition belongs to one kind of program.
Owners == {MiscPrograms, {"flash_image"}, ProgramKinds \ (MiscPrograms \cup {"flash_image"})}

ASSUME ProgramsAssumption == Programs \subseteq ProgramKinds
ASSUME ImagesAssumption == \A i \in Images : i \in Seq(Int) /\ Len(i) > 0
ASSUME MiscValuesAssumption == MiscValues \subseteq Int
ASSUME MaxRunsAssumption == MaxRuns \in Nat

VARIABLES users,   \* the programs that write this partition
          prog,    \* the program that runs, or the last one
          pc,      \* where it is
          image,   \* what it writes
          off,     \* how much of the source it has read
          result,  \* what it reported
          rfd, rbuf, \* the reader: its file offset and what is left in its buffer
          got,     \* what a reader has read since the last program ended
          misc,    \* the ten pages a program has read and changed
          want,    \* the value last given to each field of misc (a ghost)
          hurt,    \* a rewrite of misc failed or was cut (a ghost)
          lost,    \* a block that is not bad was left out (a ghost)
          runs

progVars == <<users, prog, pc, image, off, result, rfd, rbuf, got, misc, want, hurt,
              lost, runs>>
vars == <<mtdVars, progVars>>
reader == <<rfd, rbuf, got>>
miscVars == <<misc, want, hurt, lost>>

Header == 1                      \* HEADER_SIZE is one page
Fields == {"ab", "bcb"}          \* the ten pages: the A/B data, then the BCB
UnitOf == [ab |-> 1, bcb |-> 2]
Pages == 2
FieldOf == [misc_bcb |-> "bcb", misc_ab |-> "ab"]
-----------------------------------------------------------------------------
(* mtd_read_data: blocks that are bad are passed over; what is left of the *)
(* last block waits in the buffer.                                         *)

\* A reader that does not pass over bad blocks.
EveryFrom(b) == {c \in Blocks : c >= b}
GoodFrom(b)  == {c \in Blocks \ bad : c >= b}

\* Of the blocks a reader at block b comes to, the k-th, and the u-th unit.
Nth(b, k) == CHOOSE c \in GoodFrom(b) : Cardinality({x \in GoodFrom(b) : x <= c}) = k
UnitFrom(b, u) == flash[Nth(b, 1 + ((u - 1) \div Units))][1 + ((u - 1) % Units)]

Reading(from, buffer, n) ==
    LET missing == n - Len(buffer)
        k == IF missing <= 0 THEN 0 ELSE (missing + Units - 1) \div Units
    IN  IF k > Cardinality(GoodFrom(from))
        THEN [ok |-> FALSE, units |-> <<>>, fd |-> NBlocks, buf |-> <<>>]
        ELSE LET all == buffer \o [u \in 1 .. k * Units |-> UnitFrom(from, u)]
             IN  [ok |-> TRUE, units |-> First(all, n), buf |-> Rest(all, n),
                  fd |-> IF k = 0 THEN from ELSE Nth(from, k) + 1]

ReadFromStart(n) == Reading(0, <<>>, n)
-----------------------------------------------------------------------------
\* A partition that was never written, or one full of something else.
Init ==
    /\ \E v \in {Erased, Zero} : flash = [b \in Blocks |-> [u \in 1 .. Units |-> v]]
    /\ MtdInit
    /\ \E o \in Owners : users = o \cap Programs
    /\ prog = "none" /\ pc = "off" /\ image = <<>> /\ off = 0 /\ result = "none"
    /\ rfd = 0 /\ rbuf = <<>> /\ got = <<>>
    /\ misc = <<>> /\ hurt = FALSE /\ lost = FALSE /\ runs = 0
    /\ want = [f \in Fields |->
                 IF ReadFromStart(Pages).ok THEN ReadFromStart(Pages).units[UnitOf[f]] ELSE Erased]

\* The values of the fields, with the one the program in work gives.
Given == IF prog \in MiscPrograms
         THEN [want EXCEPT ![FieldOf[prog]] = image[1]] ELSE want

\* A block was left out of the stream although it is not bad.
GaveUp == Skipped \ bad # {}

Goto(l) == pc' = l

\* A program is started; the partition may not be found or opened.
Start(p, i) ==
    /\ pc = "off" /\ runs < MaxRuns
    /\ p \in users \ MiscPrograms
    /\ prog' = p /\ image' = i /\ off' = 0 /\ result' = "none"
    /\ rfd' = 0 /\ rbuf' = <<>> /\ got' = <<>>
    /\ runs' = runs + 1
    /\ Goto(IF p = "flash_image" THEN "compare" ELSE "open")
    /\ lost' = (lost /\ p = "flash_image")
    /\ UNCHANGED <<mtdVars, users, misc, want, hurt>>

\* A rewrite that does not read misc first.
StartMiscBlind(p, v) ==
    /\ pc = "off" /\ runs < MaxRuns
    /\ p \in users \cap MiscPrograms
    /\ misc' = [[u \in 1 .. Pages |-> Zero] EXCEPT ![UnitOf[FieldOf[p]]] = v]
    /\ prog' = p /\ image' = <<v>> /\ off' = 0 /\ result' = "none"
    /\ runs' = runs + 1
    /\ Goto("open")
    /\ UNCHANGED <<mtdVars, users, reader, want, hurt, lost>>

\* misc is read, changed and written; what a cut rewrite had completed counts.
StartMisc(p, v) ==
    /\ pc = "off" /\ runs < MaxRuns
    /\ p \in users \cap MiscPrograms
    /\ LET r == ReadFromStart(Pages)
       IN  /\ r.ok
           /\ misc' = [r.units EXCEPT ![UnitOf[FieldOf[p]]] = v]
           /\ want' = [f \in Fields |-> IF r.units[UnitOf[f]] = Given[f]
                                        THEN Given[f] ELSE want[f]]
    /\ prog' = p /\ image' = <<v>> /\ off' = 0 /\ result' = "none"
    /\ runs' = runs + 1
    /\ Goto("open")
    /\ UNCHANGED <<mtdVars, users, reader, hurt, lost>>

\* flash_image: an image whose header is in place is not written again.
Compare ==
    /\ pc = "compare"
    /\ LET r == ReadFromStart(Header)
       IN  IF r.ok /\ r.units = First(image, Header)
           THEN Goto("off") /\ result' = "skipped"
           ELSE Goto("open") /\ UNCHANGED result
    /\ UNCHANGED <<mtdVars, users, prog, image, off, reader, miscVars, runs>>

Open ==
    /\ pc = "open"
    /\ OpenWrite
    /\ \/ prog = "mtd_write" /\ Goto("erase_first")
       \/ Goto("write")
    /\ UNCHANGED <<users, prog, image, off, result, reader, miscVars, runs>>

Ready == phase = "idle" /\ call = "none"

\* mtd_write: rootfs and oem are erased before they are written.
EraseFirst ==
    /\ pc = "erase_first" /\ Ready
    /\ CallErase
    /\ Goto("write")
    /\ UNCHANGED <<users, prog, image, off, result, reader, miscVars, runs>>

\* How much a program passes to one call of mtd_write_data.
Chunks ==
    CASE prog \in MiscPrograms -> {Pages}
      [] prog = "write_to_partition" -> {Len(image)}
      [] prog = "write_raw_image" -> 1 .. Lowest(Units, Len(image) - off)
      [] OTHER -> {1}

Source == IF prog \in MiscPrograms THEN misc ELSE image

\* A flash_image that writes the header with the rest.
ChunkAtOnce(n) == SubSeq(Source, off + 1, off + n)

\* The header of flash_image is written as zeros in the first pass.
Chunk(n) ==
    IF prog = "flash_image" /\ pc = "write" /\ off = 0
    THEN [j \in 1 .. n |-> Zero] ELSE SubSeq(Source, off + 1, off + n)

\* flash_image rewrites the header with the rest of the first block, in chunks
\* of the source, which must be that long.
Limit == IF pc = "rewrite" THEN Units ELSE Len(Source)

WriteChunk ==
    /\ pc \in {"write", "rewrite"} /\ Ready /\ ret = "ok"
    /\ off < Limit /\ off < Len(Source)
    /\ \E n \in Chunks : CallWrite(Chunk(n)) /\ off' = off + n
    /\ UNCHANGED <<users, prog, pc, image, result, reader, miscVars, runs>>

\* The source is written; what a program does next.
Written ==
    /\ pc = "write" /\ Ready /\ ret = "ok" /\ off >= Len(Source)
    /\ IF prog \in {"write_raw_image", "write_to_partition"}
       THEN CallErase /\ Goto("close")
       ELSE CallClose /\ Goto(IF prog = "flash_image" THEN "end_first" ELSE "end")
    /\ UNCHANGED <<users, prog, image, off, result, reader, miscVars, runs>>

CloseAfterErase ==
    /\ pc = "close" /\ Ready
    /\ CallClose
    /\ Goto("end")
    /\ UNCHANGED <<users, prog, image, off, result, reader, miscVars, runs>>

Rewritten ==
    /\ pc = "rewrite" /\ Ready /\ ret = "ok" /\ off >= Units
    /\ CallClose
    /\ Goto("end")
    /\ UNCHANGED <<users, prog, image, off, result, reader, miscVars, runs>>

\* read() returned nothing before the first block was full: die().
SourceTooShort ==
    /\ pc = "rewrite" /\ Ready /\ ret = "ok" /\ off < Units /\ off >= Len(Source)
    /\ Abandon
    /\ Goto("off") /\ result' = "fail"
    /\ lost' = (lost \/ GaveUp)
    /\ UNCHANGED <<users, prog, image, off, reader, misc, want, hurt, runs>>

\* A write failed.  write_raw_image goes on to erase and close, the others
\* close or just leave; flash_image and mtd_write only leave.
WriteFailed ==
    /\ pc \in {"write", "rewrite"} /\ Ready /\ ret = "fail"
    /\ result' = "fail"
    /\ lost' = (lost \/ GaveUp)
    /\ CASE prog = "write_raw_image" -> CallErase /\ Goto("close")
         [] prog \in {"flash_image", "mtd_write"} -> Abandon /\ Goto("off")
         [] OTHER -> CallClose /\ Goto("end")
    /\ UNCHANGED <<users, prog, image, off, reader, misc, want, hurt, runs>>

\* flash_image comes back for the header once the rest is closed.
FirstPassEnds ==
    /\ pc = "end_first" /\ phase = "closed"
    /\ IF ret = "ok" THEN Goto("reopen") /\ UNCHANGED result
                     ELSE Goto("off") /\ result' = "fail"
    /\ lost' = (lost \/ GaveUp)
    /\ UNCHANGED <<mtdVars, users, prog, image, off, reader, misc, want, hurt, runs>>

Reopen ==
    /\ pc = "reopen"
    /\ OpenWrite
    /\ off' = 0
    /\ Goto("rewrite")
    /\ UNCHANGED <<users, prog, image, result, reader, miscVars, runs>>

\* The context is closed.  write_raw_image looks at its writes only, not at
\* what erasing and closing return.
Finished ==
    /\ pc = "end" /\ phase = "closed"
    /\ Goto("off")
    /\ result' = IF result = "fail" THEN "fail"
                 ELSE IF prog = "write_raw_image" \/ ret = "ok" THEN "ok" ELSE "fail"
    /\ want' = IF result' = "ok" THEN Given ELSE want
    /\ hurt' = (hurt \/ (prog \in MiscPrograms /\ result' = "fail"))
    /\ lost' = (lost \/ GaveUp)
    /\ UNCHANGED <<mtdVars, users, prog, image, off, reader, misc, runs>>

\* comparefile of the engine and LoadPartitionContents of applypatch read what
\* was written, in pieces of any size.
ReadMore ==
    /\ pc = "off" /\ result = "ok" /\ prog \notin MiscPrograms
    /\ \E n \in 1 .. Units + 1 :
         LET r == Reading(rfd, rbuf, n)
         IN  /\ Len(got) + n <= Len(image)
             /\ got' = got \o r.units
             /\ rfd' = r.fd /\ rbuf' = r.buf
             /\ result' = IF r.ok THEN "ok" ELSE "unreadable"
    /\ UNCHANGED <<mtdVars, users, prog, pc, image, off, miscVars, runs>>

Cut ==
    /\ pc # "off"
    /\ PowerCut
    /\ Goto("off") /\ result' = "none"
    /\ hurt' = (hurt \/ prog \in MiscPrograms)
    /\ lost' = (lost \/ GaveUp)
    /\ UNCHANGED <<users, prog, image, off, reader, misc, want, runs>>

Work == MtdStep /\ UNCHANGED progVars

Run == \/ Compare \/ Open \/ EraseFirst \/ WriteChunk \/ Written
       \/ CloseAfterErase \/ FirstPassEnds \/ Reopen \/ Rewritten
       \/ SourceTooShort \/ WriteFailed \/ Finished

Next == \/ \E p \in Programs, i \in Images : Start(p, i)
        \/ \E p \in Programs, v \in MiscValues : StartMisc(p, v)
        \/ Run \/ Work \/ ReadMore \/ Cut

\* A program that runs goes on as long as there is power.
Spec == Init /\ [][Next]_vars /\ WF_vars(Run \/ Work)
-----------------------------------------------------------------------------
TypeOK ==
    /\ MtdTypeOK
    /\ prog \in ProgramKinds \cup {"none"}
    /\ pc \in {"off", "compare", "open", "erase_first", "write", "close",
              "end_first", "reopen", "rewrite", "end"}
    /\ off \in 0 .. Len(image) + Pages
    /\ result \in {"none", "ok", "fail", "skipped", "unreadable"}
    /\ rfd \in 0 .. NBlocks /\ Len(rbuf) < Units /\ Len(got) <= Len(image)
    /\ DOMAIN want = Fields /\ hurt \in BOOLEAN /\ lost \in BOOLEAN
    /\ runs \in 0 .. MaxRuns

\* mtdutils.c:239-366 against 399-496: a program that reported success can be
\* read back, through any sequence of reads and over any bad blocks, up to its
\* last unit.  Two exceptions are in the code: a block that was given up is not
\* marked bad, so a reader does not pass over it, and write_raw_image does not
\* look at whether its last block could be written.
ReadBack ==
    prog \notin MiscPrograms /\ ~lost /\ ~GaveUp /\ ret = "ok" =>
        got = First(image, Len(got)) /\ result # "unreadable"

\* flash_image.c:94-138 writes the header last so that an image whose header is
\* in place need not be written again: when the header is there, so are all
\* blocks after the first, whatever run was cut or failed where.
HeaderMeansRest ==
    \A i \in Images :
        users = {"flash_image"} /\ ~lost /\ ~GaveUp
        /\ ReadFromStart(Header).units = First(i, Header) =>
            LET r == ReadFromStart(Len(i))
            IN  r.ok /\ Rest(r.units, Units) = Rest(i, Units)

\* bootloader.c:97-139 and rkbootloader.cpp:143-181 rewrite all ten pages to
\* change one field.  The other field keeps its value and the field has the
\* value it was given; after a rewrite that failed or was cut a field may be
\* erased or torn, but never has an older value.
MiscKept ==
    LET r == ReadFromStart(Pages)
        Current(f) == r.units[UnitOf[f]]
    IN  users \cap MiscPrograms # {} /\ r.ok /\ ~lost /\ ~GaveUp =>
            \A f \in Fields :
                \/ Current(f) \in {want[f], Given[f]}
                \/ hurt /\ Current(f) \in {Erased, Torn, Zero}
                \/ pc # "off" /\ Current(f) \in {Erased, Torn}

\* The retries and the skipping of blocks come to an end (mtdutils.c:411-462):
\* every program reports or is cut.
EveryProgramEnds == pc # "off" ~> pc = "off"
=============================================================================
