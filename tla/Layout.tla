------------------------------- MODULE Layout -------------------------------
(* What the update engine finds in an image and what it writes outside of   *)
(* partitions: the partition table it makes of the parameter file           *)
(* (flash_image.cpp) and the five copies of the loader (rkboot.cpp).  A disk *)
(* is a function from sectors to what stands in them, and a program is the   *)
(* sequence of the sectors it writes, of which a cut leaves those on the     *)
(* medium that were flushed and any of the others.                           *)
EXTENDS Integers, Sequences, FiniteSetsExt, SequencesExt

CONSTANTS Word,         \* 2^32
          SignatureMin, \* 160 bytes
          EntrySectors, \* sectors of the array of partition entries
          SectorBytes,
          PageSectors,
          FirstCopy, Apart, Copies, \* of the loader
          IdBlockTop

Units(n, size) == IF n > 0 THEN (n - 1) \div size + 1 ELSE n
Write(at, what) == [at |-> at, what |-> what]
WriteRun(at, s) == [i \in DOMAIN s |-> Write(at + i - 1, s[i])]
-----------------------------------------------------------------------------
(* The image.  An item has its place in two words; None stands for a high   *)
(* word that is not there.                                                  *)

None == -1

LongValue(high, low) == IF high = None THEN low ELSE high * Word + low

\* adjustFileOffset: the loader stands before the firmware, everything else in
\* it; the low word alone is moved.
AdjustFileOffset(image) ==
    [i \in DOMAIN image.items |->
        LET item == image.items[i]
        IN  IF item.name = "bootloader"
            THEN [item EXCEPT !.offset = image.bootOffset, !.size = image.bootSize]
            ELSE [item EXCEPT !.offset = (@ + image.fwOffset) % Word]]

FirmwareEnd(image) ==
    IF image.high = None THEN (image.fwOffset + image.fwSize) % Word
                       ELSE image.high * Word + image.fwOffset + image.fwSize

\* What an int holds of a number.
Int32(n) == ((n + Word \div 2) % Word) - (Word \div 2)

\* analyticImage.  A signature behind the firmware is not read, and what was not
\* read as a digest is compared with one.  What is behind the firmware is an int,
\* so that an end that wrapped at 2^32 makes no difference.
AnalyticImage(image) ==
    IF ~image.tag THEN [ok |-> FALSE, items |-> <<>>]
    ELSE [ok |-> Int32(image.size - FirmwareEnd(image)) < SignatureMin /\ image.digest,
          items |-> IF image.fwOffset = 0 THEN image.items ELSE AdjustFileOffset(image)]

\* RK_ota_set_partition(-1): where the partition's data stands, and how much.
Found(image, name) ==
    LET items == AnalyticImage(image).items
        hits == {i \in DOMAIN items : items[i].name = name}
        item == items[Max(hits)]
    IN  IF ~AnalyticImage(image).ok \/ hits = {} THEN [found |-> FALSE]
        ELSE [found |-> TRUE, offset |-> LongValue(item.offsetHigh, item.offset),
              size |-> LongValue(item.sizeHigh, item.size)]
-----------------------------------------------------------------------------
(* The parameter file is a sequence of lines.                               *)

Endless == <<[kind |-> "endless"]>>
RandomGuid == <<>>
Indices(lines, kind) == {i \in DOMAIN lines : lines[i].kind = kind}
Comments(lines) == Indices(lines, "comment")

\* getParamFromString.  The list of partitions is taken apart with the strtok
\* that was taking the lines, which ends both; a comment in front is read again
\* and again.  A size that is not given is the largest number.
GetParam(lines) ==
    LET lists == Indices(lines, "mtdparts")
        items == lines[Min(lists)].items
    IN  IF \E c \in Comments(lines) : \A l \in lists : c < l THEN Endless
        ELSE IF lists = {} THEN <<>>
        ELSE [i \in DOMAIN items |->
                 IF items[i].size = None THEN [items[i] EXCEPT !.size = Word - 1] ELSE items[i]]

\* string_to_uuid: a dash counts as a digit.
StringToUuid(text) == [i \in DOMAIN text |-> IF text[i] = None THEN 0 ELSE text[i]]

GetUuid(lines) ==
    LET mine == SelectSeq(lines, LAMBDA l : l.kind = "uuid")
    IN  IF Comments(lines) # {} THEN Endless
        ELSE [i \in DOMAIN mine |-> [name |-> mine[i].name, value |-> StringToUuid(mine[i].text)]]

\* getFlashSize: sectors, from whole kilobytes.
DiskSectors(size) == (size \div 2) * 2

LastUsable(disk) == disk - EntrySectors - 2

\* An entry of the table, with the first identifier given to its name.
GptEntry(item, uuids, disk) ==
    LET mine == {i \in DOMAIN uuids : uuids[i].name = item.name}
    IN  [name |-> item.name, start |-> item.offset,
         end |-> IF "grow" \in item.flags THEN LastUsable(disk) ELSE item.offset + item.size - 1,
         bootable |-> "bootable" \in item.flags,
         guid |-> IF mine = {} THEN RandomGuid ELSE uuids[Min(mine)].value]

\* create_gpt_buffer; a checksum is what it is made of.
CreateGpt(items, uuids, disk) ==
    LET named == SelectSeq(items, LAMBDA i : i.name # "")
        entries == [i \in DOMAIN named |-> GptEntry(named[i], uuids, disk)]
    IN  [kind |-> "gpt", my |-> 1, alternate |-> disk - 1, entryLba |-> 2,
         first |-> EntrySectors + 2, last |-> LastUsable(disk), entries |-> entries]

\* A second header that points to the first one's entries.
BackupAsMaster(gpt) == [gpt EXCEPT !.my = gpt.alternate, !.alternate = gpt.my]

\* prepare_gpt_backup.
PrepareBackup(gpt) ==
    [gpt EXCEPT !.my = gpt.alternate, !.alternate = gpt.my, !.entryLba = gpt.last + 1]

EntryArray(gpt) == [k \in 1 .. EntrySectors |-> [kind |-> "entries", of |-> gpt.entries, part |-> k]]

\* flash_parameter: the table at the front of the disk, and behind it, unless
\* the device was booted from SD, the backup at its end.
FlashParameter(lines, size, sdboot) ==
    LET disk == DiskSectors(size)
        gpt == CreateGpt(GetParam(lines), GetUuid(lines), disk)
        backup == PrepareBackup(gpt)
        front == WriteRun(0, <<[kind |-> "mbr"], gpt>> \o EntryArray(gpt))
        back == WriteRun(disk - EntrySectors - 1, EntryArray(gpt) \o <<backup>>)
    IN  IF Endless \in {GetParam(lines), GetUuid(lines)} THEN Endless
        ELSE IF sdboot THEN front ELSE front \o back

\* Where the two copies are among these writes.
Primary == 1 .. EntrySectors + 2
Backup == EntrySectors + 3 .. 2 * EntrySectors + 3

\* The disk is opened without O_SYNC and flushed once both are written.
TableCuts(writes) == SUBSET DOMAIN writes

\* Some sectors of a copy are on the medium and some are not.
Torn(copy, done) == copy \cap done # {} /\ ~(copy \subseteq done)
-----------------------------------------------------------------------------
(* The loader: entries with a name and a number of bytes.                   *)

\* getLoaderSizeAndData: the last entry of that name.
LoaderEntry(loader, name) ==
    LET hits == {i \in DOMAIN loader.entries : loader.entries[i].name = name}
    IN  IF hits = {} THEN [name |-> name, bytes |-> 0, data |-> "none"]
        ELSE loader.entries[Max(hits)]

PaddedSectors(entry) == Units(Units(entry.bytes, SectorBytes), PageSectors) * PageSectors
Padded(entry) ==
    [i \in 1 .. PaddedSectors(entry) |->
        IF i <= Units(entry.bytes, SectorBytes)
        THEN [kind |-> "loader", data |-> entry.data, part |-> i] ELSE [kind |-> "zero"]]

\* FindValidBlocks among blocks that are all free.
FindValidBlocks(begin, length) == IF begin + length >= IdBlockTop THEN -1 ELSE begin

\* reserveIDBlock; its failure is not looked at, what was found is kept.
ReserveIdBlock(length) ==
    [i \in 1 .. Copies |->
        IF FindValidBlocks((i - 1) * length, length) = -1 THEN 0 ELSE (i - 1) * length]

\* MakeSector1: the blocks up to a multiple of twelve are the system's.
SysReserved(offsets) ==
    LET next == Last(offsets) + 1
    IN  Min({IdBlockTop, IF next % 12 = 0 THEN next + 12 ELSE (next \div 12 + 1) * 12})

\* MakeIDBlockData: four sectors about the loader and the two parts of it.
IdBlock(loader, length) ==
    LET data == LoaderEntry(loader, "FlashData")
        code == LoaderEntry(loader, "FlashBoot")
        about == [kind |-> "id", rc4 |-> loader.rc4Disabled, dataSize |-> PaddedSectors(data),
                  codeSize |-> PaddedSectors(data) + PaddedSectors(code),
                  reserved |-> SysReserved(ReserveIdBlock(length)), of |-> <<Padded(data), Padded(code)>>]
    IN  [i \in 1 .. 4 |-> [about |-> about, part |-> i]] \o Padded(data) \o Padded(code)

\* WriteIDBlock.
WriteIdBlock(block) ==
    FlattenSeq([i \in 1 .. Copies |-> WriteRun(FirstCopy + (i - 1) * Apart, block)])

\* The disk is opened with O_SYNC: a copy is on the medium before the next one is
\* begun.
LoaderCuts(length) ==
    UNION {{(1 .. c * length) \cup part : part \in SUBSET (c * length + 1 .. c * length + length)}
              : c \in 0 .. Copies - 1}

\* calcIDBCount divides by zero: the program is ended, or the quotient is 0.
Trapped == 0
PhysicalBlocks == {Trapped, 1}

\* download_loader.
DownloadLoader(loader, blocks) ==
    IF ~loader.tag \/ blocks = Trapped THEN <<>> ELSE WriteIdBlock(IdBlock(loader, blocks))
-----------------------------------------------------------------------------
\* The disk when the writes in done have reached it.
OnMedium(disk, writes, done) ==
    [s \in DOMAIN disk |->
        LET mine == {i \in done : writes[i].at = s}
        IN  IF mine = {} THEN disk[s] ELSE writes[Max(mine)].what]
Finished(disk, writes) == OnMedium(disk, writes, DOMAIN writes)

\* What the kernel takes for a partition table: a header in its place, with the
\* entries it points to.
IsTable(disk, lba) ==
    /\ disk[lba].kind = "gpt" /\ disk[lba].my = lba
    /\ \A k \in 1 .. EntrySectors :
          disk[disk[lba].entryLba + k - 1] = [kind |-> "entries", of |-> disk[lba].entries, part |-> k]

\* What the boot ROM takes for a loader: a copy of it that is whole.
IsLoader(disk, copy, block) ==
    \A i \in DOMAIN block : disk[FirstCopy + (copy - 1) * Apart + i - 1] = block[i]
=============================================================================
