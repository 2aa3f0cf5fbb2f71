------------------------------ MODULE MCLayout ------------------------------
(* Small disks, parameter files, loaders and images for Layout, and what is *)
(* expected of its answers.  Sectors have 4 bytes, the array of entries has  *)
(* 2 of them, a word counts to 16.                                           *)
EXTENDS Integers, Sequences, FiniteSets, SequencesExt, FiniteSetsExt

Disk == INSTANCE Layout WITH Word <- 16, SignatureMin <- 3, EntrySectors <- 2, SectorBytes <- 4,
                             PageSectors <- 2, FirstCopy <- 2, Apart <- 12, Copies <- 3,
                             IdBlockTop <- 50
-----------------------------------------------------------------------------
Item(name, offset, size, flags) == [name |-> name, offset |-> offset, size |-> size, flags |-> flags]
List(items) == [kind |-> "mtdparts", items |-> items]
Uuid(name, text) == [kind |-> "uuid", name |-> name, text |-> text]
Plain == <<1, 2>>
Dashed == <<1, Disk!None, 2>>

Lists == {<<Item("boot", 4, 4, {})>>,
          <<Item("boot", 4, 4, {"bootable"}), Item("data", 8, Disk!None, {"grow"})>>,
          <<Item("boot", 4, 4, {}), Item("", 8, 1, {}), Item("data", 9, 2, {})>>,
          <<Item("boot", 4, 4, {}), Item("data", 8, Disk!None, {})>>,
          <<Item("boot", 4, 4, {}), Item("data", 6, 2, {})>>}
Lines == {[kind |-> "other"], [kind |-> "comment"], Uuid("boot", Plain), Uuid("data", Dashed),
          Uuid("boot", <<3>>)} \cup {List(l) : l \in Lists}
ParameterJobs == [kind : {"parameter"}, lines : UNION {[1 .. k -> Lines] : k \in 0 .. 3},
                  size : {20, 21}, sdboot : BOOLEAN]

Loader(data, code) ==
    [tag |-> TRUE, rc4Disabled |-> FALSE,
     entries |-> <<[name |-> "usb", bytes |-> 8, data |-> "u"],
                   [name |-> "FlashData", bytes |-> data, data |-> "d"],
                   [name |-> "FlashBoot", bytes |-> code, data |-> "c"]>>]
LoaderJobs == [kind : {"loader"}, old : {Loader(4, 9), Loader(17, 17)},
               new : {Loader(m, n) : m \in {0, 1, 8, 13, 25}, n \in {5, 16, 17}}
                        \cup {[Loader(4, 4) EXCEPT !.tag = FALSE]},
               blocks : Disk!PhysicalBlocks]

Highs == {Disk!None, 0, 1}
Entries == [name : {"bootloader", "boot"}, offset : {2, 9}, size : {3}, offsetHigh : Highs, sizeHigh : Highs]
ItemJobs == [kind : {"item"}, tag : BOOLEAN, digest : BOOLEAN, high : {Disk!None, 1},
             fwOffset : {0, 5, 8}, fwSize : {7, 9}, bootOffset : {1}, bootSize : {4},
             items : UNION {[1 .. k -> Entries] : k \in 0 .. 1} \cup
                 {<<a, b>> : a \in {x \in Entries : x.offsetHigh = 1},
                             b \in {x \in Entries : x.sizeHigh = Disk!None}},
             behind : {2, 4}]
\* The file ends behind its firmware, with a digest or also with a signature.
Image(job) ==
    [tag |-> job.tag, digest |-> job.digest, high |-> job.high, fwOffset |-> job.fwOffset,
     fwSize |-> job.fwSize, bootOffset |-> job.bootOffset, bootSize |-> job.bootSize,
     items |-> job.items,
     size |-> job.fwOffset + job.fwSize + (IF job.high = 1 THEN 16 ELSE 0) + job.behind]

Jobs == ParameterJobs \cup LoaderJobs \cup ItemJobs

Answer(job) ==
    CASE job.kind = "parameter" -> Disk!FlashParameter(job.lines, job.size, job.sdboot)
      [] job.kind = "loader" -> Disk!DownloadLoader(job.new, job.blocks)
      [] job.kind = "item" -> Disk!Found(Image(job), "boot")
-----------------------------------------------------------------------------
(* The partition table, as the kernel reads it: the first, or the one in   *)
(* the last sector of the disk.                                            *)

OldLines == <<List(<<Item("boot", 4, 2, {}), Item("old", 6, 5, {})>>)>>
Empty(size) == [s \in 0 .. size - 1 |-> [kind |-> "zero"]]

OneTable(disk, size) == \E lba \in {1, size - 1} : Disk!IsTable(disk, lba)

\* No partition with a size of its own that is not, and none over another.
FirstList(lines) ==
    LET lists == Disk!Indices(lines, "mtdparts")
    IN  IF lists = {} THEN <<>> ELSE SelectSeq(lines[Min(lists)].items, LAMBDA i : i.name # "")
EndOf(item) == item.offset + (IF item.size = Disk!None THEN 1 ELSE item.size) - 1
WellFormed(items) ==
    /\ \A i \in DOMAIN items : items[i].size = Disk!None <=> "grow" \in items[i].flags
    /\ \A i, j \in DOMAIN items : i < j => EndOf(items[i]) < items[j].offset
Covers(entry, sector) == entry.start <= sector /\ sector <= entry.end

TableSound(job, writes) ==
    LET old == Disk!Finished(Empty(job.size), Disk!FlashParameter(OldLines, job.size, FALSE))
        new == Disk!Finished(old, writes)
        table == new[1]
        items == FirstList(job.lines)
    IN  IF Disk!Comments(job.lines) # {} THEN writes = Disk!Endless
        ELSE /\ writes # Disk!Endless
             /\ job.size % 2 = 0 =>
                   \A done \in Disk!TableCuts(writes) :
                       \/ Disk!Torn(Disk!Primary, done) /\ Disk!Torn(Disk!Backup, done)
                       \/ OneTable(Disk!OnMedium(old, writes, done), job.size)
             /\ Disk!IsTable(new, 1)
             /\ {e.name : e \in ToSet(table.entries)} = {i.name : i \in ToSet(items)}
             /\ ~job.sdboot =>
                   LET back == new[table.alternate]
                   IN  /\ Disk!IsTable(new, table.alternate) /\ back.alternate = 1
                       /\ back.entries = table.entries
                       /\ \A e \in ToSet(table.entries) :
                             WellFormed(items) => ~Covers(e, back.entryLba) /\ ~Covers(e, 3)
             /\ WellFormed(items) =>
                   \A s \in 0 .. job.size - 1 :
                       LET mine == {e \in ToSet(table.entries) : Covers(e, s)}
                       IN  /\ Cardinality(mine) <= 1
                           /\ mine # {} => table.first <= s /\ s <= table.last

(* The loader: the boot ROM takes the first copy that is whole.            *)
LoaderSound(job, writes) ==
    LET oldBlock == Disk!IdBlock(job.old, 1)
        block == Disk!IdBlock(job.new, 1)
        old == Disk!Finished(Empty(50), Disk!WriteIdBlock(oldBlock))
    IN  IF ~job.new.tag \/ job.blocks = Disk!Trapped THEN writes = <<>>
        ELSE /\ Len(block) <= 12 /\ Len(oldBlock) <= 12 =>
                   \A done \in Disk!LoaderCuts(Len(block)) : \E c \in 1 .. 3 :
                       LET disk == Disk!OnMedium(old, writes, done)
                       IN  Disk!IsLoader(disk, c, block) \/ Disk!IsLoader(disk, c, oldBlock)
             /\ Disk!IsLoader(Disk!Finished(old, writes), 3, block)
             /\ Len(block) <= 12 => \A c \in 1 .. 3 : Disk!IsLoader(Disk!Finished(old, writes), c, block)

(* The item: where it stands in the file, unless the low word of its place *)
(* overflows.                                                              *)
ItemSound(job, found) ==
    LET hits == {i \in DOMAIN job.items : job.items[i].name = "boot"}
        item == job.items[Max(hits)]
        intact == job.tag /\ job.digest /\ job.behind < 3
    IN  /\ found.found = (intact /\ hits # {})
        /\ found.found /\ item.offset + job.fwOffset < 16 =>
              found.offset = job.fwOffset + item.offset + (IF item.offsetHigh = 1 THEN 16 ELSE 0)

Sound(job, answer) ==
    CASE job.kind = "parameter" -> TableSound(job, answer)
      [] job.kind = "loader" -> LoaderSound(job, answer)
      [] job.kind = "item" -> ItemSound(job, answer)
=============================================================================
