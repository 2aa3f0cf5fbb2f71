------------------------------- MODULE Patches -------------------------------
(* The tools that make a patch on the build host (bsdiff, imgdiff) and the *)
(* functions that apply it on the device (bspatch, imgpatch).  Compression *)
(* with bzip2 is left out, a deflate stream is one unit that stands for    *)
(* its level and its data.                                                 *)
EXTENDS BinaryDiff, SequencesExt

CONSTANTS SmallSort, \* split() sorts fewer than 16 suffixes by selection
          RawMax,    \* an image chunk of 160 bytes or less is not patched
          Magic,     \* the units a gzip file begins with; its last unit is a length
          Streams    \* the units below Base that are deflate streams: [unit, level, data]

-----------------------------------------------------------------------------
(* qsufsort: the suffixes of old in order, by doubling.                    *)

\* The members of I at from..to, those in low first.
Arranged(I, from, parts) ==
    LET order == FlattenSeq([p \in DOMAIN parts |-> SetToSeq({I[i] : i \in parts[p]})])
    IN  [i \in DOMAIN I |-> IF i \in from .. from + Len(order) - 1
                            THEN order[i - from + 1] ELSE I[i]]

\* All suffixes in I at from..to form one group, named by its last place.
Named(I, V, from, to) ==
    [v \in DOMAIN V |-> IF \E i \in from .. to : I[i] = v THEN to ELSE V[v]]
\* A suffix alone in its group is in its place.
Marked(I, from, to) == IF from = to THEN [I EXCEPT ![from] = -1] ELSE I

RECURSIVE SplitSmall(_, _, _, _, _)
SplitSmall(I, V, k, end, h) ==
    IF k >= end THEN [I |-> I, V |-> V]
    ELSE LET x == Min({V[I[i] + h] : i \in k .. end - 1})
             least == {i \in k .. end - 1 : V[I[i] + h] = x}
             last == k + Cardinality(least) - 1
             I1 == Arranged(I, k, <<least, (k .. end - 1) \ least>>)
         IN  SplitSmall(Marked(I1, k, last), Named(I1, V, k, last), last + 1, end, h)

\* A group is split by what stands h places further on.
RECURSIVE Split(_, _, _, _, _)
Split(I, V, start, len, h) ==
    IF len < SmallSort THEN SplitSmall(I, V, start, start + len, h)
    ELSE LET all == start .. start + len - 1
             x == V[I[start + len \div 2] + h]
             less == {i \in all : V[I[i] + h] < x}
             equal == {i \in all : V[I[i] + h] = x}
             jj == start + Cardinality(less)
             kk == jj + Cardinality(equal)
             I1 == Arranged(I, start, <<less, equal, all \ (less \cup equal)>>)
             s1 == IF jj > start THEN Split(I1, V, start, jj - start, h)
                                 ELSE [I |-> I1, V |-> V]
             V2 == Named(I1, s1.V, jj, kk - 1)
             I2 == Marked(s1.I, jj, kk - 1)
         IN  IF start + len > kk THEN Split(I2, V2, kk, start + len - kk, h)
                                 ELSE [I |-> I2, V |-> V2]

\* One pass over the groups; runs of places that are done are joined.
RECURSIVE Pass(_, _, _, _, _)
Pass(I, V, i, len, h) ==
    LET joined == IF len > 0 THEN [I EXCEPT ![i - len] = -len] ELSE I
    IN  IF i \notin DOMAIN I THEN [I |-> joined, V |-> V]
        ELSE IF I[i] < 0 THEN Pass(I, V, i - I[i], len - I[i], h)
        ELSE LET n == V[I[i]] + 1 - i
                 s == Split(joined, V, i, n, h)
             IN  Pass(s.I, s.V, i + n, 0, h)

RECURSIVE Doubled(_, _, _)
Doubled(I, V, h) ==
    IF I[0] = -Cardinality(DOMAIN I) THEN V
    ELSE LET s == Pass(I, V, 0, 0, h) IN Doubled(s.I, s.V, h + h)

SuffixArray(old) ==
    LET n == Len(old)
        V == [i \in 0 .. n |-> IF i = n THEN 0
                 ELSE Cardinality({j \in 0 .. n - 1 : At(old, j) <= At(old, i)})]
        byByte == SortSeq([i \in 1 .. n |-> i - 1],
                          LAMBDA a, b : At(old, a) < At(old, b))
        I == [i \in 0 .. n |->
                 IF i = 0 \/ \E j \in 0 .. n - 1 : /\ V[j] = i /\ At(old, j) # 0
                                                  /\ \A k \in 0 .. n - 1 : V[k] = i => k = j
                 THEN -1
                 ELSE byByte[i]]
        ranks == Doubled(I, V, 1)
    IN  [p \in 0 .. n |-> CHOOSE i \in 0 .. n : ranks[i] = p]
-----------------------------------------------------------------------------
(* imgdiff: a file is broken into chunks, one for each deflate stream that *)
(* can be packed again and one for what stands between two of them.  A     *)
(* zip file is its units and the entries of its central directory.         *)

IsStream(unit) == \E s \in Streams : s.unit = unit
Inflated(unit) == (CHOOSE s \in Streams : s.unit = unit).data
Deflated(data, level) == <<(CHOOSE s \in Streams : s.data = data /\ s.level = level).unit>>
Levels == {6, 9}
CanDeflate(data, level) == \E s \in Streams : s.data = data /\ s.level = level

Normal(img, start, len) ==
    [type |-> "normal", start |-> start, data |-> Slice(img, start, len),
     packed |-> <<>>, name |-> "none"]
Packed(img, start, name) ==
    [type |-> "deflate", start |-> start, data |-> Inflated(At(img, start)),
     packed |-> <<At(img, start)>>, name |-> name]

\* What an image reader answers when the file is not what it expects.
Refused == <<[type |-> "refused"]>>
Endless == <<[type |-> "endless"]>>
Failed(chunks) == chunks # <<>> /\ Head(chunks).type \in {"refused", "endless"}
Then(first, rest) == IF Failed(rest) THEN rest ELSE first \o rest

\* The header of a gzip file is looked for in the data and four zeros.
MagicAt(img, i) == Slice(img \o [z \in DOMAIN Magic |-> 0], i, Len(Magic)) = Magic
GzipAt(img, pos) == Len(img) - pos >= Len(Magic) /\ MagicAt(img, pos)

RECURSIVE ReadImage(_, _)
ReadImage(img, pos) ==
    LET unpack == pos + Len(Magic)
        foot == unpack + 1
        end == Min({i \in pos .. Len(img) : i = Len(img) \/ MagicAt(img, i)})
    IN  IF pos >= Len(img) THEN <<>>
        ELSE IF GzipAt(img, pos)
        THEN IF foot >= Len(img) \/ ~IsStream(At(img, unpack)) THEN Endless
             ELSE IF At(img, foot) # Len(Inflated(At(img, unpack))) THEN Refused
             ELSE Then(<<Normal(img, pos, Len(Magic)), Packed(img, unpack, "none"),
                         Normal(img, foot, 1)>>, ReadImage(img, foot + 1))
        ELSE IF end = pos THEN Endless
        ELSE Then(<<Normal(img, pos, end - pos)>>, ReadImage(img, end))

\* The chunks of a zip file from pos on; entries are in the order of the file.
RECURSIVE ZipChunks(_, _, _)
ZipChunks(img, entries, pos) ==
    IF pos >= Len(img) THEN <<>>
    ELSE IF entries = <<>> THEN <<Normal(img, pos, Len(img) - pos)>>
    ELSE LET e == Head(entries)
         IN  IF pos = e.offset
             THEN <<Packed(img, pos, e.name)>> \o ZipChunks(img, Tail(entries), pos + 1)
             ELSE <<Normal(img, pos, e.offset - pos)>> \o ZipChunks(img, entries, e.offset)

\* The source also counts as one chunk, first in the list.
ReadZip(zip, pseudo) ==
    LET deflated == SelectSeq(zip.entries, LAMBDA e : e.deflated)
        sorted == SortSeq(deflated, LAMBDA a, b : a.offset < b.offset)
    IN  IF \E e \in ToSet(deflated) : ~e.header \/ ~IsStream(At(zip.img, e.offset)) THEN Refused
        ELSE (IF pseudo THEN <<Normal(zip.img, 0, Len(zip.img))>> ELSE <<>>)
             \o ZipChunks(zip.img, sorted, 0)

\* The lowest level that gives the stream back.
Reconstructs(chunk, level) ==
    CanDeflate(chunk.data, level) /\ Deflated(chunk.data, level) = chunk.packed
CanReconstruct(chunk) == \E level \in Levels : Reconstructs(chunk, level)

AsNormal(chunk) ==
    IF chunk.type # "deflate" THEN chunk
    ELSE [chunk EXCEPT !.type = "normal", !.data = chunk.packed]

AreChunksEqual(a, b) ==
    a.type = b.type /\ IF a.type = "normal" THEN a.data = b.data ELSE a.packed = b.packed

\* Normal chunks that follow each other in the file become one.
Merged(chunks) ==
    FoldLeft(LAMBDA done, c :
        IF /\ done # <<>> /\ Last(done).type = "normal" /\ c.type = "normal"
           /\ c.start = Last(done).start + Len(Last(done).data)
        THEN Front(done) \o <<[Last(done) EXCEPT !.data = @ \o c.data]>>
        ELSE Append(done, c), <<>>, chunks)

\* The place of the deflate chunk with that name; 0 when there is none.
FindChunkByName(name, chunks) ==
    LET found == {i \in DOMAIN chunks : chunks[i].type = "deflate" /\ chunks[i].name = name}
    IN  IF found = {} THEN 0 ELSE Min(found)

\* A deflate chunk stays one only if it can be packed again and has a source
\* that differs; its source changes with it.
Settled(zip, pair, i) ==
    LET chunk == pair.new[i]
        j == IF zip THEN FindChunkByName(chunk.name, pair.old) ELSE i
        keep == CanReconstruct(chunk) /\ j # 0 /\ ~AreChunksEqual(chunk, pair.old[j])
    IN  IF chunk.type # "deflate" \/ keep THEN pair
        ELSE [new |-> [pair.new EXCEPT ![i] = AsNormal(@)],
              old |-> IF j = 0 THEN pair.old ELSE [pair.old EXCEPT ![j] = AsNormal(@)]]

\* size: what bzip2 makes of a patch.
MakePatch(src, tgt, size) ==
    IF tgt.type = "normal" /\ (Len(tgt.data) <= RawMax \/ Len(tgt.data) <= size)
    THEN [type |-> "raw", data |-> tgt.data]
    ELSE [type |-> tgt.type, start |-> src.start,
          len |-> IF tgt.type = "normal" THEN Len(src.data) ELSE Len(src.packed),
          expanded |-> Len(src.data), patch |-> BsDiff(SuffixArray(src.data), src.data, tgt.data),
          level |-> IF tgt.type = "normal" THEN 0
                    ELSE Min({l \in Levels : Reconstructs(tgt, l)})]

SameShape(old, new) ==
    Len(old) = Len(new) /\ \A i \in DOMAIN old : old[i].type = new[i].type

\* The rest of main: the pairs of chunks settled, merged, and a patch for each.
DiffChunks(zip, old, new, size) ==
    LET settled == FoldLeft(LAMBDA pair, i : Settled(zip, pair, i),
                            [old |-> old, new |-> new], [i \in DOMAIN new |-> i])
        tgt == Merged(settled.new)
        src == IF zip THEN settled.old ELSE Merged(settled.old)
        From(i) == IF ~zip THEN src[i]
                   ELSE LET j == FindChunkByName(tgt[i].name, src)
                        IN  IF tgt[i].type = "deflate" /\ j # 0 THEN src[j] ELSE src[1]
    IN  IF ~zip /\ Len(src) # Len(tgt) THEN Refused
        ELSE [i \in DOMAIN tgt |-> MakePatch(From(i), tgt[i], size)]

ImgDiff(old, new, size) ==
    LET src == ReadImage(old, 0)
        tgt == ReadImage(new, 0)
    IN  IF Failed(src) THEN src
        ELSE IF Failed(tgt) THEN tgt
        ELSE IF ~SameShape(Merged(src), Merged(tgt)) THEN Refused
        ELSE DiffChunks(FALSE, Merged(src), Merged(tgt), size)

ZipDiff(old, new, size) ==
    LET src == ReadZip(old, TRUE)
        tgt == ReadZip(new, FALSE)
    IN  IF Failed(src) \/ Failed(tgt) THEN Refused ELSE DiffChunks(TRUE, src, tgt, size)
-----------------------------------------------------------------------------
(* ApplyImagePatch                                                         *)

\* What one chunk adds to the output; a normal chunk that does not apply adds
\* nothing and is not noticed.
ChunkOut(old, c) ==
    IF c.type = "raw" THEN c.data
    ELSE LET source == Slice(old, c.start, c.len)
         IN  IF c.type = "normal"
             THEN LET out == BsPatch(source, c.patch) IN IF out = Corrupt THEN <<>> ELSE out
             ELSE IF Len(source) # 1 \/ ~IsStream(Head(source)) THEN Corrupt
             ELSE LET expanded == Inflated(Head(source))
                      out == BsPatch(expanded, c.patch)
                  IN  IF Len(expanded) # c.expanded \/ out = Corrupt THEN Corrupt
                      ELSE Deflated(out, c.level)

ImgPatch(old, patch) ==
    FoldLeft(LAMBDA out, c : LET o == ChunkOut(old, c)
                             IN  IF Corrupt \in {out, o} THEN Corrupt ELSE out \o o,
             <<>>, patch)
-----------------------------------------------------------------------------
(* LoadPartitionContents: the contents of a partition end where a listed   *)
(* size gives the listed hash; a hash stands for the data it is of.        *)

Unloaded == <<-1>>

RECURSIVE FirstMatch(_, _)
FirstMatch(partition, pairs) ==
    IF pairs = <<>> \/ Head(pairs).size > Len(partition) THEN Unloaded
    ELSE LET read == SubSeq(partition, 1, Head(pairs).size)
         IN  IF read = Head(pairs).sha1 THEN read ELSE FirstMatch(partition, Tail(pairs))

\* The sizes are tried from the smallest on.
LoadPartition(partition, pairs) ==
    IF \E p \in ToSet(pairs) : p.size = 0 THEN Unloaded
    ELSE FirstMatch(partition, SortSeq(pairs, LAMBDA a, b : a.size < b.size))
=============================================================================
