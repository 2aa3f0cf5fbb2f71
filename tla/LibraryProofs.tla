--------------------------- MODULE LibraryProofs ---------------------------
(* What the algorithms of the library do for every input: the end record   *)
(* of a package, the partition table on the disk, the copies of the loader *)
(* and a binary patch made and applied.                                    *)
EXTENDS SignedPackage, Layout, BinaryDiff, MinzipProofs

-----------------------------------------------------------------------------
LEMMA MaxIs ==
    ASSUME NEW S \in SUBSET Int, NEW m \in S, \A k \in S : k <= m
    PROVE  Max(S) = m
<1>1. \A y \in S : m >= y
  OBVIOUS
<1>2. Max(S) \in S /\ \A y \in S : Max(S) >= y
  BY <1>1 DEF Max
<1>3. Max(S) >= m /\ Max(S) <= m /\ Max(S) \in Int /\ m \in Int
  BY <1>2
<1> QED BY <1>3
-----------------------------------------------------------------------------
(* The end record.                                                         *)

LEMMA FromEndIs ==
    ASSUME NEW file \in Seq(Nat), NEW n \in 1 .. Len(file)
    PROVE  /\ FromEnd(file, n) \in Seq(Nat) /\ Len(FromEnd(file, n)) = n
           /\ \A i \in 1 .. n : FromEnd(file, n)[i] = file[Len(file) - n + i]
           /\ Head(FromEnd(file, n)) = file[Len(file) - n + 1]
<1> DEFINE a == Len(file) - n + 1
           b == Len(file)
<1>1. a \in 1 .. b /\ b \in Nat
  OBVIOUS
<1>2. FromEnd(file, n) = SubSeq(file, a, b)
  BY DEF FromEnd
<1>3. /\ SubSeq(file, a, b) \in Seq(Nat) /\ Len(SubSeq(file, a, b)) = b - a + 1
      /\ \A i \in 1 .. b - a + 1 : SubSeq(file, a, b)[i] = file[a + i - 1]
  BY SMTT(30), <1>1, SubSeqProperties
<1>4. b - a + 1 = n /\ \A i \in 1 .. n : a + i - 1 = Len(file) - n + i
  OBVIOUS
<1> HIDE DEF a, b
<1> DEFINE s == FromEnd(file, n)
<1>5. s \in Seq(Nat) /\ Len(s) = n /\ \A i \in 1 .. n : s[i] = file[Len(file) - n + i]
  BY <1>2, <1>3, <1>4
<1>6. Head(s) = s[1]
  <2> HIDE DEF s
  <2> QED BY <1>5
<1> QED BY <1>5, <1>6

\* Where the end record that the signature relies on begins: the mark is there
\* and nowhere behind it.
LEMMA SignedPartIs ==
    ASSUME NEW file \in Seq(Nat), SignedPart(file) # Unsigned
    PROVE  LET comment == file[Len(file)]
               k == Len(file) - comment - 1
               at == k - EocdHeaderSize + 2
           IN  /\ comment \in Nat /\ k \in 1 .. Len(file) - 1 /\ SignedPart(file) = SubSeq(file, 1, k)
               /\ at \in 1 .. Len(file) - EocdHeaderSize + 1 /\ file[at] = EocdMark
               /\ \A i \in 1 .. Len(file) : i > at => file[i] # EocdMark
<1> DEFINE footer == FromEnd(file, FooterSize)
           eocdSize == footer[3] + EocdHeaderSize
           eocd == FromEnd(file, eocdSize)
           comment == file[Len(file)]
           k == Len(file) - comment - 1
           at == k - EocdHeaderSize + 2
<1>1. FooterSize = 3 /\ EocdHeaderSize \in Nat \ {0, 1} /\ Len(file) \in Nat
  BY PackageAssumption
<1>2. Len(file) >= 3
  BY <1>1 DEF SignedPart
<1>3. footer[3] = comment /\ comment \in Nat
  BY <1>1, <1>2, FromEndIs
<1>4. ~(Len(file) < eocdSize)
  BY <1>1, <1>2 DEF SignedPart
<1>5. /\ ~(Head(eocd) # EocdMark \/ \E i \in 2 .. eocdSize : eocd[i] = EocdMark)
      /\ SignedPart(file) = SubSeq(file, 1, Len(file) - eocdSize + EocdHeaderSize - 1)
  BY <1>2, <1>4 DEF SignedPart
<1>6. eocdSize \in 1 .. Len(file) /\ eocdSize = comment + EocdHeaderSize
  <2>1. eocdSize = comment + EocdHeaderSize
    BY <1>3
  <2> HIDE DEF eocdSize, comment
  <2> QED BY <1>1, <1>3, <1>4, <2>1
<1>7. Len(file) - eocdSize + EocdHeaderSize - 1 = k /\ at = Len(file) - eocdSize + 1
      /\ k \in 1 .. Len(file) - 1 /\ at \in 1 .. Len(file) - EocdHeaderSize + 1
  <2> HIDE DEF eocdSize, comment
  <2> QED BY <1>1, <1>3, <1>6
<1>8. file[at] = EocdMark
  BY ZenonT(60), <1>5, <1>6, <1>7, FromEndIs
<1>9. ASSUME NEW i \in 1 .. Len(file), i > at PROVE file[i] # EocdMark
  <2> DEFINE j == i - at + 1
  <2>1. j \in 2 .. eocdSize /\ Len(file) - eocdSize + j = i
    <3>1. at \in Int /\ eocdSize \in Int /\ i \in Int /\ i <= Len(file) /\ i > at
      <4>1. at \in Int
        <5> HIDE DEF eocdSize, at
        <5> QED BY <1>1, <1>7
      <4> HIDE DEF eocdSize, at
      <4> QED BY <1>1, <1>6, <1>9, <4>1
    <3>2. at = Len(file) - eocdSize + 1
      BY <1>7
    <3> HIDE DEF eocdSize, at
    <3> QED BY <1>1, <3>1, <3>2
  <2> HIDE DEF j, eocdSize
  <2>2. \A m \in 1 .. eocdSize : FromEnd(file, eocdSize)[m] = file[Len(file) - eocdSize + m]
    BY <1>6, FromEndIs
  <2>3. j \in 1 .. eocdSize
    BY <1>6, <2>1
  <2> QED BY <1>5, <2>1, <2>2, <2>3
<1> HIDE DEF footer, eocdSize, eocd
<1> QED BY <1>3, <1>5, <1>7, <1>8, <1>9

\* What is verified has that length, and the reader looks at that end record.
LEMMA VerifiedIsRead ==
    ASSUME NEW file \in Seq(Nat), NEW l \in 0 .. Len(file),
           VerifyFile(file, SubSeq(file, 1, l))
    PROVE  LET k == Len(file) - Last(file) - 1
           IN  /\ k \in 1 .. Len(file) - 1 /\ l = k /\ SignedPart(file) = SubSeq(file, 1, k)
               /\ ReaderEocd(file) = IF Head(file) = LocalMark THEN k - EocdHeaderSize + 2 ELSE 0
<1> DEFINE k == Len(file) - file[Len(file)] - 1
           at == k - EocdHeaderSize + 2
           found == {i \in 1 .. Len(file) - EocdHeaderSize + 1 : file[i] = EocdMark}
<1>1. SignedPart(file) # Unsigned /\ SignedPart(file) = SubSeq(file, 1, l)
  BY DEF VerifyFile
<1>2. /\ k \in 1 .. Len(file) - 1 /\ SignedPart(file) = SubSeq(file, 1, k)
      /\ at \in 1 .. Len(file) - EocdHeaderSize + 1 /\ file[at] = EocdMark
      /\ \A i \in 1 .. Len(file) : i > at => file[i] # EocdMark
  BY <1>1, SignedPartIs
<1>3. Len(file) \in Nat /\ EocdHeaderSize \in Nat \ {0, 1}
  BY PackageAssumption
<1> HIDE DEF k
<1>4. l = k
  <2>1. Len(SubSeq(file, 1, l)) = l
    BY <1>3
  <2>2. Len(SubSeq(file, 1, k)) = k
    BY <1>2, <1>3
  <2> QED BY <1>1, <1>2, <2>1, <2>2
<1>5. Last(file) = file[Len(file)] /\ file # <<>>
  BY <1>2, <1>3 DEF Last
<1>6. at \in found
  BY <1>2
<1>7. \A i \in found : i <= at /\ i \in Int
  BY <1>2, <1>3
<1>8. Max(found) = at
  <2>1. at \in Int
    BY <1>2, <1>3
  <2> HIDE DEF found, at
  <2> QED BY <1>6, <1>7, <2>1, MaxIs
<1>9. ReaderEocd(file) = IF Head(file) = LocalMark THEN at ELSE 0
  <2>1. found # {}
    BY <1>6
  <2> HIDE DEF at
  <2> QED BY <1>5, <1>8, <2>1 DEF ReaderEocd
<1> QED BY <1>2, <1>4, <1>5, <1>9 DEF k

\* The answer is the one of the call that was made.
Verified ==
    /\ job \in VerifyJobs
    /\ out = NoAnswer \/ out = [kind |-> "verified",
                                lengths |-> {k \in 0 .. Len(job.file) :
                                                VerifyFile(job.file, SubSeq(job.file, 1, k))},
                                reader |-> ReaderEocd(job.file)]

\* A package is verified for the one length of the signed part that ends where
\* the reader's end record does, whatever its units and however long it is.
THEOREM SignedPartIsRead == VerifySpec => []SignedIsRead
<1>1. job \in VerifyJobs /\ out = NoAnswer => Verified
  BY DEF Verified
<1>2. Verified /\ [Verify]_<<job, out>> => Verified'
  BY DEF Verified, Verify
<1>3. Verified => SignedIsRead
  <2> SUFFICES ASSUME Verified, out.kind = "verified", out.lengths # {}
               PROVE  \E k \in 1 .. Len(job.file) - 1 :
                         /\ out.lengths = {k}
                         /\ out.reader = IF Head(job.file) = LocalMark
                                         THEN k - EocdHeaderSize + 2 ELSE 0
                         /\ Last(job.file) = Len(job.file) - k - 1
    BY DEF SignedIsRead
  <2> DEFINE file == job.file
             k == Len(file) - Last(file) - 1
  <2>1. file \in Seq(Nat)
    BY PackageAssumption DEF Verified, VerifyJobs
  <2>2. out # NoAnswer
    BY DEF NoAnswer
  <2>3. /\ out.lengths = {l \in 0 .. Len(file) : VerifyFile(file, SubSeq(file, 1, l))}
        /\ out.reader = ReaderEocd(file)
    BY <2>2 DEF Verified
  <2> HIDE DEF file
  <2>4. PICK l \in 0 .. Len(file) : VerifyFile(file, SubSeq(file, 1, l))
    BY <2>3 DEF file
  <2>5. /\ k \in 1 .. Len(file) - 1 /\ l = k
        /\ out.reader = IF Head(file) = LocalMark THEN k - EocdHeaderSize + 2 ELSE 0
    BY <2>1, <2>3, <2>4, VerifiedIsRead
  <2>6. out.lengths = {k}
    <3>1. \A j \in 0 .. Len(file) : VerifyFile(file, SubSeq(file, 1, j)) => j = k
      BY <2>1, VerifiedIsRead
    <3> HIDE DEF k
    <3> QED BY <2>3, <2>4, <2>5, <3>1
  <2>7. Last(file) = Len(file) - k - 1
    <3>1. Last(file) \in Int
      <4>1. Len(file) \in Nat /\ Len(file) \in 1 .. Len(file)
        BY <2>1, <2>5
      <4> QED BY <2>1, <4>1 DEF Last
    <3> QED BY <2>1, <3>1
  <2> QED BY <2>5, <2>6, <2>7 DEF file
<1> QED BY <1>1, <1>2, <1>3, PTL DEF VerifySpec
-----------------------------------------------------------------------------
(* What a program has written when it is interrupted.                      *)

\* A sector that none of the writes made is to holds what it held.
LEMMA ReachedOthers ==
    ASSUME NEW disk, NEW writes, NEW done \in SUBSET Int, NEW x \in DOMAIN disk,
           \A j \in done : writes[j].at # x
    PROVE  OnMedium(disk, writes, done)[x] = disk[x]
<1> DEFINE mine == {j \in done : writes[j].at = x}
<1>1. OnMedium(disk, writes, done)[x] = IF mine = {} THEN disk[x] ELSE writes[Max(mine)].what
  BY DEF OnMedium
<1>2. mine = {}
  OBVIOUS
<1> HIDE DEF mine
<1> QED BY <1>1, <1>2

\* A sector that one of the writes made is to, and no other, holds what that
\* one has put there.
LEMMA ReachedOne ==
    ASSUME NEW disk, NEW writes, NEW done \in SUBSET Int, NEW x \in DOMAIN disk,
           NEW i \in done, writes[i].at = x,
           \A j \in done : writes[j].at = x => j = i
    PROVE  OnMedium(disk, writes, done)[x] = writes[i].what
<1> DEFINE mine == {j \in done : writes[j].at = x}
<1>1. OnMedium(disk, writes, done)[x] = IF mine = {} THEN disk[x] ELSE writes[Max(mine)].what
  BY DEF OnMedium
<1>2. mine = {i}
  OBVIOUS
<1> HIDE DEF mine
<1>3. mine # {}
  BY <1>2
<1>4. Max({i}) = i
  <2>1. {i} \in SUBSET Int /\ \A k \in {i} : k <= i
    OBVIOUS
  <2> QED BY <2>1, MaxIs
<1>5. Max(mine) = i
  BY <1>2, <1>4
<1> QED BY <1>1, <1>3, <1>5
-----------------------------------------------------------------------------
(* The partition table.                                                    *)

EntrySector(gpt, k) == [kind |-> "entries", of |-> gpt.entries, part |-> k]
NewGpt(lines, size) == CreateGpt(GetParam(lines), GetUuid(lines), size)

LEMMA GptIs ==
    ASSUME NEW lines, NEW size \in Nat, EntrySectors \in Nat \ {0}
    PROVE  LET gpt == NewGpt(lines, size)
               back == PrepareBackup(gpt)
           IN  /\ gpt.kind = "gpt" /\ gpt.my = 1 /\ gpt.alternate = size - 1 /\ gpt.entryLba = 2
               /\ back.kind = "gpt" /\ back.my = size - 1 /\ back.alternate = 1
               /\ back.entryLba = size - EntrySectors - 1 /\ back.entries = gpt.entries
<1> DEFINE gpt == NewGpt(lines, size)
           back == PrepareBackup(gpt)
<1>1. /\ gpt.kind = "gpt" /\ gpt.my = 1 /\ gpt.alternate = size - 1 /\ gpt.entryLba = 2
      /\ gpt.last = size - EntrySectors - 2
  BY DEF NewGpt, CreateGpt, LastUsable
<1>2. gpt \in [kind : {gpt.kind}, my : {gpt.my}, alternate : {gpt.alternate},
               entryLba : {gpt.entryLba}, first : {gpt.first}, last : {gpt.last},
               entries : {gpt.entries}]
  BY DEF NewGpt, CreateGpt
<1> HIDE DEF gpt
<1>3. /\ back.kind = gpt.kind /\ back.my = gpt.alternate /\ back.alternate = gpt.my
      /\ back.entryLba = gpt.last + 1 /\ back.entries = gpt.entries
  BY <1>2 DEF PrepareBackup
<1>4. (size - EntrySectors - 2) + 1 = size - EntrySectors - 1
  OBVIOUS
<1> HIDE DEF back
<1> QED BY <1>1, <1>3, <1>4 DEF gpt, back

\* The sectors in the order in which they are written.
LEMMA ParameterWrites ==
    ASSUME NEW lines, NEW size \in Nat, size % 2 = 0, EntrySectors \in Nat \ {0},
           NEW sdboot \in BOOLEAN, FlashParameter(lines, size, sdboot) # Endless
    PROVE  LET E == EntrySectors
               w == FlashParameter(lines, size, sdboot)
               gpt == NewGpt(lines, size)
           IN  /\ Len(w) = (IF sdboot THEN E + 2 ELSE 2 * E + 3) /\ DOMAIN w = 1 .. Len(w)
               /\ \A i \in 1 .. Len(w) :
                     w[i].at = IF i <= E + 2 THEN i - 1 ELSE (size - E - 1) + (i - (E + 2)) - 1
               /\ w[2].what = gpt /\ \A k \in 1 .. E : w[k + 2].what = EntrySector(gpt, k)
               /\ ~sdboot => /\ \A k \in 1 .. E : w[E + 2 + k].what = EntrySector(gpt, k)
                             /\ w[2 * E + 3].what = PrepareBackup(gpt)
<1> DEFINE E == EntrySectors
           w == FlashParameter(lines, size, sdboot)
           gpt == NewGpt(lines, size)
           array == [k \in 1 .. E |-> EntrySector(gpt, k)]
           mbr == [kind |-> "mbr"]
           f == <<mbr, gpt>> \o array
           b == array \o <<PrepareBackup(gpt)>>
           front == WriteRun(0, f)
           back == WriteRun(size - E - 1, b)
<1>1. DiskSectors(size) = size
  BY DEF DiskSectors
<1>2. w = IF sdboot THEN front ELSE front \o back
  <2>1. EntryArray(gpt) = array
    BY DEF EntryArray, EntrySector
  <2> HIDE DEF array
  <2> QED BY <1>1, <2>1 DEF FlashParameter, NewGpt
<1>3. E \in Nat \ {0} /\ Len(array) = E /\ \A k \in 1 .. E : array[k] = EntrySector(gpt, k)
  OBVIOUS
<1>4. array \in Seq({EntrySector(gpt, k) : k \in 1 .. E})
  OBVIOUS
<1> HIDE DEF E, w, gpt, array, mbr
<1>5. /\ Len(f) = E + 2 /\ DOMAIN f = 1 .. E + 2 /\ f[2] = gpt
      /\ \A k \in 1 .. E : f[k + 2] = EntrySector(gpt, k)
  BY <1>3, <1>4
<1>6. /\ Len(b) = E + 1 /\ DOMAIN b = 1 .. E + 1
      /\ \A k \in 1 .. E : b[k] = EntrySector(gpt, k)
      /\ b[E + 1] = PrepareBackup(gpt)
  BY <1>3, <1>4
<1> HIDE DEF f, b
<1>7. /\ Len(front) = E + 2 /\ DOMAIN front = 1 .. E + 2
      /\ \A i \in 1 .. E + 2 : front[i] = [at |-> 0 + i - 1, what |-> f[i]]
  BY <1>3, <1>5 DEF WriteRun, Write
<1>8. /\ Len(back) = E + 1 /\ DOMAIN back = 1 .. E + 1
      /\ \A i \in 1 .. E + 1 : back[i] = [at |-> (size - E - 1) + i - 1, what |-> b[i]]
  BY <1>3, <1>6 DEF WriteRun, Write
<1> DEFINE S == {front[i] : i \in 1 .. E + 2} \cup {back[i] : i \in 1 .. E + 1}
<1>9. front \in Seq(S) /\ back \in Seq(S)
  <2>1. front = [i \in 1 .. E + 2 |-> front[i]] /\ back = [i \in 1 .. E + 1 |-> back[i]]
    BY <1>5, <1>6 DEF WriteRun
  <2>2. E + 2 \in Nat /\ E + 1 \in Nat
    BY <1>3
  <2> HIDE DEF front, back
  <2>3. \A i \in 1 .. E + 2 : front[i] \in S
    OBVIOUS
  <2>4. \A i \in 1 .. E + 1 : back[i] \in S
    OBVIOUS
  <2> HIDE DEF S
  <2> DEFINE p == E + 2
             q == E + 1
  <2>5. /\ p \in Nat /\ front = [i \in 1 .. p |-> front[i]] /\ \A i \in 1 .. p : front[i] \in S
        /\ q \in Nat /\ back = [i \in 1 .. q |-> back[i]] /\ \A i \in 1 .. q : back[i] \in S
    BY <2>1, <2>2, <2>3, <2>4
  <2> HIDE DEF p, q
  <2>6. front \in Seq(S)
    BY <2>5
  <2>7. back \in Seq(S)
    BY <2>5
  <2> QED BY <2>6, <2>7
<1> HIDE DEF front, back, S
<1>10. CASE sdboot
  <2>1. w = front
    BY <1>2, <1>10
  <2>2. \A i \in 1 .. E + 2 : w[i].at = i - 1 /\ w[i].what = f[i]
    BY <1>3, <1>7, <2>1
  <2>3. 2 \in 1 .. E + 2 /\ \A k \in 1 .. E : k + 2 \in 1 .. E + 2
    BY <1>3
  <2>4. Len(w) = E + 2 /\ DOMAIN w = 1 .. E + 2 /\ \A i \in 1 .. E + 2 : i <= E + 2
    BY <1>3, <1>7, <2>1
  <2>5. w[2].what = gpt /\ \A k \in 1 .. E : w[k + 2].what = EntrySector(gpt, k)
    BY <1>5, <2>2, <2>3
  <2> QED BY <1>10, <2>2, <2>4, <2>5 DEF E, w, gpt
<1>11. CASE ~sdboot
  <2>1. w = front \o back
    BY <1>2, <1>11
  <2>2. Len(w) = 2 * E + 3 /\ (\A i \in 1 .. E + 2 : w[i] = front[i])
        /\ \A i \in 1 .. E + 1 : w[E + 2 + i] = back[i]
    <3>1. Len(front \o back) = Len(front) + Len(back)
          /\ \A i \in 1 .. Len(front) + Len(back) :
                (front \o back)[i] = IF i <= Len(front) THEN front[i] ELSE back[i - Len(front)]
      BY <1>9, ConcatProperties
    <3>2. \A i \in 1 .. E + 2 : i \in 1 .. Len(front) + Len(back) /\ i <= Len(front)
      BY <1>3, <1>7, <1>8
    <3>3. \A i \in 1 .. E + 1 : /\ E + 2 + i \in 1 .. Len(front) + Len(back)
                               /\ ~(E + 2 + i <= Len(front)) /\ (E + 2 + i) - Len(front) = i
      BY <1>3, <1>7, <1>8
    <3>4. Len(front) + Len(back) = 2 * E + 3
      BY <1>3, <1>7, <1>8
    <3> QED BY <2>1, <3>1, <3>2, <3>3, <3>4
  <2>3. \A i \in 1 .. E + 2 : w[i].at = i - 1 /\ w[i].what = f[i]
    BY <1>3, <1>7, <2>2
  <2>4. \A i \in 1 .. E + 1 : w[E + 2 + i].at = (size - E - 1) + i - 1 /\ w[E + 2 + i].what = b[i]
    BY <1>8, <2>2
  <2>5. ASSUME NEW i \in 1 .. Len(w)
        PROVE  w[i].at = IF i <= E + 2 THEN i - 1 ELSE (size - E - 1) + (i - (E + 2)) - 1
    <3>1. CASE i <= E + 2
      BY <1>3, <2>2, <2>3, <3>1
    <3>2. CASE ~(i <= E + 2)
      <4>1. i - (E + 2) \in 1 .. E + 1 /\ E + 2 + (i - (E + 2)) = i
        BY <1>3, <2>2, <3>2
      <4> QED BY <2>4, <3>2, <4>1
    <3> QED BY <3>1, <3>2
  <2>6. 2 \in 1 .. E + 2 /\ (\A k \in 1 .. E : k + 2 \in 1 .. E + 2)
    BY <1>3
  <2>7. w[2].what = gpt /\ \A k \in 1 .. E : w[k + 2].what = EntrySector(gpt, k)
    BY <1>5, <2>3, <2>6
  <2>8. (\A k \in 1 .. E : w[E + 2 + k].what = EntrySector(gpt, k))
        /\ w[2 * E + 3].what = PrepareBackup(gpt)
    <3>1. E + 1 \in 1 .. E + 1 /\ E + 2 + (E + 1) = 2 * E + 3 /\ \A k \in 1 .. E : k \in 1 .. E + 1
      BY <1>3
    <3> QED BY <1>6, <2>4, <3>1
  <2>9. DOMAIN w = 1 .. Len(w)
    BY <1>9, <2>1
  <2> QED BY <1>11, <2>2, <2>5, <2>7, <2>8, <2>9 DEF E, w, gpt
<1> QED BY <1>10, <1>11

\* now is the disk when the writes in done have reached it: a sector holds what
\* its write has put there, and one of the backup that was not written is as it was.
Written(disk, w, size, done, now) ==
    /\ \A i \in 1 .. Len(w) : now[w[i].at] = IF i \in done THEN w[i].what ELSE disk[w[i].at]
    /\ Backup \cap done = {} =>
          \A x \in size - EntrySectors - 1 .. size - 1 : now[x] = disk[x]

\* No sector is written twice.
LEMMA ParameterReached ==
    ASSUME NEW lines, NEW size \in Nat, size % 2 = 0, EntrySectors \in Nat \ {0},
           size >= 2 * EntrySectors + 3,
           NEW sdboot \in BOOLEAN, FlashParameter(lines, size, sdboot) # Endless,
           NEW disk, 0 .. size - 1 \subseteq DOMAIN disk,
           NEW done \in SUBSET (1 .. Len(FlashParameter(lines, size, sdboot)))
    PROVE  LET w == FlashParameter(lines, size, sdboot)
           IN  Written(disk, w, size, done, OnMedium(disk, w, done))
<1> DEFINE E == EntrySectors
           w == FlashParameter(lines, size, sdboot)
<1>1. Len(w) = IF sdboot THEN E + 2 ELSE 2 * E + 3
  BY ParameterWrites
<1>2. \A i \in 1 .. Len(w) :
         w[i].at = IF i <= E + 2 THEN i - 1 ELSE (size - E - 1) + (i - (E + 2)) - 1
  BY ZenonT(60), ParameterWrites
<1>3. done \subseteq 1 .. Len(w) /\ done \in SUBSET Int
  <2>1. Len(w) \in Nat
    BY <1>1
  <2> QED BY <2>1
<1> HIDE DEF w
<1>4. E \in Nat \ {0} /\ size >= 2 * E + 3 /\ Len(w) \in Nat
  BY <1>1 DEF w
<1>5. \A i, j \in 1 .. Len(w) : w[i].at = w[j].at => i = j
  BY <1>1, <1>2, <1>4
<1>6. \A i \in 1 .. Len(w) : w[i].at \in 0 .. size - 1
  BY <1>1, <1>2, <1>4
<1>7. ASSUME NEW i \in 1 .. Len(w)
      PROVE  OnMedium(disk, w, done)[w[i].at] = IF i \in done THEN w[i].what ELSE disk[w[i].at]
  <2> DEFINE x == w[i].at
  <2>1. x \in DOMAIN disk
    BY <1>6
  <2>2. \A j \in done : w[j].at = x => j = i
    BY <1>3, <1>5
  <2>3. w[i].at = x
    OBVIOUS
  <2> HIDE DEF x
  <2>4. CASE i \in done
    <3>1. OnMedium(disk, w, done)[x] = w[i].what
      BY <1>3, <2>1, <2>2, <2>3, <2>4, ReachedOne
    <3> QED BY <2>4, <3>1 DEF x
  <2>5. CASE i \notin done
    <3>1. \A j \in done : w[j].at # x
      BY <2>2, <2>5
    <3>2. OnMedium(disk, w, done)[x] = disk[x]
      BY <1>3, <2>1, <3>1, ReachedOthers
    <3> QED BY <2>5, <3>2 DEF x
  <2> QED BY <2>4, <2>5
<1>8. ASSUME Backup \cap done = {}, NEW x \in size - E - 1 .. size - 1
      PROVE  OnMedium(disk, w, done)[x] = disk[x]
  <2>1. \A j \in done : j \in 1 .. Len(w) /\ j <= E + 2
    BY <1>1, <1>3, <1>4, <1>8 DEF Backup
  <2>2. \A j \in done : w[j].at # x
    BY <1>2, <1>4, <2>1
  <2>3. x \in DOMAIN disk
    BY <1>4
  <2> QED BY <1>3, <2>2, <2>3, ReachedOthers
<1> QED BY <1>7, <1>8 DEF w, Written

\* A copy of the table is whole when all of it was written, or nothing of it over
\* one that was whole.
LEMMA CopiesWhole ==
    ASSUME NEW lines, NEW size \in Nat, size % 2 = 0, EntrySectors \in Nat \ {0},
           size >= 2 * EntrySectors + 3,
           NEW sdboot \in BOOLEAN, FlashParameter(lines, size, sdboot) # Endless,
           NEW disk, 0 .. size - 1 \subseteq DOMAIN disk,
           NEW done \in TableCuts(FlashParameter(lines, size, sdboot))
    PROVE  LET now == OnMedium(disk, FlashParameter(lines, size, sdboot), done)
               gpt == NewGpt(lines, size)
           IN  /\ Primary \subseteq done => IsTable(now, 1) /\ now[1] = gpt
               /\ Primary \cap done = {} /\ IsTable(disk, 1) /\ disk[1].entryLba = 2 =>
                     IsTable(now, 1)
               /\ ~sdboot /\ Backup \subseteq done =>
                     IsTable(now, size - 1) /\ now[size - 1] = PrepareBackup(gpt)
               /\ /\ Backup \cap done = {}
                  /\ IsTable(disk, size - 1) /\ disk[size - 1].entryLba = size - EntrySectors - 1
                  => IsTable(now, size - 1)
<1> DEFINE E == EntrySectors
           w == FlashParameter(lines, size, sdboot)
           now == OnMedium(disk, w, done)
           gpt == NewGpt(lines, size)
           back == PrepareBackup(gpt)
<1>1. /\ Len(w) = IF sdboot THEN E + 2 ELSE 2 * E + 3
      /\ w[2].what = gpt /\ \A k \in 1 .. E : w[k + 2].what = EntrySector(gpt, k)
      /\ ~sdboot => /\ \A k \in 1 .. E : w[E + 2 + k].what = EntrySector(gpt, k)
                    /\ w[2 * E + 3].what = back
  BY ParameterWrites
<1>2. \A i \in 1 .. Len(w) :
         w[i].at = IF i <= E + 2 THEN i - 1 ELSE (size - E - 1) + (i - (E + 2)) - 1
  BY ParameterWrites, ZenonT(60)
<1>3. done \in SUBSET (1 .. Len(w)) /\ Len(w) \in Nat
  <2>1. DOMAIN w = 1 .. Len(w) /\ DOMAIN FlashParameter(lines, size, sdboot) = DOMAIN w
    BY ParameterWrites
  <2> QED BY <1>1, <2>1 DEF TableCuts
<1>4. Written(disk, w, size, done, now)
  BY <1>3, ParameterReached
<1>5. \A i \in 1 .. Len(w) : now[w[i].at] = IF i \in done THEN w[i].what ELSE disk[w[i].at]
  BY <1>4 DEF Written
<1>6. Backup \cap done = {} => \A x \in size - E - 1 .. size - 1 : now[x] = disk[x]
  BY <1>4 DEF Written
<1>7. /\ gpt.kind = "gpt" /\ gpt.my = 1 /\ gpt.entryLba = 2
      /\ back.kind = "gpt" /\ back.my = size - 1 /\ back.entryLba = size - E - 1
      /\ back.entries = gpt.entries
  BY GptIs
<1>8. E \in Nat \ {0} /\ size >= 2 * E + 3
  OBVIOUS
<1> HIDE DEF w, now, gpt, back
<1>9. /\ 2 \in 1 .. Len(w) /\ w[2].at = 1
      /\ \A k \in 1 .. E : k + 2 \in 1 .. Len(w) /\ w[k + 2].at = 2 + k - 1
  BY <1>1, <1>2, <1>8
<1>10. ASSUME Primary \subseteq done PROVE IsTable(now, 1) /\ now[1] = gpt
  <2>1. 2 \in done /\ \A k \in 1 .. E : k + 2 \in done
    BY <1>8, <1>10 DEF Primary
  <2>2. now[1] = gpt /\ \A k \in 1 .. E : now[2 + k - 1] = EntrySector(gpt, k)
    BY <1>1, <1>5, <1>9, <2>1
  <2> QED BY <1>7, <2>2 DEF IsTable, EntrySector
<1>11. ASSUME Primary \cap done = {}, IsTable(disk, 1), disk[1].entryLba = 2
       PROVE  IsTable(now, 1)
  <2>1. 2 \notin done /\ \A k \in 1 .. E : k + 2 \notin done
    BY <1>8, <1>11 DEF Primary
  <2>2. now[1] = disk[1] /\ \A k \in 1 .. E : now[2 + k - 1] = disk[2 + k - 1]
    BY <1>5, <1>9, <2>1
  <2> QED BY <1>11, <2>2 DEF IsTable
<1>12. ASSUME ~sdboot, Backup \subseteq done
       PROVE  IsTable(now, size - 1) /\ now[size - 1] = back
  <2>1. /\ 2 * E + 3 \in 1 .. Len(w) /\ w[2 * E + 3].at = size - 1
        /\ \A k \in 1 .. E : E + 2 + k \in 1 .. Len(w) /\ w[E + 2 + k].at = (size - E - 1) + k - 1
    <3>1. Len(w) = 2 * E + 3
      BY <1>1, <1>12
    <3>2. /\ 2 * E + 3 \in 1 .. Len(w) /\ ~(2 * E + 3 <= E + 2)
          /\ (size - E - 1) + ((2 * E + 3) - (E + 2)) - 1 = size - 1
      BY <1>8, <3>1
    <3>3. ASSUME NEW k \in 1 .. E
          PROVE  /\ E + 2 + k \in 1 .. Len(w) /\ ~(E + 2 + k <= E + 2)
                 /\ (size - E - 1) + ((E + 2 + k) - (E + 2)) - 1 = (size - E - 1) + k - 1
      BY <1>8, <3>1
    <3> HIDE DEF E
    <3> QED BY <1>2, <3>2, <3>3
  <2>2. 2 * E + 3 \in done /\ \A k \in 1 .. E : E + 2 + k \in done
    BY <1>8, <1>12 DEF Backup
  <2>3. /\ now[size - 1] = back
        /\ \A k \in 1 .. E : now[(size - E - 1) + k - 1] = EntrySector(gpt, k)
    BY <1>1, <1>5, <1>12, <2>1, <2>2
  <2> QED BY <1>7, <2>3 DEF IsTable, EntrySector
<1>13. ASSUME Backup \cap done = {}, IsTable(disk, size - 1),
              disk[size - 1].entryLba = size - E - 1
       PROVE  IsTable(now, size - 1)
  <2>1. size - 1 \in size - E - 1 .. size - 1
        /\ \A k \in 1 .. E : (size - E - 1) + k - 1 \in size - E - 1 .. size - 1
    BY <1>8
  <2>2. now[size - 1] = disk[size - 1]
        /\ \A k \in 1 .. E : now[(size - E - 1) + k - 1] = disk[(size - E - 1) + k - 1]
    BY <1>6, <1>13, <2>1
  <2> QED BY <1>13, <2>2 DEF IsTable
<1> QED BY <1>10, <1>11, <1>12, <1>13 DEF now, w, gpt, back

\* Whatever sectors of a new partition table a cut leaves on the medium, one of
\* the two copies is whole unless both are torn, when both were whole before, on
\* every disk with an even number of sectors and with every parameter file.
THEOREM OneTableIsWhole ==
    ASSUME NEW lines, NEW size \in Nat, size % 2 = 0, EntrySectors \in Nat \ {0},
           size >= 2 * EntrySectors + 3,
           NEW sdboot \in BOOLEAN, FlashParameter(lines, size, sdboot) # Endless,
           NEW disk, DOMAIN disk = 0 .. size - 1,
           IsTable(disk, 1), disk[1].entryLba = 2,
           IsTable(disk, size - 1), disk[size - 1].entryLba = size - EntrySectors - 1,
           NEW done \in TableCuts(FlashParameter(lines, size, sdboot))
    PROVE  LET now == OnMedium(disk, FlashParameter(lines, size, sdboot), done)
           IN  \/ Torn(Primary, done) /\ Torn(Backup, done)
               \/ IsTable(now, 1) \/ IsTable(now, size - 1)
<1> DEFINE now == OnMedium(disk, FlashParameter(lines, size, sdboot), done)
<1>1. 0 .. size - 1 \subseteq DOMAIN disk
  OBVIOUS
<1>2. /\ Primary \subseteq done \/ Primary \cap done = {} => IsTable(now, 1)
      /\ ~sdboot /\ Backup \subseteq done => IsTable(now, size - 1)
      /\ Backup \cap done = {} => IsTable(now, size - 1)
  BY <1>1, CopiesWhole
<1>3. CASE ~sdboot
  BY <1>2, <1>3 DEF Torn
<1>4. CASE sdboot
  <2>1. Len(FlashParameter(lines, size, sdboot)) = EntrySectors + 2
    BY <1>4, ParameterWrites
  <2>2. done \in SUBSET (1 .. EntrySectors + 2)
    BY <2>1, ParameterWrites DEF TableCuts
  <2>3. Backup \cap done = {}
    BY <2>2 DEF Backup
  <2> QED BY <1>2, <2>3
<1> QED BY <1>3, <1>4

\* Once a table is written to its end both copies are whole, tell the same and
\* find each other, and the next one may be written over them.  The backup is in
\* the last sector, where it is looked for, only of a disk with an even number of
\* sectors: the program counts an odd one short (getFlashSize).
THEOREM TablesAgree ==
    ASSUME NEW lines, NEW size \in Nat, EntrySectors \in Nat \ {0},
           size >= 2 * EntrySectors + 4, FlashParameter(lines, size, FALSE) # Endless,
           NEW disk, DOMAIN disk = 0 .. size - 1
    PROVE  LET now == Finished(disk, FlashParameter(lines, size, FALSE))
               last == DiskSectors(size) - 1
           IN  /\ IsTable(now, 1) /\ IsTable(now, last)
               /\ now[1].entries = now[last].entries
               /\ now[1].alternate = last /\ now[last].alternate = 1
               /\ now[1].entryLba = 2 /\ now[last].entryLba = last - EntrySectors
               /\ DOMAIN now = 0 .. size - 1
               /\ last = size - 1 <=> size % 2 = 0
<1> DEFINE even == DiskSectors(size)
           w == FlashParameter(lines, size, FALSE)
           now == Finished(disk, w)
           gpt == NewGpt(lines, even)
           back == PrepareBackup(gpt)
<1>1. /\ even \in Nat /\ even % 2 = 0 /\ even >= 2 * EntrySectors + 3 /\ even <= size
      /\ even = size <=> size % 2 = 0
      /\ DiskSectors(even) = even
  BY DEF DiskSectors
<1>2. w = FlashParameter(lines, even, FALSE)
  <2> HIDE DEF even
  <2>1. DiskSectors(size) = even
    BY DEF even
  <2> QED BY <1>1, <2>1 DEF FlashParameter
<1>3. 0 .. even - 1 \subseteq DOMAIN disk
  BY <1>1
<1>4. DOMAIN now = 0 .. size - 1
  BY DEF Finished, OnMedium
<1> HIDE DEF even
<1>5. FALSE \in BOOLEAN /\ FlashParameter(lines, even, FALSE) # Endless
  BY <1>2
<1>6. DOMAIN w \in TableCuts(w) /\ DOMAIN w = 1 .. 2 * EntrySectors + 3
  <2>1. Len(w) = 2 * EntrySectors + 3
    BY <1>1, <1>2, <1>5, ParameterWrites
  <2>2. DOMAIN w = 1 .. Len(w)
    BY <1>1, <1>2, <1>5, ParameterWrites
  <2> QED BY <2>1, <2>2 DEF TableCuts
<1>7. Primary \subseteq DOMAIN w /\ Backup \subseteq DOMAIN w
  <2> HIDE DEF w
  <2> QED BY <1>6 DEF Primary, Backup
<1>8. /\ IsTable(now, 1) /\ now[1] = gpt
      /\ IsTable(now, even - 1) /\ now[even - 1] = back
  <2>1. DOMAIN w \in TableCuts(FlashParameter(lines, even, FALSE))
    BY <1>2, <1>6
  <2>2. LET other == OnMedium(disk, FlashParameter(lines, even, FALSE), DOMAIN w)
        IN  /\ Primary \subseteq DOMAIN w => IsTable(other, 1) /\ other[1] = gpt
            /\ Backup \subseteq DOMAIN w =>
                  IsTable(other, even - 1) /\ other[even - 1] = back
    <3> HIDE DEF w
    <3> QED BY ZenonT(60), <1>1, <1>3, <1>5, <2>1, CopiesWhole
  <2>3. now = OnMedium(disk, FlashParameter(lines, even, FALSE), DOMAIN w)
    <3>1. now = OnMedium(disk, w, DOMAIN w)
      BY DEF Finished
    <3> HIDE DEF w, now
    <3> QED BY <1>2, <3>1
  <2> HIDE DEF w, now, gpt, back
  <2> QED BY <1>7, <2>2, <2>3
<1>9. /\ gpt.alternate = even - 1 /\ gpt.entryLba = 2
      /\ back.alternate = 1 /\ back.entryLba = even - EntrySectors - 1
      /\ back.entries = gpt.entries
  BY <1>1, GptIs
<1> HIDE DEF now, gpt, back, w
<1>10. even - EntrySectors - 1 = (even - 1) - EntrySectors
       /\ (even - 1 = size - 1 <=> size % 2 = 0)
  BY <1>1
<1> QED BY <1>4, <1>8, <1>9, <1>10 DEF even, now, w
-----------------------------------------------------------------------------
(* The copies of the loader.                                               *)

LEMMA TimesGrows ==
    ASSUME NEW a \in Nat, NEW b \in Nat, NEW c \in Nat, a <= b
    PROVE  a * c <= b * c /\ a * c \in Nat /\ b * c \in Nat
<1>1. (b - a) * c >= 0 /\ (b - a) * c = b * c - a * c
  OBVIOUS
<1> QED BY <1>1

\* Place i of run j, when runs are this long.
InRun(j, i, long) == (j - 1) * long + i

LEMMA RunsDiffer ==
    ASSUME NEW j \in Nat \ {0}, NEW k \in Nat \ {0}, NEW long \in Nat,
           NEW i \in 1 .. long, NEW l \in 1 .. long, InRun(j, i, long) = InRun(k, l, long)
    PROVE  j = k /\ i = l
<1>1. ASSUME NEW a \in Nat \ {0}, NEW b \in Nat \ {0}, NEW m \in 1 .. long, NEW o \in 1 .. long,
             a < b
      PROVE  InRun(a, m, long) < InRun(b, o, long)
  <2>1. a * long <= (b - 1) * long /\ a * long \in Nat /\ (b - 1) * long \in Nat
    BY <1>1, TimesGrows
  <2>2. a * long = (a - 1) * long + long /\ (a - 1) * long \in Nat
    <3>1. a - 1 \in Nat
      OBVIOUS
    <3> QED BY <3>1, TimesGrows
  <2> QED BY <2>1, <2>2 DEF InRun
<1>2. InRun(j, i, long) \in Nat /\ InRun(k, l, long) \in Nat
  <2>1. j - 1 \in Nat /\ k - 1 \in Nat
    OBVIOUS
  <2>2. (j - 1) * long \in Nat /\ (k - 1) * long \in Nat
    BY <2>1, TimesGrows
  <2> QED BY <2>2 DEF InRun
<1>3. ~(j < k) /\ ~(k < j)
  BY <1>1, <1>2
<1>4. j = k
  BY <1>3
<1>5. (j - 1) * long \in Nat
  <2>1. j - 1 \in Nat
    OBVIOUS
  <2> QED BY <2>1, TimesGrows
<1> QED BY <1>4, <1>5 DEF InRun

\* s is made of the first n of these sequences of the same length.
Runs(s, seqs, n, long, S) ==
    /\ s \in Seq(S) /\ Len(s) = n * long
    /\ \A j \in 1 .. n, i \in 1 .. long : s[InRun(j, i, long)] = seqs[j][i]
    /\ \A m \in 1 .. n * long : \E j \in 1 .. n, i \in 1 .. long : m = InRun(j, i, long)

LEMMA RunsBegin ==
    ASSUME NEW S, NEW long \in Nat, NEW seqs, seqs[1] \in Seq(S), Len(seqs[1]) = long
    PROVE  Runs(seqs[1], seqs, 1, long, S)
<1>1. \A i \in 1 .. long : InRun(1, i, long) = i
  BY DEF InRun
<1>2. 1 * long = long
  OBVIOUS
<1>3. \A j \in 1 .. 1 : j = 1
  OBVIOUS
<1> QED BY <1>1, <1>2, <1>3 DEF Runs

LEMMA RunsGoOn ==
    ASSUME NEW S, NEW long \in Nat, NEW seqs, NEW n \in Nat \ {0}, NEW s, Runs(s, seqs, n, long, S),
           seqs[n + 1] \in Seq(S), Len(seqs[n + 1]) = long
    PROVE  Runs(s \o seqs[n + 1], seqs, n + 1, long, S)
<1> DEFINE t == seqs[n + 1]
           both == s \o t
           q == n * long
<1>1. q \in Nat /\ (n + 1) * long = q + long
  BY TimesGrows
<1>2. s \in Seq(S) /\ Len(s) = q /\ t \in Seq(S) /\ Len(t) = long
  BY DEF Runs
<1>3. \A i \in 1 .. long : InRun(n + 1, i, long) = q + i
  BY DEF InRun
<1>4. ASSUME NEW j \in 1 .. n, NEW i \in 1 .. long PROVE InRun(j, i, long) \in 1 .. q
  <2>1. j \in Nat /\ j - 1 \in Nat /\ j <= n
    OBVIOUS
  <2>2. j * long <= q /\ (j - 1) * long \in Nat /\ j * long \in Nat
    BY <2>1, TimesGrows
  <2>3. j * long = (j - 1) * long + long
    OBVIOUS
  <2> QED BY <1>1, <2>2, <2>3 DEF InRun
<1> HIDE DEF q, t
<1>5. /\ both \in Seq(S) /\ Len(both) = q + long
      /\ \A i \in 1 .. q + long : both[i] = IF i <= q THEN s[i] ELSE t[i - q]
  BY <1>2, ConcatProperties
<1> HIDE DEF both
<1>6. ASSUME NEW j \in 1 .. n + 1, NEW i \in 1 .. long
      PROVE  both[InRun(j, i, long)] = seqs[j][i]
  <2>1. CASE j \in 1 .. n
    <3>1. InRun(j, i, long) \in 1 .. q
      BY <1>4, <2>1
    <3>2. both[InRun(j, i, long)] = s[InRun(j, i, long)]
      BY <1>1, <1>5, <3>1
    <3> QED BY <2>1, <3>2 DEF Runs
  <2>2. CASE j = n + 1
    <3>1. InRun(j, i, long) = q + i
      BY <1>3, <2>2
    <3>2. q + i \in 1 .. q + long /\ ~(q + i <= q) /\ (q + i) - q = i
      BY <1>1
    <3> QED BY <1>5, <2>2, <3>1, <3>2 DEF t
  <2> QED BY <2>1, <2>2
<1>7. ASSUME NEW m \in 1 .. q + long
      PROVE  \E j \in 1 .. n + 1, i \in 1 .. long : m = InRun(j, i, long)
  <2>1. CASE m <= q
    <3>1. m \in 1 .. q
      BY <1>1, <2>1
    <3>2. PICK j \in 1 .. n, i \in 1 .. long : m = InRun(j, i, long)
      BY <3>1 DEF Runs, q
    <3> QED BY <3>2
  <2>2. CASE ~(m <= q)
    <3>1. m - q \in 1 .. long /\ q + (m - q) = m /\ n + 1 \in 1 .. n + 1
      BY <1>1, <2>2
    <3>2. m = InRun(n + 1, m - q, long)
      BY <1>3, <3>1
    <3> QED BY <3>1, <3>2
  <2> QED BY <2>1, <2>2
<1>8. Runs(both, seqs, n + 1, long, S)
  BY <1>1, <1>5, <1>6, <1>7 DEF Runs
<1> QED BY <1>8 DEF both, t

LEMMA FlattenIs ==
    ASSUME NEW S, NEW long \in Nat, NEW seqs \in Seq(Seq(S)), seqs # <<>>,
           \A j \in 1 .. Len(seqs) : Len(seqs[j]) = long
    PROVE  Runs(FlattenSeq(seqs), seqs, Len(seqs), long, S)
<1> DEFINE N == Len(seqs)
           V == Seq(S)
           next == [n \in Nat |-> [s \in V |-> IF n + 1 \in 1 .. N THEN s \o seqs[n + 1] ELSE s]]
<1>1. N \in Nat \ {0} /\ \A j \in 1 .. N : seqs[j] \in V
  BY EmptySeq
<1>2. next \in [Nat -> [V -> V]]
  <2> HIDE DEF N
  <2>1. ASSUME NEW n \in Nat, NEW s \in V
        PROVE  (IF n + 1 \in 1 .. N THEN s \o seqs[n + 1] ELSE s) \in V
    BY <1>1, <2>1, ConcatProperties
  <2> QED BY <2>1
<1>3. \A n \in Nat, s \in V : next[n][s] = IF n + 1 \in 1 .. N THEN s \o seqs[n + 1] ELSE s
  OBVIOUS
<1>4. <<>> \in V /\ seqs[1] \in V
  BY <1>1, EmptySeq
<1> HIDE DEF N, V, next
<1>5. PICK f : Iterates(f, V, <<>>, next)
  BY <1>2, <1>4, Iteration, Zenon
<1>6. f[0] = <<>> /\ \A n \in Nat : n + 1 \in 1 .. N => f[n + 1] = f[n] \o seqs[n + 1]
  BY <1>3, <1>5 DEF Iterates
<1> DEFINE Body(g) == [i \in 1 .. N |-> IF i = 1 THEN seqs[i] ELSE g[i - 1] \o seqs[i]]
           fl == CHOOSE g : g = Body(g)
           h == [i \in 1 .. N |-> f[i]]
<1>7. h = Body(h)
  <2>1. ASSUME NEW i \in 1 .. N PROVE h[i] = IF i = 1 THEN seqs[i] ELSE h[i - 1] \o seqs[i]
    <3>1. CASE i = 1
      <4>1. f[0 + 1] = f[0] \o seqs[0 + 1]
        <5>1. 0 \in Nat /\ 0 + 1 = 1 /\ 1 \in 1 .. N
          BY <1>1
        <5> QED BY <1>6, <5>1
      <4>2. <<>> \o seqs[1] = seqs[1]
        BY <1>4, ConcatEmptySeq DEF V
      <4> QED BY <1>6, <3>1, <4>1, <4>2
    <3>2. CASE i # 1
      <4>1. i - 1 \in 1 .. N /\ i - 1 \in Nat /\ (i - 1) + 1 = i
        BY <1>1, <3>2
      <4> QED BY <1>6, <3>2, <4>1
    <3> QED BY <3>1, <3>2
  <2> HIDE DEF h
  <2>2. h = [i \in 1 .. N |-> h[i]]
    BY DEF h
  <2> QED BY <2>1, <2>2
<1>8. fl = Body(fl)
  <2> HIDE DEF Body
  <2> QED BY <1>7
<1>9. FlattenSeq(seqs) = fl[N]
  BY <1>1 DEF FlattenSeq, N
<1> HIDE DEF fl
<1>10. fl[1] = seqs[1] /\ \A n \in Nat \ {0} : n + 1 \in 1 .. N => fl[n + 1] = fl[n] \o seqs[n + 1]
  <2>1. fl[1] = seqs[1]
    BY <1>1, <1>8
  <2>2. ASSUME NEW n \in Nat \ {0}, n + 1 \in 1 .. N PROVE fl[n + 1] = fl[n] \o seqs[n + 1]
    <3>1. n + 1 # 1 /\ (n + 1) - 1 = n
      OBVIOUS
    <3>2. fl[n + 1] = Body(fl)[n + 1]
      BY <1>8
    <3> QED BY <2>2, <3>1, <3>2
  <2> QED BY <2>1, <2>2
<1> HIDE DEF Body
<1> DEFINE good == {n \in Nat : n + 1 \in 1 .. N => Runs(fl[n + 1], seqs, n + 1, long, S)}
<1>11. 0 \in good
  <2>1. Runs(fl[1], seqs, 1, long, S)
    BY <1>1, <1>10, RunsBegin DEF N, V
  <2> QED BY <2>1
<1>12. ASSUME NEW n \in Nat, n \in good PROVE n + 1 \in good
  <2> SUFFICES ASSUME (n + 1) + 1 \in 1 .. N
               PROVE  Runs(fl[(n + 1) + 1], seqs, (n + 1) + 1, long, S)
    OBVIOUS
  <2> DEFINE k == n + 1
  <2>1. k \in Nat \ {0} /\ k + 1 \in 1 .. N /\ k \in 1 .. N
    BY <1>1
  <2>2. Runs(fl[k], seqs, k, long, S)
    BY <1>12, <2>1
  <2> HIDE DEF k
  <2>3. fl[k + 1] = fl[k] \o seqs[k + 1] /\ seqs[k + 1] \in Seq(S) /\ Len(seqs[k + 1]) = long
    BY <1>1, <1>10, <2>1 DEF N, V
  <2>4. Runs(fl[k + 1], seqs, k + 1, long, S)
    BY <2>1, <2>2, <2>3, RunsGoOn
  <2> QED BY <2>4 DEF k
<1> HIDE DEF good
<1>13. N - 1 \in good
  <2>1. N - 1 \in Nat
    BY <1>1
  <2> QED BY <1>11, <1>12, <2>1, Induction
<1>14. (N - 1) + 1 = N /\ N \in 1 .. N
  BY <1>1
<1> QED BY <1>9, <1>13, <1>14 DEF good, N

\* Where sector i of copy c stands.
CopyAt(c, i) == FirstCopy + (c - 1) * Apart + i - 1

LEMMA LoaderWrites ==
    ASSUME NEW S, NEW block \in Seq(S), FirstCopy \in Nat, Apart \in Nat, Copies \in Nat \ {0}
    PROVE  LET w == WriteIdBlock(block)
               long == Len(block)
           IN  /\ Len(w) = Copies * long /\ DOMAIN w = 1 .. Len(w)
               /\ \A c \in 1 .. Copies, i \in 1 .. long :
                     w[InRun(c, i, long)].at = CopyAt(c, i) /\ w[InRun(c, i, long)].what = block[i]
               /\ \A m \in 1 .. Len(w) :
                     \E c \in 1 .. Copies, i \in 1 .. long : m = InRun(c, i, long)
<1> DEFINE long == Len(block)
           T == [at : Int, what : S]
           run == [c \in 1 .. Copies |-> WriteRun(FirstCopy + (c - 1) * Apart, block)]
<1>1. long \in Nat /\ DOMAIN block = 1 .. long
  OBVIOUS
<1>2. ASSUME NEW c \in 1 .. Copies
      PROVE  /\ run[c] \in Seq(T) /\ Len(run[c]) = long
             /\ \A i \in 1 .. long : run[c][i].at = CopyAt(c, i) /\ run[c][i].what = block[i]
  <2> DEFINE from == FirstCopy + (c - 1) * Apart
  <2>1. from \in Int
    OBVIOUS
  <2>2. run[c] = [i \in 1 .. long |-> [at |-> from + i - 1, what |-> block[i]]]
    BY <1>1 DEF WriteRun, Write
  <2> HIDE DEF run
  <2>3. \A i \in 1 .. long : from + i - 1 = CopyAt(c, i)
    BY DEF CopyAt
  <2> HIDE DEF from
  <2>4. \A i \in 1 .. long : [at |-> from + i - 1, what |-> block[i]] \in T
    BY <2>1
  <2> HIDE DEF long
  <2> QED BY <1>1, <2>2, <2>3, <2>4
<1>3. run \in Seq(Seq(T)) /\ Len(run) = Copies /\ run # <<>>
  <2> HIDE DEF T
  <2>1. run = [c \in 1 .. Copies |-> run[c]]
    OBVIOUS
  <2> HIDE DEF run
  <2>2. run \in Seq(Seq(T))
    BY <1>2, <2>1, IsASeq
  <2>3. Len(run) = Copies
    BY <2>1
  <2> QED BY <2>2, <2>3, EmptySeq
<1>4. WriteIdBlock(block) = FlattenSeq(run)
  BY DEF WriteIdBlock
<1> HIDE DEF run, T, long
<1>5. Runs(FlattenSeq(run), run, Copies, long, T)
  <2>1. \A c \in 1 .. Len(run) : Len(run[c]) = long
    BY <1>2, <1>3
  <2>2. Runs(FlattenSeq(run), run, Len(run), long, T)
    BY <1>1, <1>3, <2>1, FlattenIs
  <2> QED BY <1>3, <2>2
<1> DEFINE w == WriteIdBlock(block)
<1> HIDE DEF w
<1>6. /\ Len(w) = Copies * long /\ DOMAIN w = 1 .. Len(w)
      /\ \A c \in 1 .. Copies, i \in 1 .. long : w[InRun(c, i, long)] = run[c][i]
      /\ \A m \in 1 .. Copies * long :
            \E c \in 1 .. Copies, i \in 1 .. long : m = InRun(c, i, long)
  BY <1>4, <1>5 DEF Runs, w
<1> QED BY ZenonT(60), <1>2, <1>6 DEF w, long

\* What the disk holds when some sectors of the copies have reached it.
LEMMA LoaderReached ==
    ASSUME NEW S, NEW block \in Seq(S), FirstCopy \in Nat, Apart \in Nat, Copies \in Nat \ {0},
           Len(block) <= Apart,
           NEW disk, \A c \in 1 .. Copies, i \in 1 .. Apart : CopyAt(c, i) \in DOMAIN disk,
           NEW done \in SUBSET (1 .. Len(WriteIdBlock(block))),
           NEW c \in 1 .. Copies, NEW i \in 1 .. Apart
    PROVE  OnMedium(disk, WriteIdBlock(block), done)[CopyAt(c, i)]
              = IF i <= Len(block) /\ InRun(c, i, Len(block)) \in done
                THEN block[i] ELSE disk[CopyAt(c, i)]
<1> DEFINE w == WriteIdBlock(block)
           long == Len(block)
           x == CopyAt(c, i)
<1>1. /\ Len(w) = Copies * long
      /\ \A d \in 1 .. Copies, j \in 1 .. long :
            w[InRun(d, j, long)].at = CopyAt(d, j) /\ w[InRun(d, j, long)].what = block[j]
      /\ \A m \in 1 .. Len(w) : \E d \in 1 .. Copies, j \in 1 .. long : m = InRun(d, j, long)
  BY LoaderWrites
<1>2. long \in Nat /\ long <= Apart /\ Copies * long \in Nat /\ x \in DOMAIN disk
  <2>1. long \in Nat
    OBVIOUS
  <2> QED BY <2>1, TimesGrows
<1> HIDE DEF w, long, x
<1>3. done \subseteq 1 .. Len(w) /\ done \in SUBSET Int
  <2>1. Len(w) \in Nat
    BY <1>1, <1>2
  <2> QED BY <2>1 DEF w
<1>4. ASSUME NEW d \in 1 .. Copies, NEW j \in 1 .. long, CopyAt(d, j) = x
      PROVE  d = c /\ j = i
  <2>1. InRun(d, j, Apart) = InRun(c, i, Apart)
    <3>1. (d - 1) * Apart \in Nat /\ (c - 1) * Apart \in Nat
      <4>1. d - 1 \in Nat /\ c - 1 \in Nat
        OBVIOUS
      <4> QED BY <4>1, TimesGrows
    <3> QED BY <1>4, <3>1 DEF CopyAt, InRun, x
  <2>2. j \in 1 .. Apart /\ d \in Nat \ {0} /\ c \in Nat \ {0}
    BY <1>2
  <2> QED BY <2>1, <2>2, RunsDiffer
<1>5. \A m \in done : w[m].at = x =>
         i <= long /\ m = InRun(c, i, long)
  <2> TAKE m \in done
  <2> HAVE w[m].at = x
  <2>1. m \in 1 .. Len(w)
    BY <1>3
  <2>2. PICK d \in 1 .. Copies, j \in 1 .. long : m = InRun(d, j, long)
    BY <1>1, <2>1
  <2>3. CopyAt(d, j) = x
    BY <1>1, <2>2
  <2>4. d = c /\ j = i
    BY <1>4, <2>3
  <2> QED BY <1>2, <2>2, <2>4
<1>6. CASE i <= long
  <2> DEFINE m == InRun(c, i, long)
  <2>1. i \in 1 .. long
    BY <1>2, <1>6
  <2>2. w[m].at = x /\ w[m].what = block[i]
    BY <1>1, <2>1 DEF x
  <2>3. \A j \in done : w[j].at = x => j = m
    BY <1>5
  <2> HIDE DEF m
  <2>4. x \in DOMAIN disk
    BY <1>2
  <2>5. CASE m \in done
    <3>1. ASSUME NEW k \in done, w[k].at = x, \A j \in done : w[j].at = x => j = k
          PROVE  OnMedium(disk, w, done)[x] = w[k].what
      BY <1>3, <2>4, <3>1, ReachedOne
    <3>2. OnMedium(disk, w, done)[x] = w[m].what
      BY <2>2, <2>3, <2>5, <3>1, Zenon
    <3> QED BY <1>6, <2>2, <2>5, <3>2 DEF m, w, x, long
  <2>6. CASE m \notin done
    <3>1. \A j \in done : w[j].at # x
      BY <2>3, <2>6
    <3>2. OnMedium(disk, w, done)[x] = disk[x]
      BY <1>3, <2>4, <3>1, ReachedOthers
    <3> QED BY <2>6, <3>2 DEF m, w, x, long
  <2> QED BY <2>5, <2>6
<1>7. CASE ~(i <= long)
  <2>1. \A j \in done : w[j].at # x
    BY <1>5, <1>7
  <2>2. OnMedium(disk, w, done)[x] = disk[x]
    BY <1>2, <1>3, <2>1, ReachedOthers
  <2> QED BY <1>7, <2>2 DEF w, x, long
<1> QED BY <1>6, <1>7

\* Writing a loader that fits between its copies leaves, whatever of a copy that
\* is being written a cut leaves, one that is whole, the new one in the first
\* place or the old one in the second; in the end every copy is the new one.
THEOREM OneLoaderIsWhole ==
    ASSUME NEW S, NEW block \in Seq(S), NEW old \in Seq(S),
           FirstCopy \in Nat, Apart \in Nat, Copies \in Nat \ {0, 1},
           Len(block) <= Apart, Len(old) <= Apart,
           NEW disk, \A c \in 1 .. Copies, i \in 1 .. Apart : CopyAt(c, i) \in DOMAIN disk,
           IsLoader(disk, 2, old)
    PROVE  LET w == WriteIdBlock(block)
           IN  /\ \A done \in LoaderCuts(Len(block)) :
                     \/ IsLoader(OnMedium(disk, w, done), 1, block)
                     \/ IsLoader(OnMedium(disk, w, done), 2, old)
               /\ \A c \in 1 .. Copies : IsLoader(Finished(disk, w), c, block)
<1> DEFINE w == WriteIdBlock(block)
           long == Len(block)
<1>1. Len(w) = Copies * long /\ DOMAIN w = 1 .. Len(w)
  BY LoaderWrites
<1>2. long \in Nat /\ long <= Apart /\ Len(old) \in Nat /\ Len(old) <= Apart
      /\ DOMAIN block = 1 .. long /\ DOMAIN old = 1 .. Len(old)
  OBVIOUS
<1>3. Copies \in Nat \ {0} /\ Copies * long \in Nat
  BY <1>2, TimesGrows
<1>4. ASSUME NEW done \in SUBSET (1 .. Len(w)), NEW c \in 1 .. Copies, NEW i \in 1 .. Apart
      PROVE  OnMedium(disk, w, done)[CopyAt(c, i)]
                = IF i <= long /\ InRun(c, i, long) \in done THEN block[i] ELSE disk[CopyAt(c, i)]
  <2>1. Copies \in Nat \ {0}
    BY <1>3
  <2> QED BY SMTT(60), <2>1, LoaderReached
<1>5. ASSUME NEW done \in LoaderCuts(long)
      PROVE  done \in SUBSET (1 .. Len(w)) /\ (1 .. long \subseteq done \/ done \subseteq 1 .. long)
  <2>1. PICK c \in 0 .. Copies - 1 :
           \E part \in SUBSET (c * long + 1 .. c * long + long) : done = (1 .. c * long) \cup part
    BY DEF LoaderCuts
  <2>2. PICK part \in SUBSET (c * long + 1 .. c * long + long) : done = (1 .. c * long) \cup part
    BY <2>1
  <2>3. c * long \in Nat /\ c * long + long <= Copies * long
    <3>1. (c + 1) * long <= Copies * long /\ (c + 1) * long = c * long + long
      BY <1>2, <1>3, TimesGrows
    <3>2. c * long \in Nat
      BY <1>2, TimesGrows
    <3> QED BY <3>1, <3>2
  <2>4. (c = 0 => c * long = 0) /\ (c # 0 => long <= c * long)
    <3>1. c # 0 => 1 * long <= c * long
      BY <1>2, TimesGrows
    <3> QED BY <1>2, <3>1
  <2> DEFINE m == c * long
             total == Copies * long
  <2>5. m \in Nat /\ total \in Nat /\ m + long <= total /\ (m = 0 \/ long <= m)
        /\ done = (1 .. m) \cup part /\ part \subseteq m + 1 .. m + long
    BY <1>3, <2>2, <2>3, <2>4
  <2> HIDE DEF m, total
  <2>6. done \subseteq 1 .. total /\ (1 .. long \subseteq done \/ done \subseteq 1 .. long)
    BY <1>2, <2>5
  <2> QED BY <1>1, <2>6 DEF total
<1> HIDE DEF w, long
<1>6. ASSUME NEW done \in LoaderCuts(long)
      PROVE  IsLoader(OnMedium(disk, w, done), 1, block) \/ IsLoader(OnMedium(disk, w, done), 2, old)
  <2>1. CASE 1 .. long \subseteq done
    <3>1. ASSUME NEW i \in 1 .. long PROVE OnMedium(disk, w, done)[CopyAt(1, i)] = block[i]
      <4>1. InRun(1, i, long) \in done /\ i <= long /\ i \in 1 .. Apart /\ 1 \in 1 .. Copies
        BY <1>2, <1>3, <2>1 DEF InRun
      <4> QED BY <1>4, <1>5, <4>1
    <3>2. IsLoader(OnMedium(disk, w, done), 1, block)
      BY <1>2, <3>1 DEF IsLoader, CopyAt
    <3> QED BY <3>2
  <2>2. CASE done \subseteq 1 .. long
    <3>1. ASSUME NEW i \in 1 .. Len(old) PROVE OnMedium(disk, w, done)[CopyAt(2, i)] = old[i]
      <4>1. InRun(2, i, long) \notin done /\ i \in 1 .. Apart /\ 2 \in 1 .. Copies
        BY <1>2, <1>3, <2>2 DEF InRun
      <4>2. disk[CopyAt(2, i)] = old[i]
        BY <1>2 DEF IsLoader, CopyAt
      <4> QED BY <1>4, <1>5, <4>1, <4>2
    <3>2. IsLoader(OnMedium(disk, w, done), 2, old)
      BY <1>2, <3>1 DEF IsLoader, CopyAt
    <3> QED BY <3>2
  <2> QED BY <1>5, <2>1, <2>2
<1>7. ASSUME NEW c \in 1 .. Copies PROVE IsLoader(Finished(disk, w), c, block)
  <2>1. ASSUME NEW i \in 1 .. long PROVE Finished(disk, w)[CopyAt(c, i)] = block[i]
    <3>1. c * long <= Copies * long /\ (c - 1) * long \in Nat /\ c * long \in Nat
      <4>1. c \in Nat /\ c - 1 \in Nat /\ c <= Copies
        OBVIOUS
      <4> QED BY <1>2, <4>1, TimesGrows
    <3>2. c * long = (c - 1) * long + long
      BY <1>2
    <3>3. InRun(c, i, long) \in 1 .. Len(w) /\ i <= long /\ i \in 1 .. Apart
      BY <1>1, <1>2, <3>1, <3>2 DEF InRun
    <3>4. DOMAIN w \in SUBSET (1 .. Len(w)) /\ DOMAIN w = 1 .. Len(w)
      BY <1>1
    <3> QED BY <1>4, <3>3, <3>4 DEF Finished
  <2> QED BY <1>2, <2>1 DEF IsLoader, CopyAt
<1> QED BY <1>6, <1>7 DEF w, long
-----------------------------------------------------------------------------
(* Binary patches: numbers.                                                *)

LEMMA GreatestOf ==
    ASSUME NEW b \in Nat, NEW S \in SUBSET (0 .. b), S # {}
    PROVE  Max(S) \in S /\ \A k \in S : k <= Max(S)
<1> DEFINE T == {b - k : k \in S}
<1>1. T \in SUBSET Nat /\ T # {}
  <2>1. \A k \in S : b - k \in Nat
    OBVIOUS
  <2>2. PICK k \in S : TRUE
    OBVIOUS
  <2>3. b - k \in T
    OBVIOUS
  <2> QED BY <2>1, <2>3
<1>2. PICK m \in T : \A k \in T : m <= k
  BY <1>1, LeastNumber
<1>3. PICK x \in S : m = b - x
  BY <1>2
<1>4. \A k \in S : k <= x
  <2> TAKE k \in S
  <2>1. b - k \in T /\ k \in 0 .. b /\ x \in 0 .. b
    OBVIOUS
  <2>2. m <= b - k
    BY <1>2, <2>1
  <2> QED BY <1>3, <2>1, <2>2
<1>5. Max(S) = x
  <2>1. S \in SUBSET Int /\ x \in S
    OBVIOUS
  <2> QED BY <1>4, <2>1, MaxIs
<1> QED BY <1>4, <1>5

LEMMA LowerOf ==
    ASSUME NEW a \in Nat, NEW b \in Nat
    PROVE  Min({a, b}) = IF a <= b THEN a ELSE b
<1>1. {a, b} \in SUBSET Nat /\ {a, b} # {}
  OBVIOUS
<1>2. Min({a, b}) \in {a, b} /\ \A k \in {a, b} : Min({a, b}) <= k
  BY <1>1, MinIs
<1> QED BY <1>2

LEMMA UpperOf ==
    ASSUME NEW a \in Nat, NEW b \in Nat
    PROVE  Max({a, b}) = IF a <= b THEN b ELSE a
<1>1. {a, b} \in SUBSET Int
  OBVIOUS
<1>2. CASE a <= b
  <2>1. b \in {a, b} /\ \A k \in {a, b} : k <= b
    BY <1>2
  <2> QED BY <1>1, <1>2, <2>1, MaxIs
<1>3. CASE ~(a <= b)
  <2>1. a \in {a, b} /\ \A k \in {a, b} : k <= a
    BY <1>3
  <2> QED BY <1>1, <1>3, <2>1, MaxIs
<1> QED BY <1>2, <1>3

\* Scores have a highest one.
LEMMA HighestPlace ==
    ASSUME NEW n \in Nat, NEW g \in [0 .. n -> Int]
    PROVE  \E i \in 0 .. n : \A j \in 0 .. n : g[j] <= g[i]
<1> DEFINE S == {m \in Nat : m <= n => \E i \in 0 .. m : \A j \in 0 .. m : g[j] <= g[i]}
<1>1. 0 \in S
  <2>1. 0 .. 0 = {0} /\ 0 \in 0 .. n
    OBVIOUS
  <2>2. g[0] \in Int
    BY <2>1
  <2> QED BY <2>1, <2>2
<1>2. ASSUME NEW m \in Nat, m \in S PROVE m + 1 \in S
  <2> SUFFICES ASSUME m + 1 <= n
               PROVE  \E i \in 0 .. m + 1 : \A j \in 0 .. m + 1 : g[j] <= g[i]
    OBVIOUS
  <2>1. PICK i \in 0 .. m : \A j \in 0 .. m : g[j] <= g[i]
    BY <1>2
  <2>2. \A j \in 0 .. m + 1 : g[j] \in Int /\ (j \in 0 .. m \/ j = m + 1)
    OBVIOUS
  <2>3. CASE g[m + 1] <= g[i]
    <3>1. \A j \in 0 .. m + 1 : g[j] <= g[i]
      BY <2>1, <2>2, <2>3
    <3> QED BY <3>1
  <2>4. CASE ~(g[m + 1] <= g[i])
    <3>1. \A j \in 0 .. m + 1 : g[j] <= g[m + 1]
      BY <2>1, <2>2, <2>4
    <3> QED BY <3>1
  <2> QED BY <2>3, <2>4
<1> HIDE DEF S
<1>3. Nat \subseteq S
  BY <1>1, <1>2, Induction
<1>4. n \in S
  BY <1>3
<1> QED BY <1>4 DEF S

LEMMA PeakIs ==
    ASSUME NEW n \in Nat, NEW g \in [0 .. n -> Int]
    PROVE  Peak(n, g) \in 0 .. n
<1> DEFINE S == {i \in 0 .. n : \A j \in 0 .. n : g[j] <= g[i]}
<1>1. S # {}
  BY HighestPlace
<1>2. S \in SUBSET Nat
  OBVIOUS
<1>3. Peak(n, g) = Min(S)
  BY DEF Peak
<1> HIDE DEF S
<1>4. Min(S) \in S
  BY <1>1, <1>2, MinIs
<1> QED BY <1>3, <1>4 DEF S

LEMMA CountIs ==
    ASSUME NEW a \in Int, NEW b \in Int, NEW S \in SUBSET (a .. b)
    PROVE  IsFiniteSet(S) /\ Cardinality(S) \in Nat
<1>1. IsFiniteSet(a .. b)
  BY FS_Interval
<1>2. IsFiniteSet(S)
  BY <1>1, FS_Subset
<1> QED BY <1>2, FS_CardinalityType

\* A difference of two units, modulo Base, put on the one gives the other.
LEMMA DifferenceIs ==
    ASSUME NEW B \in Nat \ {0}, NEW a \in 0 .. B - 1, NEW b \in 0 .. B - 1
    PROVE  (a - b) % B \in 0 .. B - 1 /\ (((a - b) % B) + b) % B = a
<1> DEFINE d == (a - b) % B
           p == (a - b) \div B
           r == (d + b) % B
           q == (d + b) \div B
<1>1. p \in Int /\ d \in 0 .. B - 1 /\ a - b = B * p + d
  OBVIOUS
<1> HIDE DEF p, d
<1>2. q \in Int /\ r \in 0 .. B - 1 /\ d + b = B * q + r
  BY <1>1
<1> HIDE DEF q, r
<1>3. a - r = B * (p + q)
  <2>1. B * (p + q) = B * p + B * q
    BY <1>1, <1>2
  <2> QED BY <1>1, <1>2, <2>1
<1>4. CASE p + q = 0
  BY <1>1, <1>2, <1>3, <1>4 DEF d, r
<1>5. CASE p + q >= 1
  <2>1. B * (p + q) >= B * 1
    BY <1>1, <1>2, <1>5
  <2> QED BY <1>1, <1>2, <1>3, <2>1
<1>6. CASE p + q <= -1
  <2>1. B * (p + q) <= B * (-1)
    BY <1>1, <1>2, <1>6
  <2> QED BY <1>1, <1>2, <1>3, <2>1
<1> QED BY <1>1, <1>2, <1>4, <1>5, <1>6
-----------------------------------------------------------------------------
(* The search in the index.                                                *)

LEMMA MatchLenIs ==
    ASSUME NEW S, NEW s \in Seq(S), NEW t \in Seq(S)
    PROVE  LET n == MatchLen(s, t)
           IN  /\ n \in 0 .. Len(s) /\ n <= Len(t)
               /\ \A i \in 1 .. n : s[i] = t[i]
               /\ n < Len(s) /\ n < Len(t) => s[n + 1] # t[n + 1]
<1> DEFINE b == Min({Len(s), Len(t)})
           C == {n \in 0 .. b : SubSeq(s, 1, n) = SubSeq(t, 1, n)}
           m == Max(C)
<1>1. Len(s) \in Nat /\ Len(t) \in Nat
  OBVIOUS
<1>2. b = IF Len(s) <= Len(t) THEN Len(s) ELSE Len(t)
  BY <1>1, LowerOf
<1>3. b \in Nat /\ b <= Len(s) /\ b <= Len(t)
  BY <1>1, <1>2
<1> HIDE DEF b
<1>4. ASSUME NEW n \in 0 .. b, NEW r \in {s, t}
      PROVE  /\ SubSeq(r, 1, n) \in Seq(S) /\ Len(SubSeq(r, 1, n)) = n
             /\ \A i \in 1 .. n : SubSeq(r, 1, n)[i] = r[i]
  <2>1. n \in Int /\ 1 \in Int /\ \A i \in 1 .. n : r[i] \in S
    BY <1>3
  <2>2. /\ SubSeq(r, 1, n) \in Seq(S) /\ Len(SubSeq(r, 1, n)) = IF 1 <= n THEN n - 1 + 1 ELSE 0
        /\ \A i \in 1 .. n - 1 + 1 : SubSeq(r, 1, n)[i] = r[1 + i - 1]
    BY <2>1, SubSeqProperties
  <2>3. n - 1 + 1 = n /\ (~(1 <= n) => n = 0) /\ \A i \in 1 .. n : 1 + i - 1 = i
    BY <1>3
  <2> QED BY <2>2, <2>3
<1>5. 0 \in C
  <2>1. SubSeq(s, 1, 0) = <<>> /\ SubSeq(t, 1, 0) = <<>>
    BY SubSeqEmpty
  <2> QED BY <1>3, <2>1
<1>6. m \in C /\ \A k \in C : k <= m
  <2>1. C \in SUBSET (0 .. b) /\ C # {}
    BY <1>5
  <2> HIDE DEF C
  <2> QED BY <1>3, <2>1, GreatestOf
<1>7. m \in 0 .. b /\ SubSeq(s, 1, m) = SubSeq(t, 1, m)
  BY <1>6
<1>8. ASSUME m < Len(s), m < Len(t), s[m + 1] = t[m + 1] PROVE FALSE
  <2>1. m + 1 \in 0 .. b
    BY <1>1, <1>2, <1>7, <1>8
  <2>2. \A i \in 1 .. m + 1 : s[i] = t[i]
    <3>1. \A i \in 1 .. m : s[i] = t[i]
      <4>1. s \in {s, t} /\ t \in {s, t}
        OBVIOUS
      <4> HIDE DEF m, C
      <4> QED BY <1>4, <1>7, <4>1
    <3>2. \A i \in 1 .. m + 1 : i \in 1 .. m \/ i = m + 1
      BY <1>7
    <3> HIDE DEF m, C
    <3> QED BY <1>8, <3>1, <3>2
  <2>3. SubSeq(s, 1, m + 1) = SubSeq(t, 1, m + 1)
    <3> DEFINE n == m + 1
    <3>1. s \in {s, t} /\ t \in {s, t} /\ n \in 0 .. b
      BY <2>1
    <3>2. \A i \in 1 .. n : s[i] = t[i]
      BY <2>2
    <3> HIDE DEF n, m, C
    <3>3. /\ SubSeq(s, 1, n) \in Seq(S) /\ SubSeq(t, 1, n) \in Seq(S)
          /\ Len(SubSeq(s, 1, n)) = n /\ Len(SubSeq(t, 1, n)) = n
          /\ \A i \in 1 .. n : SubSeq(s, 1, n)[i] = SubSeq(t, 1, n)[i]
      BY <1>4, <3>1, <3>2
    <3>4. SubSeq(s, 1, n) = SubSeq(t, 1, n)
      BY <3>3, SeqEqual
    <3> QED BY <3>4 DEF n
  <2>4. m + 1 \in C
    BY <2>1, <2>3
  <2>5. m \in Int
    BY <1>7
  <2> HIDE DEF m, C
  <2> QED BY <1>6, <2>4, <2>5
<1>9. \A i \in 1 .. m : s[i] = t[i]
  <2>1. s \in {s, t} /\ t \in {s, t}
    OBVIOUS
  <2> HIDE DEF m, C
  <2> QED BY <1>4, <1>7, <2>1
<1>10. MatchLen(s, t) = m
  BY DEF MatchLen, b
<1> HIDE DEF m, C
<1> QED BY <1>1, <1>3, <1>7, <1>8, <1>9, <1>10

\* The first units decide, or they are the same.
LEMMA HeadsDecide ==
    ASSUME NEW s \in Seq(Nat), NEW t \in Seq(Nat), Len(s) > 0, Len(t) > 0
    PROVE  /\ s[1] = t[1] => MatchLen(s, t) > 0
           /\ Below(s, t) => s[1] <= t[1]
           /\ ~Below(s, t) => t[1] <= s[1]
<1> DEFINE n == MatchLen(s, t)
<1>1. /\ n \in 0 .. Len(s) /\ n <= Len(t)
      /\ \A i \in 1 .. n : s[i] = t[i]
      /\ n < Len(s) /\ n < Len(t) => s[n + 1] # t[n + 1]
  BY MatchLenIs
<1>2. Below(s, t) <=> n < Len(s) /\ n < Len(t) /\ s[n + 1] < t[n + 1]
  BY DEF Below
<1>3. s[1] \in Nat /\ t[1] \in Nat /\ n \in Nat
  BY <1>1
<1> HIDE DEF n
<1>4. CASE n = 0
  BY <1>1, <1>2, <1>3, <1>4 DEF n
<1>5. CASE n # 0
  <2>1. s[1] = t[1] /\ n > 0
    BY <1>1, <1>3, <1>5
  <2> QED BY <1>3, <2>1 DEF n
<1> QED BY <1>4, <1>5

LEMMA SuffixIs ==
    ASSUME NEW S, NEW s \in Seq(S), NEW i \in 0 .. Len(s)
    PROVE  /\ Suffix(s, i) \in Seq(S) /\ Len(Suffix(s, i)) = Len(s) - i
           /\ i < Len(s) => Suffix(s, i)[1] = At(s, i)
<1>1. i + 1 \in Int /\ Len(s) \in Int /\ \A j \in i + 1 .. Len(s) : s[j] \in S
  OBVIOUS
<1> DEFINE a == i + 1
           b == Len(s)
<1>2. /\ SubSeq(s, a, b) \in Seq(S) /\ Len(SubSeq(s, a, b)) = IF a <= b THEN b - a + 1 ELSE 0
      /\ \A j \in 1 .. b - a + 1 : SubSeq(s, a, b)[j] = s[a + j - 1]
  <2> HIDE DEF a, b
  <2> QED BY <1>1, SubSeqProperties DEF a, b
<1>3. i < Len(s) => 1 \in 1 .. b - a + 1 /\ a + 1 - 1 = i + 1
  OBVIOUS
<1> QED BY <1>2, <1>3 DEF Suffix, At

\* The ends between which the search goes on.
EndsOf(old) == {e \in [st : 0 .. Len(old), en : 0 .. Len(old)] : e.st <= e.en}

LEMMA HalvedIs ==
    ASSUME NEW S, NEW old \in Seq(S), NEW I, NEW t, NEW e \in EndsOf(old)
    PROVE  LET h == Halved(I, old, t, e)
               x == e.st + (e.en - e.st) \div 2
           IN  /\ h \in EndsOf(old)
               /\ e.en - e.st < 2 => h = e
               /\ ~(e.en - e.st < 2) =>
                     /\ x \in Nat /\ e.st < x /\ x < e.en
                     /\ IF Below(Suffix(old, I[x]), t) THEN h.st = x /\ h.en = e.en
                                                       ELSE h.st = e.st /\ h.en = x
<1> DEFINE x == e.st + (e.en - e.st) \div 2
           h == Halved(I, old, t, e)
<1>1. e \in [st : 0 .. Len(old), en : 0 .. Len(old)] /\ e.st <= e.en
  BY DEF EndsOf
<1>2. CASE e.en - e.st < 2
  BY <1>2 DEF Halved
<1>3. CASE ~(e.en - e.st < 2)
  <2>1. x \in Nat /\ e.st < x /\ x < e.en
    BY <1>1, <1>3
  <2>2. h = IF Below(Suffix(old, I[x]), t) THEN [e EXCEPT !.st = x] ELSE [e EXCEPT !.en = x]
    BY <1>3 DEF Halved
  <2> HIDE DEF x, h
  <2>3. x \in 0 .. Len(old)
    BY <1>1, <2>1
  <2>4. CASE Below(Suffix(old, I[x]), t)
    BY <1>1, <1>3, <2>1, <2>2, <2>3, <2>4 DEF EndsOf, x, h
  <2>5. CASE ~Below(Suffix(old, I[x]), t)
    BY <1>1, <1>3, <2>1, <2>2, <2>3, <2>5 DEF EndsOf, x, h
  <2> QED BY <2>4, <2>5
<1> QED BY <1>2, <1>3

\* The better one of the matches at both ends.
Nearer(I, old, t, e) ==
    LET x == MatchLen(Suffix(old, I[e.st]), t)
        y == MatchLen(Suffix(old, I[e.en]), t)
    IN  IF x > y THEN [pos |-> I[e.st], len |-> x] ELSE [pos |-> I[e.en], len |-> y]

\* f is the way of the search.
Narrows(f, I, old, t) ==
    /\ f[0].st = 0 /\ f[0].en = Len(old)
    /\ \A k \in Nat : f[k] \in EndsOf(old) /\ f[k + 1] = Halved(I, old, t, f[k])
    /\ Search(I, old, t) = Nearer(I, old, t, f[Len(old)])

LEMMA SearchNarrows ==
    ASSUME NEW S, NEW old \in Seq(S), NEW I, NEW t
    PROVE  \E f : Narrows(f, I, old, t)
<1> DEFINE V == EndsOf(old)
           all == [st |-> 0, en |-> Len(old)]
           step == [n \in Nat |-> [e \in V |-> Halved(I, old, t, e)]]
<1>1. all \in V
  BY DEF EndsOf
<1>2. \A e \in V : Halved(I, old, t, e) \in V
  BY HalvedIs
<1> HIDE DEF V, all
<1>3. step \in [Nat -> [V -> V]] /\ \A n \in Nat, e \in V : step[n][e] = Halved(I, old, t, e)
  BY <1>2
<1> HIDE DEF step
<1>4. PICK f : Iterates(f, V, all, step)
  BY <1>1, <1>3, Iteration, Zenon
<1> DEFINE Body(g) == [k \in Nat |-> IF k = 0 THEN all ELSE Halved(I, old, t, g[k - 1])]
           ends == CHOOSE g : g = Body(g)
<1>5. f = Body(f)
  <2>1. ASSUME NEW n \in Nat, n # 0 PROVE f[n] = Halved(I, old, t, f[n - 1])
    <3>1. n - 1 \in Nat /\ (n - 1) + 1 = n
      BY <2>1
    <3>2. f[n] = step[n - 1][f[n - 1]] /\ f[n - 1] \in V
      BY <1>4, <3>1 DEF Iterates
    <3> QED BY <1>3, <3>1, <3>2
  <2>2. f[0] = all /\ f = [n \in Nat |-> f[n]]
    BY <1>4 DEF Iterates
  <2> QED BY <2>1, <2>2
<1>6. ends = Body(ends)
  <2> HIDE DEF Body
  <2> QED BY <1>5
<1>7. Search(I, old, t) = Nearer(I, old, t, ends[Len(old)])
  BY DEF Search, Nearer, all
<1>8. ends[0] = all /\ \A n \in Nat : ends[n + 1] = Halved(I, old, t, ends[n])
  <2> HIDE DEF ends
  <2>1. ends[0] = all
    BY <1>6
  <2>2. ASSUME NEW n \in Nat PROVE ends[n + 1] = Halved(I, old, t, ends[n])
    <3>1. n + 1 \in Nat /\ n + 1 # 0 /\ (n + 1) - 1 = n
      OBVIOUS
    <3>2. ends[n + 1] = Body(ends)[n + 1]
      BY <1>6
    <3> QED BY <3>1, <3>2
  <2> QED BY <2>1, <2>2
<1> HIDE DEF ends, Body
<1>9. \A n \in Nat : ends[n] \in V
  <2> DEFINE T == {n \in Nat : ends[n] \in V}
  <2>1. 0 \in T
    BY <1>1, <1>8
  <2>2. ASSUME NEW n \in Nat, n \in T PROVE n + 1 \in T
    <3>1. ends[n] \in V /\ ends[n + 1] = Halved(I, old, t, ends[n])
      BY <1>8, <2>2
    <3> QED BY <1>2, <3>1
  <2> HIDE DEF T
  <2>3. Nat \subseteq T
    BY <2>1, <2>2, Induction
  <2> QED BY <2>3 DEF T
<1>10. Narrows(ends, I, old, t)
  BY SMTT(30), <1>7, <1>8, <1>9 DEF Narrows, V, all
<1> QED BY <1>10

\* In the end two neighbours are left.
LEMMA NeighboursLeft ==
    ASSUME NEW S, NEW old \in Seq(S), NEW I, NEW t, NEW f, Narrows(f, I, old, t)
    PROVE  f[Len(old)].en - f[Len(old)].st < 2
<1> DEFINE n == Len(old)
           T == {k \in Nat : f[k].en - f[k].st < 2 \/ f[k].en - f[k].st <= n - k}
<1>1. n \in Nat /\ f[0].st = 0 /\ f[0].en = n
      /\ \A k \in Nat : /\ f[k] \in EndsOf(old) /\ f[k + 1] = Halved(I, old, t, f[k])
                        /\ f[k].st \in Nat /\ f[k].en \in Nat
  <2>1. n \in Nat
    OBVIOUS
  <2>2. f[0].st = 0 /\ f[0].en = n
        /\ \A k \in Nat : f[k] \in EndsOf(old) /\ f[k + 1] = Halved(I, old, t, f[k])
    BY DEF Narrows
  <2>3. ASSUME NEW e \in EndsOf(old) PROVE e.st \in Nat /\ e.en \in Nat
    BY <2>3 DEF EndsOf
  <2> QED BY <2>1, <2>2, <2>3
<1> HIDE DEF n
<1>2. 0 \in T
  <2>1. f[0].en - f[0].st <= n - 0
    BY <1>1
  <2> QED BY <2>1
<1>3. ASSUME NEW k \in Nat, k \in T PROVE k + 1 \in T
  <2> DEFINE e == f[k]
             h == f[k + 1]
             x == e.st + (e.en - e.st) \div 2
  <2>1. e \in EndsOf(old) /\ h = Halved(I, old, t, e) /\ e.st \in Nat /\ e.en \in Nat
        /\ h.st \in Nat /\ h.en \in Nat
    <3>1. k + 1 \in Nat
      OBVIOUS
    <3>2. f[k + 1].st \in Nat /\ f[k + 1].en \in Nat
      BY <1>1, <3>1
    <3> QED BY <1>1, <3>2
  <2>2. e.en - e.st < 2 \/ e.en - e.st <= n - k
    BY <1>3
  <2> HIDE DEF h
  <2>3. CASE e.en - e.st < 2
    <3>1. h = e
      BY <2>1, <2>3, HalvedIs
    <3> QED BY <2>3, <3>1 DEF h
  <2>4. CASE ~(e.en - e.st < 2)
    <3>1. /\ x \in Nat /\ e.st < x /\ x < e.en
          /\ (h.st = x /\ h.en = e.en) \/ (h.st = e.st /\ h.en = x)
      <4> HIDE DEF e
      <4> QED BY <2>1, <2>4, HalvedIs
    <3> HIDE DEF e, x
    <3>2. h.en - h.st < e.en - e.st
      BY <2>1, <3>1
    <3>3. h.en - h.st <= n - (k + 1)
      <4>1. n \in Nat
        BY <1>1
      <4>2. e.en - e.st <= n - k
        BY <2>2, <2>4
      <4> QED BY <2>1, <3>2, <4>1, <4>2
    <3> QED BY <3>3 DEF h
  <2> QED BY <2>3, <2>4
<1> HIDE DEF T
<1>4. n \in T
  <2>1. Nat \subseteq T
    BY <1>2, <1>3, Induction
  <2> QED BY <1>1, <2>1
<1>5. f[n].st \in Nat /\ f[n].en \in Nat
  BY <1>1
<1>6. f[n].en - f[n].st < 2 \/ f[n].en - f[n].st <= n - n
  BY <1>4 DEF T
<1>7. f[n].en - f[n].st < 2
  <2>1. n \in Nat
    BY <1>1
  <2> QED BY <1>5, <1>6, <2>1
<1> QED BY <1>7 DEF n

\* What the suffix sort leaves: a place of old, or its end, for every line.
Index(old) == [0 .. Len(old) -> 0 .. Len(old)]

\* What the search returns is a place and a match there.
LEMMA SearchIs ==
    ASSUME NEW S, NEW old \in Seq(S), NEW t \in Seq(S), NEW I \in Index(old)
    PROVE  LET m == Search(I, old, t) IN m.pos \in 0 .. Len(old) /\ m.len \in 0 .. Len(t)
<1>1. PICK f : Narrows(f, I, old, t)
  BY SearchNarrows
<1> DEFINE e == f[Len(old)]
<1>2. e \in [st : 0 .. Len(old), en : 0 .. Len(old)] /\ Search(I, old, t) = Nearer(I, old, t, e)
  <2>1. Len(old) \in Nat
    OBVIOUS
  <2> QED BY <1>1, <2>1 DEF Narrows, EndsOf
<1> HIDE DEF e
<1>3. I[e.st] \in 0 .. Len(old) /\ I[e.en] \in 0 .. Len(old)
  BY <1>2 DEF Index
<1>4. ASSUME NEW i \in 0 .. Len(old) PROVE MatchLen(Suffix(old, i), t) \in 0 .. Len(t)
  <2>1. Suffix(old, i) \in Seq(S)
    BY SuffixIs
  <2> HIDE DEF Index
  <2>2. MatchLen(Suffix(old, i), t) \in Nat /\ MatchLen(Suffix(old, i), t) <= Len(t)
    <3> DEFINE s == Suffix(old, i)
    <3>1. s \in Seq(S) /\ Len(s) \in Nat
      BY <2>1
    <3> HIDE DEF s
    <3>2. MatchLen(s, t) \in 0 .. Len(s) /\ MatchLen(s, t) <= Len(t)
      BY <3>1, MatchLenIs
    <3> QED BY <3>1, <3>2 DEF s
  <2> QED BY <2>2
<1> QED BY <1>2, <1>3, <1>4 DEF Nearer

LEMMA BelowLen ==
    ASSUME NEW n \in Nat, NEW k \in 0 .. n - 1
    PROVE  k \in Nat /\ k \in 0 .. n /\ k < n /\ k + 1 \in 1 .. n /\ n - k > 0
OBVIOUS

\* In an index in order the empty suffix is the first, and the first units of
\* the others ascend.
LEMMA IndexIs ==
    ASSUME NEW old \in Seq(Nat), NEW I \in Index(old), InSuffixOrder(old, I)
    PROVE  /\ I[0] = Len(old)
           /\ \A i \in 1 .. Len(old) : I[i] \in 0 .. Len(old) - 1
           /\ \A i, j \in 1 .. Len(old) : i < j => At(old, I[i]) <= At(old, I[j])
           /\ \A j \in 0 .. Len(old) : \E i \in 0 .. Len(old) : I[i] = j
<1> DEFINE n == Len(old)
<1>1. n \in Nat /\ DOMAIN I = 0 .. n /\ \A i \in 0 .. n : I[i] \in 0 .. n
  BY DEF Index
<1>2. \A j \in 0 .. n : \E i \in 0 .. n : I[i] = j
  BY <1>1 DEF InSuffixOrder
<1>3. \A i, j \in 0 .. n : I[i] = I[j] => i = j
  <2>1. IsFiniteSet(0 .. n)
    BY <1>1, FS_Interval
  <2>2. I \in Surjection(0 .. n, 0 .. n)
    BY <1>2 DEF Surjection, Index
  <2>3. I \in Injection(0 .. n, 0 .. n)
    BY <2>1, <2>2, FS_SurjSameCardinalityImpliesInj
  <2> QED BY <1>1, <2>3 DEF Injection, IsInjective
<1>4. ASSUME NEW i \in 0 .. n, NEW j \in 0 .. n, i < j
      PROVE  LET a == Suffix(old, I[i])
                 b == Suffix(old, I[j])
                 m == MatchLen(a, b)
             IN  m = Len(a) \/ (m < Len(b) /\ a[m + 1] < b[m + 1])
  BY <1>1, <1>4 DEF InSuffixOrder
<1>5. ASSUME NEW i \in 0 .. n
      PROVE  /\ Suffix(old, I[i]) \in Seq(Nat) /\ Len(Suffix(old, I[i])) = n - I[i]
             /\ I[i] < n => Suffix(old, I[i])[1] = At(old, I[i])
  BY <1>1, SuffixIs
<1>6. I[0] = n
  <2>1. PICK k \in 0 .. n : I[k] = n
    <3>1. n \in 0 .. n
      BY <1>1
    <3> QED BY <1>2, <3>1
  <2>2. CASE k = 0
    BY <2>1, <2>2
  <2>3. CASE k # 0
    <3> DEFINE a == Suffix(old, I[0])
               b == Suffix(old, I[k])
               m == MatchLen(a, b)
    <3>1. a \in Seq(Nat) /\ b \in Seq(Nat) /\ Len(b) = 0 /\ Len(a) = n - I[0]
      BY <1>1, <1>5, <2>1
    <3>2. m = Len(a) \/ (m < Len(b) /\ a[m + 1] < b[m + 1])
      BY <1>1, <1>4, <2>3
    <3>3. m \in Nat /\ m <= Len(b)
      <4> HIDE DEF a, b
      <4>1. m \in 0 .. Len(a) /\ m <= Len(b)
        BY <3>1, MatchLenIs
      <4> QED BY <3>1, <4>1
    <3> HIDE DEF m, a, b
    <3> QED BY <1>1, <3>1, <3>2, <3>3
  <2> QED BY <2>2, <2>3
<1>7. ASSUME NEW i \in 1 .. n PROVE I[i] \in 0 .. n - 1
  <2>1. i \in 0 .. n /\ 0 \in 0 .. n /\ i # 0
    BY <1>1
  <2>2. I[i] # n /\ I[i] \in 0 .. n
    BY <1>1, <1>3, <1>6, <2>1
  <2> QED BY <1>1, <2>2
<1>8. ASSUME NEW i \in 1 .. n, NEW j \in 1 .. n, i < j PROVE At(old, I[i]) <= At(old, I[j])
  <2> DEFINE a == Suffix(old, I[i])
             b == Suffix(old, I[j])
             m == MatchLen(a, b)
  <2>1. i \in 0 .. n /\ j \in 0 .. n /\ I[i] \in 0 .. n - 1 /\ I[j] \in 0 .. n - 1
    BY <1>1, <1>7
  <2>2. a \in Seq(Nat) /\ b \in Seq(Nat) /\ Len(a) > 0 /\ Len(b) > 0
        /\ a[1] = At(old, I[i]) /\ b[1] = At(old, I[j])
    <3>1. ASSUME NEW k \in 0 .. n, I[k] \in 0 .. n - 1
          PROVE  /\ Suffix(old, I[k]) \in Seq(Nat) /\ Len(Suffix(old, I[k])) > 0
                 /\ Suffix(old, I[k])[1] = At(old, I[k])
      <4>1. I[k] < n /\ n - I[k] > 0
        <5>1. n \in Nat
          BY <1>1
        <5> HIDE DEF n
        <5> QED BY <3>1, <5>1, BelowLen
      <4> QED BY <1>5, <4>1
    <3> QED BY <2>1, <3>1
  <2>3. m = Len(a) \/ (m < Len(b) /\ a[m + 1] < b[m + 1])
    BY <1>4, <1>8, <2>1
  <2> HIDE DEF a, b
  <2>4. m \in 0 .. Len(a) /\ m <= Len(b) /\ \A o \in 1 .. m : a[o] = b[o]
    <3>1. a \in Seq(Nat) /\ b \in Seq(Nat)
      BY <2>2
    <3> QED BY <3>1, MatchLenIs
  <2>5. a[1] \in Nat /\ b[1] \in Nat /\ m \in Nat
    BY <2>2, <2>4
  <2> HIDE DEF m
  <2>6. CASE m = 0
    BY <2>2, <2>3, <2>5, <2>6
  <2>7. CASE m # 0
    <3>1. 1 \in 1 .. m
      BY <2>5, <2>7
    <3>2. a[1] = b[1]
      BY <2>4, <3>1
    <3> QED BY <2>2, <2>5, <3>2
  <2> QED BY <2>6, <2>7
<1> QED BY <1>2, <1>6, <1>7, <1>8

\* A unit that is anywhere in old begins a match.
LEMMA SearchFinds ==
    ASSUME NEW old \in Seq(Nat), NEW I \in Index(old), InSuffixOrder(old, I),
           NEW t \in Seq(Nat), Len(t) > 0,
           NEW j \in 0 .. Len(old) - 1, At(old, j) = t[1]
    PROVE  Search(I, old, t).len > 0
<1> DEFINE n == Len(old)
<1>1. PICK f : Narrows(f, I, old, t)
  BY SearchNarrows
<1>2. /\ I[0] = n
      /\ \A i \in 1 .. n : I[i] \in 0 .. n - 1
      /\ \A i, k \in 1 .. n : i < k => At(old, I[i]) <= At(old, I[k])
      /\ \A k \in 0 .. n : \E i \in 0 .. n : I[i] = k
  BY IndexIs
<1>3. n \in Nat /\ j \in 0 .. n - 1 /\ j # n
  OBVIOUS
<1>4. ASSUME NEW i \in 1 .. n
      PROVE  /\ Suffix(old, I[i]) \in Seq(Nat) /\ Len(Suffix(old, I[i])) > 0
             /\ Suffix(old, I[i])[1] = At(old, I[i]) /\ At(old, I[i]) \in Nat
  <2>1. I[i] \in 0 .. n - 1
    BY <1>2
  <2> DEFINE k == I[i]
  <2> HIDE DEF k
  <2>2. k \in 0 .. Len(old) /\ k < Len(old) /\ k + 1 \in 1 .. Len(old) /\ Len(old) - k > 0
    <3>1. n \in Nat /\ k \in 0 .. n - 1
      BY <1>3, <2>1 DEF k
    <3> HIDE DEF n
    <3>2. k \in 0 .. n /\ k < n /\ k + 1 \in 1 .. n /\ n - k > 0
      BY <3>1, BelowLen
    <3> QED BY <3>2 DEF n
  <2>3. At(old, k) \in Nat
    BY SMTT(30), <2>2 DEF At
  <2>4. /\ Suffix(old, k) \in Seq(Nat) /\ Len(Suffix(old, k)) = Len(old) - k
        /\ Suffix(old, k)[1] = At(old, k)
    BY <2>2, SuffixIs
  <2> QED BY <2>2, <2>3, <2>4 DEF k
<1>5. t[1] \in Nat
  OBVIOUS
<1> HIDE DEF n
<1> DEFINE Begins1(e) == \E i \in 1 .. n : e.st <= i /\ i <= e.en /\ At(old, I[i]) = t[1]
           T == {k \in Nat : Begins1(f[k])}
<1>6. ASSUME NEW k \in Nat
      PROVE  f[k] \in EndsOf(old) /\ f[k + 1] = Halved(I, old, t, f[k])
             /\ f[k].st \in 0 .. n /\ f[k].en \in 0 .. n
  <2>1. f[k] \in EndsOf(old) /\ f[k + 1] = Halved(I, old, t, f[k])
    BY <1>1 DEF Narrows
  <2> QED BY <2>1 DEF EndsOf, n
<1>7. 0 \in T
  <2>1. PICK i \in 0 .. n : I[i] = j
    <3>1. j \in 0 .. n
      BY <1>3
    <3> QED BY <1>2, <3>1
  <2>2. i # 0
    BY <1>2, <1>3, <2>1
  <2>3. i \in 1 .. n
    BY <1>3, <2>2
  <2>4. f[0].st = 0 /\ f[0].en = n
    BY <1>1 DEF Narrows, n
  <2>5. Begins1(f[0])
    BY <1>3, <2>1, <2>3, <2>4
  <2> QED BY <2>5
<1>8. ASSUME NEW k \in Nat, k \in T PROVE k + 1 \in T
  <2> DEFINE e == f[k]
             x == e.st + (e.en - e.st) \div 2
             h == Halved(I, old, t, e)
  <2>1. e \in EndsOf(old) /\ f[k + 1] = h /\ e.st \in 0 .. n /\ e.en \in 0 .. n
    BY <1>6
  <2>2. PICK i \in 1 .. n : e.st <= i /\ i <= e.en /\ At(old, I[i]) = t[1]
    BY <1>8
  <2> HIDE DEF e
  <2>3. CASE e.en - e.st < 2
    <3>1. h = e
      BY <2>1, <2>3, HalvedIs
    <3>2. Begins1(h)
      BY <2>2, <3>1
    <3> QED BY <2>1, <3>2
  <2>4. CASE ~(e.en - e.st < 2)
    <3>1. /\ x \in Nat /\ e.st < x /\ x < e.en
          /\ IF Below(Suffix(old, I[x]), t) THEN h.st = x /\ h.en = e.en
                                            ELSE h.st = e.st /\ h.en = x
      BY SMTT(30), <2>1, <2>4, HalvedIs
    <3> HIDE DEF x, h
    <3>2. x \in 1 .. n /\ i \in Nat
      BY <1>3, <2>1, <3>1
    <3>3. /\ Below(Suffix(old, I[x]), t) => At(old, I[x]) <= t[1]
          /\ ~Below(Suffix(old, I[x]), t) => t[1] <= At(old, I[x])
          /\ At(old, I[x]) \in Nat
      <4> DEFINE s == Suffix(old, I[x])
      <4>1. s \in Seq(Nat) /\ Len(s) > 0 /\ s[1] = At(old, I[x]) /\ At(old, I[x]) \in Nat
        BY <1>4, <3>2
      <4> HIDE DEF s
      <4>2. (Below(s, t) => s[1] <= t[1]) /\ (~Below(s, t) => t[1] <= s[1])
        BY <4>1, HeadsDecide
      <4> QED BY <4>1, <4>2 DEF s
    <3>4. Begins1(h)
      <4>1. CASE Below(Suffix(old, I[x]), t)
        <5>1. h.st = x /\ h.en = e.en
          BY <3>1, <4>1
        <5>2. CASE x <= i
          BY <2>2, <5>1, <5>2
        <5>3. CASE ~(x <= i)
          <6>1. At(old, I[i]) <= At(old, I[x])
            BY <1>2, <3>2, <5>3
          <6>2. At(old, I[x]) = t[1]
            BY <1>5, <2>2, <3>3, <4>1, <6>1
          <6>3. x <= h.en /\ h.st <= x
            BY <2>1, <3>1, <5>1
          <6> QED BY <3>2, <6>2, <6>3
        <5> QED BY <5>2, <5>3
      <4>2. CASE ~Below(Suffix(old, I[x]), t)
        <5>1. h.st = e.st /\ h.en = x
          BY <3>1, <4>2
        <5>2. CASE i <= x
          BY <2>2, <5>1, <5>2
        <5>3. CASE ~(i <= x)
          <6>1. At(old, I[x]) <= At(old, I[i])
            BY <1>2, <3>2, <5>3
          <6>2. At(old, I[x]) = t[1]
            BY <1>5, <2>2, <3>3, <4>2, <6>1
          <6>3. x <= h.en /\ h.st <= x
            BY <2>1, <3>1, <5>1
          <6> QED BY <3>2, <6>2, <6>3
        <5> QED BY <5>2, <5>3
      <4> QED BY <4>1, <4>2
    <3> QED BY <2>1, <3>4 DEF h
  <2> QED BY <2>3, <2>4
<1> HIDE DEF T
<1>9. Begins1(f[n])
  <2>1. Nat \subseteq T
    BY <1>7, <1>8, Induction
  <2>2. n \in T
    BY <1>3, <2>1
  <2> QED BY <2>2 DEF T
<1> DEFINE e == f[n]
           x == MatchLen(Suffix(old, I[e.st]), t)
           y == MatchLen(Suffix(old, I[e.en]), t)
<1>10. e.st \in 0 .. n /\ e.en \in 0 .. n /\ e.en - e.st < 2 /\ Search(I, old, t) = Nearer(I, old, t, e)
  BY <1>1, <1>3, <1>6, NeighboursLeft DEF Narrows, n
<1>11. PICK i \in 1 .. n : e.st <= i /\ i <= e.en /\ At(old, I[i]) = t[1]
  BY <1>9
<1> HIDE DEF e
<1>12. i = e.st \/ i = e.en
  <2>1. i \in Nat /\ e.st \in Nat /\ e.en \in Nat
    BY <1>3, <1>10
  <2>2. e.en - e.st < 2
    BY <1>10
  <2> QED BY SMTT(30), <1>11, <2>1, <2>2
<1>13. ASSUME NEW k \in 0 .. n PROVE MatchLen(Suffix(old, I[k]), t) \in Nat
  <2> DEFINE s == Suffix(old, I[k])
  <2>1. s \in Seq(Nat)
    <3>1. I[k] \in 0 .. Len(old)
      BY DEF Index, n
    <3> QED BY <3>1, SuffixIs
  <2> HIDE DEF s
  <2>2. MatchLen(s, t) \in 0 .. Len(s)
    BY <2>1, MatchLenIs
  <2> QED BY <2>2 DEF s
<1>14. MatchLen(Suffix(old, I[i]), t) > 0
  <2> DEFINE s == Suffix(old, I[i])
  <2>1. s \in Seq(Nat) /\ Len(s) > 0 /\ s[1] = t[1]
    BY <1>4, <1>11
  <2> HIDE DEF s
  <2>2. MatchLen(s, t) > 0
    BY <2>1, HeadsDecide
  <2> QED BY <2>2 DEF s
<1>15. x \in Nat /\ y \in Nat /\ (x > 0 \/ y > 0)
  BY <1>10, <1>12, <1>13, <1>14
<1>16. Search(I, old, t).len = IF x > y THEN x ELSE y
  BY <1>10 DEF Nearer
<1> HIDE DEF x, y
<1> QED BY <1>15, <1>16
-----------------------------------------------------------------------------
(* The inner loop.                                                         *)

\* How many of these places agree.
Agreeing(old, new, off, a, b) == {i \in a .. b - 1 : Agrees(old, new, off, i)}
Count(old, new, off, a, b) == Cardinality(Agreeing(old, new, off, a, b))

LEMMA AgreeingIs ==
    ASSUME NEW old, NEW new, NEW off, NEW a \in Int, NEW b \in Int
    PROVE  IsFiniteSet(Agreeing(old, new, off, a, b)) /\ Count(old, new, off, a, b) \in Nat
<1>1. Agreeing(old, new, off, a, b) \in SUBSET (a .. b - 1) /\ b - 1 \in Int
  BY DEF Agreeing
<1> QED BY <1>1, CountIs DEF Count

LEMMA CountsAdd ==
    ASSUME NEW old, NEW new, NEW off, NEW a \in Int, NEW b \in Int, NEW c \in Int
    PROVE  Count(old, new, off, a, c) <= Count(old, new, off, a, b) + Count(old, new, off, b, c)
<1> DEFINE A == Agreeing(old, new, off, a, b)
           B == Agreeing(old, new, off, b, c)
           C == Agreeing(old, new, off, a, c)
<1>1. C \in SUBSET (A \cup B)
  BY DEF Agreeing
<1>2. IsFiniteSet(A) /\ IsFiniteSet(B) /\ Cardinality(A) \in Nat /\ Cardinality(B) \in Nat
      /\ Cardinality(C) \in Nat
  BY AgreeingIs DEF Count
<1> HIDE DEF A, B, C
<1>3. IsFiniteSet(A \cup B)
      /\ Cardinality(A \cup B) = Cardinality(A) + Cardinality(B) - Cardinality(A \cap B)
  BY <1>2, FS_Union
<1>4. IsFiniteSet(A \cap B)
  BY <1>2, FS_Intersection
<1>5. Cardinality(A \cap B) \in Nat
  BY <1>4, FS_CardinalityType
<1>6. Cardinality(C) <= Cardinality(A \cup B)
  BY <1>1, <1>3, FS_Subset
<1>7. Cardinality(C) <= Cardinality(A) + Cardinality(B)
  BY <1>2, <1>3, <1>5, <1>6
<1> QED BY <1>7 DEF A, B, C, Count

\* Without its first place the count is one less where that agrees.
LEMMA CountsOn ==
    ASSUME NEW old, NEW new, NEW off, NEW a \in Int, NEW b \in Int,
           Agrees(old, new, off, a) => a < b
    PROVE  Count(old, new, off, a + 1, b)
              <= Count(old, new, off, a, b) - (IF Agrees(old, new, off, a) THEN 1 ELSE 0)
<1> DEFINE A == Agreeing(old, new, off, a, b)
           B == Agreeing(old, new, off, a + 1, b)
<1>1. IsFiniteSet(A) /\ IsFiniteSet(B) /\ Cardinality(A) \in Nat /\ Cardinality(B) \in Nat
  BY AgreeingIs DEF Count
<1>2. CASE Agrees(old, new, off, a)
  <2>1. A = B \cup {a} /\ a \notin B
    BY <1>2 DEF Agreeing
  <2> HIDE DEF A, B
  <2>2. Cardinality(A) = Cardinality(B) + 1
    BY <1>1, <2>1, FS_AddElement
  <2> QED BY <1>1, <1>2, <2>2 DEF A, B, Count
<1>3. CASE ~Agrees(old, new, off, a)
  <2>1. B \in SUBSET A
    BY DEF Agreeing
  <2> HIDE DEF A, B
  <2>2. Cardinality(B) <= Cardinality(A)
    BY <1>1, <2>1, FS_Subset
  <2> QED BY <1>1, <1>3, <2>2 DEF A, B, Count
<1> QED BY <1>2, <1>3

Places(old, new) ==
    [scan : 0 .. Len(new), scsc : Nat, len : Nat, pos : 0 .. Len(old), score : Int, found : BOOLEAN]

\* Where the inner loop may be that began at this place.
Looking(old, new, off, start) ==
    {s \in Places(old, new) :
        /\ start <= s.scan
        /\ ~s.found => Count(old, new, off, s.scan, s.scsc) <= s.score
        /\ s.found => s.len > 0 /\ s.scan + s.len <= Len(new)}

LEMMA LookedIs ==
    ASSUME NEW old \in Seq(Nat), NEW new \in Seq(Nat), NEW I \in Index(old),
           InSuffixOrder(old, I), Gain \in Nat, NEW off \in Int, NEW start \in Nat,
           0 <= start + off, NEW s \in Looking(old, new, off, start)
    PROVE  LET r == Looked(I, old, new, off, s)
           IN  /\ r \in Looking(old, new, off, start)
               /\ s.found \/ s.scan >= Len(new) => r = s
               /\ ~(s.found \/ s.scan >= Len(new)) => r.found \/ r.scan = s.scan + 1
<1> DEFINE n == Len(new)
           r == Looked(I, old, new, off, s)
           t == Suffix(new, s.scan)
           m == Search(I, old, t)
           to == Max({s.scsc, s.scan + m.len})
           score == s.score + Count(old, new, off, s.scsc, to)
           here == [s EXCEPT !.len = m.len, !.pos = m.pos, !.scsc = to, !.score = score]
           one == IF Agrees(old, new, off, s.scan) THEN 1 ELSE 0
<1>1. s \in Places(old, new) /\ start <= s.scan
  BY DEF Looking
<1>2. CASE s.found \/ s.scan >= Len(new)
  <2>1. r = s
    BY <1>2 DEF Looked
  <2> QED BY <1>2, <2>1
<1>3. CASE ~(s.found \/ s.scan >= Len(new))
  <2>1. n \in Nat /\ s.scan \in 0 .. n /\ s.scan < n /\ s.scsc \in Nat /\ s.score \in Int
    BY <1>1, <1>3 DEF Places
  <2>2. t \in Seq(Nat) /\ Len(t) = n - s.scan /\ t[1] = At(new, s.scan)
    BY <2>1, SuffixIs
  <2>3. m.pos \in 0 .. Len(old) /\ m.len \in 0 .. Len(t)
    <3> HIDE DEF t
    <3> QED BY <2>2, SearchIs
  <2>4. m.len \in Nat /\ s.scan + m.len <= n
    <3> HIDE DEF m, t, n
    <3> QED BY <2>1, <2>2, <2>3
  <2>5. to \in Nat /\ s.scsc <= to /\ s.scan + m.len <= to
    <3> HIDE DEF m
    <3>1. s.scan + m.len \in Nat
      BY <2>1, <2>4
    <3> DEFINE x == s.scsc
               y == s.scan + m.len
    <3>2. x \in Nat /\ y \in Nat /\ to = Max({x, y})
      BY <2>1, <3>1
    <3> HIDE DEF x, y, to
    <3>3. to = IF x <= y THEN y ELSE x
      BY <3>2, UpperOf
    <3>4. to \in Nat /\ x <= to /\ y <= to
      BY <3>2, <3>3
    <3> QED BY <3>4 DEF x, y
  <2>6. Count(old, new, off, s.scsc, to) \in Nat /\ Count(old, new, off, s.scan, s.scsc) \in Nat
        /\ Count(old, new, off, s.scan, to) \in Nat /\ Count(old, new, off, s.scan + 1, to) \in Nat
    <3> HIDE DEF to
    <3>1. s.scan \in Int /\ s.scan + 1 \in Int /\ s.scsc \in Int /\ to \in Int
      BY <2>1, <2>5
    <3> QED BY <3>1, AgreeingIs
  <2>7. score \in Int /\ Count(old, new, off, s.scan, to) <= score
    <3> HIDE DEF to
    <3>1. Count(old, new, off, s.scan, to)
             <= Count(old, new, off, s.scan, s.scsc) + Count(old, new, off, s.scsc, to)
      <4>1. s.scan \in Int /\ s.scsc \in Int /\ to \in Int
        BY <2>1, <2>5
      <4> QED BY <4>1, CountsAdd
    <3>2. Count(old, new, off, s.scan, s.scsc) <= s.score
      BY <1>3 DEF Looking
    <3> QED BY SMTT(30), <2>1, <2>6, <3>1, <3>2
  <2>8. r = IF (m.len = score /\ m.len # 0) \/ m.len > score + Gain
            THEN [here EXCEPT !.found = TRUE]
            ELSE [here EXCEPT !.scan = @ + 1, !.score = @ - one]
    BY <1>3 DEF Looked, Judged, Count, Agreeing
  <2> HIDE DEF to, score, m, t, n, r
  <2>9. /\ here \in Places(old, new) /\ here.scan = s.scan /\ here.scsc = to /\ here.score = score
        /\ here.len = m.len /\ here.pos = m.pos
    BY <1>1, <2>3, <2>4, <2>5, <2>7 DEF Places
  <2> HIDE DEF here
  <2>10. CASE (m.len = score /\ m.len # 0) \/ m.len > score + Gain
    <3>1. m.len > 0
      BY <2>4, <2>6, <2>7, <2>10
    <3>2. r = [here EXCEPT !.found = TRUE]
      BY <2>8, <2>10
    <3>3. r \in Places(old, new) /\ r.found /\ r.len = m.len /\ r.scan = s.scan
      BY <2>9, <3>2 DEF Places
    <3> QED BY <1>1, <1>3, <2>4, <3>1, <3>3 DEF Looking, n, r
  <2>11. CASE ~((m.len = score /\ m.len # 0) \/ m.len > score + Gain)
    <3>1. r = [here EXCEPT !.scan = @ + 1, !.score = @ - one]
      BY <2>8, <2>11
    <3>2. one \in {0, 1}
      OBVIOUS
    <3>3. Agrees(old, new, off, s.scan) => s.scan < to
      <4> SUFFICES ASSUME Agrees(old, new, off, s.scan) PROVE s.scan < to
        OBVIOUS
      <4> DEFINE j == s.scan + off
      <4>1. j \in Int /\ 0 <= j
        BY <1>1, <2>1
      <4>2. j < Len(old) /\ At(old, j) = t[1]
        BY <2>2 DEF Agrees
      <4> HIDE DEF j
      <4>3. j \in 0 .. Len(old) - 1
        BY <4>1, <4>2
      <4>4. Len(t) > 0
        BY <2>1, <2>2
      <4>5. m.len > 0
        BY <2>2, <4>2, <4>3, <4>4, SearchFinds DEF m
      <4> QED BY <2>1, <2>4, <2>5, <4>5
    <3>4. Count(old, new, off, s.scan + 1, to) <= Count(old, new, off, s.scan, to) - one
      <4>1. s.scan \in Int /\ to \in Int
        BY <2>1, <2>5
      <4> QED BY <3>3, <4>1, CountsOn
    <3> HIDE DEF one
    <3>5. s.scan + 1 \in 0 .. Len(new) /\ score - one \in Int
      BY <2>1, <2>7, <3>2 DEF n
    <3>6. /\ r \in Places(old, new) /\ r.found = s.found /\ r.scan = s.scan + 1 /\ r.scsc = to
          /\ r.score = score - one
      <4>1. here.found = s.found
        BY <1>1 DEF here, Places
      <4> QED BY <2>9, <3>1, <3>5, <4>1 DEF Places
    <3>7. Count(old, new, off, s.scan + 1, to) <= score - one
      BY <2>6, <2>7, <3>2, <3>4
    <3>8. start <= s.scan + 1
      BY <1>1, <2>1
    <3> QED BY <1>3, <3>6, <3>7, <3>8 DEF Looking, r
  <2> QED BY <2>10, <2>11
<1> QED BY <1>2, <1>3

\* The inner loop ends, at the end of the file or at a match.
LEMMA ScanIs ==
    ASSUME NEW old \in Seq(Nat), NEW new \in Seq(Nat), NEW I \in Index(old),
           InSuffixOrder(old, I), Gain \in Nat, NEW off \in Int,
           NEW s \in Places(old, new), s.scan + s.len <= Len(new), 0 <= s.scan + s.len + off
    PROVE  LET t == Scan(I, old, new, off, s)
           IN  t \in Looking(old, new, off, s.scan + s.len) /\ (t.found \/ t.scan = Len(new))
<1> DEFINE start == s.scan + s.len
           V == Looking(old, new, off, start)
           first == [s EXCEPT !.scan = @ + s.len, !.scsc = s.scan + s.len,
                              !.score = 0, !.found = FALSE]
           step == [k \in Nat |-> [r \in V |-> Looked(I, old, new, off, r)]]
           n == Len(new)
<1>1. start \in Nat /\ start <= n /\ n \in Nat
  BY DEF Places
<1>2. first \in V
  <2>1. /\ first \in Places(old, new) /\ first.scan = start /\ first.scsc = start
        /\ first.score = 0 /\ first.found = FALSE
    <3>1. start \in Nat /\ start \in 0 .. Len(new) /\ 0 \in Int /\ FALSE \in BOOLEAN
      BY <1>1
    <3>2. first = [s EXCEPT !.scan = start, !.scsc = start, !.score = 0, !.found = FALSE]
      OBVIOUS
    <3> HIDE DEF start, first
    <3> QED BY <3>1, <3>2 DEF Places
  <2>2. Count(old, new, off, start, start) = 0
    <3> HIDE DEF start
    <3>1. Agreeing(old, new, off, start, start) = {}
      BY <1>1 DEF Agreeing
    <3> QED BY <3>1, FS_EmptySet DEF Count
  <2> HIDE DEF first, start
  <2> QED BY <1>1, <2>1, <2>2 DEF Looking
<1>3. ASSUME NEW r \in V
      PROVE  LET q == Looked(I, old, new, off, r)
             IN  /\ q \in V
                 /\ r.found \/ r.scan >= n => q = r
                 /\ ~(r.found \/ r.scan >= n) => q.found \/ q.scan = r.scan + 1
  <2>1. 0 <= start + off
    OBVIOUS
  <2> HIDE DEF start
  <2> QED BY <1>1, <2>1, LookedIs
<1> HIDE DEF V, first
<1>4. step \in [Nat -> [V -> V]] /\ \A k \in Nat, r \in V : step[k][r] = Looked(I, old, new, off, r)
  BY <1>3
<1> HIDE DEF step
<1>5. PICK f : Iterates(f, V, first, step)
  BY <1>2, <1>4, Iteration, Zenon
<1> DEFINE Body(g) == [k \in Nat |-> IF k = 0 THEN first ELSE Looked(I, old, new, off, g[k - 1])]
           turn == CHOOSE g : g = Body(g)
<1>6. f = Body(f)
  <2>1. ASSUME NEW k \in Nat, k # 0 PROVE f[k] = Looked(I, old, new, off, f[k - 1])
    <3>1. k - 1 \in Nat /\ (k - 1) + 1 = k
      BY <2>1
    <3>2. f[k] = step[k - 1][f[k - 1]] /\ f[k - 1] \in V
      BY <1>5, <3>1 DEF Iterates
    <3> QED BY <1>4, <3>1, <3>2
  <2>2. f[0] = first /\ f = [k \in Nat |-> f[k]]
    BY <1>5 DEF Iterates
  <2> QED BY <2>1, <2>2
<1>7. turn = Body(turn)
  <2> HIDE DEF Body
  <2> QED BY <1>6
<1>8. Scan(I, old, new, off, s) = turn[n + 1]
  BY DEF Scan, first
<1>9. turn[0] = first /\ \A k \in Nat : turn[k + 1] = Looked(I, old, new, off, turn[k])
  <2> HIDE DEF turn
  <2>1. turn[0] = first
    BY <1>7
  <2>2. ASSUME NEW k \in Nat PROVE turn[k + 1] = Looked(I, old, new, off, turn[k])
    <3>1. k + 1 \in Nat /\ k + 1 # 0 /\ (k + 1) - 1 = k
      OBVIOUS
    <3>2. turn[k + 1] = Body(turn)[k + 1]
      BY <1>7
    <3> QED BY <3>1, <3>2
  <2> QED BY <2>1, <2>2
<1> HIDE DEF turn, Body
<1> DEFINE Far(k) == turn[k] \in V
                     /\ (turn[k].found \/ turn[k].scan >= n \/ turn[k].scan >= start + k)
           T == {k \in Nat : Far(k)}
<1>10. \A r \in V : r.scan \in 0 .. n
  BY DEF V, Looking, Places
<1>11. 0 \in T
  <2>1. first.scan = start + 0
    BY <1>1 DEF first, Places
  <2>2. start + 0 \in Nat
    BY <1>1
  <2>3. turn[0] = first
    BY <1>9
  <2>4. turn[0].scan >= start + 0
    <3> HIDE DEF start
    <3> QED BY <2>1, <2>2, <2>3
  <2>5. Far(0)
    BY <1>2, <2>3, <2>4
  <2> HIDE DEF Far
  <2> QED BY <2>5
<1>12. ASSUME NEW k \in Nat, k \in T PROVE k + 1 \in T
  <2> DEFINE r == turn[k]
             q == turn[k + 1]
  <2>1. r \in V /\ q = Looked(I, old, new, off, r)
    BY <1>9, <1>12
  <2>2. /\ q \in V
        /\ r.found \/ r.scan >= n => q = r
        /\ ~(r.found \/ r.scan >= n) => q.found \/ q.scan = r.scan + 1
    BY <1>3, <2>1
  <2>3. r.found \/ r.scan >= n \/ r.scan >= start + k
    BY <1>12
  <2>4. r.scan \in Nat
    BY <1>1, <1>10, <2>1
  <2> HIDE DEF r, q
  <2>5. q.found \/ q.scan >= n \/ q.scan >= start + (k + 1)
    <3>1. CASE r.found \/ r.scan >= n
      BY <2>2, <3>1
    <3>2. CASE ~(r.found \/ r.scan >= n)
      <4> HIDE DEF start
      <4> QED BY <1>1, <2>2, <2>3, <2>4, <3>2
    <3> QED BY <3>1, <3>2
  <2> QED BY <2>2, <2>5 DEF q
<1> HIDE DEF T
<1>13. Far(n + 1)
  <2>1. Nat \subseteq T
    BY <1>11, <1>12, Induction
  <2>2. n + 1 \in Nat
    BY <1>1
  <2> QED BY <2>1, <2>2 DEF T
<1> DEFINE t == turn[n + 1]
<1>14. t \in V /\ t.scan \in 0 .. n /\ (t.found \/ t.scan >= n \/ t.scan >= start + (n + 1))
  BY <1>10, <1>13
<1> HIDE DEF t, start
<1>15. t.found \/ t.scan = n
  BY <1>1, <1>14
<1> QED BY <1>8, <1>14, <1>15 DEF V, t, start
-----------------------------------------------------------------------------
(* What a match adds to the patch.                                         *)

LEMMA CountBelow ==
    ASSUME NEW i \in Int, NEW A \in SUBSET (0 .. i - 1)
    PROVE  Cardinality(A) \in Nat
<1> DEFINE a == 0
           b == i - 1
<1>1. a \in Int /\ b \in Int /\ A \in SUBSET (a .. b)
  OBVIOUS
<1> HIDE DEF a, b
<1> QED BY <1>1, CountIs

LEMMA CountUpTo ==
    ASSUME NEW i \in Int, NEW A \in SUBSET (1 .. i)
    PROVE  Cardinality(A) \in Nat
<1> DEFINE a == 1
<1>1. a \in Int /\ A \in SUBSET (a .. i)
  OBVIOUS
<1> HIDE DEF a
<1> QED BY <1>1, CountIs

\* Two extensions that overlap by o give way to each other at k.
LEMMA GiveWay ==
    ASSUME NEW S \in Nat, NEW L \in Nat, NEW P \in Nat, NEW Q \in Nat, NEW n \in Nat, L <= S,
           NEW F \in Nat, NEW B \in Nat, F <= S - L, F <= n - Q, B <= S - L, B <= P,
           NEW o \in Int, o = (L + F) - (S - B), o > 0, NEW k \in 0 .. o
    PROVE  /\ o \in Nat /\ o <= B /\ B # 0
           /\ (F - o) + k \in Nat /\ B - k \in Nat
           /\ Q + ((F - o) + k) <= n /\ B - k <= P
           /\ L + ((F - o) + k) <= S - (B - k)
OBVIOUS

\* The extensions of two matches meet: nothing of the file is left out or
\* written twice, and nothing is read outside of the old file.
LEMMA ExtendedIs ==
    ASSUME NEW old \in Seq(Nat), NEW new \in Seq(Nat), NEW last, NEW s \in Places(old, new),
           last.scan \in Nat, last.pos \in 0 .. Len(old), last.scan <= s.scan
    PROVE  LET e == Extended(old, new, last, s)
           IN  /\ e.f \in Nat /\ e.b \in Nat
               /\ last.pos + e.f <= Len(old) /\ e.b <= s.pos
               /\ last.scan + e.f <= s.scan - e.b
               /\ s.scan >= Len(new) => e.b = 0
<1> DEFINE gap == s.scan - last.scan
           nf == Min({s.scan - last.scan, Len(old) - last.pos})
           nb == Min({s.scan - last.scan, s.pos})
           fwd == [i \in 0 .. nf |->
                    2 * Cardinality({j \in 0 .. i - 1 : At(old, last.pos + j) = At(new, last.scan + j)}) - i]
           bwd == [i \in 0 .. nb |->
                    2 * Cardinality({j \in 1 .. i : At(old, s.pos - j) = At(new, s.scan - j)}) - i]
           lenf == Peak(nf, fwd)
           lenb == IF s.scan >= Len(new) THEN 0 ELSE Peak(nb, bwd)
           overlap == (last.scan + lenf) - (s.scan - lenb)
           f == lenf - overlap
           cut == [i \in 0 .. overlap |->
                    Cardinality({j \in 0 .. i - 1 : At(new, last.scan + f + j) = At(old, last.pos + f + j)})
                    - Cardinality({j \in 0 .. i - 1 : At(new, s.scan - lenb + j) = At(old, s.pos - lenb + j)})]
           lens == Peak(overlap, cut)
           e == Extended(old, new, last, s)
<1>1. /\ s.scan \in Nat /\ s.pos \in Nat /\ s.pos <= Len(old) /\ Len(old) \in Nat /\ Len(new) \in Nat
      /\ gap \in Nat /\ last.scan \in Nat /\ last.pos \in Nat /\ Len(old) - last.pos \in Nat
  BY DEF Places
<1>2. nf \in Nat /\ nf <= gap /\ nf <= Len(old) - last.pos
  <2> DEFINE x == s.scan - last.scan
             y == Len(old) - last.pos
  <2>1. x \in Nat /\ y \in Nat /\ nf = Min({x, y})
    BY <1>1
  <2> HIDE DEF x, y, nf
  <2>2. nf = IF x <= y THEN x ELSE y
    BY <2>1, LowerOf
  <2>3. nf \in Nat /\ nf <= x /\ nf <= y
    BY <2>1, <2>2
  <2> QED BY <2>3 DEF x, y
<1>3. nb \in Nat /\ nb <= gap /\ nb <= s.pos
  <2> DEFINE x == s.scan - last.scan
             y == s.pos
  <2>1. x \in Nat /\ y \in Nat /\ nb = Min({x, y})
    BY <1>1
  <2> HIDE DEF x, y, nb
  <2>2. nb = IF x <= y THEN x ELSE y
    BY <2>1, LowerOf
  <2>3. nb \in Nat /\ nb <= x /\ nb <= y
    BY <2>1, <2>2
  <2> QED BY <2>3 DEF x, y
<1>4. lenf \in Nat /\ lenf <= gap /\ lenf <= Len(old) - last.pos
  <2> HIDE DEF nf, gap
  <2>1. fwd \in [0 .. nf -> Int]
    <3>1. ASSUME NEW i \in 0 .. nf
          PROVE  2 * Cardinality({j \in 0 .. i - 1 : At(old, last.pos + j) = At(new, last.scan + j)}) - i \in Int
      <4> DEFINE A == {j \in 0 .. i - 1 : At(old, last.pos + j) = At(new, last.scan + j)}
      <4>1. A \in SUBSET (0 .. i - 1) /\ i - 1 \in Int /\ i \in Int
        BY <1>2
      <4> HIDE DEF A
      <4>2. Cardinality(A) \in Nat
        BY <4>1, CountBelow, CountUpTo
      <4>3. 2 * Cardinality(A) - i \in Int
        BY <4>1, <4>2
      <4> QED BY <4>3 DEF A
    <3> QED BY <3>1
  <2> HIDE DEF fwd
  <2>2. lenf \in 0 .. nf
    BY <1>2, <2>1, PeakIs
  <2> HIDE DEF lenf
  <2> QED BY <1>1, <1>2, <2>2
<1>5. lenb \in Nat /\ lenb <= gap /\ lenb <= s.pos /\ (s.scan >= Len(new) => lenb = 0)
  <2> HIDE DEF nb, gap
  <2>1. bwd \in [0 .. nb -> Int]
    <3>1. ASSUME NEW i \in 0 .. nb
          PROVE  2 * Cardinality({j \in 1 .. i : At(old, s.pos - j) = At(new, s.scan - j)}) - i \in Int
      <4> DEFINE A == {j \in 1 .. i : At(old, s.pos - j) = At(new, s.scan - j)}
      <4>1. A \in SUBSET (1 .. i) /\ i \in Int
        BY <1>3
      <4> HIDE DEF A
      <4>2. Cardinality(A) \in Nat
        BY <4>1, CountBelow, CountUpTo
      <4>3. 2 * Cardinality(A) - i \in Int
        BY <4>1, <4>2
      <4> QED BY <4>3 DEF A
    <3> QED BY <3>1
  <2> HIDE DEF bwd
  <2>2. Peak(nb, bwd) \in 0 .. nb
    BY <1>3, <2>1, PeakIs
  <2> DEFINE p == Peak(nb, bwd)
  <2> HIDE DEF p
  <2>3. p \in Nat /\ p <= gap /\ p <= s.pos
    BY <1>1, <1>3, <2>2 DEF p
  <2>4. 0 <= gap /\ 0 <= s.pos
    BY <1>1
  <2> QED BY <2>3, <2>4 DEF p
<1>6. e = IF overlap > 0 THEN [f |-> f + lens, b |-> lenb - lens] ELSE [f |-> lenf, b |-> lenb]
  BY DEF Extended
<1> HIDE DEF lenf, lenb, nf, nb, fwd, bwd, e
<1> DEFINE S == s.scan
           L == last.scan
           P == s.pos
           Q == last.pos
           n == Len(old)
<1>7. /\ S \in Nat /\ L \in Nat /\ P \in Nat /\ Q \in Nat /\ n \in Nat /\ L <= S
      /\ lenf <= S - L /\ lenf <= n - Q /\ lenb <= S - L /\ lenb <= P
      /\ overlap = (L + lenf) - (S - lenb)
  BY <1>1, <1>4, <1>5
<1>8. lenf \in Nat /\ lenb \in Nat
  BY <1>4, <1>5
<1>9. overlap \in Int
  <2> HIDE DEF S, L
  <2> QED BY <1>7, <1>8
<1>10. CASE overlap > 0
  <2>1. lens \in 0 .. overlap
    <3>1. overlap \in Nat
      <4> HIDE DEF overlap
      <4> QED BY <1>9, <1>10
    <3>2. cut \in [0 .. overlap -> Int]
      <4>1. ASSUME NEW i \in 0 .. overlap, NEW A \in SUBSET (0 .. i - 1)
            PROVE  Cardinality(A) \in Int
        <5>1. i \in Int
          BY <3>1
        <5>2. Cardinality(A) \in Nat
          BY <5>1, CountBelow
        <5> QED BY <5>2
      <4>2. ASSUME NEW i \in 0 .. overlap
            PROVE  cut[i] \in Int
        <5> DEFINE A == {j \in 0 .. i - 1 : At(new, last.scan + f + j) = At(old, last.pos + f + j)}
                   B == {j \in 0 .. i - 1 : At(new, s.scan - lenb + j) = At(old, s.pos - lenb + j)}
        <5>1. A \in SUBSET (0 .. i - 1) /\ B \in SUBSET (0 .. i - 1)
          OBVIOUS
        <5>2. cut[i] = Cardinality(A) - Cardinality(B)
          OBVIOUS
        <5> HIDE DEF A, B, cut
        <5>3. Cardinality(A) \in Int /\ Cardinality(B) \in Int
          BY <4>1, <5>1
        <5> QED BY <5>2, <5>3
      <4> DEFINE D == 0 .. overlap
      <4>3. cut = [i \in D |-> cut[i]]
        OBVIOUS
      <4> HIDE DEF cut, overlap
      <4> QED BY <4>2, <4>3
    <3> HIDE DEF cut, overlap
    <3> QED BY <3>1, <3>2, PeakIs
  <2>2. e.f = (lenf - overlap) + lens /\ e.b = lenb - lens
    BY <1>6, <1>10
  <2> HIDE DEF lens, overlap, S, L, P, Q, n
  <2>3. /\ lenb # 0 /\ (lenf - overlap) + lens \in Nat /\ lenb - lens \in Nat
        /\ Q + ((lenf - overlap) + lens) <= n /\ lenb - lens <= P
        /\ L + ((lenf - overlap) + lens) <= S - (lenb - lens)
    BY <1>7, <1>8, <1>9, <1>10, <2>1, GiveWay
  <2>4. ~(s.scan >= Len(new))
    BY <1>5, <2>3
  <2>5. e.f \in Nat /\ e.b \in Nat /\ Q + e.f <= n /\ e.b <= P /\ L + e.f <= S - e.b
    BY <2>2, <2>3
  <2> QED BY <2>4, <2>5 DEF S, L, P, Q, n, e
<1>11. CASE ~(overlap > 0)
  <2>1. e.f = lenf /\ e.b = lenb
    BY <1>6, <1>11
  <2>2. ~(overlap > 0)
    BY <1>11
  <2> HIDE DEF e, overlap, S, L, P, Q, n
  <2>3. e.f \in Nat /\ e.b \in Nat /\ Q + e.f <= n /\ e.b <= P /\ L + e.f <= S - e.b
    BY <1>7, <1>8, <1>9, <2>1, <2>2
  <2>4. s.scan >= Len(new) => e.b = 0
    BY <1>5, <2>1
  <2> QED BY <2>3, <2>4 DEF S, L, P, Q, n, e
<1> QED BY <1>10, <1>11
-----------------------------------------------------------------------------
(* What has been written so far describes the file so far.                 *)

Bytes == 0 .. Base - 1
Marks == [scan : Nat, pos : Nat, d : Nat, x : Nat]

\* The triple t, with diff and extra bytes from a.d and a.x on, describes the
\* new file between the places a and b.
Piece(diff, extra, old, new, t, a, b) ==
    /\ t[1] \in Nat /\ t[2] \in Nat /\ t[3] \in Int
    /\ a.scan < Len(new) /\ b.scan <= Len(new) /\ a.pos + t[1] <= Len(old)
    /\ b.scan = a.scan + t[1] + t[2] /\ b.pos = a.pos + t[1] + t[3]
    /\ b.d = a.d + t[1] /\ b.x = a.x + t[2] /\ b.d <= Len(diff) /\ b.x <= Len(extra)
    /\ \A i \in 1 .. t[1] : diff[a.d + i] = (new[a.scan + i] - old[a.pos + i]) % Base
    /\ \A i \in 1 .. t[2] : extra[a.x + i] = new[a.scan + t[1] + i]

\* g goes from place to place through the patch.
Trail(g, patch, old, new) ==
    /\ g \in [0 .. Len(patch.ctrl) -> Marks]
    /\ g[0].scan = 0 /\ g[0].pos = 0 /\ g[0].d = 0 /\ g[0].x = 0
    /\ LET z == g[Len(patch.ctrl)]
       IN  /\ z.scan = patch.last.scan /\ z.pos = patch.last.pos
           /\ z.d = Len(patch.diff) /\ z.x = Len(patch.extra)
    /\ \A c \in 1 .. Len(patch.ctrl) :
          Piece(patch.diff, patch.extra, old, new, patch.ctrl[c], g[c - 1], g[c])

Triples == Nat \X Nat \X Int
PatchesOf(new) ==
    [ctrl : Seq(Triples), diff : Seq(Bytes), extra : Seq(Bytes), size : {Len(new)},
     last : [scan : Nat, pos : Nat, off : Int]]

LEMMA SliceIs ==
    ASSUME NEW S, NEW s \in Seq(S), NEW a \in Nat, NEW n \in Nat, a + n <= Len(s)
    PROVE  /\ Slice(s, a, n) \in Seq(S) /\ Len(Slice(s, a, n)) = n
           /\ \A i \in 1 .. n : Slice(s, a, n)[i] = s[a + i]
<1> DEFINE p == a + 1
           q == a + n
<1>1. p \in Int /\ q \in Int /\ \A j \in p .. q : s[j] \in S
  OBVIOUS
<1>2. q - p + 1 = n /\ (p <= q \/ n = 0) /\ \A i \in 1 .. n : p + i - 1 = a + i
  OBVIOUS
<1>3. p <= q => n - 0 = n
  OBVIOUS
<1>4. Slice(s, a, n) = SubSeq(s, p, q)
  BY DEF Slice
<1>5. ~(p <= q) => n = 0
  BY <1>2
<1> HIDE DEF p, q
<1>6. /\ SubSeq(s, p, q) \in Seq(S) /\ Len(SubSeq(s, p, q)) = IF p <= q THEN q - p + 1 ELSE 0
      /\ \A j \in 1 .. q - p + 1 : SubSeq(s, p, q)[j] = s[p + j - 1]
  BY <1>1, SubSeqProperties
<1> QED BY <1>2, <1>4, <1>5, <1>6

\* What n places of the new file from a on have more than those of the old one
\* from b on.
Differences(old, new, a, b, n) ==
    [i \in 1 .. n |-> (At(new, a + i - 1) - At(old, b + i - 1)) % Base]

LEMMA DifferencesAre ==
    ASSUME Base \in Nat \ {0}, NEW new \in Seq(Bytes), NEW old \in Seq(Bytes),
           NEW a \in Nat, NEW b \in Nat, NEW n \in Nat, a + n <= Len(new), b + n <= Len(old)
    PROVE  LET d == Differences(old, new, a, b, n)
           IN  /\ d \in Seq(Bytes) /\ Len(d) = n
               /\ \A i \in 1 .. n : d[i] = (new[a + i] - old[b + i]) % Base
<1> DEFINE d == [i \in 1 .. n |-> (At(new, a + i - 1) - At(old, b + i - 1)) % Base]
<1>1. ASSUME NEW i \in 1 .. n
      PROVE  /\ d[i] = (new[a + i] - old[b + i]) % Base
             /\ (new[a + i] - old[b + i]) % Base \in Bytes
  <2>1. (a + i - 1) + 1 = a + i /\ (b + i - 1) + 1 = b + i
    OBVIOUS
  <2>2. d[i] = (new[a + i] - old[b + i]) % Base
    BY <2>1 DEF At
  <2>3. a + i \in 1 .. Len(new) /\ b + i \in 1 .. Len(old)
    OBVIOUS
  <2>4. new[a + i] \in Bytes /\ old[b + i] \in Bytes
    BY <2>3, ElementOfSeq
  <2> DEFINE x == new[a + i]
             y == old[b + i]
  <2>5. x \in 0 .. Base - 1 /\ y \in 0 .. Base - 1
    BY <2>4 DEF Bytes
  <2> HIDE DEF x, y
  <2>6. (x - y) % Base \in 0 .. Base - 1
    BY <2>5, DifferenceIs
  <2> QED BY <2>2, <2>6 DEF x, y, Bytes
<1>2. DOMAIN d = 1 .. n
  OBVIOUS
<1>3. \A i \in 1 .. n : d[i] \in Bytes
  <2> HIDE DEF d
  <2> QED BY <1>1
<1>4. d \in [1 .. n -> Bytes]
  <2>1. d = [i \in 1 .. n |-> d[i]]
    OBVIOUS
  <2> HIDE DEF d
  <2> QED BY <1>3, <2>1
<1> HIDE DEF d
<1>5. d \in Seq(Bytes) /\ Len(d) = n
  BY <1>4
<1> QED BY <1>1, <1>5 DEF d, Differences

\* A piece stays what it is when more is written.
LEMMA PieceStays ==
    ASSUME NEW S, NEW diff \in Seq(S), NEW more \in Seq(S),
           NEW extra \in Seq(S), NEW others \in Seq(S),
           NEW old, NEW new, NEW t, NEW a \in Marks, NEW b \in Marks, Piece(diff, extra, old, new, t, a, b)
    PROVE  Piece(diff \o more, extra \o others, old, new, t, a, b)
<1>1. /\ t[1] \in Nat /\ t[2] \in Nat /\ a.d \in Nat /\ a.x \in Nat
      /\ b.d = a.d + t[1] /\ b.x = a.x + t[2] /\ b.d <= Len(diff) /\ b.x <= Len(extra)
      /\ \A i \in 1 .. t[1] : diff[a.d + i] = (new[a.scan + i] - old[a.pos + i]) % Base
      /\ \A i \in 1 .. t[2] : extra[a.x + i] = new[a.scan + t[1] + i]
  BY DEF Piece, Marks
<1> DEFINE D == diff \o more
           E == extra \o others
<1>2. /\ Len(D) = Len(diff) + Len(more) /\ Len(E) = Len(extra) + Len(others)
      /\ \A i \in 1 .. Len(diff) + Len(more) : D[i] = IF i <= Len(diff) THEN diff[i] ELSE more[i - Len(diff)]
      /\ \A i \in 1 .. Len(extra) + Len(others) : E[i] = IF i <= Len(extra) THEN extra[i] ELSE others[i - Len(extra)]
  BY ConcatProperties
<1>3. Len(diff) \in Nat /\ Len(more) \in Nat /\ Len(extra) \in Nat /\ Len(others) \in Nat
  OBVIOUS
<1> HIDE DEF D, E
<1>4. b.d <= Len(D) /\ b.x <= Len(E)
  BY <1>1, <1>2, <1>3
<1>5. ASSUME NEW i \in 1 .. t[1] PROVE D[a.d + i] = diff[a.d + i]
  <2> DEFINE j == a.d + i
             m == Len(diff)
             n == Len(more)
             p == t[1]
             q == a.d
  <2>1. j = q + i /\ i \in 1 .. p /\ q + p <= m /\ p \in Nat /\ q \in Nat /\ m \in Nat /\ n \in Nat
    BY <1>1, <1>3
  <2>2. \A k \in 1 .. m + n : D[k] = IF k <= m THEN diff[k] ELSE more[k - m]
    BY <1>2
  <2> HIDE DEF j, m, n, p, q
  <2>3. j \in 1 .. m + n /\ j <= m
    BY <2>1
  <2>4. D[j] = diff[j]
    BY <2>2, <2>3
  <2> QED BY <2>4 DEF j
<1>6. ASSUME NEW i \in 1 .. t[2] PROVE E[a.x + i] = extra[a.x + i]
  <2> DEFINE j == a.x + i
             m == Len(extra)
             n == Len(others)
             p == t[2]
             q == a.x
  <2>1. j = q + i /\ i \in 1 .. p /\ q + p <= m /\ p \in Nat /\ q \in Nat /\ m \in Nat /\ n \in Nat
    BY <1>1, <1>3
  <2>2. \A k \in 1 .. m + n : E[k] = IF k <= m THEN extra[k] ELSE others[k - m]
    BY <1>2
  <2> HIDE DEF j, m, n, p, q
  <2>3. j \in 1 .. m + n /\ j <= m
    BY <2>1
  <2>4. E[j] = extra[j]
    BY <2>2, <2>3
  <2> QED BY <2>4 DEF j
<1>7. \A i \in 1 .. t[1] : D[a.d + i] = (new[a.scan + i] - old[a.pos + i]) % Base
  BY <1>1, <1>5
<1>8. \A i \in 1 .. t[2] : E[a.x + i] = new[a.scan + t[1] + i]
  BY <1>1, <1>6
<1> QED BY <1>4, <1>7, <1>8 DEF Piece, D, E

\* r is s and then t.
Joined(r, s, t) ==
    /\ Len(r) = Len(s) + Len(t)
    /\ \A i \in 1 .. Len(s) + Len(t) : r[i] = IF i <= Len(s) THEN s[i] ELSE t[i - Len(s)]

LEMMA JoinIs ==
    ASSUME NEW S, NEW s \in Seq(S), NEW t \in Seq(S)
    PROVE  Joined(s \o t, s, t) /\ s \o t \in Seq(S)
BY ConcatProperties DEF Joined

\* The piece that has just been appended.
LEMMA PieceAdded ==
    ASSUME NEW S, NEW diff \in Seq(S), NEW more \in Seq(S),
           NEW extra \in Seq(S), NEW others \in Seq(S), NEW old, NEW new, NEW t,
           NEW a \in Marks, NEW b \in Marks, t[1] \in Nat, t[2] \in Nat, t[3] \in Int,
           a.scan < Len(new), b.scan <= Len(new), a.pos + t[1] <= Len(old),
           b.scan = a.scan + t[1] + t[2], b.pos = a.pos + t[1] + t[3],
           a.d = Len(diff), b.d = Len(diff) + t[1], a.x = Len(extra), b.x = Len(extra) + t[2],
           Len(more) = t[1], Len(others) = t[2],
           \A i \in 1 .. t[1] : more[i] = (new[a.scan + i] - old[a.pos + i]) % Base,
           \A i \in 1 .. t[2] : others[i] = new[a.scan + t[1] + i]
    PROVE  Piece(diff \o more, extra \o others, old, new, t, a, b)
<1> DEFINE D == diff \o more
           E == extra \o others
<1>1. Joined(D, diff, more) /\ Joined(E, extra, others)
  BY JoinIs
<1> DEFINE m == Len(diff)
           n == Len(extra)
           p == t[1]
           q == t[2]
<1>2. m \in Nat /\ n \in Nat /\ p \in Nat /\ q \in Nat
  OBVIOUS
<1>3. /\ \A i \in 1 .. m + p : D[i] = IF i <= m THEN diff[i] ELSE more[i - m]
      /\ \A i \in 1 .. n + q : E[i] = IF i <= n THEN extra[i] ELSE others[i - n]
      /\ Len(D) = m + p /\ Len(E) = n + q
  <2> HIDE DEF D, E
  <2> QED BY <1>1 DEF Joined
<1> HIDE DEF D, E
<1>4. ASSUME NEW i \in 1 .. p PROVE D[m + i] = more[i]
  <2> HIDE DEF m, p
  <2>1. m + i \in 1 .. m + p /\ ~(m + i <= m) /\ (m + i) - m = i
    BY <1>2
  <2> QED BY <1>3, <2>1
<1>5. ASSUME NEW i \in 1 .. q PROVE E[n + i] = others[i]
  <2> HIDE DEF n, q
  <2>1. n + i \in 1 .. n + q /\ ~(n + i <= n) /\ (n + i) - n = i
    BY <1>2
  <2> QED BY <1>3, <2>1
<1>6. b.d = a.d + t[1] /\ b.x = a.x + t[2] /\ b.d <= Len(D) /\ b.x <= Len(E)
  <2>1. b.d = Len(D) /\ b.x = Len(E) /\ m + p <= m + p /\ n + q <= n + q
    BY SMTT(30), <1>2, <1>3
  <2> QED BY <1>2, <1>3, <2>1
<1>7. /\ \A i \in 1 .. t[1] : D[a.d + i] = (new[a.scan + i] - old[a.pos + i]) % Base
      /\ \A i \in 1 .. t[2] : E[a.x + i] = new[a.scan + t[1] + i]
  BY <1>4, <1>5
<1> QED BY <1>6, <1>7 DEF Piece, D, E

\* A trail goes on to the end of the next piece.
LEMMA TrailGoesOn ==
    ASSUME NEW old, NEW new, NEW patch \in PatchesOf(new), NEW g, Trail(g, patch, old, new),
           NEW t \in Triples, NEW more \in Seq(Bytes), NEW others \in Seq(Bytes), NEW last,
           last.scan \in Nat, last.pos \in Nat, Len(new) \in Nat,
           patch.last.scan < Len(new), last.scan <= Len(new), patch.last.pos + t[1] <= Len(old),
           last.scan = patch.last.scan + t[1] + t[2], last.pos = patch.last.pos + t[1] + t[3],
           Len(more) = t[1], Len(others) = t[2],
           \A i \in 1 .. t[1] : more[i] = (new[patch.last.scan + i] - old[patch.last.pos + i]) % Base,
           \A i \in 1 .. t[2] : others[i] = new[patch.last.scan + t[1] + i]
    PROVE  \E h : Trail(h, [ctrl |-> Append(patch.ctrl, t), diff |-> patch.diff \o more,
                            extra |-> patch.extra \o others, size |-> patch.size, last |-> last], old, new)
<1> DEFINE n == Len(patch.ctrl)
           D == patch.diff \o more
           E == patch.extra \o others
           C == Append(patch.ctrl, t)
           next == [ctrl |-> C, diff |-> D, extra |-> E, size |-> patch.size, last |-> last]
           z == [scan |-> last.scan, pos |-> last.pos, d |-> Len(patch.diff) + t[1], x |-> Len(patch.extra) + t[2]]
           h == [c \in 0 .. n + 1 |-> IF c <= n THEN g[c] ELSE z]
<1>1. /\ patch.ctrl \in Seq(Triples) /\ patch.diff \in Seq(Bytes) /\ patch.extra \in Seq(Bytes)
      /\ t[1] \in Nat /\ t[2] \in Nat /\ t[3] \in Int
  BY DEF PatchesOf, Triples
<1>2. n \in Nat /\ Len(patch.diff) \in Nat /\ Len(patch.extra) \in Nat
  BY SMTT(30), <1>1
<1>3. Len(C) = n + 1 /\ C[n + 1] = t /\ \A c \in 1 .. n : C[c] = patch.ctrl[c]
  BY <1>1
<1>4. Len(D) = Len(patch.diff) + t[1] /\ Len(E) = Len(patch.extra) + t[2]
  <2>1. Joined(D, patch.diff, more) /\ Joined(E, patch.extra, others)
    BY <1>1, JoinIs
  <2> HIDE DEF D, E
  <2> QED BY <2>1 DEF Joined
<1>5. z \in Marks
  <2> DEFINE k == Len(patch.diff)
             l == Len(patch.extra)
             p == t[1]
             q == t[2]
  <2>1. k \in Nat /\ l \in Nat /\ p \in Nat /\ q \in Nat /\ last.scan \in Nat /\ last.pos \in Nat
    BY <1>1, <1>2
  <2> DEFINE u == k + p
             v == l + q
  <2> HIDE DEF k, l, p, q
  <2>2. u \in Nat /\ v \in Nat
    BY <2>1
  <2>3. z = [scan |-> last.scan, pos |-> last.pos, d |-> u, x |-> v]
    BY DEF k, l, p, q
  <2> HIDE DEF u, v, z
  <2> QED BY <2>1, <2>2, <2>3 DEF Marks
<1>6. /\ g \in [0 .. n -> Marks] /\ g[0].scan = 0 /\ g[0].pos = 0 /\ g[0].d = 0 /\ g[0].x = 0
      /\ g[n].scan = patch.last.scan /\ g[n].pos = patch.last.pos
      /\ g[n].d = Len(patch.diff) /\ g[n].x = Len(patch.extra)
      /\ \A c \in 1 .. n : Piece(patch.diff, patch.extra, old, new, patch.ctrl[c], g[c - 1], g[c])
  BY DEF Trail
<1>7. /\ h \in [0 .. n + 1 -> Marks] /\ h[n + 1] = z /\ \A c \in 0 .. n : h[c] = g[c]
  <2> HIDE DEF n, z
  <2>1. /\ n + 1 \in 0 .. n + 1 /\ ~(n + 1 <= n) /\ \A c \in 0 .. n : c \in 0 .. n + 1 /\ c <= n
        /\ \A c \in 0 .. n + 1 : c <= n => c \in 0 .. n
    BY <1>2
  <2> QED BY <1>5, <1>6, <2>1
<1>8. ASSUME NEW c \in 1 .. n PROVE Piece(D, E, old, new, C[c], h[c - 1], h[c])
  <2> HIDE DEF n, h, C, D, E
  <2>1. c \in 0 .. n /\ c - 1 \in 0 .. n
    BY <1>2
  <2>2. h[c] = g[c] /\ h[c - 1] = g[c - 1] /\ g[c] \in Marks /\ g[c - 1] \in Marks
    BY <1>6, <1>7, <2>1
  <2>3. Piece(patch.diff, patch.extra, old, new, patch.ctrl[c], g[c - 1], g[c])
    BY <1>6
  <2>4. Piece(D, E, old, new, patch.ctrl[c], g[c - 1], g[c])
    BY <1>1, <2>2, <2>3, PieceStays DEF D, E
  <2> QED BY <1>3, <2>2, <2>4
<1>9. Piece(D, E, old, new, C[n + 1], h[n], h[n + 1])
  <2> DEFINE a == g[n]
  <2>1. a \in Marks /\ h[n] = a /\ h[n + 1] = z /\ C[n + 1] = t
    <3> HIDE DEF n, h, C, z
    <3>1. n \in 0 .. n
      BY <1>2
    <3> QED BY <1>3, <1>6, <1>7, <3>1
  <2>2. /\ a.scan = patch.last.scan /\ a.pos = patch.last.pos /\ a.d = Len(patch.diff) /\ a.x = Len(patch.extra)
        /\ z.scan = last.scan /\ z.pos = last.pos
        /\ z.d = Len(patch.diff) + t[1] /\ z.x = Len(patch.extra) + t[2]
    BY <1>6
  <2> DEFINE b == z
             A == patch.diff
             F == patch.extra
  <2>3. A \in Seq(Bytes) /\ F \in Seq(Bytes)
    BY <1>1
  <2> HIDE DEF n, h, C, z, a
  <2>4. Piece(A \o more, F \o others, old, new, t, a, z)
    <3> HIDE DEF A, F
    <3>1. /\ a.scan < Len(new) /\ z.scan <= Len(new) /\ a.pos + t[1] <= Len(old)
          /\ z.scan = a.scan + t[1] + t[2] /\ z.pos = a.pos + t[1] + t[3]
      BY <2>2
    <3>2. /\ \A i \in 1 .. t[1] : more[i] = (new[a.scan + i] - old[a.pos + i]) % Base
          /\ \A i \in 1 .. t[2] : others[i] = new[a.scan + t[1] + i]
      BY <2>2
    <3>3. a.d = Len(A) /\ z.d = Len(A) + t[1] /\ a.x = Len(F) /\ z.x = Len(F) + t[2]
      BY <2>2 DEF A, F
    <3>4. t[1] \in Nat /\ t[2] \in Nat /\ t[3] \in Int /\ a \in Marks /\ z \in Marks
      BY <1>1, <1>5, <2>1
    <3> QED BY ZenonT(120), <2>3, <3>1, <3>2, <3>3, <3>4, PieceAdded
  <2> QED BY <2>1, <2>4
<1> HIDE DEF C, D, E, z, h, n
<1>10. \A c \in 1 .. n + 1 : Piece(D, E, old, new, C[c], h[c - 1], h[c])
  <2> TAKE c \in 1 .. n + 1
  <2>1. CASE c \in 1 .. n
    BY <1>8, <2>1
  <2>2. CASE c \notin 1 .. n
    <3>1. c = n + 1 /\ c - 1 = n
      BY <1>2, <2>2
    <3> QED BY <1>9, <3>1
  <2> QED BY <2>1, <2>2
<1>11. 0 \in 0 .. n
  BY <1>2
<1>12. z.scan = last.scan /\ z.pos = last.pos /\ z.d = Len(D) /\ z.x = Len(E)
  BY <1>4 DEF z
<1>13. Trail(h, next, old, new)
  BY <1>3, <1>6, <1>7, <1>10, <1>11, <1>12 DEF Trail
<1> QED BY <1>13 DEF C, D, E

\* What one match adds carries the trail to the match.
LEMMA EmittedIs ==
    ASSUME Base \in Nat \ {0}, NEW old \in Seq(Bytes), NEW new \in Seq(Bytes),
           NEW patch \in PatchesOf(new), NEW g, Trail(g, patch, old, new), NEW s \in Places(old, new),
           patch.last.scan <= s.scan, patch.last.scan < Len(new), patch.last.pos <= Len(old)
    PROVE  LET p == Emitted(patch, old, new, patch.last, s)
           IN  /\ p \in PatchesOf(new) /\ \E h : Trail(h, p, old, new)
               /\ p.last.scan <= s.scan /\ p.last.pos <= Len(old) /\ 0 <= p.last.off + s.scan
               /\ s.scan >= Len(new) => p.last.scan = s.scan
<1> DEFINE last == patch.last
           e == Extended(old, new, last, s)
           f == e.f
           b == e.b
           L == last.scan
           Q == last.pos
           S == s.scan
           P == s.pos
           from == L + f
           x == (S - b) - from
           t == <<f, x, (P - b) - (Q + f)>>
           D == Differences(old, new, L, Q, f)
           X == Slice(new, from, x)
           to == [scan |-> S - b, pos |-> P - b, off |-> P - S]
           p == Emitted(patch, old, new, last, s)
           m == Len(new)
           n == Len(old)
<1>1. p = [ctrl |-> Append(patch.ctrl, t), diff |-> patch.diff \o D, extra |-> patch.extra \o X,
           size |-> patch.size, last |-> to]
  BY DEF Emitted, Differences
<1>2. /\ L \in Nat /\ Q \in Nat /\ S \in Nat /\ P \in Nat /\ m \in Nat /\ n \in Nat
      /\ S <= m /\ P <= n /\ L <= S /\ L < m /\ Q <= n
  BY DEF PatchesOf, Places
<1>3. f \in Nat /\ b \in Nat /\ Q + f <= n /\ b <= P /\ L + f <= S - b /\ (S >= m => b = 0)
  <2>1. last.scan \in Nat /\ last.pos \in 0 .. Len(old) /\ last.scan <= s.scan
    BY <1>2
  <2>2. Bytes \subseteq Nat
    BY DEF Bytes
  <2>3. old \in Seq(Nat) /\ new \in Seq(Nat)
    BY <2>2, SeqMonotonic
  <2> HIDE DEF last
  <2> QED BY <2>1, <2>3, ExtendedIs
<1> HIDE DEF f, b, L, Q, S, P, m, n
<1>4. /\ x \in Nat /\ from \in Nat /\ from + x = S - b /\ from + x <= m /\ L + f <= m
      /\ S - b \in Nat /\ P - b \in Nat /\ P - b <= n /\ S - b <= S /\ P - S \in Int
      /\ (P - b) - (Q + f) \in Int /\ S - b <= m
      /\ S - b = L + f + x /\ P - b = Q + f + ((P - b) - (Q + f)) /\ 0 <= (P - S) + S
      /\ (S >= m => S - b = S)
  BY <1>2, <1>3
<1> HIDE DEF x, from
<1>5. D \in Seq(Bytes) /\ Len(D) = f /\ \A i \in 1 .. f : D[i] = (new[L + i] - old[Q + i]) % Base
  <2>1. L + f <= Len(new) /\ Q + f <= Len(old)
    BY <1>3, <1>4 DEF m, n
  <2> QED BY <1>2, <1>3, <2>1, DifferencesAre
<1>6. X \in Seq(Bytes) /\ Len(X) = x /\ \A i \in 1 .. x : X[i] = new[from + i]
  <2>1. from + x <= Len(new)
    BY <1>4 DEF m
  <2> QED BY <1>4, <2>1, SliceIs
<1>7. t \in Triples /\ t[1] = f /\ t[2] = x /\ t[3] = (P - b) - (Q + f)
  BY <1>3, <1>4 DEF Triples
<1>8. to \in [scan : Nat, pos : Nat, off : Int] /\ to.scan = S - b /\ to.pos = P - b /\ to.off = P - S
  BY <1>4
<1> HIDE DEF D, X, t, to, p
<1>9. p \in PatchesOf(new)
  <2>1. /\ patch.ctrl \in Seq(Triples) /\ patch.diff \in Seq(Bytes) /\ patch.extra \in Seq(Bytes)
        /\ patch.size = Len(new)
    BY DEF PatchesOf
  <2>2. Append(patch.ctrl, t) \in Seq(Triples)
    BY <1>7, <2>1
  <2>3. patch.diff \o D \in Seq(Bytes) /\ patch.extra \o X \in Seq(Bytes)
    BY <1>5, <1>6, <2>1, JoinIs
  <2> QED BY <1>1, <1>8, <2>1, <2>2, <2>3 DEF PatchesOf
<1>10. \E h : Trail(h, p, old, new)
  <2>1. /\ to.scan \in Nat /\ to.pos \in Nat /\ Len(new) \in Nat
        /\ patch.last.scan < Len(new) /\ to.scan <= Len(new) /\ patch.last.pos + t[1] <= Len(old)
    BY <1>2, <1>3, <1>4, <1>7, <1>8 DEF m, n, Q
  <2>2. to.scan = patch.last.scan + t[1] + t[2] /\ to.pos = patch.last.pos + t[1] + t[3]
    BY <1>4, <1>7, <1>8 DEF L, Q
  <2>3. /\ Len(D) = t[1] /\ Len(X) = t[2]
        /\ \A i \in 1 .. t[1] : D[i] = (new[patch.last.scan + i] - old[patch.last.pos + i]) % Base
        /\ \A i \in 1 .. t[2] : X[i] = new[patch.last.scan + t[1] + i]
    BY <1>5, <1>6, <1>7 DEF L, Q, from
  <2>4. \E h : Trail(h, [ctrl |-> Append(patch.ctrl, t), diff |-> patch.diff \o D,
                         extra |-> patch.extra \o X, size |-> patch.size, last |-> to], old, new)
    BY <1>5, <1>6, <1>7, <2>1, <2>2, <2>3, TrailGoesOn
  <2> QED BY <1>1, <2>4
<1>11. p.last = to
  BY <1>1
<1>12. /\ p.last.scan <= s.scan /\ p.last.pos <= Len(old) /\ 0 <= p.last.off + s.scan
       /\ s.scan >= Len(new) => p.last.scan = s.scan
  BY <1>4, <1>8, <1>11 DEF S, m, n
<1> QED BY <1>9, <1>10, <1>12 DEF p
-----------------------------------------------------------------------------
(* The outer loop.                                                         *)

\* Where the outer loop may be.
Turns(old, new) ==
    {q \in [patch : PatchesOf(new), s : Places(old, new)] :
        /\ \E g : Trail(g, q.patch, old, new)
        /\ q.patch.last.scan <= q.s.scan /\ q.patch.last.pos <= Len(old)
        /\ 0 <= q.patch.last.off + q.s.scan
        /\ q.s.scan < Len(new) => q.s.scan + q.s.len <= Len(new)
        /\ q.s.scan >= Len(new) => q.patch.last.scan = q.s.scan}

LEMMA MatchedIs ==
    ASSUME Base \in Nat \ {0}, Gain \in Nat, NEW old \in Seq(Bytes), NEW new \in Seq(Bytes),
           NEW I \in Index(old), InSuffixOrder(old, I), NEW q \in Turns(old, new)
    PROVE  LET r == Matched(I, old, new, q)
           IN  /\ r \in Turns(old, new)
               /\ q.s.scan >= Len(new) => r = q
               /\ q.s.scan < Len(new) =>
                     /\ q.s.scan + q.s.len <= r.s.scan
                     /\ r.s.scan >= Len(new) \/ r.s.len > 0
<1> DEFINE n == Len(new)
           off == q.patch.last.off
           t == Scan(I, old, new, off, q.s)
           p == Emitted(q.patch, old, new, q.patch.last, t)
           r == Matched(I, old, new, q)
<1>1. /\ q \in [patch : PatchesOf(new), s : Places(old, new)]
      /\ q.patch.last.scan <= q.s.scan /\ q.patch.last.pos <= Len(old) /\ 0 <= off + q.s.scan
      /\ q.s.scan < n => q.s.scan + q.s.len <= n
  BY DEF Turns
<1>2. PICK g : Trail(g, q.patch, old, new)
  BY DEF Turns
<1>3. CASE q.s.scan >= n
  <2>1. r = q /\ ~(q.s.scan < n)
    BY <1>1, <1>3 DEF Matched, Places
  <2> QED BY <1>3, <2>1
<1>4. CASE ~(q.s.scan >= n)
  <2>1. /\ n \in Nat /\ q.s.scan \in Nat /\ q.s.len \in Nat /\ off \in Int /\ q.s.scan < n
        /\ q.patch.last.scan \in Nat /\ q.patch.last.scan < n
    <3>1. q.s \in Places(old, new) /\ q.patch \in PatchesOf(new) /\ n \in Nat
      BY <1>1
    <3>2. q.s.scan \in Nat /\ q.s.len \in Nat
      BY <3>1 DEF Places
    <3>3. off \in Int /\ q.patch.last.scan \in Nat
      BY <3>1 DEF PatchesOf
    <3> HIDE DEF n, off
    <3> QED BY <1>1, <1>4, <3>1, <3>2, <3>3
  <2>2. q.s.scan + q.s.len <= Len(new) /\ 0 <= q.s.scan + q.s.len + off
    <3> DEFINE a == q.s.scan
               l == q.s.len
    <3>1. a \in Nat /\ l \in Nat /\ off \in Int /\ 0 <= off + a
      BY <1>1, <2>1
    <3> HIDE DEF a, l, off
    <3>2. 0 <= a + l + off
      BY <3>1
    <3> QED BY <1>1, <2>1, <3>2 DEF a, l
  <2>3. old \in Seq(Nat) /\ new \in Seq(Nat)
    <3>1. Bytes \subseteq Nat
      BY DEF Bytes
    <3> QED BY <3>1, SeqMonotonic
  <2>4. t \in Looking(old, new, off, q.s.scan + q.s.len) /\ (t.found \/ t.scan = Len(new))
    <3>1. q.s \in Places(old, new)
      BY <1>1
    <3> HIDE DEF off
    <3> QED BY ZenonT(60), <2>1, <2>2, <2>3, <3>1, ScanIs
  <2>5. r = [patch |-> IF t.len # t.score \/ t.scan >= n THEN p ELSE q.patch, s |-> t]
    BY <1>4 DEF Matched
  <2> HIDE DEF t, r
  <2>6. /\ t \in Places(old, new) /\ t.scan \in Nat /\ t.scan <= n /\ t.len \in Nat
        /\ q.s.scan + q.s.len <= t.scan /\ (t.found => t.len > 0 /\ t.scan + t.len <= n)
    BY <2>4 DEF Looking, Places
  <2>7. q.s.scan <= t.scan /\ q.patch.last.scan <= t.scan
    <3> DEFINE a == q.s.scan
               l == q.s.len
               c == t.scan
               d == q.patch.last.scan
    <3>1. a \in Nat /\ l \in Nat /\ c \in Nat /\ d \in Nat /\ a + l <= c /\ d <= a
      BY <1>1, <2>1, <2>6
    <3> HIDE DEF a, l, c, d
    <3>2. a <= c /\ d <= c
      BY <3>1
    <3> QED BY <3>2 DEF a, c, d
  <2>8. (t.scan < n => t.scan + t.len <= n) /\ (t.scan >= n \/ t.len > 0)
    <3>1. t.scan = n => t.scan >= n /\ ~(t.scan < n)
      BY <2>1, <2>6
    <3> QED BY <2>4, <2>6, <3>1
  <2>9. r.s = t
    BY <2>5
  <2>10. CASE t.len # t.score \/ t.scan >= n
    <3>1. q.patch \in PatchesOf(new) /\ q.patch.last.scan < Len(new)
      BY <1>1, <2>1
    <3>2. /\ p \in PatchesOf(new) /\ \E h : Trail(h, p, old, new)
          /\ p.last.scan <= t.scan /\ p.last.pos <= Len(old) /\ 0 <= p.last.off + t.scan
          /\ t.scan >= Len(new) => p.last.scan = t.scan
      <4> DEFINE patch == q.patch
      <4>1. /\ patch \in PatchesOf(new) /\ patch.last.scan < Len(new) /\ Trail(g, patch, old, new)
            /\ patch.last.scan <= t.scan /\ patch.last.pos <= Len(old) /\ p = Emitted(patch, old, new, patch.last, t)
        BY <1>1, <1>2, <2>7, <3>1
      <4> HIDE DEF patch, p
      <4> QED BY <2>6, <4>1, EmittedIs
    <3>3. r = [patch |-> p, s |-> t]
      BY <2>5, <2>10
    <3> HIDE DEF p, n
    <3>4. r \in Turns(old, new)
      BY <2>6, <2>8, <3>2, <3>3 DEF Turns, n
    <3> QED BY <1>4, <2>6, <2>8, <2>9, <3>4 DEF n, r
  <2>11. CASE ~(t.len # t.score \/ t.scan >= n)
    <3>1. r = [patch |-> q.patch, s |-> t]
      BY <2>5, <2>11
    <3>2. 0 <= off + t.scan
      <4> DEFINE a == q.s.scan
                 c == t.scan
      <4>1. a \in Nat /\ c \in Nat /\ a <= c /\ off \in Int /\ 0 <= off + a
        BY <1>1, <2>1, <2>6, <2>7
      <4> HIDE DEF a, c, off
      <4>2. 0 <= off + c
        BY <4>1
      <4> QED BY <4>2 DEF c
    <3>3. r \in Turns(old, new)
      BY <1>1, <1>2, <2>6, <2>7, <2>8, <2>11, <3>1, <3>2 DEF Turns
    <3> QED BY <1>4, <2>6, <2>8, <2>9, <3>3 DEF r
  <2> QED BY <2>10, <2>11
<1> QED BY <1>3, <1>4

\* The outer loop ends with the whole file described.
LEMMA BsDiffIs ==
    ASSUME Base \in Nat \ {0}, Gain \in Nat, NEW old \in Seq(Bytes), NEW new \in Seq(Bytes),
           NEW I \in Index(old), InSuffixOrder(old, I)
    PROVE  LET p == BsDiff(I, old, new)
           IN  p \in PatchesOf(new) /\ p.last.scan = Len(new) /\ \E g : Trail(g, p, old, new)
<1> DEFINE V == Turns(old, new)
           n == Len(new)
           none == [ctrl |-> <<>>, diff |-> <<>>, extra |-> <<>>, size |-> Len(new),
                    last |-> [scan |-> 0, pos |-> 0, off |-> 0]]
           place == [scan |-> 0, scsc |-> 0, len |-> 0, pos |-> 0, score |-> 0, found |-> FALSE]
           first == [patch |-> none, s |-> place]
           step == [k \in Nat |-> [q \in V |-> Matched(I, old, new, q)]]
<1>1. n \in Nat /\ Len(old) \in Nat
  OBVIOUS
<1>2. first \in V /\ first.s.scan = 0
  <2>1. none \in PatchesOf(new)
    <3>1. <<>> \in Seq(Triples) /\ <<>> \in Seq(Bytes)
      BY EmptySeq
    <3> QED BY <3>1 DEF PatchesOf
  <2>2. place \in Places(old, new)
    BY <1>1 DEF Places
  <2>3. \E g : Trail(g, none, old, new)
    <3> DEFINE zero == [scan |-> 0, pos |-> 0, d |-> 0, x |-> 0]
               g == [c \in 0 .. 0 |-> zero]
    <3>1. zero \in Marks
      BY DEF Marks
    <3>2. 0 .. 0 = {0} /\ 1 .. 0 = {} /\ Len(none.ctrl) = 0 /\ Len(none.diff) = 0 /\ Len(none.extra) = 0
      OBVIOUS
    <3>3. g \in [0 .. 0 -> Marks] /\ g[0] = zero
      BY <3>1, <3>2
    <3>4. none.last.scan = 0 /\ none.last.pos = 0
      OBVIOUS
    <3> HIDE DEF g, none
    <3>5. Trail(g, none, old, new)
      BY <3>2, <3>3, <3>4 DEF Trail
    <3> QED BY <3>5
  <2>4. /\ none.last.scan <= place.scan /\ none.last.pos <= Len(old) /\ 0 <= none.last.off + place.scan
        /\ place.scan < Len(new) => place.scan + place.len <= Len(new)
        /\ place.scan >= Len(new) => none.last.scan = place.scan
        /\ place.scan = 0
    BY <1>1
  <2> HIDE DEF none, place
  <2> QED BY <2>1, <2>2, <2>3, <2>4 DEF Turns
<1> DEFINE turned(q, r) ==
             /\ q.s.scan >= n => r = q
             /\ q.s.scan < n => /\ q.s.scan + q.s.len <= r.s.scan
                                /\ r.s.scan >= n \/ r.s.len > 0
<1>3. ASSUME NEW q \in V
      PROVE  Matched(I, old, new, q) \in V /\ turned(q, Matched(I, old, new, q))
  BY MatchedIs
<1>4. \A q \in V : q.s.scan \in Nat /\ q.s.len \in Nat
  BY DEF Turns, Places
<1>5. \A q \in V : q.s.scan <= n /\ q.patch \in PatchesOf(new)
                   /\ (q.s.scan >= n => q.patch.last.scan = q.s.scan)
                   /\ \E g : Trail(g, q.patch, old, new)
  BY DEF Turns, Places
<1> HIDE DEF V, first, turned
<1>6. step \in [Nat -> [V -> V]] /\ \A k \in Nat, q \in V : step[k][q] = Matched(I, old, new, q)
  BY <1>3
<1> HIDE DEF step
<1>7. PICK f : Iterates(f, V, first, step)
  BY <1>2, <1>6, Iteration, Zenon
<1> DEFINE Body(g) == [k \in Nat |-> IF k = 0 THEN first ELSE Matched(I, old, new, g[k - 1])]
           turn == CHOOSE g : g = Body(g)
<1>8. f = Body(f)
  <2>1. ASSUME NEW k \in Nat, k # 0 PROVE f[k] = Matched(I, old, new, f[k - 1])
    <3>1. k - 1 \in Nat /\ (k - 1) + 1 = k
      BY <2>1
    <3>2. f[k] = step[k - 1][f[k - 1]] /\ f[k - 1] \in V
      BY <1>7, <3>1 DEF Iterates
    <3> QED BY <1>6, <3>1, <3>2
  <2>2. f[0] = first /\ f = [k \in Nat |-> f[k]]
    BY <1>7 DEF Iterates
  <2> QED BY <2>1, <2>2
<1>9. turn = Body(turn)
  <2> HIDE DEF Body
  <2> QED BY <1>8
<1>10. BsDiff(I, old, new) = turn[n + 1].patch
  BY DEF BsDiff, first
<1>11. turn[0] = first /\ \A k \in Nat : turn[k + 1] = Matched(I, old, new, turn[k])
  <2> HIDE DEF turn
  <2>1. turn[0] = first
    BY <1>9
  <2>2. ASSUME NEW k \in Nat PROVE turn[k + 1] = Matched(I, old, new, turn[k])
    <3>1. k + 1 \in Nat /\ k + 1 # 0 /\ (k + 1) - 1 = k
      OBVIOUS
    <3>2. turn[k + 1] = Body(turn)[k + 1]
      BY <1>9
    <3> QED BY <3>1, <3>2
  <2> QED BY <2>1, <2>2
<1> HIDE DEF turn, Body
<1> DEFINE Far(k) == /\ turn[k] \in V
                     /\ \/ turn[k].s.scan >= n \/ k = 0
                        \/ turn[k].s.len > 0 /\ turn[k].s.scan >= k - 1
           T == {k \in Nat : Far(k)}
<1>12. 0 \in T
  BY <1>2, <1>11
<1>13. ASSUME NEW k \in Nat, k \in T PROVE k + 1 \in T
  <2> DEFINE q == turn[k]
             r == turn[k + 1]
             a == q.s.scan
             l == q.s.len
             c == r.s.scan
             m == r.s.len
  <2>1. q \in V /\ r = Matched(I, old, new, q)
    BY <1>11, <1>13
  <2>2. r \in V /\ turned(q, r)
    BY <1>3, <2>1
  <2>3. a \in Nat /\ l \in Nat /\ c \in Nat /\ m \in Nat
    BY <1>4, <2>1, <2>2
  <2>4. a >= n \/ k = 0 \/ (l > 0 /\ a >= k - 1)
    BY <1>13
  <2>5. (a >= n => r = q) /\ (a < n => a + l <= c /\ (c >= n \/ m > 0))
    BY <2>2 DEF turned
  <2>6. r = q => c = a
    OBVIOUS
  <2> HIDE DEF q, r, a, l, c, m
  <2>7. c >= n \/ (m > 0 /\ c >= (k + 1) - 1)
    BY <1>1, <2>3, <2>4, <2>5, <2>6
  <2>8. Far(k + 1)
    BY <2>2, <2>7 DEF r, c, m
  <2> HIDE DEF Far
  <2> QED BY <2>8
<1>14. Far(n + 1)
  <2> HIDE DEF T
  <2>1. Nat \subseteq T
    BY <1>12, <1>13, Induction
  <2>2. n + 1 \in Nat
    BY <1>1
  <2> QED BY <2>1, <2>2 DEF T
<1> DEFINE z == turn[n + 1]
<1>15. z \in V /\ (z.s.scan >= n \/ n + 1 = 0 \/ z.s.scan >= (n + 1) - 1)
  BY <1>14
<1> HIDE DEF z
<1>16. z.s.scan \in Nat /\ z.s.scan <= n
  BY <1>4, <1>5, <1>15
<1>17. z.s.scan >= n /\ z.s.scan = n
  BY <1>1, <1>15, <1>16
<1>18. z.patch \in PatchesOf(new) /\ z.patch.last.scan = n /\ \E g : Trail(g, z.patch, old, new)
  BY <1>5, <1>15, <1>17
<1> QED BY <1>10, <1>18 DEF z
-----------------------------------------------------------------------------
(* The patch applied.                                                      *)

LEMMA HeadGoesOn ==
    ASSUME NEW S, NEW s \in Seq(S), NEW a \in Nat, NEW n \in Nat, a + n <= Len(s)
    PROVE  SubSeq(s, 1, a) \o Slice(s, a, n) = SubSeq(s, 1, a + n)
<1> DEFINE H == SubSeq(s, 1, a)
           X == Slice(s, a, n)
           W == SubSeq(s, 1, a + n)
           H0 == Slice(s, 0, a)
           W0 == Slice(s, 0, a + n)
<1>1. a + n \in Nat /\ 0 \in Nat /\ 0 + a = a /\ 0 + (a + n) = a + n /\ 0 + 1 = 1 /\ a <= Len(s)
  OBVIOUS
<1>2. H = H0 /\ W = W0
  <2>1. H = H0
    BY <1>1 DEF Slice
  <2>2. W = W0
    BY <1>1 DEF Slice
  <2> QED BY <2>1, <2>2
<1>3. /\ X \in Seq(S) /\ Len(X) = n /\ \A i \in 1 .. n : X[i] = s[a + i]
  BY SliceIs
<1>4. ASSUME NEW m \in Nat, m <= Len(s)
      PROVE  /\ Slice(s, 0, m) \in Seq(S) /\ Len(Slice(s, 0, m)) = m
             /\ \A i \in 1 .. m : Slice(s, 0, m)[i] = s[i]
  <2> DEFINE z == 0
  <2>1. z \in Nat /\ z + m <= Len(s) /\ \A i \in 1 .. m : z + i = i
    BY <1>4
  <2> HIDE DEF z
  <2>2. /\ Slice(s, z, m) \in Seq(S) /\ Len(Slice(s, z, m)) = m
        /\ \A i \in 1 .. m : Slice(s, z, m)[i] = s[z + i]
    BY <2>1, SliceIs
  <2> QED BY <2>1, <2>2 DEF z
<1>5. /\ H0 \in Seq(S) /\ Len(H0) = a /\ \A i \in 1 .. a : H0[i] = s[i]
  BY <1>1, <1>4
<1>6. /\ W0 \in Seq(S) /\ Len(W0) = a + n /\ \A i \in 1 .. a + n : W0[i] = s[i]
  BY <1>1, <1>4
<1> HIDE DEF H, X, W, H0, W0
<1> DEFINE J == H0 \o X
<1>7. Joined(J, H0, X) /\ J \in Seq(S)
  BY <1>3, <1>5, JoinIs
<1> HIDE DEF J
<1>8. Len(J) = a + n /\ \A i \in 1 .. a + n : J[i] = IF i <= a THEN H0[i] ELSE X[i - a]
  BY <1>3, <1>5, <1>7 DEF Joined
<1>9. ASSUME NEW i \in 1 .. a + n PROVE J[i] = W0[i]
  <2>1. CASE i <= a
    <3>1. i \in 1 .. a
      BY <2>1
    <3> QED BY <1>5, <1>6, <1>8, <2>1, <3>1
  <2>2. CASE ~(i <= a)
    <3>1. i - a \in 1 .. n /\ a + (i - a) = i
      BY <2>2
    <3> QED BY <1>3, <1>6, <1>8, <2>2, <3>1
  <2> QED BY <2>1, <2>2
<1>10. J = W0
  BY <1>6, <1>7, <1>8, <1>9, SeqEqual
<1> QED BY <1>2, <1>10 DEF J, H, W, X

\* What the reader has when it has come to the mark m.
ReadTo(new, m) == [out |-> SubSeq(new, 1, m.scan), pos |-> m.pos, d |-> m.d, x |-> m.x, ok |-> TRUE]

\* What the reader makes of the first part of a triple.
Sums(old, patch, t, r) ==
    [i \in 1 .. t[1] |->
        LET o == r.pos + i - 1
        IN  IF o >= 0 /\ o < Len(old) THEN (patch.diff[r.d + i] + At(old, o)) % Base
                                      ELSE patch.diff[r.d + i]]

LEMMA SumsAre ==
    ASSUME Base \in Nat \ {0}, NEW old \in Seq(Bytes), NEW new \in Seq(Bytes), NEW patch,
           NEW t, NEW a \in Marks, NEW b,
           Piece(patch.diff, patch.extra, old, new, t, a, b)
    PROVE  Sums(old, patch, t, ReadTo(new, a)) = Slice(new, a.scan, t[1])
<1> DEFINE p == t[1]
           S == a.scan
           P == a.pos
           d == Sums(old, patch, t, ReadTo(new, a))
           X == Slice(new, S, p)
           diff == patch.diff
<1>1. /\ p \in Nat /\ S \in Nat /\ P \in Nat /\ P + p <= Len(old)
      /\ b.scan <= Len(new) /\ b.scan = S + p + t[2] /\ t[2] \in Nat
      /\ \A i \in 1 .. p : diff[a.d + i] = (new[S + i] - old[P + i]) % Base
  BY DEF Piece, Marks
<1>2. S + p <= Len(new)
  <2> DEFINE q == t[2]
  <2>1. q \in Nat /\ S + p + q <= Len(new) /\ Len(new) \in Nat
    BY <1>1
  <2> HIDE DEF q, S, p
  <2> QED BY <1>1, <2>1
<1>3. X \in Seq(Bytes) /\ Len(X) = p /\ \A i \in 1 .. p : X[i] = new[S + i]
  <2> HIDE DEF S, p
  <2> QED BY SMTT(30), <1>1, <1>2, SliceIs
<1>4. ASSUME NEW i \in 1 .. p PROVE d[i] = new[S + i] /\ new[S + i] \in Bytes
  <2> DEFINE o == P + i - 1
  <2>1. d[i] = IF o >= 0 /\ o < Len(old) THEN (diff[a.d + i] + At(old, o)) % Base ELSE diff[a.d + i]
    BY DEF Sums, ReadTo
  <2>2. diff[a.d + i] = (new[S + i] - old[P + i]) % Base
    BY <1>1
  <2> HIDE DEF d, S, P, p, diff
  <2>3. o >= 0 /\ o < Len(old) /\ o + 1 = P + i /\ P + i \in 1 .. Len(old) /\ S + i \in 1 .. Len(new)
    BY <1>1, <1>2
  <2>4. new[S + i] \in Bytes /\ old[P + i] \in Bytes
    BY <2>3, ElementOfSeq
  <2> DEFINE x == new[S + i]
             y == old[P + i]
  <2>5. d[i] = (((x - y) % Base) + y) % Base
    BY <2>1, <2>2, <2>3 DEF At
  <2>6. x \in 0 .. Base - 1 /\ y \in 0 .. Base - 1
    BY <2>4 DEF Bytes
  <2> HIDE DEF x, y
  <2>7. (((x - y) % Base) + y) % Base = x
    BY <2>6, DifferenceIs
  <2> QED BY <2>4, <2>5, <2>7 DEF x
<1>5. d \in Seq(Bytes) /\ Len(d) = p
  <2>1. DOMAIN d = 1 .. p /\ d = [i \in 1 .. p |-> d[i]]
    BY DEF Sums
  <2> HIDE DEF d, p, S
  <2>2. d \in [1 .. p -> Bytes]
    BY <1>4, <2>1
  <2> QED BY <1>1, <2>2
<1>6. \A i \in 1 .. Len(d) : d[i] = X[i]
  <2> HIDE DEF d, X, p, S
  <2> QED BY <1>3, <1>4, <1>5
<1> HIDE DEF d, X, p, S
<1>7. d = X
  BY <1>3, <1>5, <1>6, SeqEqual
<1> QED BY <1>7 DEF d, X, p, S

\* A triple takes the reader to the next mark of the trail.
LEMMA AppliedIs ==
    ASSUME Base \in Nat \ {0}, NEW old \in Seq(Bytes), NEW new \in Seq(Bytes),
           NEW patch \in PatchesOf(new), NEW c, NEW a \in Marks, NEW b \in Marks,
           Piece(patch.diff, patch.extra, old, new, patch.ctrl[c], a, b)
    PROVE  Applied(old, patch, c, ReadTo(new, a)) = ReadTo(new, b)
<1> DEFINE t == patch.ctrl[c]
           r == ReadTo(new, a)
           S == a.scan
           p == t[1]
           q == t[2]
<1>1. /\ p \in Nat /\ q \in Nat /\ t[3] \in Int /\ S < Len(new) /\ b.scan <= Len(new)
      /\ b.scan = S + p + q /\ b.pos = a.pos + p + t[3] /\ b.d = a.d + p /\ b.x = a.x + q
      /\ b.d <= Len(patch.diff) /\ b.x <= Len(patch.extra)
      /\ \A i \in 1 .. q : patch.extra[a.x + i] = new[S + p + i]
  BY DEF Piece
<1>2. /\ S \in Nat /\ a.d \in Nat /\ a.x \in Nat /\ Len(new) \in Nat /\ b.scan \in Nat
      /\ b.d \in Nat /\ b.x \in Nat
  BY DEF Marks
<1>3. patch.size = Len(new) /\ patch.extra \in Seq(Bytes) /\ Len(patch.extra) \in Nat /\ Len(patch.diff) \in Nat
  BY DEF PatchesOf
<1>4. Len(SubSeq(new, 1, S)) = S
  <2> HIDE DEF S
  <2> QED BY SMTT(30), <1>1, <1>2
<1>5. Sums(old, patch, t, r) = Slice(new, S, p)
  BY SumsAre
<1>6. r.ok /\ Len(r.out) = S /\ r.out = SubSeq(new, 1, S) /\ r.pos = a.pos /\ r.d = a.d /\ r.x = a.x
  BY <1>4 DEF ReadTo
<1> HIDE DEF t, r, S, p, q
<1>7. Slice(patch.extra, a.x, q) = Slice(new, S + p, q)
  <2> DEFINE X == Slice(patch.extra, a.x, q)
             Y == Slice(new, S + p, q)
  <2>1. a.x + q <= Len(patch.extra) /\ (S + p) + q <= Len(new) /\ S + p \in Nat
    BY <1>1, <1>2
  <2>2. X \in Seq(Bytes) /\ Len(X) = q /\ \A i \in 1 .. q : X[i] = patch.extra[a.x + i]
    <3> DEFINE e == patch.extra
               k == a.x
    <3>1. e \in Seq(Bytes) /\ k \in Nat /\ k + q <= Len(e)
      BY <1>2, <1>3, <2>1
    <3> HIDE DEF e, k
    <3>2. /\ Slice(e, k, q) \in Seq(Bytes) /\ Len(Slice(e, k, q)) = q
          /\ \A i \in 1 .. q : Slice(e, k, q)[i] = e[k + i]
      BY <1>1, <3>1, SliceIs
    <3> QED BY <3>2 DEF e, k
  <2>3. Y \in Seq(Bytes) /\ Len(Y) = q /\ \A i \in 1 .. q : Y[i] = new[(S + p) + i]
    <3> DEFINE k == S + p
    <3>1. k \in Nat /\ k + q <= Len(new)
      BY <2>1
    <3> HIDE DEF k
    <3>2. /\ Slice(new, k, q) \in Seq(Bytes) /\ Len(Slice(new, k, q)) = q
          /\ \A i \in 1 .. q : Slice(new, k, q)[i] = new[k + i]
      BY <1>1, <3>1, SliceIs
    <3> QED BY <3>2 DEF k
  <2> HIDE DEF X, Y
  <2>4. \A i \in 1 .. Len(X) : X[i] = Y[i]
    BY <1>1, <2>2, <2>3
  <2>5. X = Y
    BY <2>2, <2>3, <2>4, SeqEqual
  <2> QED BY <2>5 DEF X, Y
<1>8. (SubSeq(new, 1, S) \o Slice(new, S, p)) \o Slice(new, S + p, q) = SubSeq(new, 1, b.scan)
  <2>1. S + p \in Nat /\ S + p <= Len(new) /\ (S + p) + q <= Len(new) /\ b.scan = (S + p) + q
    BY <1>1, <1>2
  <2>2. SubSeq(new, 1, S) \o Slice(new, S, p) = SubSeq(new, 1, S + p)
    BY ZenonT(60), <1>1, <1>2, <2>1, HeadGoesOn
  <2> DEFINE k == S + p
  <2>3. k \in Nat /\ k + q <= Len(new)
    BY <2>1
  <2> HIDE DEF k
  <2>4. SubSeq(new, 1, k) \o Slice(new, k, q) = SubSeq(new, 1, k + q)
    BY <1>1, <2>3, HeadGoesOn
  <2> QED BY <2>1, <2>2, <2>4 DEF k
<1>9. /\ ~(~r.ok \/ Len(r.out) >= patch.size)
      /\ ~(\/ Len(r.out) + p + q > patch.size
           \/ r.d + p > Len(patch.diff) \/ r.x + q > Len(patch.extra))
  <2> DEFINE u == Len(r.out)
             m == Len(new)
             k == Len(patch.diff)
             l == Len(patch.extra)
             v == a.d
             w == a.x
  <2>1. /\ u = S /\ S \in Nat /\ m \in Nat /\ S < m /\ S + p + q <= m
        /\ v + p <= k /\ w + q <= l /\ k \in Nat /\ l \in Nat /\ v \in Nat /\ w \in Nat
        /\ p \in Nat /\ q \in Nat
    BY <1>1, <1>2, <1>3, <1>6
  <2>2. patch.size = m /\ r.d = v /\ r.x = w /\ r.ok
    BY <1>3, <1>6
  <2> HIDE DEF u, m, k, l, v, w
  <2>3. ~(u >= m) /\ ~(u + p + q > m)
    BY <2>1
  <2>4. ~(v + p > k) /\ ~(w + q > l)
    BY <2>1
  <2> QED BY <2>2, <2>3, <2>4 DEF u, k, l
<1>10. Applied(old, patch, c, r) =
         [out |-> r.out \o Sums(old, patch, t, r) \o Slice(patch.extra, r.x, q),
          pos |-> r.pos + p + t[3], d |-> r.d + p, x |-> r.x + q, ok |-> TRUE]
  BY <1>9 DEF Applied, Sums, t, p, q
<1>11. Applied(old, patch, c, r) = ReadTo(new, b)
  BY <1>1, <1>5, <1>6, <1>7, <1>8, <1>10 DEF ReadTo
<1> QED BY <1>11 DEF r

\* A patch with a trail to the end of the file gives the file.
LEMMA BsPatchIs ==
    ASSUME Base \in Nat \ {0}, NEW old \in Seq(Bytes), NEW new \in Seq(Bytes),
           NEW patch \in PatchesOf(new), patch.last.scan = Len(new),
           NEW g, Trail(g, patch, old, new)
    PROVE  BsPatch(old, patch) = new
<1> DEFINE n == Len(patch.ctrl)
           start == [out |-> <<>>, pos |-> 0, d |-> 0, x |-> 0, ok |-> TRUE]
           at(k) == IF k <= n THEN k ELSE n
           f == [k \in Nat |-> ReadTo(new, g[at(k)])]
           Body(h) == [k \in Nat |-> IF k = 0 THEN start ELSE Applied(old, patch, k, h[k - 1])]
           read == CHOOSE h : h = Body(h)
<1>1. /\ n \in Nat /\ Len(new) \in Nat /\ patch.size = Len(new)
  BY DEF PatchesOf
<1>2. /\ g \in [0 .. n -> Marks] /\ g[0].scan = 0 /\ g[0].pos = 0 /\ g[0].d = 0 /\ g[0].x = 0
      /\ g[n].scan = Len(new)
      /\ \A c \in 1 .. n : Piece(patch.diff, patch.extra, old, new, patch.ctrl[c], g[c - 1], g[c])
  BY DEF Trail
<1>3. ReadTo(new, g[0]) = start
  <2>1. SubSeq(new, 1, 0) = <<>>
    BY SubSeqEmpty
  <2> QED BY <1>2, <2>1 DEF ReadTo
<1>4. SubSeq(new, 1, Len(new)) = new
  BY SubSeqFull
<1>5. ReadTo(new, g[n]).ok /\ ReadTo(new, g[n]).out = new
  BY <1>2, <1>4 DEF ReadTo
<1> HIDE DEF start, n
<1>6. ASSUME NEW c \in 1 .. n
      PROVE  Applied(old, patch, c, ReadTo(new, g[c - 1])) = ReadTo(new, g[c])
  <2>1. g[c] \in Marks /\ g[c - 1] \in Marks
    <3>1. c \in 0 .. n /\ c - 1 \in 0 .. n
      BY <1>1
    <3> QED BY <1>2, <3>1
  <2> DEFINE a == g[c - 1]
             b == g[c]
  <2>2. a \in Marks /\ b \in Marks /\ Piece(patch.diff, patch.extra, old, new, patch.ctrl[c], a, b)
    BY <1>2, <2>1
  <2> HIDE DEF a, b
  <2>3. Applied(old, patch, c, ReadTo(new, a)) = ReadTo(new, b)
    BY <2>2, AppliedIs
  <2> QED BY <2>3 DEF a, b
<1>7. ASSUME NEW c, NEW r, r.ok, r.out = new PROVE Applied(old, patch, c, r) = r
  <2>1. Len(r.out) >= patch.size
    BY <1>1, <1>7
  <2> QED BY <1>7, <2>1 DEF Applied
<1>8. f = Body(f)
  <2>1. f[0] = start
    <3>1. at(0) = 0
      BY <1>1
    <3> QED BY <1>3, <3>1
  <2>2. ASSUME NEW k \in Nat, k # 0 PROVE f[k] = Applied(old, patch, k, f[k - 1])
    <3>1. k - 1 \in Nat /\ f[k] = ReadTo(new, g[at(k)]) /\ f[k - 1] = ReadTo(new, g[at(k - 1)])
      BY <2>2
    <3> HIDE DEF f
    <3>2. CASE k <= n
      <4>1. k \in 1 .. n /\ at(k) = k /\ at(k - 1) = k - 1
        BY <1>1, <2>2, <3>2
      <4> QED BY <1>6, <3>1, <4>1
    <3>3. CASE ~(k <= n)
      <4>1. at(k) = n /\ at(k - 1) = n
        BY <1>1, <2>2, <3>3
      <4> HIDE DEF at
      <4> QED BY <1>5, <1>7, <3>1, <4>1
    <3> QED BY <3>2, <3>3
  <2>3. f = [k \in Nat |-> f[k]]
    OBVIOUS
  <2> HIDE DEF f
  <2> QED BY <2>1, <2>2, <2>3
<1>9. read = Body(read)
  <2> HIDE DEF Body, f
  <2> QED BY <1>8
<1>10. BsPatch(old, patch) = IF read[n].ok /\ Len(read[n].out) >= patch.size THEN read[n].out ELSE Corrupt
  BY DEF BsPatch, start, n
<1>11. read[0] = start /\ \A k \in Nat : read[k + 1] = Applied(old, patch, k + 1, read[k])
  <2> HIDE DEF read
  <2>1. read[0] = start
    BY <1>9
  <2>2. ASSUME NEW k \in Nat PROVE read[k + 1] = Applied(old, patch, k + 1, read[k])
    <3>1. k + 1 \in Nat /\ k + 1 # 0 /\ (k + 1) - 1 = k
      OBVIOUS
    <3>2. read[k + 1] = Body(read)[k + 1]
      BY <1>9
    <3> QED BY <3>1, <3>2
  <2> QED BY <2>1, <2>2
<1> HIDE DEF read, Body, f, at
<1> DEFINE T == {k \in Nat : k <= n => read[k] = ReadTo(new, g[k])}
<1>12. 0 \in T
  BY <1>3, <1>11
<1>13. ASSUME NEW k \in Nat, k \in T PROVE k + 1 \in T
  <2> SUFFICES ASSUME k + 1 <= n PROVE read[k + 1] = ReadTo(new, g[k + 1])
    OBVIOUS
  <2>1. k <= n /\ k + 1 \in 1 .. n /\ (k + 1) - 1 = k
    BY <1>1
  <2>2. read[k] = ReadTo(new, g[k])
    BY <1>13, <2>1
  <2> QED BY <1>6, <1>11, <2>1, <2>2
<1> HIDE DEF T
<1>14. read[n] = ReadTo(new, g[n])
  <2>1. Nat \subseteq T
    BY <1>12, <1>13, Induction
  <2>2. n \in T /\ n <= n
    BY <1>1, <2>1
  <2> QED BY <2>2 DEF T
<1>15. read[n].ok /\ read[n].out = new /\ Len(read[n].out) >= patch.size
  BY <1>1, <1>5, <1>14
<1> QED BY <1>10, <1>15

\* The device makes of the old file and the patch the file the patch was made
\* for: bspatch undoes bsdiff, for every two files and every index of the old
\* one's suffixes in their order.
THEOREM PatchIsUndone ==
    ASSUME Base \in Nat \ {0}, Gain \in Nat, NEW old \in Seq(Bytes), NEW new \in Seq(Bytes),
           NEW I \in Index(old), InSuffixOrder(old, I)
    PROVE  BsPatch(old, BsDiff(I, old, new)) = new
<1> DEFINE p == BsDiff(I, old, new)
<1>1. p \in PatchesOf(new) /\ p.last.scan = Len(new) /\ \E g : Trail(g, p, old, new)
  BY BsDiffIs
<1> HIDE DEF p
<1>2. BsPatch(old, p) = new
  BY <1>1, BsPatchIs
<1> QED BY <1>2 DEF p
=============================================================================
