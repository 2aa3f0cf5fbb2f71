----------------------------- MODULE BinaryDiff -----------------------------
(* bsdiff, which makes a patch on the build host from the suffixes of the  *)
(* old file in their order, and bspatch, which applies it on the device.   *)
(* A file is a sequence of units below Base.                               *)
EXTENDS Integers, Sequences, FiniteSets, FiniteSetsExt

CONSTANTS Base, \* 256 values of a byte
          Gain  \* a match must be better than the last by 8 bytes

At(s, i) == s[i + 1]
Slice(s, from, len) == SubSeq(s, from + 1, from + len)
Suffix(s, i) == SubSeq(s, i + 1, Len(s))
-----------------------------------------------------------------------------
(* bsdiff                                                                  *)

MatchLen(s, t) ==
    Max({n \in 0 .. Min({Len(s), Len(t)}) : SubSeq(s, 1, n) = SubSeq(t, 1, n)})
\* memcmp of as many bytes as both have.
Below(s, t) ==
    LET n == MatchLen(s, t) IN n < Len(s) /\ n < Len(t) /\ s[n + 1] < t[n + 1]

\* One call of search(): the half of the index in which the match must be.
Halved(I, old, t, e) ==
    LET x == e.st + (e.en - e.st) \div 2
    IN  IF e.en - e.st < 2 THEN e
        ELSE IF Below(Suffix(old, I[x]), t) THEN [e EXCEPT !.st = x] ELSE [e EXCEPT !.en = x]

\* The longest match of the head of t in old.
Search(I, old, t) ==
    LET Ends[k \in Nat] == IF k = 0 THEN [st |-> 0, en |-> Len(old)]
                                    ELSE Halved(I, old, t, Ends[k - 1])
        e == Ends[Len(old)]
        x == MatchLen(Suffix(old, I[e.st]), t)
        y == MatchLen(Suffix(old, I[e.en]), t)
    IN  IF x > y THEN [pos |-> I[e.st], len |-> x] ELSE [pos |-> I[e.en], len |-> y]

\* Where the file agrees with old moved by off.
Agrees(old, new, off, i) == i + off < Len(old) /\ At(old, i + off) = At(new, i)

\* Stay where the match m is better than going on with the last one, or go on to
\* the next place.
Judged(old, new, off, s, m) ==
    LET to == Max({s.scsc, s.scan + m.len})
        score == s.score + Cardinality({i \in s.scsc .. to - 1 : Agrees(old, new, off, i)})
        here == [s EXCEPT !.len = m.len, !.pos = m.pos, !.scsc = to, !.score = score]
    IN  IF (m.len = score /\ m.len # 0) \/ m.len > score + Gain
        THEN [here EXCEPT !.found = TRUE]
        ELSE [here EXCEPT !.scan = @ + 1,
                          !.score = @ - (IF Agrees(old, new, off, s.scan) THEN 1 ELSE 0)]

\* One turn of the inner loop.
Looked(I, old, new, off, s) ==
    IF s.found \/ s.scan >= Len(new) THEN s
    ELSE Judged(old, new, off, s, Search(I, old, Suffix(new, s.scan)))

\* The inner loop, from behind the last match.
Scan(I, old, new, off, s) ==
    LET Turn[k \in Nat] ==
            IF k = 0 THEN [s EXCEPT !.scan = @ + s.len, !.scsc = s.scan + s.len,
                                    !.score = 0, !.found = FALSE]
            ELSE Looked(I, old, new, off, Turn[k - 1])
    IN  Turn[Len(new) + 1]

\* The first place where a score is highest.
Peak(n, score) == Min({i \in 0 .. n : \A j \in 0 .. n : score[j] <= score[i]})

\* An extension that leaves the overlap to both sides.
ExtendedTwice(old, new, last, s) ==
    LET nf == Min({s.scan - last.scan, Len(old) - last.pos})
        nb == Min({s.scan - last.scan, s.pos})
        fwd == [i \in 0 .. nf |->
                    2 * Cardinality({j \in 0 .. i - 1 : At(old, last.pos + j) = At(new, last.scan + j)}) - i]
        bwd == [i \in 0 .. nb |->
                    2 * Cardinality({j \in 1 .. i : At(old, s.pos - j) = At(new, s.scan - j)}) - i]
    IN  [f |-> Peak(nf, fwd),
         b |-> IF s.scan >= Len(new) THEN 0
               ELSE Peak(nb, bwd)]

\* How far the last match goes on forward, the next one backward, and where
\* they give way to each other.
Extended(old, new, last, s) ==
    LET nf == Min({s.scan - last.scan, Len(old) - last.pos})
        nb == Min({s.scan - last.scan, s.pos})
        fwd == [i \in 0 .. nf |->
                    2 * Cardinality({j \in 0 .. i - 1 : At(old, last.pos + j) = At(new, last.scan + j)}) - i]
        bwd == [i \in 0 .. nb |->
                    2 * Cardinality({j \in 1 .. i : At(old, s.pos - j) = At(new, s.scan - j)}) - i]
        lenf == Peak(nf, fwd)
        lenb == IF s.scan >= Len(new) THEN 0
                ELSE Peak(nb, bwd)
        overlap == (last.scan + lenf) - (s.scan - lenb)
        f == lenf - overlap
        cut == [i \in 0 .. overlap |->
                    Cardinality({j \in 0 .. i - 1 : At(new, last.scan + f + j) = At(old, last.pos + f + j)})
                    - Cardinality({j \in 0 .. i - 1 : At(new, s.scan - lenb + j) = At(old, s.pos - lenb + j)})]
        lens == Peak(overlap, cut)
    IN  IF overlap > 0 THEN [f |-> f + lens, b |-> lenb - lens] ELSE [f |-> lenf, b |-> lenb]

\* What one match adds to the patch.
Emitted(patch, old, new, last, s) ==
    LET e == Extended(old, new, last, s)
        from == last.scan + e.f
        extra == (s.scan - e.b) - from
    IN  [ctrl |-> Append(patch.ctrl, <<e.f, extra, (s.pos - e.b) - (last.pos + e.f)>>),
         diff |-> patch.diff \o [i \in 1 .. e.f |->
                     (At(new, last.scan + i - 1) - At(old, last.pos + i - 1)) % Base],
         extra |-> patch.extra \o Slice(new, from, extra),
         size |-> patch.size,
         last |-> [scan |-> s.scan - e.b, pos |-> s.pos - e.b, off |-> s.pos - s.scan]]

\* One turn of the outer loop: the next match, and a piece of the patch unless
\* the last match just goes on.
Matched(I, old, new, q) ==
    LET t == Scan(I, old, new, q.patch.last.off, q.s)
    IN  IF q.s.scan >= Len(new) THEN q
        ELSE [patch |-> IF t.len # t.score \/ t.scan >= Len(new)
                        THEN Emitted(q.patch, old, new, q.patch.last, t) ELSE q.patch,
              s |-> t]

\* The loop has ended after one turn for every unit and one more.
BsDiff(I, old, new) ==
    LET Turn[k \in Nat] ==
            IF k = 0
            THEN [patch |-> [ctrl |-> <<>>, diff |-> <<>>, extra |-> <<>>, size |-> Len(new),
                             last |-> [scan |-> 0, pos |-> 0, off |-> 0]],
                  s |-> [scan |-> 0, scsc |-> 0, len |-> 0, pos |-> 0, score |-> 0, found |-> FALSE]]
            ELSE Matched(I, old, new, Turn[k - 1])
    IN  Turn[Len(new) + 1].patch
-----------------------------------------------------------------------------
(* ApplyBSDiffPatchMem                                                     *)

Corrupt == <<-1>>

\* One control triple: x units of old plus diff, y units of extra, and on by z.
Applied(old, patch, c, r) ==
    LET t == patch.ctrl[c]
        sum == [i \in 1 .. t[1] |->
                  LET o == r.pos + i - 1
                  IN  IF o >= 0 /\ o < Len(old) THEN (patch.diff[r.d + i] + At(old, o)) % Base
                                                ELSE patch.diff[r.d + i]]
    IN  IF ~r.ok \/ Len(r.out) >= patch.size THEN r
        ELSE IF \/ Len(r.out) + t[1] + t[2] > patch.size
                \/ r.d + t[1] > Len(patch.diff) \/ r.x + t[2] > Len(patch.extra)
        THEN [r EXCEPT !.ok = FALSE]
        ELSE [out |-> r.out \o sum \o Slice(patch.extra, r.x, t[2]),
              pos |-> r.pos + t[1] + t[3], d |-> r.d + t[1], x |-> r.x + t[2], ok |-> TRUE]

BsPatch(old, patch) ==
    LET Read[c \in Nat] ==
            IF c = 0 THEN [out |-> <<>>, pos |-> 0, d |-> 0, x |-> 0, ok |-> TRUE]
                     ELSE Applied(old, patch, c, Read[c - 1])
        r == Read[Len(patch.ctrl)]
    IN  IF r.ok /\ Len(r.out) >= patch.size THEN r.out ELSE Corrupt
-----------------------------------------------------------------------------
\* The suffixes of old in their order, the empty one first.
InSuffixOrder(old, index) ==
    /\ {index[i] : i \in DOMAIN index} = 0 .. Len(old)
    /\ \A i, j \in DOMAIN index : i < j =>
          LET a == Suffix(old, index[i])
              b == Suffix(old, index[j])
              n == MatchLen(a, b)
          IN  n = Len(a) \/ (n < Len(b) /\ a[n + 1] < b[n + 1])
=============================================================================
