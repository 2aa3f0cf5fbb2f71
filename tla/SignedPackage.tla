---------------------------- MODULE SignedPackage ----------------------------
(* The end record of a package file, as verify_file (verifier.c) and as     *)
(* parseZipArchive (minzip/Zip.c) look for it.  A file is a sequence of      *)
(* units; a mark, the escape and each length are one unit.                  *)
EXTENDS LibraryJob, Integers, Sequences, SequencesExt, FiniteSetsExt

CONSTANTS Files, \* the files that a package may be
          EocdMark, LocalMark, Escape, Signature, \* units of a file
          FooterSize, RsaNumBytes, EocdHeaderSize

ASSUME PackageAssumption ==
    /\ Files \subseteq Seq(Nat)
    /\ {EocdMark, LocalMark, Escape, Signature} \subseteq Nat
    /\ FooterSize = 3 \* the place of the signature, the escape, the comment's size
    /\ RsaNumBytes \in Nat
    /\ EocdHeaderSize \in Nat \ {0, 1}
-----------------------------------------------------------------------------
FromEnd(file, n) == SubSeq(file, Len(file) - n + 1, Len(file))

\* The part of the file that the signature is over, or no part at all.
Unsigned == <<-1>>

\* A search that is content with the first mark.
FirstMarkOnly(file) ==
    LET footer == FromEnd(file, FooterSize)
        eocdSize == footer[3] + EocdHeaderSize
    IN  IF \/ Len(file) < eocdSize \/ footer[2] # Escape \/ footer[1] - FooterSize < RsaNumBytes
           \/ Head(FromEnd(file, eocdSize)) # EocdMark
        THEN Unsigned ELSE SubSeq(file, 1, Len(file) - eocdSize + EocdHeaderSize - 1)

SignedPart(file) ==
    LET footer == FromEnd(file, FooterSize)
        eocdSize == footer[3] + EocdHeaderSize
        eocd == FromEnd(file, eocdSize)
    IN  IF Len(file) < FooterSize \/ footer[2] # Escape THEN Unsigned
        ELSE IF footer[1] - FooterSize < RsaNumBytes \/ Len(file) < eocdSize THEN Unsigned
        ELSE IF Head(eocd) # EocdMark \/ \E i \in 2 .. eocdSize : eocd[i] = EocdMark THEN Unsigned
        ELSE SubSeq(file, 1, Len(file) - eocdSize + EocdHeaderSize - 1)

\* signed: what the holder of a key has put the signature on.
VerifyFile(file, signed) ==
    /\ SignedPart(file) # Unsigned
    /\ FromEnd(file, FooterSize + RsaNumBytes)[1] = Signature
    /\ SignedPart(file) = signed

\* Where the reader finds the end record: 0 when it finds none.
ReaderEocd(file) ==
    LET found == {i \in 1 .. Len(file) - EocdHeaderSize + 1 : file[i] = EocdMark}
    IN  IF file = <<>> \/ Head(file) # LocalMark \/ found = {} THEN 0 ELSE Max(found)
-----------------------------------------------------------------------------
VerifyJobs == [kind : {"verify"}, file : Files]

Verify == /\ job.kind = "verify" /\ out = NoAnswer
          /\ out' = [kind |-> "verified",
                     lengths |-> {k \in 0 .. Len(job.file) :
                                     VerifyFile(job.file, SubSeq(job.file, 1, k))},
                     reader |-> ReaderEocd(job.file)]
          /\ UNCHANGED job

VerifySpec == job \in VerifyJobs /\ out = NoAnswer /\ [][Verify]_<<job, out>>

\* A package is accepted for one length of its signed part only, the central
\* directory the reader then uses, if it reads the file at all, ends inside that
\* part, and everything after it is the comment.
SignedIsRead ==
    out.kind = "verified" /\ out.lengths # {} =>
        \E k \in 1 .. Len(job.file) - 1 :
            /\ out.lengths = {k}
            /\ out.reader = IF Head(job.file) = LocalMark THEN k - EocdHeaderSize + 2 ELSE 0
            /\ Last(job.file) = Len(job.file) - k - 1
=============================================================================
