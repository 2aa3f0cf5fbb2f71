------------------------------- MODULE Archive -------------------------------
(* minzip: a zip file is opened, searched and unpacked into a directory.   *)
(* A name is a sequence of characters; a path is a name under the target   *)
(* directory, which exists.  The tree is a function from the paths that    *)
(* exist to files, directories and links; no path leads through a link.    *)
EXTENDS LibraryJob, HashTable, Sequences, SequencesExt

CONSTANTS Slash,     \* one of the characters
          HashRange, \* 2^32 in the code
          UnzipJobs, \* an archive, the directory of it that is wanted, where to
          WalkJobs,  \* a path of a tree
          Names      \* the names that are looked for in an archive

-----------------------------------------------------------------------------
(* Names                                                                   *)

IsBefore(a, b) ==
    \/ \E i \in DOMAIN a \cap DOMAIN b : a[i] < b[i] /\ \A j \in 1 .. i - 1 : a[j] = b[j]
    \/ Len(a) < Len(b) /\ IsPrefix(a, b)

ComputeHash(name) ==
    LET Hash[n \in 0 .. Len(name)] ==
            IF n = 0 THEN 2 ELSE (Hash[n - 1] * 31 + name[n]) % HashRange
    IN  Hash[Len(name)]

\* An entry as the table holds it.
Keyed(e) == [name |-> e.name, hash |-> ComputeHash(e.name), entry |-> e]

SameName(t, name) == {k \in Held(t) : k.name = name}
-----------------------------------------------------------------------------
(* parseZipArchive.  An entry of the central directory is its name, its    *)
(* data, how it is kept, the size it should have, whether it is a link,    *)
(* and whether its headers and offsets are in order.                       *)

\* One turn of the search: on in one half, or out of it at that name.
Bisected(entries, name, s) ==
    LET mid == s.low + (s.high - s.low) \div 2
    IN  IF s.low > s.high THEN s
        ELSE IF entries[mid].name = name THEN [low |-> mid + 1, high |-> mid]
        ELSE IF IsBefore(entries[mid].name, name) THEN [s EXCEPT !.low = mid + 1]
        ELSE [s EXCEPT !.high = mid - 1]

\* The place of a name among the entries so far.
Target(entries, name) ==
    LET Turn[n \in Nat] == IF n = 0 THEN [low |-> 1, high |-> Len(entries)]
                                    ELSE Bisected(entries, name, Turn[n - 1])
    IN  Turn[Len(entries)].high + 1

WithEntry(entries, e) == InsertAt(entries, Target(entries, e.name), e)

\* The entries in the order of their names.
Sorted(directory) ==
    LET First[n \in 0 .. Len(directory)] ==
            IF n = 0 THEN <<>> ELSE WithEntry(First[n - 1], directory[n])
    IN  First[Len(directory)]

Added(t, k) == mzHashTableLookup(t, k.hash, k, SameName(t, k.name), TRUE).table

\* The table of the entries, which are added when they are in their places.
Indexed(entries) ==
    LET First[n \in 0 .. Len(entries)] ==
            IF n = 0 THEN mzHashTableCreate(mzHashSize(Len(entries)))
                     ELSE Added(First[n - 1], Keyed(entries[n]))
    IN  First[Len(entries)]

NotOpened == [opened |-> FALSE]

ParseZipArchive(directory) ==
    LET entries == Sorted(directory)
    IN  IF directory = <<>> \/ \E e \in ToSet(directory) : ~e.sound THEN NotOpened
        ELSE [opened |-> TRUE, entries |-> entries, hash |-> Indexed(entries)]

mzFindZipEntry(archive, name) ==
    mzHashTableLookup(archive.hash, ComputeHash(name), [name |-> name],
                      SameName(archive.hash, name), FALSE).result
-----------------------------------------------------------------------------
(* The data of an entry                                                    *)

\* What reaches the sink of mzProcessZipEntryContents, and the result.
Processed(e) ==
    [data |-> IF e.how = "other" THEN <<>> ELSE e.data,
     ok |-> e.how = "stored" \/ (e.how = "deflated" /\ Len(e.data) = e.size)]

\* mzReadZipEntry into a buffer of that length, mzExtractZipEntryToBuffer.
ReadEntry(e, len) == Processed(e).ok /\ Len(e.data) <= len
ToBuffer(e) == Processed(e).ok /\ Len(e.data) = e.size
Intact(e) == Processed(e).ok /\ e.crc = e.data
-----------------------------------------------------------------------------
(* DirUtil.  Broken: the set of [op, path] of the system calls that fail.  *)

Dir == [kind |-> "dir"]
File(data) == [kind |-> "file", data |-> data]
Link(to) == [kind |-> "link", to |-> to]
Nodes == {Dir} \cup [kind : {"file"}, data : Seq(Nat)] \cup [kind : {"link"}, to : Seq(Nat)]

With(tree, path, node) == [p \in DOMAIN tree \cup {path} |-> IF p = path THEN node ELSE tree[p]]

\* Where a component of a path ends before a slash, and the directories these
\* components lead to.
Breaks(path) == {i \in DOMAIN path : path[i] = Slash /\ i > 1 /\ path[i - 1] # Slash}
DirsOf(path) == {SubSeq(path, 1, i - 1) : i \in Breaks(path)}

PathDirStatus(tree, path) ==
    IF path \in DOMAIN tree /\ tree[path].kind = "dir" THEN "dir"
    ELSE IF \E d \in {path} \cup DirsOf(path) : d \in DOMAIN tree /\ tree[d].kind = "file"
    THEN "illegal" ELSE "missing"

\* One level: it is there, or it is made and gets its time.
MakeDir(s, path, broken) ==
    LET status == PathDirStatus(s.tree, path)
    IN  IF ~s.ok \/ status = "dir" THEN s
        ELSE IF status = "illegal" \/ path \in DOMAIN s.tree \/ [op |-> "mkdir", path |-> path] \in broken
        THEN [s EXCEPT !.ok = FALSE]
        ELSE [tree |-> With(s.tree, path, Dir), ok |-> [op |-> "utime", path |-> path] \notin broken]

\* Every directory on the way to path is made, from the first one on.
DirCreateHierarchy(tree, path, broken) ==
    LET Upto[n \in 0 .. Len(path)] ==
            IF n = 0 THEN [tree |-> tree, ok |-> TRUE]
            ELSE IF n \in Breaks(path) THEN MakeDir(Upto[n - 1], SubSeq(path, 1, n - 1), broken)
            ELSE Upto[n - 1]
    IN  Upto[Len(path)]

\* dirUnlinkHierarchy and dirSetHierarchyPermissions walk through a path and all
\* that is under it, in the order in which the directories are read: a walk has
\* what is under a path right before that path; the other one is its reverse.
Under(tree, path) == {p \in DOMAIN tree : IsPrefix(Append(path, Slash), p)}
AllOf(tree, path) == {path} \cup Under(tree, path)

IsWalk(w, tree, path) ==
    /\ ToSet(w) = AllOf(tree, path)
    /\ \A i \in DOMAIN w :
          LET under == Under(tree, w[i])
          IN  under = {w[j] : j \in DOMAIN w \cap (i - Cardinality(under)) .. i - 1}

Walks(tree, path) ==
    {w \in [1 .. Cardinality(AllOf(tree, path)) -> AllOf(tree, path)] : IsWalk(w, tree, path)}

\* A walk ends before the first path at which a call fails.
Passed(w, fails) ==
    LET steps == IF fails = {} THEN Len(w) ELSE Min(fails) - 1
    IN  {w[i] : i \in 1 .. steps}

DirUnlinkHierarchy(tree, path, w, broken) ==
    LET fails == {i \in DOMAIN w : [op |-> "unlink", path |-> w[i]] \in broken}
    IN  IF path \notin DOMAIN tree THEN [tree |-> tree, ok |-> FALSE]
        ELSE [tree |-> [p \in DOMAIN tree \ Passed(w, fails) |-> tree[p]], ok |-> fails = {}]

\* The paths whose owner and mode are set; links are passed over.
DirSetHierarchyPermissions(tree, path, w, broken) ==
    LET fails == {i \in DOMAIN w : tree[w[i]].kind # "link" /\ [op |-> "chown", path |-> w[i]] \in broken}
    IN  IF path \notin DOMAIN tree THEN [set |-> {}, ok |-> FALSE]
        ELSE [set |-> {p \in Passed(w, fails) : tree[p].kind # "link"}, ok |-> fails = {}]
-----------------------------------------------------------------------------
(* mzExtractRecursive                                                      *)

\* A path is what the name says after the directory.
TargetEntryPath(zipDir, name) == SubSeq(name, Len(zipDir) + 1, Len(name))

\* A directory whose name is taken as it is given.
AsGiven(zipDir) == zipDir

\* The name of the directory with its one slash; the empty name is the whole
\* archive.
Canonical(zipDir) ==
    IF zipDir = <<>> \/ Last(zipDir) = Slash THEN zipDir ELSE Append(zipDir, Slash)

\* The loop: on to the next entry, or out of it with a result.
Go(s, tree) == [s EXCEPT !.tree = tree]
Stop(s, tree, ok) == [s EXCEPT !.tree = tree, !.ok = ok, !.stopped = TRUE]

\* A file is created and filled; the failure of either step but the first is
\* kept in a variable that only this block sees.
ExtractFile(s, e, path, broken) ==
    LET p == Processed(e)
        filled == p.ok /\ [op |-> "write", path |-> path] \notin broken
        tree == With(s.tree, path, File(IF filled THEN p.data ELSE <<>>))
    IN  IF path \in DOMAIN s.tree /\ s.tree[path].kind # "file" THEN Stop(s, s.tree, FALSE)
        ELSE IF [op |-> "creat", path |-> path] \in broken THEN Stop(s, s.tree, FALSE)
        ELSE IF ~filled \/ [op |-> "utime", path |-> path] \in broken THEN Stop(s, tree, TRUE)
        ELSE Go(s, tree)

ExtractLink(s, e, path, broken) ==
    IF \/ e.size = 0 \/ ~ReadEntry(e, e.size) \/ path \in DOMAIN s.tree
       \/ [op |-> "symlink", path |-> path] \in broken
    THEN Stop(s, s.tree, FALSE) ELSE Go(s, With(s.tree, path, Link(e.data)))

Extract(s, e, path, flags, broken) ==
    LET made == DirCreateHierarchy(s.tree, path, broken)
    IN  IF "DRY_RUN" \in flags THEN s
        ELSE IF Last(e.name) = Slash
        THEN IF "FILES_ONLY" \in flags THEN s
             ELSE IF made.ok THEN Go(s, made.tree) ELSE Stop(s, made.tree, FALSE)
        ELSE IF ~made.ok THEN Stop(s, made.tree, FALSE)
        ELSE IF "FILES_ONLY" \notin flags /\ e.link
        THEN ExtractLink(Go(s, made.tree), e, path, broken)
        ELSE ExtractFile(Go(s, made.tree), e, path, broken)

\* One entry; the first one after the matches that does not match ends the loop.
ExtractOne(s, e, zipDir, flags, broken) ==
    IF s.stopped THEN s
    ELSE IF ~IsPrefix(zipDir, e.name) THEN [s EXCEPT !.stopped = s.seenMatch]
    ELSE Extract([s EXCEPT !.seenMatch = TRUE], e, TargetEntryPath(zipDir, e.name), flags, broken)

mzExtractRecursive(archive, dir, tree, flags, broken) ==
    LET After[n \in 0 .. Len(archive.entries)] ==
            IF n = 0 THEN [tree |-> tree, ok |-> TRUE, seenMatch |-> FALSE, stopped |-> FALSE]
            ELSE ExtractOne(After[n - 1], archive.entries[n], Canonical(dir), flags, broken)
        end == After[Len(archive.entries)]
    IN  IF dir # <<>> /\ Head(dir) = Slash THEN [tree |-> tree, ok |-> FALSE]
        ELSE [tree |-> end.tree, ok |-> end.ok]
-----------------------------------------------------------------------------
(* The jobs.  The entries of an archive have different names without empty *)
(* components, and none is under a link; a tree has the directories that   *)
(* lead to a path, and where an archive is unpacked there are no links.    *)

IsName(n) ==
    /\ n \in Seq(Nat) /\ n # <<>> /\ n[1] # Slash
    /\ \A i \in 2 .. Len(n) : n[i] = Slash => n[i - 1] # Slash

IsDirectory(d) ==
    /\ d \in Seq([name : Seq(Nat), data : Seq(Nat), how : {"stored", "deflated", "other"},
                  size : Nat, link : BOOLEAN, sound : BOOLEAN, crc : Seq(Nat)])
    /\ \A i \in DOMAIN d : IsName(d[i].name)
    /\ \A i, j \in DOMAIN d :
          /\ d[i].name = d[j].name => i = j
          /\ d[i].link => ~IsPrefix(Append(d[i].name, Slash), d[j].name)

IsTree(tree) ==
    /\ IsFiniteSet(DOMAIN tree) /\ DOMAIN tree \subseteq Seq(Nat)
    /\ tree \in [DOMAIN tree -> Nodes]
    /\ \A p \in DOMAIN tree : \A d \in DirsOf(p) : d \in DOMAIN tree /\ tree[d] = Dir

ASSUME ArchiveAssumption ==
    /\ Slash \in Nat /\ HashRange \in Nat \ {0} /\ Names \subseteq Seq(Nat)
    /\ \A j \in UnzipJobs :
          /\ j.kind = "unzip" /\ IsDirectory(j.directory) /\ j.dir \in Seq(Nat)
          /\ IsTree(j.tree) /\ \A p \in DOMAIN j.tree : j.tree[p].kind # "link"
    /\ \A j \in WalkJobs : j.kind = "walk" /\ IsTree(j.tree) /\ j.path \in Seq(Nat)

Unzip ==
    /\ job.kind = "unzip" /\ out = NoAnswer
    /\ LET archive == ParseZipArchive(job.directory)
       IN  out' = IF ~archive.opened THEN [kind |-> "refused"]
                  ELSE [kind |-> "unzipped", archive |-> archive,
                        end |-> mzExtractRecursive(archive, job.dir, job.tree, job.flags, job.broken)]
    /\ UNCHANGED job

WalkTree ==
    /\ job.kind = "walk" /\ out = NoAnswer
    /\ \E w \in Walks(job.tree, job.path) :
          out' = [kind |-> "walked",
                  unlinked |-> DirUnlinkHierarchy(job.tree, job.path, w, job.broken),
                  owned |-> DirSetHierarchyPermissions(job.tree, job.path, Reverse(w), job.broken)]
    /\ UNCHANGED job

ArchiveSpec ==
    job \in UnzipJobs \cup WalkJobs /\ out = NoAnswer /\ [][Unzip \/ WalkTree]_<<job, out>>
-----------------------------------------------------------------------------
(* What a caller relies on.                                                *)

Folder(dir) == IF dir = <<>> \/ dir[Len(dir)] = Slash THEN dir ELSE dir \o <<Slash>>

Selected(call) ==
    {e \in ToSet(call.directory) :
        /\ IsPrefix(Folder(call.dir), e.name) /\ "DRY_RUN" \notin call.flags
        /\ e.name[Len(e.name)] = Slash => "FILES_ONLY" \notin call.flags}
Filled(call) == {e \in Selected(call) : e.name[Len(e.name)] # Slash}

PathOf(call, e) == SubSeq(e.name, Len(Folder(call.dir)) + 1, Len(e.name))
NodeOf(call, e) == IF e.link /\ "FILES_ONLY" \notin call.flags THEN Link(e.data) ELSE File(e.data)

\* The paths the files and links stand at, and the directories all need.
Placed(call) == {PathOf(call, e) : e \in Filled(call)}
Needed(call) == UNION {DirsOf(PathOf(call, e)) : e \in Selected(call)}

Complete(call, tree) ==
    /\ \A e \in Filled(call) : PathOf(call, e) \in DOMAIN tree /\ tree[PathOf(call, e)] = NodeOf(call, e)
    /\ \A d \in Needed(call) : d \in DOMAIN tree /\ tree[d] = Dir

Whole(e) == e.how = "stored" \/ (e.how = "deflated" /\ Len(e.data) = e.size)
Fits(e) == e.link => e.size > 0 /\ Len(e.data) <= e.size

\* Nothing stands in the way: no file where a directory is needed, and where a
\* file is to stand only a file.
Free(call) ==
    /\ \A e \in Filled(call) :
          LET p == PathOf(call, e)
          IN  /\ p \notin Needed(call)
              /\ p \in DOMAIN call.tree => NodeOf(call, e).kind = "file" /\ call.tree[p].kind = "file"
    /\ \A d \in Needed(call) \cap DOMAIN call.tree : call.tree[d] = Dir

\* The failures that mzExtractRecursive stops at and does not report.
Unreported(call) ==
    \E e \in Filled(call) :
        /\ NodeOf(call, e).kind = "file"
        /\ ~Whole(e) \/ \E op \in {"write", "utime"} : [op |-> op, path |-> PathOf(call, e)] \in call.broken

\* The archive has the entries of the directory, sorted, and finds each by its
\* name and nothing by another.
OpenedRight(directory, archive) ==
    /\ ToSet(archive.entries) = ToSet(directory)
    /\ \A i, j \in DOMAIN archive.entries : i < j =>
          IsBefore(archive.entries[i].name, archive.entries[j].name)
    /\ \A n \in Names :
          LET found == mzFindZipEntry(archive, n)
          IN  IF \E e \in ToSet(directory) : e.name = n
              THEN found.kind = "item" /\ found.item.entry \in ToSet(directory) /\ found.item.entry.name = n
              ELSE found = Nothing

\* What is asked for is in its place or a failure is reported, and nothing else
\* is touched; when nothing fails or stands in the way there is none.
UnpackedRight(call, end) ==
    /\ end.ok => Complete(call, end.tree) \/ Unreported(call)
    /\ \A p \in (DOMAIN end.tree \cup DOMAIN call.tree) \ (Placed(call) \cup Needed(call)) :
          p \in DOMAIN end.tree /\ p \in DOMAIN call.tree /\ end.tree[p] = call.tree[p]
    /\ /\ call.broken = {} /\ Free(call) /\ (\A e \in Filled(call) : Whole(e) /\ Fits(e))
       /\ call.dir # <<>> => Head(call.dir) # Slash
       => end.ok

\* The paths that are gone are all or some of the tree, as the result says, and
\* none that is left has lost a directory it is in.
WalkedRight(call, unlinked, owned) ==
    LET gone == DOMAIN call.tree \ DOMAIN unlinked.tree
        all == AllOf(call.tree, call.path)
    IN  /\ gone \subseteq all /\ unlinked.ok = (gone = all)
        /\ \A p \in DOMAIN unlinked.tree : DirsOf(p) \subseteq DOMAIN unlinked.tree
        /\ owned.ok => owned.set = {p \in all : call.tree[p].kind # "link"}

\* An archive is sorted and finds every name it holds and no other; unpacking
\* a directory of it puts every entry under that directory in its place, or
\* reports a failure, but for the failures to fill a file; whatever happens it
\* touches no other path; and taking down a tree or changing its owner
\* concerns all of that tree and nothing else, or reports a failure.
ArchiveUnpacks ==
    /\ out.kind = "unzipped" => OpenedRight(job.directory, out.archive) /\ UnpackedRight(job, out.end)
    /\ out.kind = "walked" => WalkedRight(job, out.unlinked, out.owned)
=============================================================================
