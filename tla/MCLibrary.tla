----------------------------- MODULE MCLibrary -----------------------------
(* The algorithms of the tree that keep no state of the device: every job  *)
(* is one call on one small input, its answer is judged by what a caller   *)
(* relies on.  The hash table is a job of many calls.                      *)
EXTENDS TableCalls, SignedPackage, Archive, Integers, Sequences, FiniteSets, SequencesExt, FiniteSetsExt

CONSTANTS MaxDiff  \* the longest pair of files of bsdiff

vars == <<job, out, table, held>>
-----------------------------------------------------------------------------
(* Patches: bytes 0 and 1, a gzip header 2 3, and four deflate streams of  *)
(* which one was made at level 1 and cannot be packed again.               *)

Streams == {[unit |-> 4, level |-> 6, data |-> <<0, 1>>],
            [unit |-> 5, level |-> 9, data |-> <<0, 1>>],
            [unit |-> 6, level |-> 6, data |-> <<1, 1, 0>>],
            [unit |-> 7, level |-> 1, data |-> <<1>>]}
Patch == INSTANCE Patches WITH Base <- 8, SmallSort <- 3, Gain <- 1, RawMax <- 1,
                               Magic <- <<2, 3>>, Streams <- Streams

BytesUpTo(n) == UNION {[1 .. k -> {0, 1}] : k \in 0 .. n}
DiffJobs == [kind : {"diff"}, old : BytesUpTo(MaxDiff), new : BytesUpTo(MaxDiff)]

GZip(s) == <<2, 3, s.unit, Len(s.data)>>
Images == {before \o FlattenSeq(gz) \o after :
              before \in {<<>>, <<0, 1, 1>>}, after \in {<<>>, <<1, 0>>},
              gz \in UNION {[1 .. k -> {GZip(s) : s \in Streams}] : k \in 0 .. 2}}
          \cup {<<1, 2>>, <<2, 3, 4, 1>>}
ImageJobs == [kind : {"image"}, old : Images, new : Images, size : {1, 9}]

\* A zip file of the entries in body: a header unit, the data, and at the end
\* two units of the directory.
ZipOf(body) ==
    [img |-> FlattenSeq([i \in DOMAIN body |-> <<0, body[i].unit>>]) \o <<1, 1>>,
     entries |-> Reverse([i \in DOMAIN body |->
         [name |-> body[i].name, offset |-> 2 * i - 1, deflated |-> body[i].unit > 3, header |-> TRUE]])]
ZipBodies == UNION {{b \in [1 .. k -> [name : {"a", "b"}, unit : {1, 4, 5, 6, 7}]] :
                        \A i, j \in DOMAIN b : b[i].name = b[j].name => i = j} : k \in 0 .. 2}
ZipJobs == [kind : {"zip"}, old : ZipBodies, new : ZipBodies, size : {1}]

\* A partition that holds one of two contents, of different sizes or not.
LoadJobs == [kind : {"load"}, partition : [1 .. 4 -> {0, 1}],
             pairs : [1 .. 2 -> {[size |-> Len(x), sha1 |-> x] : x \in BytesUpTo(3)}
                                \cup {[size |-> 5, sha1 |-> <<0, 1, 0, 1, 0>>]}]]

Diff == /\ job.kind = "diff" /\ out = NoAnswer
        /\ out' = [kind |-> "diff", index |-> Patch!SuffixArray(job.old),
                   new |-> Patch!BsPatch(job.old,
                              Patch!BsDiff(Patch!SuffixArray(job.old), job.old, job.new))]
        /\ UNCHANGED <<job, table, held>>

Restored(old, patch) ==
    [kind |-> "restored", refused |-> Patch!Failed(patch),
     new |-> IF Patch!Failed(patch) THEN <<>> ELSE Patch!ImgPatch(old, patch)]

ImageDiff == /\ job.kind = "image" /\ out = NoAnswer
             /\ out' = Restored(job.old, Patch!ImgDiff(job.old, job.new, job.size))
             /\ UNCHANGED <<job, table, held>>

ZipDiff == /\ job.kind = "zip" /\ out = NoAnswer
           /\ out' = Restored(ZipOf(job.old).img,
                              Patch!ZipDiff(ZipOf(job.old), ZipOf(job.new), job.size))
           /\ UNCHANGED <<job, table, held>>

Load == /\ job.kind = "load" /\ out = NoAnswer
        /\ out' = [kind |-> "load", data |-> Patch!LoadPartition(job.partition, job.pairs)]
        /\ UNCHANGED <<job, table, held>>

\* Pieces of the same kind in the same order, and a file that can be read.
MayRefuse(old, new) ==
    \/ \E img \in {old, new} : Patch!Failed(Patch!ReadImage(img, 0))
    \/ ~Patch!SameShape(Patch!Merged(Patch!ReadImage(old, 0)), Patch!Merged(Patch!ReadImage(new, 0)))

\* bsdiff and imgdiff make patches from which bspatch and imgpatch restore the
\* target exactly, whatever chunk is sent as raw, plain or packed data; a pair
\* of images is refused only if it does not have the same chunks; and a
\* partition is loaded whenever it begins with one of the listed contents.
PatchRestoresTarget ==
    /\ out.kind = "diff" => out.new = job.new /\ Patch!InSuffixOrder(job.old, out.index)
    /\ out.kind = "restored" /\ job.kind = "image" =>
          IF out.refused THEN MayRefuse(job.old, job.new) ELSE out.new = job.new
    /\ out.kind = "restored" /\ job.kind = "zip" =>
          ~out.refused /\ out.new = ZipOf(job.new).img
    /\ out.kind = "load" =>
          LET listed == {p.sha1 : p \in ToSet(job.pairs)}
          IN  IF <<>> \notin listed /\ \E x \in listed : IsPrefix(x, job.partition)
              THEN out.data \in listed /\ IsPrefix(out.data, job.partition)
              ELSE out.data = Patch!Unloaded
-----------------------------------------------------------------------------
(* The hash table, with items whose hash values collide in a small table.  *)

TableKeys == [name : {1, 2, 3}, hash : {0, 3}] \cup [name : {4}, hash : {7}]
TableSizes == {1, 2, 4}
TableJob == [kind |-> "table"]

CallTable == job = TableJob /\ TableNext /\ UNCHANGED <<job, out>>
-----------------------------------------------------------------------------
(* Archives: the characters - / a b, names that sort around a directory,   *)
(* entries that are whole or not.                                          *)

Entry(name, data, how, size, link) ==
    [name |-> name, data |-> data, how |-> how, size |-> size, link |-> link,
     sound |-> TRUE, crc |-> data]
A == <<2>>
ADir == <<2, 1>>
AMinus == <<2, 0>>
AA == <<2, 1, 2>>
ABA == <<2, 1, 3, 1, 2>>
SomeNames == {A, ADir, AMinus, AA, ABA}
Entries == {Entry(A, <<7>>, "stored", 1, FALSE), Entry(ADir, <<>>, "stored", 0, FALSE),
            Entry(AMinus, <<7>>, "deflated", 1, FALSE), Entry(ABA, <<8, 8>>, "deflated", 2, FALSE),
            Entry(AA, <<7>>, "stored", 1, FALSE), Entry(AA, <<7>>, "deflated", 2, FALSE),
            Entry(AA, <<7>>, "other", 1, FALSE), Entry(AA, <<8>>, "stored", 1, TRUE),
            [Entry(AMinus, <<>>, "stored", 0, FALSE) EXCEPT !.sound = FALSE]}
Directories == UNION {{d \in [1 .. k -> Entries] :
                         \A i, j \in DOMAIN d : d[i].name = d[j].name => i = j} : k \in 0 .. 3}
Nowhere == [p \in {} |-> Dir]
Trees == {Nowhere, [p \in {A} |-> File(<<9>>)], [p \in {<<3>>} |-> Dir]}
OneBroken == {{}} \cup {{[op |-> op, path |-> A]} : op \in {"creat", "write", "utime", "symlink"}}
                  \cup {{[op |-> "mkdir", path |-> <<3>>]}}
SomeUnzips == [kind : {"unzip"}, directory : Directories, dir : {<<>>, A, ADir},
              flags : {{}, {"FILES_ONLY"}, {"DRY_RUN"}}, tree : Trees, broken : OneBroken]

\* A tree to take down or to change the owner of.
SomeWalks ==
    [kind : {"walk"}, path : {A, AA, AMinus, <<3>>},
     tree : {t \in [{A, AA, ABA, <<2, 1, 3>>, <<3>>} -> {Dir, File(<<7>>), Link(<<9>>)}] :
                t[A] = Dir /\ t[<<2, 1, 3>>] = Dir /\ t[ABA] # Dir},
     broken : {{}} \cup {{[op |-> op, path |-> p]} : op \in {"unlink", "chown"}, p \in {AA, ABA, A}}]

UnpackArchive == Unzip /\ UNCHANGED <<table, held>>
WalkOneTree == WalkTree /\ UNCHANGED <<table, held>>
-----------------------------------------------------------------------------
(* A signed package: a file that begins with a local header, or does not,  *)
(* and ends with a comment that may hold a signature, its place and its    *)
(* size.                                                                   *)

Packages == {<<head>> \o body \o footer :
                head \in {90, 91}, body \in UNION {[1 .. k -> {0, 90, 93}] : k \in 0 .. 5},
                footer \in {<<start, escape, size>> : start \in {3, 4, 5}, escape \in {0, 92},
                                                      size \in 3 .. 6}}
VerifyPackage == Verify /\ UNCHANGED <<table, held>>
-----------------------------------------------------------------------------
(* Update scripts: two partitions of which the scan finds one, a package   *)
(* of one file, and every function of the updater with arguments that work.*)

Ed == INSTANCE Script WITH Package <- [n \in {"f"} |-> "new"], Partitions <- {"p"},
                           Properties <- [k \in {"k"} |-> "v"],
                           Numbers <- [n \in {"0", "1", "2"} |->
                                          CASE n = "0" -> 0 [] n = "1" -> 1 [] n = "2" -> 2],
                           MaxFileGetPropSize <- 9

Fresh(broken) ==
    [files |-> [f \in {"old", "img", "props", "big", "blank"} |->
                  CASE f = "props" -> [size |-> 2, lines |-> << <<"k", "1">>, <<"k", "2">> >>,
                                       malformed |-> TRUE, blank |-> FALSE]
                    [] f = "big" -> [size |-> 10, lines |-> <<>>, malformed |-> FALSE, blank |-> FALSE]
                    [] f = "blank" -> [size |-> 0, lines |-> <<>>, malformed |-> FALSE, blank |-> TRUE]
                    [] OTHER -> f],
     mounted |-> {}, parts |-> [p \in {"p"} |-> "old"], errmsg |-> "", pipe |-> <<>>,
     stdout |-> <<>>, log |-> <<>>, broken |-> broken]

Do(fn, texts) == Ed!Call(fn, [i \in DOMAIN texts |-> Ed!Lit(texts[i])])
MountP == Do("mount", <<"ext4", "MTD", "p", "/s">>)
FormatP == Do("format", <<"yaffs2", "MTD", "p", "0">>)
FormatQ == Do("format", <<"ext4", "EMMC", "q">>)
ToG == Do("package_extract_file", <<"f", "g">>)
ToDir == Do("package_extract_dir", <<"d", "/d">>)
RawImage == Do("write_raw_image", <<"img", "p">>)
PatchOld == Ed!Call("apply_patch", <<Ed!Lit("old"), Ed!Lit("t"), Ed!Lit("new"), Ed!Lit("1"),
                                     Ed!Lit("old"), Do("package_extract_file", <<"f">>)>>)
Deep == Ed!Call("delete", <<Ed!Lit("old"), Ed!Lit("img"), Do("abort", <<>>)>>)

Leaves == {Ed!Lit(x) : x \in {"", "t", "1"}} \cup
    {MountP, FormatP, FormatQ, ToG, ToDir, RawImage, PatchOld, Deep,
     Do("abort", <<>>), Do("abort", <<"why">>), Do("mount", <<"ext4", "MTD", "q", "/s">>),
     Do("mount", <<"", "MTD", "p", "/s">>), Do("is_mounted", <<"/s">>), Do("unmount", <<"/s">>),
     Do("format", <<"yaffs2", "EMMC", "q">>), Do("delete", <<"old", "nofile">>),
     Do("show_progress", <<"1", "2">>), Do("set_progress", <<"1">>), Do("show_progress", <<"1">>),
     Do("package_extract_file", <<"f">>), Do("package_extract_file", <<"nofile", "g">>),
     Do("symlink", <<"to", "s1", "s2">>), Do("set_perm", <<"0", "1", "2", "old">>),
     Do("set_perm_recursive", <<"0", "1", "x", "2", "old">>), Do("getprop", <<"k">>),
     Do("file_getprop", <<"props", "k">>), Do("file_getprop", <<"props", "l">>),
     Do("file_getprop", <<"big", "k">>), Do("file_getprop", <<"blank", "k">>), Do("apply_patch_space", <<"1">>),
     Do("apply_patch_check", <<"old", "new", "old">>), Do("ui_print", <<"x", "y">>),
     Do("run_program", <<"prog">>), Do("read_file", <<"old">>), Do("read_file", <<"nofile">>),
     Ed!Call("sha1_check", <<Do("read_file", <<"old">>), Ed!Lit("old")>>),
     Ed!Call("sha1_check", <<Do("package_extract_file", <<"nofile">>), Ed!Lit("old")>>),
     Do("less_than_int", <<"1", "2">>), Do("greater_than_int", <<"1", "2">>),
     Do("is_substring", <<"b", "abc">>), Do("concat", <<"a", "b">>), Do("sleep", <<"1">>),
     Ed!Call("apply_patch_check", <<Ed!Lit("old"), Do("abort", <<>>)>>)}

ScriptJobs == [kind : {"script"}, a : Leaves, b : Leaves,
               broken : {{}, {"mount", "write"}, {"format", "mtd", "patch"}}]

\* Expressions that are two ways of writing the same; the first pair but for
\* the message, in which assert says which condition was false.
Laws(a, b) ==
    LET t == Ed!Lit("t")
        none == Ed!Lit("")
    IN  << <<Ed!Call("assert", <<a>>), Ed!Call("ifelse", <<a, none, Do("abort", <<>>)>>)>>,
           <<Ed!Call("and", <<a, b>>), Ed!Call("ifelse", <<a, b>>)>>,
           <<Ed!Call("not", <<a>>), Ed!Call("ifelse", <<a, none, t>>)>>,
           <<Ed!Call("assert", <<a, b>>),
             Ed!Call("sequence", <<Ed!Call("assert", <<a>>), Ed!Call("assert", <<b>>)>>)>>,
           <<Ed!Call("sequence", <<Ed!Call("sequence", <<a, b>>), a>>),
             Ed!Call("sequence", <<a, Ed!Call("sequence", <<b, a>>)>>)>>,
           <<Ed!Call("concat", <<Ed!Call("concat", <<a, b>>), a>>), Ed!Call("concat", <<a, b, a>>)>>,
           <<Ed!Call("differs", <<a, b>>), Ed!Call("not", <<Ed!Call("equals", <<a, b>>)>>)>>,
           <<Ed!Call("greater_than_int", <<a, b>>), Ed!Call("less_than_int", <<b, a>>)>>,
           <<Ed!Call("not", <<Ed!Call("or", <<a, b>>)>>),
             Ed!Call("and", <<Ed!Call("not", <<a>>), Ed!Call("not", <<b>>)>>)>>,
           <<Ed!Call("stdout", <<a, b>>),
             Ed!Call("sequence", <<Ed!Call("stdout", <<a>>), Ed!Call("stdout", <<b>>)>>)>> >>

RunScript ==
    /\ job.kind = "script" /\ out = NoAnswer
    /\ LET laws == Laws(job.a, job.b)
       IN  out' = [kind |-> "ran",
                   runs |-> [i \in DOMAIN laws |->
                               [k \in 1 .. 2 |-> Ed!EvaluateValue(laws[i][k], Fresh(job.broken))]]]
    /\ UNCHANGED <<job, table, held>>

Effects(s) == SelectSeq(s.log, LAMBDA x : x # <<"stopped">>)
HasStopped(s) == \E i \in DOMAIN s.log : s.log[i] = <<"stopped">>
Seen(r) == [r.s EXCEPT !.log = Effects(r.s)]
ButMessage(r) == [Seen(r) EXCEPT !.errmsg = ""]

\* Where an expression gives no value nothing of the script is carried out any
\* more and the script has no value either; what was printed or done before
\* stays.  And the functions that control the evaluation are to each other as
\* the README of edify and their own order of evaluation say, with the same
\* value, the same effects, the same output and the same message; but
\* ifelse(c, "", abort()), which README:77-82 calls equivalent to assert(c), has
\* another message when c is false (expr.c:126-160).
ScriptAsDocumented ==
    out.kind = "ran" =>
        \A i \in DOMAIN out.runs :
            LET one == out.runs[i][1]
                two == out.runs[i][2]
            IN  /\ \A r \in {one, two} :
                      /\ Ed!Stopped(r.v) <=> HasStopped(r.s)
                      /\ \A m, n \in DOMAIN r.s.log :
                            m < n /\ r.s.log[m] = <<"stopped">> => r.s.log[n] = <<"stopped">>
                /\ IF i = 1 THEN ButMessage(one) = ButMessage(two) ELSE Seen(one) = Seen(two)
                /\ one.v = two.v
-----------------------------------------------------------------------------
(* A package is installed: its script is a list of steps, each of which is *)
(* asserted or not.                                                        *)

Steps == {MountP, FormatQ, ToG, ToDir, RawImage, PatchOld}
InstallJobs ==
    [kind : {"install"}, steps : [1 .. 2 -> Steps], asserted : [1 .. 2 -> BOOLEAN],
     keys : {<<>>, <<"k1", "k2">>, <<"k2", "bad">>}, signer : {"k2", "none"},
     broken : {{}} \cup {{x} : x \in
        {"mount package", "open package", "find binary", "create binary", "extract binary", "exec",
         "api", "find script", "read script", "parse", "mount", "format", "open", "write", "mkdir",
         "mtd", "last block", "patch", "read"}}]

StepOf(i) == IF job.asserted[i] THEN Ed!Call("assert", <<job.steps[i]>>) ELSE job.steps[i]
TheScript == Ed!Call("sequence", <<Ed!Call("sequence",
                 <<Ed!Call("sequence", <<Do("ui_print", <<"one">>), StepOf(1)>>), StepOf(2)>>),
                 Do("set_progress", <<"1">>)>>)

Install == /\ job.kind = "install" /\ out = NoAnswer
           /\ out' = [kind |-> "installed",
                      end |-> Ed!InstallPackage(TheScript, Fresh(job.broken), job.keys, job.signer)]
           /\ UNCHANGED <<job, table, held>>

\* The step has left on the device what it is for.  A directory that was not
\* unpacked completely counts as unpacked: the updater is told so.
Done(step, s) ==
    CASE step = MountP -> "/s" \in s.mounted
      [] step = FormatQ -> "q" \in DOMAIN s.parts /\ s.parts["q"] = "empty"
      [] step = ToG -> "g" \in DOMAIN s.files /\ s.files["g"] = "new"
      [] step = ToDir -> "/d" \in DOMAIN s.files
      [] step = RawImage -> s.parts["p"] = "img"
      [] step = PatchOld -> "t" \in DOMAIN s.files /\ s.files["t"] = "new"

\* write_raw_image only warns of the failure to write the last block
\* (updater/install.c:723-728).
WarnedOf(step) == step = RawImage /\ "last block" \in job.broken

\* An installation succeeds exactly when the package is signed with a key of
\* the device, its binary and its script can be run and every asserted step is
\* done, or is a raw image of which the last block failed; a package that is
\* not accepted changes nothing; and a script that stops shows its message
\* last and has done nothing after the failed step.
InstallSucceeds ==
    out.kind = "installed" =>
        LET e == out.end
            steps == {i \in 1 .. 2 : job.asserted[i]}
            accepted == /\ job.keys = <<"k1", "k2">> /\ job.signer = "k2"
                        /\ job.broken \cap {"mount package", "open package", "find binary",
                                            "create binary", "extract binary", "exec", "api",
                                            "find script", "read script", "parse"} = {}
            done == \A i \in steps : Done(job.steps[i], e.s) \/ WarnedOf(job.steps[i])
        IN  /\ e.result = "success" <=> accepted /\ done
            /\ e.result = "success" => /\ Head(e.ui) = <<"ui_print", "one">>
                                       /\ Last(e.ui) = <<"ui_set_progress", "1">>
            /\ ~accepted => Effects(e.s) = <<>> /\ e.s.files = Fresh({}).files
            /\ accepted /\ e.result # "success" =>
                  /\ Last(e.ui) = <<"ui_print", "assert failed">>
                  /\ 1 \in steps /\ ~Done(job.steps[1], e.s) => Len(Effects(e.s)) <= 1
-----------------------------------------------------------------------------
(* What the update engine writes outside of partitions.                    *)

Lay == INSTANCE MCLayout

FlashDisk == /\ job \in Lay!Jobs /\ out = NoAnswer
             /\ out' = [kind |-> "flashed", answer |-> Lay!Answer(job)]
             /\ UNCHANGED <<job, table, held>>

\* A partition table that is written over another leaves one of the two copies
\* whole, whatever sectors of them a cut leaves on the medium, unless it tears
\* both, which nothing rules out: they are flushed together at the end.  Once
\* written it describes the partitions of the parameter file, each in its place
\* and none over another or over the tables, and the two copies agree and find
\* each other.  A loader that fits between its copies, which are flushed one by
\* one, leaves one that is whole; and an item is read from where it stands in
\* the image, if the digest is right (flash_image.cpp, rkboot.cpp, rkimage.cpp).
LayoutSound == out.kind = "flashed" => Lay!Sound(job, out.answer)
-----------------------------------------------------------------------------
Jobs == DiffJobs \cup ImageJobs \cup ZipJobs \cup LoadJobs \cup UnzipJobs \cup WalkJobs
        \cup VerifyJobs \cup ScriptJobs \cup InstallJobs \cup Lay!Jobs

Init == /\ out = NoAnswer
        /\ \/ job \in Jobs /\ table = mzHashTableCreate(1) /\ held = {}
           \/ job = TableJob /\ TableInit

Next == \/ Diff \/ ImageDiff \/ ZipDiff \/ Load
        \/ UnpackArchive \/ WalkOneTree \/ VerifyPackage \/ RunScript \/ Install \/ FlashDisk
        \/ CallTable

Spec == Init /\ [][Next]_vars
=============================================================================
