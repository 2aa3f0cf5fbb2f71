------------------------------- MODULE Script -------------------------------
(* edify, the language of update scripts, the functions the updater adds   *)
(* to it, and install_package, which runs the updater.  An expression is a *)
(* function and its arguments; a string stands for itself.  The state of   *)
(* an evaluation is the device, the message of a failure, what was written *)
(* to the pipe and to stdout, and the log of what took effect and what     *)
(* gave NULL.                                                              *)
EXTENDS Integers, Sequences, FiniteSets, SequencesExt, TLC

CONSTANTS Package,    \* the files of the package: name -> contents
          Partitions, \* the names the MTD scan finds
          Properties, \* getprop: key -> value
          Numbers,    \* the strings that are integers: string -> value
          MaxFileGetPropSize

Call(fn, args) == [fn |-> fn, args |-> args]
Lit(text) == [fn |-> "literal", args |-> <<>>, text |-> text]

String(text) == [type |-> "string", data |-> text]
Blob(data) == [type |-> "blob", data |-> data]
NoContents == Blob("no contents")
Null == [type |-> "null"]
Crash == [type |-> "crash"]
Stopped(v) == v.type \in {"null", "crash"}
Bool(b) == String(IF b THEN "t" ELSE "")
IsTrue(v) == v.data # ""

Result(s, v) == [s |-> s, v |-> v]
ErrorAbort(s, why) == Result([s EXCEPT !.errmsg = why], Null)
\* What a call does to the device, in its place in the log.
Does(s, what) == [s EXCEPT !.log = Append(@, what)]
Says(s, line) == [s EXCEPT !.pipe = Append(@, line)]

Put(f, x, y) == [z \in DOMAIN f \cup {x} |-> IF z = x THEN y ELSE f[z]]
Without(f, x) == [z \in DOMAIN f \ {x} |-> f[z]]
Fails(s, op) == op \in s.broken
-----------------------------------------------------------------------------
(* The functions of updater/install.c, on arguments that were evaluated.   *)
(* a is the sequence of their texts.                                       *)

AnyEmpty(a) == \E i \in DOMAIN a : a[i] = ""

MountFn(s, a) ==
    IF AnyEmpty(a) THEN ErrorAbort(s, "argument can't be empty")
    ELSE IF (a[2] = "MTD" /\ a[3] \notin Partitions) \/ Fails(s, "mount")
    THEN Result(s, String(""))
    ELSE Result([Does(s, <<"mount", a[4]>>) EXCEPT !.mounted = @ \cup {a[4]}], String(a[4]))

IsMountedFn(s, a) ==
    IF AnyEmpty(a) THEN ErrorAbort(s, "argument can't be empty")
    ELSE Result(s, String(IF a[1] \in s.mounted THEN a[1] ELSE ""))

\* The result of umount is not looked at.
UnmountFn(s, a) ==
    IF AnyEmpty(a) THEN ErrorAbort(s, "argument can't be empty")
    ELSE IF a[1] \notin s.mounted THEN Result(s, String(""))
    ELSE Result([Does(s, <<"unmount", a[1]>>) EXCEPT !.mounted =
                    IF Fails(s, "umount") THEN @ ELSE @ \ {a[1]}], String(a[1]))

\* A kind that is not supported ends the script without a message.
FormatFn(s, a) ==
    LET done == [Does(s, <<"format", a[3]>>) EXCEPT !.parts = Put(@, a[3], "empty")]
    IN  IF AnyEmpty(a) THEN ErrorAbort(s, "argument can't be empty")
        ELSE IF a[2] # "MTD" /\ a[1] # "ext4" THEN Result(s, Null)
        ELSE IF (a[2] = "MTD" /\ a[3] \notin Partitions) \/ Fails(s, "format")
        THEN Result(s, String(""))
        ELSE Result(done, String(a[3]))

DeleteFn(s, a) ==
    LET present == ToSet(a) \cap DOMAIN s.files
    IN  Result([Does(s, <<"delete", a>>) EXCEPT
                  !.files = [f \in DOMAIN s.files \ present |-> s.files[f]]],
               String(ToString(Cardinality(present))))

ShowProgressFn(s, a) == Result(Says(s, <<"progress", a[1], a[2]>>), String(a[1]))
SetProgressFn(s, a) == Result(Says(s, <<"set_progress", a[1]>>), String(a[1]))

\* A file that could not be written is not noticed, a directory that could
\* not be made is.
PackageExtractDirFn(s, a) ==
    IF Fails(s, "mkdir") THEN Result(s, String(""))
    ELSE Result([Does(s, <<"extract_dir", a[2]>>) EXCEPT !.files =
                    Put(@, a[2], IF Fails(s, "write") THEN "partial" ELSE "extracted")],
                String("t"))

\* To a file; or the contents as a blob, which has none if the file is missing.
PackageExtractFileFn(s, a) ==
    LET found == a[1] \in DOMAIN Package
    IN  IF Len(a) = 1 THEN Result(s, IF found /\ ~Fails(s, "read") THEN Blob(Package[a[1]]) ELSE NoContents)
        ELSE IF ~found \/ Fails(s, "open") THEN Result(s, String(""))
        ELSE Result([Does(s, <<"extract_file", a[2]>>) EXCEPT !.files =
                        Put(@, a[2], IF Fails(s, "write") THEN "partial" ELSE Package[a[1]])],
                    Bool(~Fails(s, "write")))

\* Failures are written to stderr alone.
SymlinkFn(s, a) ==
    Result([Does(s, <<"symlink", Tail(a)>>) EXCEPT !.files =
               IF Fails(s, "symlink") THEN [f \in DOMAIN @ \ ToSet(Tail(a)) |-> @[f]]
               ELSE [f \in DOMAIN @ \cup ToSet(Tail(a)) |->
                        IF f \in ToSet(Tail(a)) THEN "link" ELSE @[f]]], String(""))

\* uid, gid and one mode (two if recursive), then the paths.
SetPermFn(s, a, recursive) ==
    LET modes == IF recursive THEN 4 ELSE 3
    IN  IF \E i \in 1 .. modes : a[i] \notin DOMAIN Numbers THEN ErrorAbort(s, "not valid")
        ELSE Result(Does(s, <<"set_perm", SubSeq(a, modes + 1, Len(a))>>), String(""))

GetPropFn(s, a) ==
    Result(s, String(IF a[1] \in DOMAIN Properties THEN Properties[a[1]] ELSE ""))

\* A file of properties is a record of its size, whether it has no character
\* but newlines, the lines up to the first malformed one, and whether there is
\* one.  strtok finds nothing in a blank file, and its NULL is read.
FileGetPropFn(s, a) ==
    LET file == s.files[a[1]]
        hits == {i \in DOMAIN file.lines : file.lines[i][1] = a[2]}
        first == CHOOSE i \in hits : \A j \in hits : i <= j
    IN  IF a[1] \notin DOMAIN s.files THEN ErrorAbort(s, "failed to stat")
        ELSE IF file.size > MaxFileGetPropSize THEN ErrorAbort(s, "too large")
        ELSE IF Fails(s, "open") THEN ErrorAbort(s, "failed to open")
        ELSE IF file.blank THEN Result(s, Crash)
        ELSE IF hits # {} THEN Result(s, String(file.lines[first][2]))
        ELSE IF file.malformed THEN ErrorAbort(s, "not a prop file?")
        ELSE Result(s, String(""))

\* Whether the image is on the partition.  Its last block, short of a whole one,
\* is written by mtd_erase_blocks.
Whole(s) == ~Fails(s, "mtd") /\ ~Fails(s, "last block")

\* A failure of mtd_erase_blocks, and that to close, is written to stderr alone.
WriteRawImageFn(s, a) ==
    IF AnyEmpty(a) THEN ErrorAbort(s, "argument can't be empty")
    ELSE IF a[2] \notin Partitions \/ a[1] \notin DOMAIN s.files \/ Fails(s, "open")
    THEN Result(s, String(""))
    ELSE Result([Does(s, <<"write_raw_image", a[2]>>) EXCEPT !.parts =
                    Put(@, a[2], IF Whole(s) THEN s.files[a[1]] ELSE "partial")],
                String(IF Fails(s, "mtd") THEN "" ELSE a[2]))

ApplyPatchSpaceFn(s, a) ==
    IF a[1] \notin DOMAIN Numbers THEN ErrorAbort(s, "can't parse as byte count")
    ELSE Result(s, Bool(~Fails(s, "space")))

\* The contents of a file stand for their hash, and a patch for its outcome.
Has(s, file, hash) == file \in DOMAIN s.files /\ s.files[file] = hash

ApplyPatchFn(s, a, v) ==
    LET pairs == {i \in 1 .. (Len(v) \div 2) : TRUE}
        applies == \E i \in pairs : Has(s, a[1], v[2 * i - 1].data) /\ v[2 * i].data = a[3]
    IN  IF \E i \in pairs : v[2 * i - 1].type # "string" \/ v[2 * i].type # "blob"
        THEN ErrorAbort(s, "is not string or not blob")
        ELSE IF Has(s, a[2], a[3]) THEN Result(s, String("t"))
        ELSE IF ~applies \/ Fails(s, "patch") THEN Result(s, String(""))
        ELSE Result([Does(s, <<"patch", a[2]>>) EXCEPT !.files = Put(@, a[2], a[3])], String("t"))

ApplyPatchCheckFn(s, a) ==
    Result(s, Bool(a[1] \in DOMAIN s.files /\ (Len(a) = 1 \/ s.files[a[1]] \in ToSet(Tail(a)))))

UIPrintFn(s, a) ==
    LET text == FoldLeft(LAMBDA x, y : x \o y, "", a)
    IN  Result(Says(IF text = "" THEN s ELSE Says(s, <<"ui_print", text>>), <<"ui_print">>),
               String(text))

\* The status of the program, whatever it is, is a string and so true.
RunProgramFn(s, a) ==
    Result(Does(s, <<"run", a>>), String(IF Fails(s, "program") THEN "256" ELSE "0"))

Sha1CheckFn(s, v) ==
    LET hits == {i \in 2 .. Len(v) : v[i].type = "string" /\ v[i].data = v[1].data}
    IN  IF v[1] = NoContents THEN Result(s, String(""))
        ELSE Result(s, IF Len(v) = 1 THEN String(v[1].data)
                       ELSE IF hits = {} THEN String("") ELSE String(v[1].data))

ReadFileFn(s, a) ==
    IF a[1] \notin DOMAIN s.files \/ Fails(s, "open") THEN ErrorAbort(s, "loading failed")
    ELSE Result(s, Blob(s.files[a[1]]))
-----------------------------------------------------------------------------
(* edify/expr.c.  A function is given its arguments unevaluated.           *)

RECURSIVE EvaluateValue(_, _)

StringOnly(r) == IF r.v.type = "blob" THEN ErrorAbort(r.s, "expecting string") ELSE r
Evaluate(e, s) == StringOnly(EvaluateValue(e, s))

\* Arguments in their order, up to the first that has no value.  ReadArgs and
\* ReadVarArgs want strings, ReadValueVarArgs takes what it gets.
Nothing(s) == [s |-> s, v |-> String(""), values |-> <<>>]
Taken(values, r) == [s |-> r.s, v |-> r.v,
                     values |-> IF Stopped(r.v) THEN values ELSE Append(values, r.v)]
ReadWith(asValues, args, s) ==
    FoldLeft(LAMBDA read, e :
                 IF Stopped(read.v) THEN read
                 ELSE Taken(read.values, IF asValues THEN EvaluateValue(e, read.s)
                                                     ELSE Evaluate(e, read.s)),
             Nothing(s), args)
Texts(values) == [i \in DOMAIN values |-> values[i].data]

Chosen(e, cond) ==
    IF Stopped(cond.v) \/ (~IsTrue(cond.v) /\ Len(e.args) = 2) THEN cond
    ELSE EvaluateValue(e.args[IF IsTrue(cond.v) THEN 2 ELSE 3], cond.s)
IfElseFn(e, s) == Chosen(e, Evaluate(e.args[1], s))

\* The message may fail too; what the script then says is that it was called.
Aborted(msg) ==
    IF msg.v = Crash THEN msg
    ELSE ErrorAbort(msg.s, IF msg.v = Null THEN "called abort()" ELSE msg.v.data)
AbortFn(e, s) ==
    IF e.args = <<>> THEN ErrorAbort(s, "called abort()")
    ELSE Aborted(Evaluate(Head(e.args), s))

Asserted(r) ==
    IF Stopped(r.v) THEN r
    ELSE IF IsTrue(r.v) THEN Result(r.s, String(""))
    ELSE ErrorAbort(r.s, "assert failed")
AssertFn(e, s) ==
    FoldLeft(LAMBDA r, c : IF Stopped(r.v) THEN r ELSE Asserted(Evaluate(c, r.s)),
             Result(s, String("")), e.args)

\* Each argument is printed before the next one is evaluated.
Printed(r) ==
    IF Stopped(r.v) THEN r
    ELSE Result([r.s EXCEPT !.stdout = Append(@, r.v.data)], String(""))
StdoutFn(e, s) ==
    FoldLeft(LAMBDA r, c : IF Stopped(r.v) THEN r ELSE Printed(Evaluate(c, r.s)),
             Result(s, String("")), e.args)

\* The right operand after the left one, unless that has decided.
Then(e, left, decided) ==
    IF Stopped(left.v) \/ decided THEN left ELSE EvaluateValue(e.args[2], left.s)
AndThen(e, left) == Then(e, left, left.v.data = "")
OrElse(e, left) == Then(e, left, left.v.data # "")
LogicalAndFn(e, s) == AndThen(e, Evaluate(e.args[1], s))
LogicalOrFn(e, s) == OrElse(e, Evaluate(e.args[1], s))

\* A sequence that goes on after a failure.
SequenceGoesOn(e, s) == EvaluateValue(e.args[2], EvaluateValue(e.args[1], s).s)

SequenceFn(e, s) == Then(e, EvaluateValue(e.args[1], s), FALSE)

\* The functions that evaluate all their arguments first.
ConcatFn(s, a) == Result(s, String(FoldLeft(LAMBDA x, y : x \o y, "", a)))
LogicalNotFn(s, a) == Result(s, Bool(a[1] = ""))
EqualityFn(s, a) == Result(s, Bool(a[1] = a[2]))
InequalityFn(s, a) == Result(s, Bool(a[1] # a[2]))
SubstringFn(s, a) ==
    Result(s, Bool(\E i \in 1 .. Len(a[2]) + 1 : SubSeq(a[2], i, i + Len(a[1]) - 1) = a[1]))
LessThanIntFn(s, a) ==
    Result(s, Bool(/\ a[1] \in DOMAIN Numbers /\ a[2] \in DOMAIN Numbers
                   /\ Numbers[a[1]] < Numbers[a[2]]))
SleepFn(s, a) == Result(s, String(a[1]))

Simple(fn, s, a) ==
    CASE fn = "concat" -> ConcatFn(s, a)
      [] fn = "not" -> LogicalNotFn(s, a)
      [] fn = "equals" -> EqualityFn(s, a)
      [] fn = "differs" -> InequalityFn(s, a)
      [] fn = "is_substring" -> SubstringFn(s, a)
      [] fn = "less_than_int" -> LessThanIntFn(s, a)
      [] fn = "greater_than_int" -> LessThanIntFn(s, a)
      [] fn = "sleep" -> SleepFn(s, a)
      [] fn = "mount" -> MountFn(s, a)
      [] fn = "is_mounted" -> IsMountedFn(s, a)
      [] fn = "unmount" -> UnmountFn(s, a)
      [] fn = "format" -> FormatFn(s, a)
      [] fn = "delete" -> DeleteFn(s, a)
      [] fn = "show_progress" -> ShowProgressFn(s, a)
      [] fn = "set_progress" -> SetProgressFn(s, a)
      [] fn = "package_extract_dir" -> PackageExtractDirFn(s, a)
      [] fn = "package_extract_file" -> PackageExtractFileFn(s, a)
      [] fn = "symlink" -> SymlinkFn(s, a)
      [] fn = "set_perm" -> SetPermFn(s, a, FALSE)
      [] fn = "set_perm_recursive" -> SetPermFn(s, a, TRUE)
      [] fn = "getprop" -> GetPropFn(s, a)
      [] fn = "file_getprop" -> FileGetPropFn(s, a)
      [] fn = "write_raw_image" -> WriteRawImageFn(s, a)
      [] fn = "apply_patch_space" -> ApplyPatchSpaceFn(s, a)
      [] fn = "apply_patch_check" -> ApplyPatchCheckFn(s, a)
      [] fn = "ui_print" -> UIPrintFn(s, a)
      [] fn = "run_program" -> RunProgramFn(s, a)
      [] fn = "read_file" -> ReadFileFn(s, a)

\* How many arguments a function takes; the others do not count them.
Counts(fn, n) ==
    CASE fn \in {"is_mounted", "unmount", "set_progress", "getprop", "read_file"} -> n = 1
      [] fn \in {"show_progress", "package_extract_dir", "less_than_int", "greater_than_int"} -> n = 2
      [] fn = "ifelse" -> n \in {2, 3}
      [] fn = "package_extract_file" -> n \in {1, 2}
      [] fn = "format" -> n = 3
      [] fn = "mount" -> n = 4
      [] fn = "set_perm" -> n >= 4
      [] fn = "set_perm_recursive" -> n >= 5
      [] fn = "apply_patch" -> n >= 6 /\ n % 2 = 0
      [] fn \in {"symlink", "apply_patch_check", "run_program", "sha1_check"} -> n >= 1
      [] OTHER -> TRUE

\* The arguments of greater_than_int change places and then have the other's
\* order of evaluation.
InOrder(e) == IF e.fn = "greater_than_int" THEN Reverse(e.args) ELSE e.args

\* Three functions do not look whether the reading of their arguments failed,
\* or free the wrong one: they run on a NULL pointer or forever.
Unread(fn, failedAt) ==
    \/ fn = "delete" /\ failedAt > 1
    \/ fn = "apply_patch" /\ failedAt > 4
    \/ fn = "apply_patch_check" /\ failedAt > 1

Stop(fn, read, failedAt) == Result(read.s, IF Unread(fn, failedAt) THEN Crash ELSE read.v)

\* apply_patch reads four strings, of which the last is a size, and then takes
\* what it gets.
Patch(strings, rest) ==
    IF Stopped(rest.v) THEN Stop("apply_patch", rest, 5 + Len(rest.values))
    ELSE ApplyPatchFn(rest.s, Texts(strings.values), rest.values)

Finish(e, read) ==
    IF Stopped(read.v) THEN Stop(e.fn, read, Len(read.values) + 1)
    ELSE IF e.fn = "sha1_check" THEN Sha1CheckFn(read.s, read.values)
    ELSE IF e.fn = "apply_patch" /\ read.values[4].data \notin DOMAIN Numbers
    THEN ErrorAbort(read.s, "can't parse as byte count")
    ELSE IF e.fn = "apply_patch"
    THEN Patch(read, ReadWith(TRUE, SubSeq(e.args, 5, Len(e.args)), read.s))
    ELSE Simple(e.fn, read.s, Texts(read.values))

Apply(e, s) ==
    Finish(e, ReadWith(e.fn = "sha1_check",
                       IF e.fn = "apply_patch" THEN SubSeq(e.args, 1, 4) ELSE InOrder(e), s))

Noted(r) == IF Stopped(r.v) THEN [r EXCEPT !.s.log = Append(@, <<"stopped">>)] ELSE r

EvaluateValue(e, s) ==
    Noted(CASE ~Counts(e.fn, Len(e.args)) -> ErrorAbort(s, "unexpected number of arguments")
            [] e.fn = "literal" -> Result(s, String(e.text))
            [] e.fn = "ifelse" -> IfElseFn(e, s)
            [] e.fn = "abort" -> AbortFn(e, s)
            [] e.fn = "assert" -> AssertFn(e, s)
            [] e.fn = "stdout" -> StdoutFn(e, s)
            [] e.fn = "and" -> LogicalAndFn(e, s)
            [] e.fn = "or" -> LogicalOrFn(e, s)
            [] e.fn = "sequence" -> SequenceFn(e, s)
            [] OTHER -> Apply(e, s))
-----------------------------------------------------------------------------
(* The updater and the recovery that runs it.                              *)

\* main() of the updater: the exit status, with the message of the script on
\* the pipe.  broken holds the steps that fail.
Updater(e, s) ==
    LET r == Evaluate(e, s)
        said == Says(r.s, IF r.s.errmsg = "" THEN <<"ui_print", "script aborted (no error message)">>
                          ELSE <<"ui_print", r.s.errmsg>>)
    IN  IF Fails(s, "api") THEN [s |-> s, status |-> 2]
        ELSE IF Fails(s, "open package") THEN [s |-> s, status |-> 3]
        ELSE IF Fails(s, "find script") THEN [s |-> s, status |-> 4]
        ELSE IF Fails(s, "read script") THEN [s |-> s, status |-> 5]
        ELSE IF Fails(s, "parse") THEN [s |-> s, status |-> 6]
        ELSE IF r.v = Crash THEN [s |-> r.s, status |-> -1]
        ELSE IF r.v = Null THEN [s |-> said, status |-> 7]
        ELSE [s |-> r.s, status |-> 0]

\* What recovery does with a line of the pipe.
FromChild(line) ==
    CASE line[1] = "progress" -> <<"ui_show_progress", line[2], line[3]>>
      [] line[1] = "set_progress" -> <<"ui_set_progress", line[2]>>
      [] line[1] = "ui_print" /\ Len(line) = 2 -> <<"ui_print", line[2]>>
      [] line[1] = "ui_print" /\ Len(line) = 1 -> <<"ui_print", "">>
      [] OTHER -> <<"unknown command">>

TryUpdateBinary(e, s) ==
    LET child == Updater(e, s)
        ui == [i \in DOMAIN child.s.pipe |-> FromChild(child.s.pipe[i])]
    IN  IF Fails(s, "find binary") THEN [s |-> s, ui |-> <<>>, result |-> "corrupt"]
        ELSE IF Fails(s, "create binary") \/ Fails(s, "extract binary") \/ Fails(s, "exec")
        THEN [s |-> s, ui |-> <<>>, result |-> "error"]
        ELSE [s |-> child.s, ui |-> ui,
              result |-> IF child.status = 0 THEN "success" ELSE "error"]

\* A reader that keeps the keys that can be parsed.
KeysSoFar(keys) == ToSet(keys) \ {"bad"}

\* The keys are read as a whole: one that cannot be parsed leaves none.
LoadKeys(keys) == IF keys = <<>> \/ \E i \in DOMAIN keys : keys[i] = "bad" THEN {} ELSE ToSet(keys)

InstallPackage(e, s, keys, signer) ==
    IF \/ Fails(s, "mount package") \/ LoadKeys(keys) = {}
       \/ signer \notin LoadKeys(keys) \/ Fails(s, "open package")
    THEN [s |-> s, ui |-> <<>>, result |-> "corrupt"]
    ELSE TryUpdateBinary(e, s)
=============================================================================
