------------------------------- MODULE Driver -------------------------------
(***************************************************************************)
(* One run of the compiler: Config reads the command line word by word and *)
(* checks it, main goes through parser, AST, builder and passes, opens the *)
(* output file, which empties it, and only then prints LightIR or          *)
(* generates code.  Any of these may stop the process; what matters is     *)
(* what has become of the files by then.                                   *)
(*                                                                         *)
(* A word of the command line is the sequence of its parts between dots,   *)
(* so that <<"a", "cminus">> is a.cminus and <<"-S">> an option.           *)
(***************************************************************************)
EXTENDS Naturals, SequencesExt

CONSTANTS Words,         \* the words a command line may have
          CommandLines,  \* the sequences of words after the name of the program
          Sources        \* the files that exist and can be read

VARIABLES args, at,              \* the command line and the word to be read
          input, output,         \* input_file and output_file, Unset when empty
          emitllvm, emitasm, mem2reg,
          passes,                \* the passes that have run
          files,                 \* what each file holds
          pc                     \* where main is, or how the process has ended

driverVars == <<args, at, input, output, emitllvm, emitasm, mem2reg, passes, files, pc>>
options == <<input, output, emitllvm, emitasm, mem2reg>>

Unset == <<>>

\* A word has at least one part, and a command line is a sequence of words.
ASSUME CommandLinesAssumption ==
  Words \subseteq Seq(STRING) \ {Unset} /\ CommandLines \subseteq Seq(Words)

Options == {<<"-h">>, <<"--help">>, <<"-o">>, <<"-emit-llvm">>, <<"-S">>, <<"-mem2reg">>}

\* std::filesystem::path; a name that starts with its only dot has no extension.
HasExtension(path) == Len(path) > 1 /\ path # <<"", path[2]>>
Extension(path) == IF HasExtension(path) THEN Last(path) ELSE ""
Stem(path) == IF HasExtension(path) THEN Front(path) ELSE path
ReplaceExtension(path, e) == Append(Stem(path), e)

\* The files that may be written.
Files == Words \cup Sources \cup {ReplaceExtension(Stem(s), e) : s \in Words, e \in {"ll", "s"}}

DriverTypeOK ==
  /\ args \in Seq(Words) /\ at \in 1..Len(args) + 1
  /\ input \in Words \cup {Unset} /\ output \in Files \cup {Unset}
  /\ emitllvm \in BOOLEAN /\ emitasm \in BOOLEAN /\ mem2reg \in BOOLEAN
  /\ files \in [Files -> {"none", "old", "source", "empty", "ir", "asm"}]
  /\ pc \in {"reading", "checking", "parsing", "building", "passing", "opening", "writing",
             "helped", "rejected", "stopped", "done"}
  \* main compiles for one of the two outputs, from a file of the language to a named one.
  /\ pc \in {"parsing", "building", "passing", "opening", "writing", "done"} =>
       /\ emitllvm # emitasm
       /\ Extension(input) = "cminus"
       /\ output # Unset

DriverInit ==
  /\ args \in CommandLines
  /\ at = 1
  /\ input = Unset /\ output = Unset
  /\ emitllvm = FALSE /\ emitasm = FALSE /\ mem2reg = FALSE
  /\ passes = <<>>
  /\ files = [f \in Files |-> IF f \in Sources THEN "source" ELSE IF f = <<"out">> THEN "old" ELSE "none"]
  /\ pc = "reading"

----------------------------------------------------------------------------
(* Config::parse_cmd_line, one word in each step, and Config::check. *)

Word == args[at]
More == pc = "reading" /\ at <= Len(args)

ReadHelp ==
  /\ More /\ Word \in {<<"-h">>, <<"--help">>}
  /\ pc' = "helped"
  /\ UNCHANGED <<args, at, options, passes, files>>

\* -o takes the next word, whatever it is; a second -o is an error.
ReadOutput ==
  /\ More /\ Word = <<"-o">>
  /\ IF output = Unset /\ at < Len(args)
     THEN output' = args[at + 1] /\ at' = at + 2 /\ UNCHANGED pc
     ELSE pc' = "rejected" /\ UNCHANGED <<output, at>>
  /\ UNCHANGED <<args, input, emitllvm, emitasm, mem2reg, passes, files>>

ReadFlag ==
  /\ More /\ Word \in {<<"-emit-llvm">>, <<"-S">>, <<"-mem2reg">>}
  /\ emitllvm' = (emitllvm \/ Word = <<"-emit-llvm">>)
  /\ emitasm' = (emitasm \/ Word = <<"-S">>)
  /\ mem2reg' = (mem2reg \/ Word = <<"-mem2reg">>)
  /\ at' = at + 1
  /\ UNCHANGED <<args, input, output, passes, files, pc>>

ReadInput ==
  /\ More /\ Word \notin Options
  /\ IF input = Unset
     THEN input' = Word /\ at' = at + 1 /\ UNCHANGED pc
     ELSE pc' = "rejected" /\ UNCHANGED <<input, at>>
  /\ UNCHANGED <<args, output, emitllvm, emitasm, mem2reg, passes, files>>

ReadDone ==
  /\ pc = "reading" /\ at > Len(args)
  /\ pc' = "checking"
  /\ UNCHANGED <<args, at, options, passes, files>>

\* What check does not accept.
Rejected ==
  \/ input = Unset
  \/ Extension(input) # "cminus"
  \/ emitllvm /\ emitasm
  \/ ~emitllvm /\ ~emitasm

\* The name of the output when there is no -o.  The stem may have a dot itself.
DefaultOutput == ReplaceExtension(Stem(input), IF emitllvm THEN "ll" ELSE "s")

Check ==
  /\ pc = "checking"
  /\ IF Rejected
     THEN pc' = "rejected" /\ UNCHANGED output
     ELSE pc' = "parsing" /\ output' = IF output = Unset THEN DefaultOutput ELSE output
  /\ UNCHANGED <<args, at, input, emitllvm, emitasm, mem2reg, passes, files>>

----------------------------------------------------------------------------
(* main. *)

Goto(l) == pc' = l /\ UNCHANGED <<args, at, options>>

\* Slip: the output is opened as soon as its name is known.
ParseAndOpen ==
  /\ pc = "parsing"
  /\ IF input \in Sources THEN Goto("building") ELSE Goto("stopped")
  /\ files' = [files EXCEPT ![output] = "empty"]
  /\ UNCHANGED passes

\* parse ends the process when the file cannot be read, AST and builder when they
\* meet what they do not know.
Parse ==
  /\ pc = "parsing"
  /\ IF input \in Sources THEN Goto("building") ELSE Goto("stopped")
  /\ UNCHANGED <<passes, files>>

Build ==
  /\ pc = "building"
  /\ Goto("passing") \/ Goto("stopped")
  /\ UNCHANGED <<passes, files>>

\* The passes that main adds.
PassesToRun == IF mem2reg THEN <<"Mem2Reg", "DeadCode">> ELSE <<>>

\* PassManager::run.
RunPass ==
  /\ pc = "passing" /\ passes # PassesToRun
  /\ passes' = Append(passes, PassesToRun[Len(passes) + 1])
  /\ Goto("passing")
  /\ UNCHANGED files
PassesDone ==
  /\ pc = "passing" /\ passes = PassesToRun
  /\ Goto("opening")
  /\ UNCHANGED <<passes, files>>

\* The constructor of the stream truncates the file.  If it cannot be opened, what is
\* written goes nowhere and nobody asks.
Open ==
  /\ pc = "opening"
  /\ \/ files' = [files EXCEPT ![output] = "empty"] /\ Goto("writing")
     \/ UNCHANGED files /\ Goto("done")
  /\ UNCHANGED passes

\* LightIR can be printed always; the code generator may stop at an assertion.
Write ==
  /\ pc = "writing"
  /\ \/ Goto("done") /\ files' = [files EXCEPT ![output] = IF emitllvm THEN "ir" ELSE "asm"]
     \/ emitasm /\ Goto("stopped") /\ UNCHANGED files
  /\ UNCHANGED passes

DriverNext ==
  \/ ReadHelp \/ ReadOutput \/ ReadFlag \/ ReadInput \/ ReadDone \/ Check
  \/ Parse \/ Build \/ RunPass \/ PassesDone \/ Open \/ Write

DriverSpec == DriverInit /\ [][DriverNext]_driverVars

----------------------------------------------------------------------------
(* Properties. *)

\* A word stands for the output file if the -o before it is not one itself: it ends
\* an odd number of -o.
IsValue(k) ==
  \E n \in 1..k - 1 : /\ n % 2 = 1
                      /\ \A j \in k - n..k - 1 : args[j] = <<"-o">>
                      /\ n = k - 1 \/ args[k - n - 1] # <<"-o">>
Given(word) == \E k \in DOMAIN args : args[k] = word /\ ~IsValue(k)

\* When main starts, the configuration is what the command line says, read without
\* regard to the order of its words.
CommandLineMeant ==
  pc = "parsing" =>
    /\ emitllvm = Given(<<"-emit-llvm">>) /\ emitasm = Given(<<"-S">>) /\ mem2reg = Given(<<"-mem2reg">>)
    /\ ~Given(<<"-h">>) /\ ~Given(<<"--help">>)
    /\ Given(input) /\ \A word \in Words \ Options : Given(word) => word = input
    /\ \A k \in DOMAIN args : IsValue(k) => args[k] = output

\* A file changes only if it is the output, and only after every pass that was asked
\* for has run: what the parser, the AST, the builder or a pass rejects leaves
\* the result of an earlier run alone.  The code generator runs too late for that.
OnlyOutputChanges ==
  \A f \in Files :
    files[f] \in {"empty", "ir", "asm"} =>
      /\ f = output
      /\ pc \in {"writing", "stopped", "done"}
      /\ passes = IF mem2reg THEN <<"Mem2Reg", "DeadCode">> ELSE <<>>

\* The program that is compiled is overwritten only if -o says so.
SourceSurvives ==
  pc = "done" /\ files[input] # "source" => \E k \in DOMAIN args : IsValue(k) /\ args[k] = input

\* The command line is read as it was meant, and a file changes only if it is the
\* output and all passes have run; the source only if -o names it.
FilesKept == DriverTypeOK /\ CommandLineMeant /\ OnlyOutputChanges /\ SourceSurvives
=============================================================================
