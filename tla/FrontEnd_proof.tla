--------------------------- MODULE FrontEnd_proof ---------------------------
(***************************************************************************)
(* Proofs about Driver and Typing for any command lines, files and names.  *)
(*                                                                         *)
(* The command line is read as it was meant and only the output changes    *)
(* (FilesKept).  Config looks at one word after the other, the definition  *)
(* of a value counts the -o before it; the two agree because a word is a   *)
(* value exactly if it follows a -o that is none (ValueRule).  While words *)
(* are read, the configuration is what the words so far say, and the next  *)
(* word is no value (ConfigInv); later, a file that has changed is the     *)
(* output, and an output without -o is never the input (FilesInv).         *)
(*                                                                         *)
(* No assertion fails and values have the type of their expression         *)
(* (NoAssertionFails, TypesAgree).  Few types occur; what the operators    *)
(* make of them is stated once, type by type.  The invariant says that a   *)
(* scope binds a name to nothing, a function or a variable of a type of    *)
(* the language, that neg_idx_except is always found, and that the values  *)
(* waiting for their operator are typed (TypingInv).                       *)
(***************************************************************************)
EXTENDS Driver, Typing, SequenceTheorems, WellFoundedInduction, TLAPS

\* A set of numbers has a least one.
LEMMA LeastNumber ==
  ASSUME NEW T, T \subseteq Nat, T # {}
  PROVE  \E m \in T : \A n \in T : m <= n
<1> DEFINE R == OpToRel(<, Nat)
<1>1. IsWellFoundedOn(R, Nat)
  BY NatLessThanWellFounded
<1>2. ASSUME NEW x \in Nat, NEW y \in Nat, x < y PROVE <<x, y>> \in R
  BY <1>2 DEF OpToRel
<1> HIDE DEF R
<1>3. PICK m \in T : \A y \in T : ~ (<<y, m>> \in R)
  BY <1>1, WFMin
<1>4. ASSUME NEW n \in T, ~ (m <= n) PROVE FALSE
  <2>1. m \in Nat /\ n \in Nat /\ n < m
    BY <1>4
  <2> QED
    BY <1>2, <1>3, <2>1
<1> QED
  BY <1>3, <1>4

----------------------------------------------------------------------------
(* Which words are values: the definition counts the -o before a word, the *)
(* code looks at one word after the other.                                 *)

\* The n words before the k-th are -o, and the one before them is not.
Run(n, k) == /\ \A j \in k - n..k - 1 : args[j] = <<"-o">>
             /\ n = k - 1 \/ args[k - n - 1] # <<"-o">>

\* There is one such n.
LEMMA RunExists == ASSUME NEW k \in Nat \ {0} PROVE \E n \in 0..k - 1 : Run(n, k)
<1> DEFINE T == {n \in 0..k - 1 : n = k - 1 \/ args[k - n - 1] # <<"-o">>}
<1>1. T \subseteq Nat /\ k - 1 \in T
  OBVIOUS
<1>2. PICK m \in T : \A n \in T : m <= n
  BY <1>1, LeastNumber
<1>3. ASSUME NEW j \in k - m..k - 1 PROVE args[j] = <<"-o">>
  <2>1. j \in Int /\ m \in 0..k - 1 /\ k - 1 - j \in 0..k - 1 /\ k - 1 - j < m /\ k - (k - 1 - j) - 1 = j
    BY <1>2
  <2> HIDE DEF T
  <2>2. k - 1 - j \notin T
    BY <1>2, <2>1
  <2> USE DEF T
  <2> QED BY <2>1, <2>2
<1> QED BY <1>2, <1>3 DEF Run

LEMMA RunUnique ==
  ASSUME NEW k \in Nat \ {0}, NEW m \in 0..k - 1, NEW n \in 0..k - 1, Run(m, k), Run(n, k)
  PROVE  m = n
<1>1. ASSUME NEW a \in 0..k - 1, NEW b \in 0..k - 1, Run(a, k), Run(b, k), a < b PROVE FALSE
  <2>1. k - a - 1 \in k - b..k - 1 /\ a # k - 1
    BY <1>1
  <2> QED BY <1>1, <2>1 DEF Run
<1> QED BY <1>1

\* A word is a value if it follows a -o that is none.
LEMMA ValueRule ==
  ASSUME NEW k \in Nat \ {0}
  PROVE  IsValue(k) <=> k > 1 /\ args[k - 1] = <<"-o">> /\ ~ IsValue(k - 1)
<1>1. PICK n \in 0..k - 1 : Run(n, k)
  BY RunExists
<1>2. IsValue(k) <=> n % 2 = 1
  <2>1. IsValue(k) <=> \E m \in 1..k - 1 : m % 2 = 1 /\ Run(m, k)
    BY DEF IsValue, Run
  <2>2. n % 2 = 1 => n \in 1..k - 1
    OBVIOUS
  <2> QED BY <1>1, <2>1, <2>2, RunUnique
<1>3. CASE n = 0
  BY <1>1, <1>2, <1>3 DEF Run
<1>4. CASE n # 0
  <2>1. k > 1 /\ k - 1 \in Nat \ {0} /\ n - 1 \in 0..(k - 1) - 1 /\ k - 1 \in k - n..k - 1
    BY <1>4
  <2>2. args[k - 1] = <<"-o">>
    BY <1>1, <2>1 DEF Run
  <2>3. Run(n - 1, k - 1)
    BY <1>1, <2>1 DEF Run
  <2>4. IsValue(k - 1) <=> \E m \in 1..(k - 1) - 1 : m % 2 = 1 /\ Run(m, k - 1)
    BY DEF IsValue, Run
  <2>5. IsValue(k - 1) <=> (n - 1) % 2 = 1
    <3>1. (n - 1) % 2 = 1 => n - 1 \in 1..(k - 1) - 1
      BY <2>1
    <3> QED BY <2>1, <2>3, <2>4, <3>1, RunUnique
  <2>6. n % 2 = 1 <=> ~ ((n - 1) % 2 = 1)
    BY <1>4
  <2> QED BY <1>2, <2>1, <2>2, <2>5, <2>6
<1> QED BY <1>3, <1>4

----------------------------------------------------------------------------
(* What Config has made of the words before the n-th. *)

LEMMA OptionsApart ==
  /\ <<"-o">> # <<"-h">> /\ <<"-o">> # <<"--help">> /\ <<"-o">> # <<"-emit-llvm">>
  /\ <<"-o">> # <<"-S">> /\ <<"-o">> # <<"-mem2reg">>
  /\ <<"-h">> # <<"-emit-llvm">> /\ <<"-h">> # <<"-S">> /\ <<"-h">> # <<"-mem2reg">>
  /\ <<"--help">> # <<"-emit-llvm">> /\ <<"--help">> # <<"-S">> /\ <<"--help">> # <<"-mem2reg">>
  /\ <<"-emit-llvm">> # <<"-S">> /\ <<"-emit-llvm">> # <<"-mem2reg">> /\ <<"-S">> # <<"-mem2reg">>
OBVIOUS

\* A word before the n-th that is no value.
Seen(word, n) == \E k \in 1..n - 1 : args[k] = word /\ ~ IsValue(k)

ConfigIs(n) ==
  /\ emitllvm <=> Seen(<<"-emit-llvm">>, n)
  /\ emitasm <=> Seen(<<"-S">>, n)
  /\ mem2reg <=> Seen(<<"-mem2reg">>, n)
  /\ ~ Seen(<<"-h">>, n) /\ ~ Seen(<<"--help">>, n)
  /\ input # Unset => Seen(input, n)
  /\ \A word \in Words \ Options : Seen(word, n) => word = input
  /\ \A k \in 1..n - 1 : IsValue(k) => args[k] = output

OutputGiven == \E k \in DOMAIN args : IsValue(k) /\ args[k] = output

\* While words are read, the next one is no value; when main runs, all have been read,
\* and a name of the output that no -o has given is the one made from the input's.
ConfigInv ==
  /\ pc = "reading" => /\ ~ IsValue(at) /\ ConfigIs(at)
                       /\ output # Unset => OutputGiven
  /\ pc = "checking" => /\ at = Len(args) + 1 /\ ConfigIs(at)
                        /\ output # Unset => OutputGiven
  /\ pc = "parsing" => at = Len(args) + 1 /\ ConfigIs(at)
  /\ pc \in {"parsing", "building", "passing", "opening", "writing", "done"} =>
       output = DefaultOutput \/ OutputGiven

InitialFile(f) == IF f \in Sources THEN "source" ELSE IF f = <<"out">> THEN "old" ELSE "none"

\* No file changes before the output is opened, and no other one does; by then all
\* passes have run, and the input has been read.
FilesInv ==
  /\ pc \in {"opening", "writing", "done"} => passes = PassesToRun
  /\ pc \in {"building", "passing", "opening", "writing", "done"} => input \in Sources
  /\ \A f \in Files : files[f] # InitialFile(f) =>
       f = output /\ pc \in {"writing", "stopped", "done"} /\ passes = PassesToRun

DriverInv == DriverTypeOK /\ ConfigInv /\ FilesInv

----------------------------------------------------------------------------

\* A word that is no option is seen as it is; a value is not.
LEMMA SeenNext ==
  ASSUME NEW n \in Nat \ {0}, NEW word, ~ IsValue(n)
  PROVE  Seen(word, n + 1) <=> Seen(word, n) \/ args[n] = word
<1>1. \A k : k \in 1..(n + 1) - 1 <=> k \in 1..n - 1 \/ k = n
  OBVIOUS
<1> QED
  BY <1>1 DEF Seen

LEMMA SeenPastValue ==
  ASSUME NEW n \in Nat \ {0}, NEW word, ~ IsValue(n), args[n] = <<"-o">>
  PROVE  /\ IsValue(n + 1) /\ ~ IsValue(n + 2)
         /\ Seen(word, n + 2) <=> Seen(word, n) \/ word = <<"-o">>
<1>1. IsValue(n + 1)
  BY ValueRule, n + 1 \in Nat \ {0}, n + 1 > 1, (n + 1) - 1 = n
<1>2. ~ IsValue(n + 2)
  BY <1>1, ValueRule, n + 2 \in Nat \ {0}, (n + 2) - 1 = n + 1
<1>3. \A k : k \in 1..(n + 2) - 1 <=> k \in 1..n - 1 \/ k = n \/ k = n + 1
  OBVIOUS
<1> QED
  BY <1>1, <1>2, <1>3 DEF Seen

\* The command line does not change, and what is said of it does not either.
LEMMA SameWords ==
  ASSUME args' = args
  PROVE  /\ \A k : IsValue(k)' <=> IsValue(k)
         /\ \A word, n : Seen(word, n)' <=> Seen(word, n)
<1>1. ASSUME NEW k PROVE IsValue(k)' <=> IsValue(k)
  BY DEF IsValue
<1> QED
  BY <1>1 DEF Seen

LEMMA DefaultNotInput ==
  ASSUME DriverTypeOK, input # Unset, Extension(input) = "cminus"
  PROVE  DefaultOutput \in Files /\ DefaultOutput # Unset /\ DefaultOutput # input
<1> DEFINE s == Stem(Stem(input))
           e == IF emitllvm THEN "ll" ELSE "s"
<1>1. input \in Words /\ input \in Seq(STRING)
  BY CommandLinesAssumption DEF DriverTypeOK
<1>2. Len(input) > 1 /\ input[Len(input)] = "cminus"
  BY <1>1 DEF Extension, HasExtension, Last
<1>3. s \in Seq(STRING)
  <2>1. ASSUME NEW p \in Seq(STRING) PROVE Stem(p) \in Seq(STRING)
    <3>1. Len(p) \in Nat /\ (Len(p) > 1 => SubSeq(p, 1, Len(p) - 1) \in Seq(STRING))
      BY SubSeqProperties
    <3> QED
      BY <3>1 DEF Stem, HasExtension, Front
  <2> QED
    BY <1>1, <2>1
<1>4. DefaultOutput = Append(s, e)
  BY DEF DefaultOutput, ReplaceExtension
<1>5. DefaultOutput \in Files
  BY <1>1 DEF DefaultOutput, Files
<1>6. Len(Append(s, e)) = Len(s) + 1 /\ Append(s, e)[Len(s) + 1] = e
  BY <1>3
<1>7. Len(s) \in Nat /\ Len(Unset) = 0
  BY <1>3 DEF Unset
<1> HIDE DEF s
<1> QED
  BY <1>2, <1>4, <1>5, <1>6, <1>7

LEMMA DriverInvInit == DriverInit => DriverInv
<1> SUFFICES ASSUME DriverInit PROVE DriverInv
  OBVIOUS
<1>1. args \in Seq(Words) /\ Len(args) \in Nat
  BY CommandLinesAssumption DEF DriverInit
<1>2. DriverTypeOK
  <2>1. files \in [Files -> {"none", "old", "source", "empty", "ir", "asm"}]
    BY DEF DriverInit
  <2>2. emitllvm \in BOOLEAN /\ emitasm \in BOOLEAN /\ mem2reg \in BOOLEAN
    BY DEF DriverInit
  <2>3. at \in 1..Len(args) + 1 /\ input = Unset /\ output = Unset /\ pc = "reading"
    BY <1>1 DEF DriverInit
  <2> QED
    BY <1>1, <2>1, <2>2, <2>3 DEF DriverTypeOK
<1>3. ~ IsValue(1) /\ \A word : ~ Seen(word, 1)
  BY DEF IsValue, Seen
<1>4. ConfigInv
  <2>1. at = 1 /\ pc = "reading" /\ output = Unset
    BY DEF DriverInit
  <2>2. ConfigIs(1)
    BY <1>3 DEF DriverInit, ConfigIs
  <2> QED
    BY <1>3, <2>1, <2>2 DEF ConfigInv
<1>5. FilesInv
  BY DEF DriverInit, FilesInv, InitialFile
<1> QED
  BY <1>2, <1>4, <1>5 DEF DriverInv

\* Reading words changes neither files nor passes.
LEMMA ReadingKeepsFiles ==
  ASSUME FilesInv, DriverTypeOK, pc \in {"reading", "checking"},
         pc' \in {"reading", "checking", "parsing", "helped", "rejected"},
         files' = files
  PROVE  FilesInv'
<1>1. \A f : InitialFile(f)' = InitialFile(f)
  BY DEF InitialFile
<1> QED
  BY <1>1 DEF FilesInv

LEMMA ReadHelpKeeps == ASSUME DriverInv, ReadHelp PROVE DriverInv'
<1>1. DriverTypeOK'
  BY DEF DriverInv, DriverTypeOK, ReadHelp, options
<1>2. ConfigInv'
  BY DEF ReadHelp, ConfigInv
<1>3. FilesInv'
  BY ReadingKeepsFiles DEF DriverInv, ReadHelp, More
<1> QED
  BY <1>1, <1>2, <1>3 DEF DriverInv

LEMMA ReadOutputKeeps == ASSUME DriverInv, ReadOutput PROVE DriverInv'
<1>1. args \in Seq(Words) /\ Len(args) \in Nat /\ at \in Nat \ {0} /\ at <= Len(args)
      /\ args[at] = <<"-o">> /\ pc = "reading" /\ args' = args /\ DOMAIN args = 1..Len(args)
  BY DEF DriverInv, DriverTypeOK, ReadOutput, More, Word
<1>2. FilesInv'
  BY ReadingKeepsFiles, <1>1 DEF DriverInv, ReadOutput
<1>3. CASE pc' = "rejected" /\ UNCHANGED <<output, at>>
  <2>1. DriverTypeOK'
    BY <1>1, <1>3 DEF DriverInv, DriverTypeOK, ReadOutput
  <2> QED
    BY <1>2, <1>3, <2>1 DEF DriverInv, ConfigInv
<1>4. CASE output = Unset /\ at < Len(args) /\ output' = args[at + 1] /\ at' = at + 2 /\ UNCHANGED pc
  <2>1. at + 1 \in 1..Len(args) /\ args[at + 1] \in Words /\ args[at + 1] \in Files
    BY <1>1, <1>4 DEF Files
  <2>2. DriverTypeOK'
    BY <1>1, <1>4, <2>1 DEF DriverInv, DriverTypeOK, ReadOutput
  <2>3. ~ IsValue(at) /\ ConfigIs(at)
    BY <1>1 DEF DriverInv, ConfigInv
  <2>4. /\ IsValue(at + 1) /\ ~ IsValue(at + 2)
        /\ \A word : Seen(word, at + 2) <=> Seen(word, at) \/ word = <<"-o">>
    BY <1>1, <2>3, SeenPastValue
  <2>5. ASSUME NEW k \in 1..(at + 2) - 1, IsValue(k) PROVE args[k] = output'
    <3>1. k \in 1..at - 1 \/ k = at \/ k = at + 1
      BY <1>1
    <3>2. k \notin 1..at - 1
      <4>1. ASSUME k \in 1..at - 1 PROVE FALSE
        <5>1. args[k] = Unset /\ args[k] \in Words
          BY <1>1, <1>4, <2>3, <2>5, <4>1 DEF ConfigIs
        <5> QED
          BY <5>1, CommandLinesAssumption
      <4> QED
        BY <4>1
    <3> QED
      BY <1>4, <2>3, <2>5, <3>1, <3>2
  <2> PICK n \in Nat : n = at
    BY <1>1
  <2>6. ConfigIs(n + 2)' /\ ~ IsValue(n + 2)'
    <3>1. /\ Seen(<<"-emit-llvm">>, n + 2) <=> Seen(<<"-emit-llvm">>, n)
          /\ Seen(<<"-S">>, n + 2) <=> Seen(<<"-S">>, n)
          /\ Seen(<<"-mem2reg">>, n + 2) <=> Seen(<<"-mem2reg">>, n)
          /\ ~ Seen(<<"-h">>, n + 2) /\ ~ Seen(<<"--help">>, n + 2)
      BY <2>3, <2>4, OptionsApart DEF ConfigIs
    <3>2. input # Unset => Seen(input, n + 2)
      BY <2>3, <2>4 DEF ConfigIs
    <3>3. \A word \in Words \ Options : Seen(word, n + 2) => word = input
      BY <2>3, <2>4 DEF ConfigIs, Options
    <3> QED
      BY <1>1, <2>3, <2>4, <2>5, <3>1, <3>2, <3>3, SameWords DEF ConfigIs, ReadOutput
  <2>7. OutputGiven'
    BY <1>1, <1>4, <2>1, <2>4, SameWords DEF OutputGiven
  <2>8. ConfigInv'
    BY <1>1, <1>4, <2>6, <2>7 DEF ConfigInv
  <2> QED
    BY <1>2, <2>2, <2>8 DEF DriverInv
<1> QED
  BY <1>3, <1>4 DEF ReadOutput

\* A word that is no value, and no -h or --help, brings what it says.
LEMMA ReadWord ==
  ASSUME DriverInv, More, args' = args, at' = at + 1, pc' = pc, output' = output,
         Word \notin {<<"-o">>, <<"-h">>, <<"--help">>},
         emitllvm' = (emitllvm \/ Word = <<"-emit-llvm">>),
         emitasm' = (emitasm \/ Word = <<"-S">>),
         mem2reg' = (mem2reg \/ Word = <<"-mem2reg">>),
         input' = IF Word \in Options THEN input ELSE Word,
         Word \notin Options => input = Unset
  PROVE  ConfigInv'
<1>1. args \in Seq(Words) /\ Len(args) \in Nat /\ at \in Nat \ {0} /\ at <= Len(args)
      /\ pc = "reading" /\ DOMAIN args = 1..Len(args) /\ args[at] \in Words /\ Word = args[at]
  BY DEF DriverInv, DriverTypeOK, More, Word
<1>2. ~ IsValue(at) /\ ConfigIs(at) /\ (output # Unset => OutputGiven)
  BY <1>1 DEF DriverInv, ConfigInv
<1>3. \A word : Seen(word, at + 1) <=> Seen(word, at) \/ word = Word
  BY <1>1, <1>2, SeenNext
<1>4. ~ IsValue(at + 1)
  BY <1>1, ValueRule, at + 1 \in Nat \ {0}, (at + 1) - 1 = at
<1>5. \A k : k \in 1..(at + 1) - 1 <=> k \in 1..at - 1 \/ k = at
  BY <1>1
<1>6. Word # Unset /\ ~ Seen(Unset, at)
  <2>1. \A k \in 1..at - 1 : args[k] \in Words
    BY <1>1
  <2> QED
    BY <1>1, <2>1, CommandLinesAssumption DEF Seen
<1>7. ASSUME NEW word \in Words \ Options, Seen(word, at + 1) PROVE word = input'
  <2>1. CASE word = Word
    BY <2>1, <1>7
  <2>2. CASE Seen(word, at)
    <3>1. word = input
      BY <1>2, <1>7, <2>2 DEF ConfigIs
    <3>2. input # Unset
      BY <1>6, <2>2, <3>1
    <3> QED
      BY <3>1, <3>2
  <2> QED
    BY <1>3, <1>7, <2>1, <2>2
<1>8. input' # Unset => Seen(input', at + 1)
  BY <1>2, <1>3 DEF ConfigIs
<1>9. /\ emitllvm' <=> Seen(<<"-emit-llvm">>, at + 1)
      /\ emitasm' <=> Seen(<<"-S">>, at + 1)
      /\ mem2reg' <=> Seen(<<"-mem2reg">>, at + 1)
      /\ ~ Seen(<<"-h">>, at + 1) /\ ~ Seen(<<"--help">>, at + 1)
  BY <1>2, <1>3 DEF ConfigIs
<1>10. \A k \in 1..(at + 1) - 1 : IsValue(k) => args[k] = output
  BY <1>2, <1>5 DEF ConfigIs
<1> PICK n \in Nat : n = at
  BY <1>1
<1>11. ConfigIs(n + 1)' /\ ~ IsValue(n + 1)'
  BY <1>4, <1>7, <1>8, <1>9, <1>10, SameWords DEF ConfigIs
<1>12. output # Unset => OutputGiven'
  BY <1>2, SameWords DEF OutputGiven
<1> QED
  BY <1>1, <1>11, <1>12 DEF ConfigInv

LEMMA ReadFlagKeeps == ASSUME DriverInv, ReadFlag PROVE DriverInv'
<1>1. Word \in Options /\ Word \notin {<<"-o">>, <<"-h">>, <<"--help">>}
  BY OptionsApart DEF ReadFlag, Options
<1>2. ConfigInv'
  BY <1>1, ReadWord DEF ReadFlag
<1>3. DriverTypeOK'
  BY DEF DriverInv, DriverTypeOK, ReadFlag, More
<1>4. FilesInv'
  BY ReadingKeepsFiles DEF DriverInv, ReadFlag, More
<1> QED
  BY <1>2, <1>3, <1>4 DEF DriverInv

LEMMA ReadInputKeeps == ASSUME DriverInv, ReadInput PROVE DriverInv'
<1>1. Word \notin {<<"-o">>, <<"-h">>, <<"--help">>, <<"-emit-llvm">>, <<"-S">>, <<"-mem2reg">>}
  BY DEF ReadInput, Options
<1>2. args[at] \in Words /\ Word = args[at] /\ pc = "reading"
  BY DEF DriverInv, DriverTypeOK, ReadInput, More, Word
<1>3. DriverTypeOK'
  BY <1>2 DEF DriverInv, DriverTypeOK, ReadInput, More
<1>4. FilesInv'
  BY ReadingKeepsFiles, <1>2 DEF DriverInv, ReadInput
<1>5. ConfigInv'
  <2>1. CASE input = Unset /\ input' = Word /\ at' = at + 1 /\ UNCHANGED pc
    <3>1. emitllvm' = (emitllvm \/ Word = <<"-emit-llvm">>)
      BY <1>1 DEF ReadInput, DriverInv, DriverTypeOK
    <3>2. emitasm' = (emitasm \/ Word = <<"-S">>)
      BY <1>1 DEF ReadInput, DriverInv, DriverTypeOK
    <3>3. mem2reg' = (mem2reg \/ Word = <<"-mem2reg">>)
      BY <1>1 DEF ReadInput, DriverInv, DriverTypeOK
    <3> QED
      BY <1>1, <2>1, <3>1, <3>2, <3>3, ReadWord DEF ReadInput
  <2>2. CASE pc' = "rejected"
    BY <2>2 DEF ConfigInv
  <2> QED
    BY <2>1, <2>2 DEF ReadInput
<1> QED
  BY <1>3, <1>4, <1>5 DEF DriverInv

LEMMA ReadDoneKeeps == ASSUME DriverInv, ReadDone PROVE DriverInv'
<1>1. Len(args) \in Nat /\ at = Len(args) + 1 /\ pc = "reading" /\ args' = args
  BY DEF DriverInv, DriverTypeOK, ReadDone
<1>2. DriverTypeOK'
  BY <1>1 DEF DriverInv, DriverTypeOK, ReadDone, options
<1>3. FilesInv'
  BY ReadingKeepsFiles, <1>1 DEF DriverInv, ReadDone
<1>4. ConfigIs(at) /\ (output # Unset => OutputGiven)
  BY <1>1 DEF DriverInv, ConfigInv
<1> PICK n \in Nat : n = at
  BY <1>1
<1>5. ConfigIs(n)' /\ (output' # Unset => OutputGiven') /\ at' = n
  BY <1>1, <1>4, SameWords DEF ConfigIs, OutputGiven, ReadDone, options
<1>6. ConfigInv'
  BY <1>1, <1>5 DEF ConfigInv, ReadDone
<1> QED
  BY <1>2, <1>3, <1>6 DEF DriverInv

LEMMA CheckKeeps == ASSUME DriverInv, Check PROVE DriverInv'
<1>1. pc = "checking" /\ args' = args /\ at' = at /\ input' = input /\ at = Len(args) + 1
      /\ emitllvm' = emitllvm
  BY DEF Check, DriverInv, ConfigInv
<1>2. FilesInv'
  BY ReadingKeepsFiles, <1>1 DEF DriverInv, Check
<1>3. CASE Rejected
  <2>1. pc' = "rejected" /\ output' = output
    BY <1>3 DEF Check
  <2> QED
    BY <1>2, <2>1 DEF DriverInv, DriverTypeOK, ConfigInv, Check
<1>4. CASE ~ Rejected
  <2>1. /\ input # Unset /\ Extension(input) = "cminus"
        /\ emitllvm # emitasm /\ DriverTypeOK
    BY <1>4 DEF Rejected, DriverInv, DriverTypeOK
  <2>2. DefaultOutput \in Files /\ DefaultOutput # Unset
    BY <2>1, DefaultNotInput
  <2>3. pc' = "parsing" /\ output' = IF output = Unset THEN DefaultOutput ELSE output
    BY <1>4 DEF Check
  <2>4. DriverTypeOK'
    BY <1>1, <2>1, <2>2, <2>3 DEF DriverTypeOK, Check
  <2>5. DefaultOutput' = DefaultOutput
    BY <1>1 DEF DefaultOutput
  <2>6. ConfigIs(at) /\ (output # Unset => OutputGiven)
    BY <1>1 DEF DriverInv, ConfigInv
  <2>7. output' = DefaultOutput' \/ OutputGiven'
    BY <1>1, <2>3, <2>5, <2>6, SameWords DEF OutputGiven
  <2>8. output # Unset => output' = output
    BY <2>3
  <2> PICK n \in Nat : n = at
    BY <1>1, <2>1 DEF DriverTypeOK
  <2>9. ASSUME NEW k \in 1..n - 1, IsValue(k) PROVE args[k] = output'
    <3>1. args[k] = output /\ k \in 1..Len(args)
      BY <1>1, <2>6, <2>9 DEF ConfigIs
    <3>2. args[k] \in Words
      BY <2>1, <3>1 DEF DriverTypeOK
    <3> QED
      BY <2>8, <3>1, <3>2, CommandLinesAssumption
  <2>10. ConfigIs(n)'
    BY <1>1, <2>6, <2>9, SameWords DEF ConfigIs, Check
  <2>11. ConfigInv'
    BY <1>1, <2>3, <2>7, <2>10 DEF ConfigInv
  <2> QED
    BY <1>2, <2>4, <2>11 DEF DriverInv
<1> QED
  BY <1>3, <1>4

\* The stages of main leave the configuration alone.
LEMMA StageKeeps ==
  ASSUME DriverInv, UNCHANGED <<args, at, options>>,
         pc \in {"parsing", "building", "passing", "opening", "writing"},
         pc' \in {"building", "passing", "opening", "writing", "stopped", "done"},
         files' \in [Files -> {"none", "old", "source", "empty", "ir", "asm"}]
  PROVE  DriverTypeOK' /\ ConfigInv'
<1>1. DriverTypeOK'
  BY DEF DriverInv, DriverTypeOK, options
<1>2. DefaultOutput' = DefaultOutput
  BY DEF DefaultOutput, options
<1>3. output = DefaultOutput \/ OutputGiven
  BY DEF DriverInv, ConfigInv
<1>4. output' = DefaultOutput' \/ OutputGiven'
  BY <1>2, <1>3, SameWords DEF OutputGiven, options
<1> QED
  BY <1>1, <1>4 DEF ConfigInv

LEMMA InitialFileSame == \A f : InitialFile(f)' = InitialFile(f)
BY DEF InitialFile

LEMMA ParseKeeps == ASSUME DriverInv, Parse PROVE DriverInv'
<1>1. DriverTypeOK' /\ ConfigInv'
  BY StageKeeps DEF Parse, Goto, DriverInv, DriverTypeOK
<1>2. FilesInv'
  BY InitialFileSame DEF DriverInv, FilesInv, Parse, Goto, options
<1> QED
  BY <1>1, <1>2 DEF DriverInv

LEMMA BuildKeeps == ASSUME DriverInv, Build PROVE DriverInv'
<1>1. DriverTypeOK' /\ ConfigInv'
  BY StageKeeps DEF Build, Goto, DriverInv, DriverTypeOK
<1>2. FilesInv'
  BY InitialFileSame DEF DriverInv, FilesInv, Build, Goto, options
<1> QED
  BY <1>1, <1>2 DEF DriverInv

LEMMA RunPassKeeps == ASSUME DriverInv, RunPass PROVE DriverInv'
<1>1. DriverTypeOK' /\ ConfigInv'
  BY StageKeeps DEF RunPass, Goto, DriverInv, DriverTypeOK
<1>2. FilesInv'
  BY InitialFileSame DEF DriverInv, FilesInv, RunPass, Goto, options
<1> QED
  BY <1>1, <1>2 DEF DriverInv

LEMMA PassesDoneKeeps == ASSUME DriverInv, PassesDone PROVE DriverInv'
<1>1. DriverTypeOK' /\ ConfigInv'
  BY StageKeeps DEF PassesDone, Goto, DriverInv, DriverTypeOK
<1>2. FilesInv'
  BY InitialFileSame DEF DriverInv, FilesInv, PassesDone, Goto, options, PassesToRun
<1> QED
  BY <1>1, <1>2 DEF DriverInv

LEMMA OpenKeeps == ASSUME DriverInv, Open PROVE DriverInv'
<1>1. /\ pc = "opening" /\ pc' \in {"writing", "done"} /\ UNCHANGED <<args, at, options, passes>>
      /\ files \in [Files -> {"none", "old", "source", "empty", "ir", "asm"}]
      /\ \/ files' = [files EXCEPT ![output] = "empty"] /\ pc' = "writing"
         \/ files' = files
  BY DEF Open, Goto, DriverInv, DriverTypeOK
<1>2. DriverTypeOK' /\ ConfigInv'
  BY <1>1, StageKeeps
<1>3. UNCHANGED <<output, input, mem2reg, passes>> /\ PassesToRun' = PassesToRun
  BY <1>1 DEF options, PassesToRun
<1>4. \A f \in Files : f # output => files'[f] = files[f]
  BY <1>1
<1>5. passes = PassesToRun /\ input \in Sources
      /\ \A f \in Files : files[f] = InitialFile(f)
  BY <1>1 DEF DriverInv, FilesInv
<1>6. FilesInv'
  BY <1>1, <1>3, <1>4, <1>5, InitialFileSame DEF FilesInv
<1> QED
  BY <1>2, <1>6 DEF DriverInv

LEMMA WriteKeeps == ASSUME DriverInv, Write PROVE DriverInv'
<1>1. /\ pc = "writing" /\ pc' \in {"stopped", "done"} /\ UNCHANGED <<args, at, options, passes>>
      /\ files \in [Files -> {"none", "old", "source", "empty", "ir", "asm"}]
      /\ files' = [files EXCEPT ![output] = IF emitllvm THEN "ir" ELSE "asm"] \/ files' = files
  BY DEF Write, Goto, DriverInv, DriverTypeOK
<1>2. DriverTypeOK' /\ ConfigInv'
  BY <1>1, StageKeeps
<1>3. UNCHANGED <<output, input, mem2reg, passes>> /\ PassesToRun' = PassesToRun
  BY <1>1 DEF options, PassesToRun
<1>4. \A f \in Files : f # output => files'[f] = files[f]
  BY <1>1
<1>5. passes = PassesToRun /\ input \in Sources
      /\ \A f \in Files : files[f] # InitialFile(f) => f = output
  BY <1>1 DEF DriverInv, FilesInv
<1>6. FilesInv'
  BY <1>1, <1>3, <1>4, <1>5, InitialFileSame DEF FilesInv
<1> QED
  BY <1>2, <1>6 DEF DriverInv

LEMMA DriverInvNext == DriverInv /\ [DriverNext]_driverVars => DriverInv'
<1> SUFFICES ASSUME DriverInv, [DriverNext]_driverVars PROVE DriverInv'
  OBVIOUS
<1>1. CASE UNCHANGED driverVars
  <2>1. UNCHANGED <<args, at, input, output, emitllvm, emitasm, mem2reg, passes, files, pc>>
    BY <1>1 DEF driverVars
  <2>2. DriverTypeOK'
    BY <2>1 DEF DriverInv, DriverTypeOK
  <2>3. FilesInv'
    BY <2>1, InitialFileSame DEF DriverInv, FilesInv, PassesToRun
  <2>4. ConfigInv'
    <3> PICK n : n = at
      OBVIOUS
    <3>1. ConfigIs(n)' <=> ConfigIs(n)
      BY <2>1, SameWords DEF ConfigIs
    <3>2. (IsValue(n)' <=> IsValue(n)) /\ (OutputGiven' <=> OutputGiven) /\ DefaultOutput' = DefaultOutput
      BY <2>1, SameWords DEF OutputGiven, DefaultOutput
    <3> QED
      BY <2>1, <3>1, <3>2 DEF DriverInv, ConfigInv
  <2> QED
    BY <2>2, <2>3, <2>4 DEF DriverInv
<1> QED
  BY <1>1, ReadHelpKeeps, ReadOutputKeeps, ReadFlagKeeps, ReadInputKeeps, ReadDoneKeeps,
     CheckKeeps, ParseKeeps, BuildKeeps, RunPassKeeps, PassesDoneKeeps, OpenKeeps, WriteKeeps
  DEF DriverNext

LEMMA DriverInvKept == DriverInv => FilesKept
<1> SUFFICES ASSUME DriverInv PROVE FilesKept
  OBVIOUS
<1>1. DriverTypeOK /\ args \in Seq(Words) /\ Len(args) \in Nat /\ DOMAIN args = 1..Len(args)
  BY DEF DriverInv, DriverTypeOK
<1>2. CommandLineMeant
  <2> SUFFICES ASSUME pc = "parsing" PROVE CommandLineMeant
    BY DEF CommandLineMeant
  <2>1. at = Len(args) + 1 /\ ConfigIs(at) /\ 1..at - 1 = DOMAIN args
    BY <1>1 DEF DriverInv, ConfigInv
  <2>2. \A word : Seen(word, at) <=> Given(word)
    BY <2>1 DEF Seen, Given
  <2>3. input # Unset
    <3>1. Extension(input) = "cminus"
      BY <1>1 DEF DriverTypeOK
    <3>2. ~ HasExtension(Unset)
      <4>1. Len(Unset) = 0
        BY DEF Unset
      <4> QED
        BY <4>1 DEF HasExtension
    <3> QED
      BY <3>1, <3>2 DEF Extension
  <2>4. /\ emitllvm \in BOOLEAN /\ emitasm \in BOOLEAN /\ mem2reg \in BOOLEAN
    BY <1>1 DEF DriverTypeOK
  <2>5. /\ emitllvm <=> Given(<<"-emit-llvm">>)
        /\ emitasm <=> Given(<<"-S">>)
        /\ mem2reg <=> Given(<<"-mem2reg">>)
    BY <2>1, <2>2 DEF ConfigIs
  <2>6. \A word : Given(word) \in BOOLEAN
    BY DEF Given
  <2>7. /\ emitllvm = Given(<<"-emit-llvm">>)
        /\ emitasm = Given(<<"-S">>)
        /\ mem2reg = Given(<<"-mem2reg">>)
    BY <2>4, <2>5, <2>6
  <2> QED
    BY <2>1, <2>2, <2>3, <2>7 DEF ConfigIs, CommandLineMeant
<1>3. OnlyOutputChanges
  <2>1. ASSUME NEW f \in Files, files[f] \in {"empty", "ir", "asm"} PROVE files[f] # InitialFile(f)
    BY <2>1 DEF InitialFile
  <2> QED
    BY <2>1 DEF DriverInv, FilesInv, OnlyOutputChanges, PassesToRun
<1>4. SourceSurvives
  <2> SUFFICES ASSUME pc = "done", files[input] # "source" PROVE OutputGiven /\ output = input
    BY DEF SourceSurvives, OutputGiven
  <2>1. input \in Sources /\ input \in Files /\ InitialFile(input) = "source"
    BY DEF DriverInv, FilesInv, Files, InitialFile
  <2>2. input = output
    BY <2>1 DEF DriverInv, FilesInv
  <2>3. input # Unset /\ Extension(input) = "cminus"
    BY <1>1, <2>2 DEF DriverTypeOK
  <2> QED
    BY <1>1, <2>2, <2>3, DefaultNotInput DEF DriverInv, ConfigInv
<1> QED
  BY <1>1, <1>2, <1>3, <1>4 DEF FilesKept

\* FilesKept, for every command line and every set of readable files: when main starts,
\* the configuration is what the words say without regard to their order
\* (Config::parse_cmd_line), and from then on a file changes only if it is the
\* output, after all passes have run, and the source only if -o names it.
THEOREM FilesAlwaysKept == DriverSpec => []FilesKept
<1>1. DriverInit => DriverInv
  BY DriverInvInit
<1>2. DriverInv /\ [DriverNext]_driverVars => DriverInv'
  BY DriverInvNext
<1>3. DriverInv => FilesKept
  BY DriverInvKept
<1> QED
  BY <1>1, <1>2, <1>3, PTL DEF DriverSpec

----------------------------------------------------------------------------
(* The types that the builder meets, and what its operators make of them. *)

PtrI32 == <<"ptr", "i32">>
PtrFloat == <<"ptr", "float">>
ArrI32 == <<"arr", "i32">>
ArrFloat == <<"arr", "float">>
PtrArrI32 == <<"ptr", "arr", "i32">>
PtrArrFloat == <<"ptr", "arr", "float">>
PtrPtrI32 == <<"ptr", "ptr", "i32">>
PtrPtrFloat == <<"ptr", "ptr", "float">>

LEMMA SeqOne == ASSUME NEW a, NEW b PROVE <<a>> \o <<b>> = <<a, b>>
<1>1. <<a>> \in Seq({a, b}) /\ <<b>> \in Seq({a, b}) /\ <<a, b>> \in Seq({a, b})
  OBVIOUS
<1>2. <<a>> \o <<b>> \in Seq({a, b}) /\ Len(<<a>> \o <<b>>) = 2
      /\ \A k \in 1..2 : (<<a>> \o <<b>>)[k] = <<a, b>>[k]
  BY <1>1
<1> QED
  BY <1>1, <1>2, SeqEqual, Len(<<a, b>>) = 2
LEMMA SeqTwo == ASSUME NEW a, NEW b, NEW c PROVE <<a>> \o <<b, c>> = <<a, b, c>>
<1> DEFINE S == {a, b, c}
<1>1. <<a>> \in Seq(S) /\ <<b, c>> \in Seq(S) /\ <<a, b, c>> \in Seq(S)
  OBVIOUS
<1>2. <<a>> \o <<b, c>> \in Seq(S) /\ Len(<<a>> \o <<b, c>>) = 3
      /\ \A k \in 1..3 : (<<a>> \o <<b, c>>)[k] = <<a, b, c>>[k]
  BY <1>1
<1> QED
  BY <1>1, <1>2, SeqEqual, Len(<<a, b, c>>) = 3
LEMMA TailTwo == ASSUME NEW a, NEW b PROVE Tail(<<a, b>>) = <<b>>
OBVIOUS
LEMMA TailThree == ASSUME NEW a, NEW b, NEW c PROVE Tail(<<a, b, c>>) = <<b, c>>
OBVIOUS
LEMMA LastOfTwo == ASSUME NEW a, NEW b PROVE SubSeq(<<a, b>>, 2, Len(<<a, b>>)) = <<b>>
<1>1. <<a, b>> \in Seq({a, b}) /\ Len(<<a, b>>) = 2 /\ <<b>> \in Seq({a, b}) /\ Len(<<b>>) = 1
  OBVIOUS
<1>2. SubSeq(<<a, b>>, 2, 2) \in Seq({a, b}) /\ Len(SubSeq(<<a, b>>, 2, 2)) = 1
      /\ SubSeq(<<a, b>>, 2, 2)[1] = <<b>>[1]
  BY <1>1, SubSeqProperties
<1>3. ASSUME NEW s \in Seq({a, b}), Len(s) = 1, s[1] = <<b>>[1] PROVE s = <<b>>
  BY <1>1, <1>3, SeqEqual
<1> QED
  BY <1>1, <1>2, <1>3

\* No two of them are equal.
LEMMA TypesApart ==
  /\ Bad \notin {Void, I1, I32, Float, PtrI32, PtrFloat}
  /\ I32 \notin {Void, I1, Float, PtrI32, PtrFloat}
  /\ Float \notin {Void, I1, PtrI32, PtrFloat}
  /\ I1 \notin {Void, PtrI32, PtrFloat}
  /\ Void \notin {PtrI32, PtrFloat}
  /\ PtrI32 # PtrFloat
BY DEF Bad, Void, I1, I32, Float, PtrI32, PtrFloat

LEMMA NotBad ==
  Bad \notin {ArrI32, ArrFloat, PtrArrI32, PtrArrFloat, PtrPtrI32, PtrPtrFloat, <<"fn">>}
BY DEF Bad, ArrI32, ArrFloat, PtrArrI32, PtrArrFloat, PtrPtrI32, PtrPtrFloat

LEMMA Kinds ==
  /\ \A t \in {PtrI32, PtrFloat, PtrArrI32, PtrArrFloat, PtrPtrI32, PtrPtrFloat} : Is(t, "ptr")
  /\ \A t \in {ArrI32, ArrFloat} : Is(t, "arr") /\ ~ Is(t, "ptr")
  /\ \A t \in {PtrI32, PtrFloat} : ~ Is(t, "arr")
  /\ Is(I32, "i32") /\ Is(Float, "float") /\ Is(<<"fn">>, "fn")
  /\ \A t \in {I32, Float} : ~ Is(t, "ptr") /\ ~ Is(t, "arr")
BY DEF Is, Bad, Void, I1, I32, Float, PtrI32, PtrFloat, ArrI32, ArrFloat, PtrArrI32, PtrArrFloat,
       PtrPtrI32, PtrPtrFloat

LEMMA ElementTypes ==
  /\ ElementOf(PtrI32) = I32 /\ ElementOf(PtrFloat) = Float
  /\ ElementOf(PtrArrI32) = ArrI32 /\ ElementOf(PtrArrFloat) = ArrFloat
  /\ ElementOf(PtrPtrI32) = PtrI32 /\ ElementOf(PtrPtrFloat) = PtrFloat
BY TailTwo, TailThree DEF ElementOf, I32, Float, PtrI32, PtrFloat, ArrI32, ArrFloat, PtrArrI32,
   PtrArrFloat, PtrPtrI32, PtrPtrFloat

LEMMA PointerTypes ==
  /\ PointerTo(I32) = PtrI32 /\ PointerTo(Float) = PtrFloat
  /\ PointerTo(ArrI32) = PtrArrI32 /\ PointerTo(ArrFloat) = PtrArrFloat
  /\ PointerTo(PtrI32) = PtrPtrI32 /\ PointerTo(PtrFloat) = PtrPtrFloat
<1>1. /\ <<"ptr">> \o I32 = PtrI32 /\ <<"ptr">> \o Float = PtrFloat
      /\ <<"ptr">> \o ArrI32 = PtrArrI32 /\ <<"ptr">> \o ArrFloat = PtrArrFloat
      /\ <<"ptr">> \o PtrI32 = PtrPtrI32 /\ <<"ptr">> \o PtrFloat = PtrPtrFloat
  BY SeqOne, SeqTwo DEF I32, Float, PtrI32, PtrFloat, ArrI32, ArrFloat, PtrArrI32,
     PtrArrFloat, PtrPtrI32, PtrPtrFloat
<1> QED
  BY <1>1, Kinds, TypesApart, NotBad DEF PointerTo, Asserted

LEMMA LoweredTypes ==
  /\ Lower("int") = I32 /\ Lower("float") = Float /\ Lower("void") = Void
  /\ Lower("int*") = PtrI32 /\ Lower("float*") = PtrFloat
  /\ Lower("int[]") = ArrI32 /\ Lower("float[]") = ArrFloat
<1>1. ArrayOf(I32) = ArrI32 /\ ArrayOf(Float) = ArrFloat
  <2>1. <<"arr">> \o I32 = ArrI32 /\ <<"arr">> \o Float = ArrFloat
    BY SeqOne DEF I32, Float, ArrI32, ArrFloat
  <2> QED
    BY <2>1, TypesApart DEF ArrayOf, Asserted, IsInteger
<1> QED
  BY <1>1 DEF Lower, PtrI32, PtrFloat

LEMMA LoadedTypes ==
  /\ LoadInst(PtrI32) = I32 /\ LoadInst(PtrFloat) = Float
  /\ LoadInst(PtrPtrI32) = PtrI32 /\ LoadInst(PtrPtrFloat) = PtrFloat
BY ElementTypes, Kinds, TypesApart, NotBad DEF LoadInst, Asserted, IsInteger

LEMMA IndexedTypes ==
  /\ GetElementPtrInst(PtrArrI32, <<I32, I32>>) = PtrI32
  /\ GetElementPtrInst(PtrArrFloat, <<I32, I32>>) = PtrFloat
  /\ GetElementPtrInst(PtrI32, <<I32>>) = PtrI32
  /\ GetElementPtrInst(PtrFloat, <<I32>>) = PtrFloat
<1>1. ASSUME NEW t \in {ArrI32, ArrFloat} PROVE SubSeq(t, 2, Len(t)) = IF t = ArrI32 THEN I32 ELSE Float
  BY LastOfTwo DEF ArrI32, ArrFloat, I32, Float
<1>2. ToSet(<<I32, I32>>) = {I32} /\ ToSet(<<I32>>) = {I32}
  BY DEF ToSet
<1>3. ArrI32 # ArrFloat
  BY DEF ArrI32, ArrFloat
<1>4. /\ Len(<<I32, I32>>) = 2 /\ Len(<<I32>>) = 1
      /\ \A k \in 1..2 : <<I32, I32>>[k] = I32
      /\ \A k \in 1..1 : <<I32>>[k] = I32
  OBVIOUS
<1>5. IsInteger(I32)
  BY DEF IsInteger
<1>6. ASSUME NEW t \in {ArrI32, ArrFloat}, NEW p \in {PtrArrI32, PtrArrFloat}, ElementOf(p) = t
      PROVE  GetElementPtrInst(p, <<I32, I32>>) = PointerTo(IF t = ArrI32 THEN I32 ELSE Float)
  <2>1. Is(p, "ptr") /\ Is(t, "arr") /\ Bad \notin {p, I32}
    BY Kinds, NotBad, TypesApart
  <2>2. \A k \in 2..2 - 1 : t[k] = "arr"
    OBVIOUS
  <2> QED
    BY <1>1, <1>2, <1>4, <1>5, <1>6, <2>1, <2>2 DEF GetElementPtrInst, Asserted
<1>7. ASSUME NEW t \in {I32, Float}, NEW p \in {PtrI32, PtrFloat}, ElementOf(p) = t
      PROVE  GetElementPtrInst(p, <<I32>>) = PointerTo(t)
  <2>1. Is(p, "ptr") /\ ~ Is(t, "arr") /\ (Is(t, "i32") \/ Is(t, "float")) /\ Bad \notin {p, I32}
    BY Kinds, NotBad, TypesApart
  <2> QED
    BY <1>2, <1>4, <1>5, <1>7, <2>1 DEF GetElementPtrInst, Asserted
<1> QED
  BY <1>3, <1>6, <1>7, ElementTypes, PointerTypes

\* The conversions bring an int or a float to the type that is wanted.
LEMMA Conversions ==
  ASSUME NEW a \in {I32, Float}, NEW b \in {I32, Float}
  PROVE  /\ Converted(a, b) = b /\ ArgConverted(a, b) = b /\ ReturnConverted(a, b) = b
         /\ Subscript(a) = I32
         /\ Promoted(a, b) = IF a = I32 /\ b = I32 THEN I32 ELSE Float
         /\ Arithmetic(a, b) = IF a = I32 /\ b = I32 THEN I32 ELSE Float
         /\ Compare(a, b) = I32
<1>1. SiToFpInst(I32) = Float /\ FpToSiInst(Float, I32) = I32
  BY TypesApart DEF SiToFpInst, FpToSiInst, Asserted, IsInteger
<1>2. ASSUME NEW x \in {I32, Float}, NEW y \in {I32, Float}
      PROVE  Promoted(x, y) = IF x = I32 /\ y = I32 THEN I32 ELSE Float
  BY <1>1, TypesApart DEF Promoted
<1>3. /\ IBinaryInst(I32, I32) = I32 /\ FBinaryInst(Float, Float) = Float
      /\ ICmpInst(I32, I32) = I1 /\ FCmpInst(Float, Float) = I1 /\ ZextInst(I1, I32) = I32
  BY TypesApart DEF IBinaryInst, FBinaryInst, ICmpInst, FCmpInst, ZextInst, Asserted
<1>4. Converted(a, b) = b /\ ArgConverted(a, b) = b /\ ReturnConverted(a, b) = b /\ Subscript(a) = I32
  BY <1>1, TypesApart DEF Converted, ArgConverted, ReturnConverted, Subscript, IsInteger
<1>5. Arithmetic(a, b) = IF a = I32 /\ b = I32 THEN I32 ELSE Float
  BY <1>2, <1>3, TypesApart DEF Arithmetic
<1>6. Compare(a, b) = I32
  BY <1>2, <1>3, TypesApart DEF Compare
<1> QED
  BY <1>2, <1>4, <1>5, <1>6

\* A test for zero, of ints and floats, gives a condition; and a type can be stored
\* where it has a variable, and returned where it is wanted.
LEMMA Conditions ==
  /\ ICmpInst(I32, I32) = I1 /\ FCmpInst(Float, Float) = I1 /\ CondBr(I1) = Void
  /\ \A t \in {I32, Float, Void} : ReturnInst(t, t) = Void
  /\ StoreInst(I32, PtrI32) = Void /\ StoreInst(Float, PtrFloat) = Void
  /\ StoreInst(PtrI32, PtrPtrI32) = Void /\ StoreInst(PtrFloat, PtrPtrFloat) = Void
BY TypesApart, NotBad, Kinds, ElementTypes DEF ICmpInst, FCmpInst, CondBr, ReturnInst, StoreInst, Asserted

----------------------------------------------------------------------------
(* Scopes and values of the right types. *)

VariableTypes == Scalars \cup {"int*", "float*", "int[]", "float[]"}
Variable(c) == [c |-> c, ir |-> PointerTo(Lower(c))]
Binding == {Unbound, FunctionNamed} \cup {Variable(c) : c \in VariableTypes}
TypedValue == {[c |-> c, ir |-> Lower(c)] : c \in CTypes}

LEMMA TypedValues ==
  /\ \A x \in TypedValue : x.c \in CTypes /\ x.ir = Lower(x.c)
  /\ \A c \in CTypes : [c |-> c, ir |-> Lower(c)] \in TypedValue
BY DEF TypedValue

LEMMA Bindings ==
  /\ Unbound \in Binding /\ FunctionNamed \in Binding /\ Unbound # FunctionNamed
  /\ \A c \in VariableTypes : Variable(c) \in Binding
  /\ \A b \in Binding : b.c = "function" => b = FunctionNamed
  /\ \A b \in Binding : b.c \notin {"none", "function"} => b.c \in VariableTypes /\ b.ir = PointerTo(Lower(b.c))
BY DEF Binding, Variable, VariableTypes, Scalars, Unbound, FunctionNamed

\* What a variable of each type is, and what it is read as.
LEMMA Variables ==
  ASSUME NEW c \in VariableTypes
  PROVE  /\ PointerTo(Lower(c)) # Bad /\ Decayed(c) \in CTypes
         /\ c \in Scalars => LoadInst(PointerTo(Lower(c))) = Lower(c) /\ Decayed(c) = c
                             /\ ElementOf(PointerTo(Lower(c))) = Lower(c)
                             /\ StoreInst(Lower(c), PointerTo(Lower(c))) = Void
                             /\ Lower(c) \in {I32, Float}
         /\ c \notin Scalars => ElementC(c) \in Scalars
BY LoweredTypes, PointerTypes, LoadedTypes, ElementTypes, NotBad, TypesApart, Conditions
DEF VariableTypes, Scalars, CTypes, Decayed, ElementC

LEMMA ScalarTypes == /\ \A c \in Scalars : c \in CTypes /\ c \in VariableTypes /\ Lower(c) \in {I32, Float}
                     /\ \A c \in CTypes : Lower(c) # Bad
BY LoweredTypes, TypesApart DEF Scalars, CTypes, VariableTypes

\* The address of an element of an array or of what a parameter points to.
LEMMA ElementAddress ==
  ASSUME NEW c \in VariableTypes \ Scalars, NEW a \in {I32, Float}
  PROVE  Element(PointerTo(Lower(c)), a) = PointerTo(Lower(ElementC(c)))
<1>1. Subscript(a) = I32
  BY Conversions
<1>2. CASE c \in {"int[]", "float[]"}
  BY <1>1, <1>2, LoweredTypes, PointerTypes, ElementTypes, Kinds, IndexedTypes DEF Element, ElementC
<1>3. CASE c \in {"int*", "float*"}
  BY <1>1, <1>3, LoweredTypes, PointerTypes, ElementTypes, Kinds, IndexedTypes, LoadedTypes
  DEF Element, ElementC
<1> QED
  BY <1>2, <1>3 DEF VariableTypes

\* What ASTVar without a subscript loads, or the address of the first element.
LEMMA VariableRead ==
  ASSUME NEW c \in VariableTypes, NEW p, p = PointerTo(Lower(c))
  PROVE  (IF ElementOf(p) \in {Float, I32} \/ Is(ElementOf(p), "ptr")
          THEN LoadInst(p) ELSE GetElementPtrInst(p, <<I32, I32>>)) = Lower(Decayed(c))
<1>1. CASE c \in Scalars
  BY <1>1, LoweredTypes, PointerTypes, ElementTypes, LoadedTypes DEF Scalars, Decayed
<1>2. CASE c \in {"int*", "float*"}
  BY <1>2, LoweredTypes, PointerTypes, ElementTypes, LoadedTypes, Kinds DEF Decayed
<1>3. CASE c \in {"int[]", "float[]"}
  <2>1. ArrI32 \notin {Float, I32} /\ ArrFloat \notin {Float, I32}
    BY DEF ArrI32, ArrFloat, I32, Float
  <2> QED
    BY <1>3, <2>1, LoweredTypes, PointerTypes, ElementTypes, IndexedTypes, Kinds DEF Decayed
<1> QED
  BY <1>1, <1>2, <1>3 DEF VariableTypes

----------------------------------------------------------------------------
(* The inductive invariant. *)

ScopesInv ==
  /\ inner \in Seq([Name -> Binding])
  /\ Len(inner) = IF returns = "none" THEN 1 ELSE 2
  /\ inner[1]["neg_idx_except"] = FunctionNamed
  /\ returns # "none" => inner[2]["neg_idx_except"] = Unbound

StackInv == stack \in Seq(TypedValue) /\ Len(stack) <= MaxStack

TypingInv ==
  /\ failed = {}
  /\ returns \in Scalars \cup {"void", "none"}
  /\ params \in Seq(CTypes \ {"void"})
  /\ ScopesInv /\ StackInv

LEMMA TypingInvInit == TypingInit => TypingInv
<1> SUFFICES ASSUME TypingInit PROVE TypingInv
  OBVIOUS
<1> DEFINE scope == [v \in Name |-> IF v \in Runtime THEN FunctionNamed ELSE Unbound]
<1>1. scope \in [Name -> Binding] /\ scope["neg_idx_except"] = FunctionNamed
  BY Bindings DEF Name, Runtime
<1>2. inner = <<scope>>
  BY DEF TypingInit
<1> HIDE DEF scope
<1>3. inner \in Seq([Name -> Binding]) /\ Len(inner) = 1 /\ inner[1] = scope
  BY <1>1, <1>2
<1>4. ScopesInv
  BY <1>1, <1>3 DEF ScopesInv, TypingInit
<1>5. StackInv
  BY BoundAssumption DEF StackInv, TypingInit
<1> QED
  BY <1>4, <1>5 DEF TypingInv, TypingInit

\* Scope::find returns what is bound, and always knows neg_idx_except.
LEMMA Found ==
  ASSUME TypingInv
  PROVE  /\ \A v \in Name : Find(v) \in Binding
         /\ Find("neg_idx_except") = FunctionNamed
<1>1. inner \in Seq([Name -> Binding]) /\ Len(inner) \in 1..2 /\ DOMAIN inner = 1..Len(inner)
  <2>1. inner \in Seq([Name -> Binding]) /\ (Len(inner) = 1 \/ Len(inner) = 2)
    BY DEF TypingInv, ScopesInv
  <2>2. Len(inner) \in 1..2
    BY <2>1
  <2> QED
    BY <2>1, <2>2
<1>2. ASSUME NEW n \in DOMAIN inner, NEW v \in Name PROVE inner[n][v] \in Binding
  BY <1>1
<1>3. ASSUME NEW v \in Name PROVE Find(v) \in Binding
  <2> DEFINE bound == {n \in DOMAIN inner : inner[n][v] # Unbound}
  <2>1. CASE bound = {}
    BY <2>1, Bindings DEF Find
  <2>2. CASE bound # {}
    <3>1. \E n \in bound : \A m \in bound : m <= n
      BY <1>1, <2>2
    <3>2. (CHOOSE n \in bound : \A m \in bound : m <= n) \in bound
      BY <3>1
    <3> QED
      BY <1>2, <1>3, <2>2, <3>2 DEF Find
  <2> QED
    BY <2>1, <2>2
<1>4. Find("neg_idx_except") = FunctionNamed
  <2> DEFINE bound == {n \in DOMAIN inner : inner[n]["neg_idx_except"] # Unbound}
  <2>1. bound = {1}
    BY <1>1, Bindings DEF TypingInv, ScopesInv
  <2>2. (CHOOSE n \in bound : \A m \in bound : m <= n) = 1
    BY <2>1
  <2> QED
    BY <2>1, <2>2 DEF Find, TypingInv, ScopesInv
<1> QED
  BY <1>3, <1>4

\* A visitor that takes n values and leaves one of type c keeps the stack as it should be.
LEMMA Replaced ==
  ASSUME StackInv, NEW n \in 0..Len(stack), NEW c \in CTypes, NEW t, t = Lower(c),
         Len(stack) - n < MaxStack, Replace(n, c, t)
  PROVE  StackInv'
<1>1. stack \in Seq(TypedValue) /\ Len(stack) \in Nat
  BY DEF StackInv
<1>2. [c |-> c, ir |-> t] \in TypedValue
  BY TypedValues
<1>3. /\ SubSeq(stack, 1, Len(stack) - n) \in Seq(TypedValue)
      /\ Len(SubSeq(stack, 1, Len(stack) - n)) = Len(stack) - n
  <2>1. \A k \in 1..Len(stack) - n : stack[k] \in TypedValue
    BY <1>1
  <2>2. 1 \in Int /\ Len(stack) - n \in Int /\ Len(stack) - n >= 0
    BY <1>1
  <2>3. /\ SubSeq(stack, 1, Len(stack) - n) \in Seq(TypedValue)
        /\ Len(SubSeq(stack, 1, Len(stack) - n))
             = IF 1 <= Len(stack) - n THEN Len(stack) - n - 1 + 1 ELSE 0
    BY <2>1, <2>2, SubSeqProperties
  <2> QED
    BY <1>1, <2>2, <2>3
<1> DEFINE below == SubSeq(stack, 1, Len(stack) - n)
<1>4. stack' = Append(below, [c |-> c, ir |-> t])
  BY DEF Replace
<1> HIDE DEF below
<1>5. stack' \in Seq(TypedValue) /\ Len(stack') = Len(below) + 1
  BY <1>2, <1>3, <1>4, AppendProperties DEF below
<1> QED
  BY <1>1, <1>3, <1>5, BoundAssumption DEF StackInv, below

\* The values at the top are typed.
LEMMA TopTyped ==
  ASSUME TypingInv, NEW n \in Nat, n < Len(stack)
  PROVE  Value(n) \in TypedValue /\ Value(n).c \in CTypes /\ Value(n).ir = Lower(Value(n).c)
<1>1. stack \in Seq(TypedValue) /\ Len(stack) - n \in 1..Len(stack)
  BY DEF TypingInv, StackInv
<1>2. Value(n) \in TypedValue
  BY <1>1 DEF Value
<1> QED
  BY <1>2, TypedValues

\* A visitor that leaves the scopes alone and creates no instruction of the wrong type.
LEMMA VisitorKeeps ==
  ASSUME TypingInv, UNCHANGED <<inner, returns, params>>, StackInv',
         NEW visitor, NEW results, Bad \notin results, Emit(visitor, results)
  PROVE  TypingInv'
BY DEF TypingInv, ScopesInv, Emit, Name

----------------------------------------------------------------------------
(* Every visitor keeps the invariant. *)

LEMMA DeclareKeeps ==
  ASSUME TypingInv, NEW v \in Globals \cup Locals, NEW c \in Scalars \cup {"int[]", "float[]"}, Declare(v, c)
  PROVE  TypingInv'
<1> DEFINE b == [c |-> c, ir |-> AllocaInst(Lower(c))]
           n == Len(inner)
<1>1. b = Variable(c) /\ b \in Binding /\ b.ir # Bad
  BY Bindings, Variables DEF AllocaInst, Variable, VariableTypes
<1>2. inner \in Seq([Name -> Binding]) /\ n \in Nat /\ n \in 1..n /\ Last(inner) = inner[n] /\ v \in Name
  BY DEF TypingInv, ScopesInv, Last, Name
<1>3. inner[n] \in [Name -> Binding]
  BY <1>2
<1> DEFINE s == Push(inner[n], v, b)
<1>4. inner' = [inner EXCEPT ![n] = s]
  BY DEF Declare
<1>5. s \in [Name -> Binding] /\ \A u \in Name : u # v => s[u] = inner[n][u]
  BY <1>1, <1>2, <1>3 DEF Push
<1>6. v # "neg_idx_except"
  <2>1. CASE returns = "none"
    BY <1>2, <2>1, Bindings DEF TypingInv, ScopesInv, Declare
  <2>2. CASE returns # "none"
    BY <2>2, NamesAssumption DEF Declare
  <2> QED
    BY <2>1, <2>2
<1>7. s["neg_idx_except"] = inner[n]["neg_idx_except"]
  BY <1>5, <1>6 DEF Name, Runtime
<1> HIDE DEF s, b
<1>8. /\ inner' \in Seq([Name -> Binding]) /\ Len(inner') = n
      /\ \A k \in 1..n : inner'[k]["neg_idx_except"] = inner[k]["neg_idx_except"]
  BY <1>2, <1>4, <1>5, <1>7
<1>9. 1 \in 1..n /\ (returns # "none" => 2 \in 1..n)
  BY DEF TypingInv, ScopesInv
<1>10. ScopesInv'
  BY <1>8, <1>9 DEF TypingInv, ScopesInv, Declare, Name
<1>11. failed' = {}
  BY <1>1 DEF Declare, Emit, TypingInv, b
<1> QED
  BY <1>10, <1>11 DEF TypingInv, StackInv, Declare

LEMMA BeginFunctionKeeps ==
  ASSUME TypingInv, NEW c \in Scalars \cup {"void"}, NEW n \in 0..Len(Params),
         NEW cs \in [1..n -> Scalars \cup {"int*", "float*"}], BeginFunction(c, cs)
  PROVE  TypingInv'
<1>1. n \in Nat /\ DOMAIN cs = 1..n /\ \A k \in 1..n : cs[k] \in VariableTypes /\ cs[k] \in CTypes \ {"void"}
  BY BoundAssumption DEF VariableTypes, CTypes, Scalars
<1>2. cs \in Seq(CTypes \ {"void"})
  BY <1>1
<1> DEFINE first == Push(inner[1], "f", FunctionNamed)
           second == [v \in Name |-> IF \E k \in DOMAIN cs : Params[k] = v
                                       THEN LET k == CHOOSE k \in DOMAIN cs : Params[k] = v
                                            IN  [c |-> cs[k], ir |-> ParamVariable(cs[k])]
                                       ELSE Unbound]
<1>3. inner' = <<first, second>> /\ returns' = c /\ params' = cs /\ stack' = stack
  BY DEF BeginFunction
<1>4. inner[1] \in [Name -> Binding] /\ inner[1]["neg_idx_except"] = FunctionNamed
  <2>1. inner \in Seq([Name -> Binding]) /\ 1 \in 1..Len(inner)
    BY DEF TypingInv, ScopesInv
  <2> QED
    BY <2>1 DEF TypingInv, ScopesInv
<1>5. first \in [Name -> Binding] /\ first["neg_idx_except"] = FunctionNamed
  BY <1>4, Bindings DEF Push, Name, Runtime
<1>6. ASSUME NEW v \in Name PROVE second[v] \in Binding
  <2>1. CASE \E k \in DOMAIN cs : Params[k] = v
    <3> DEFINE k == CHOOSE k \in DOMAIN cs : Params[k] = v
    <3>1. k \in DOMAIN cs
      BY <2>1
    <3>2. second[v] = [c |-> cs[k], ir |-> ParamVariable(cs[k])]
      BY <2>1
    <3> HIDE DEF k
    <3>3. second[v] = Variable(cs[k])
      BY <3>2 DEF Variable, ParamVariable, AllocaInst
    <3> QED
      BY <1>1, <3>1, <3>3, Bindings
  <2>2. CASE ~ \E k \in DOMAIN cs : Params[k] = v
    BY <2>2, Bindings
  <2> QED
    BY <2>1, <2>2
<1>7. second["neg_idx_except"] = Unbound
  <2>1. \A k \in DOMAIN cs : Params[k] \in ToSet(Params)
    BY <1>1, BoundAssumption DEF ToSet
  <2>2. "neg_idx_except" \in Name
    BY DEF Name, Runtime
  <2> QED
    BY <2>1, <2>2, NamesAssumption
<1>8. second \in [Name -> Binding]
  BY <1>6
<1> HIDE DEF first, second
<1>9. inner' \in Seq([Name -> Binding]) /\ Len(inner') = 2 /\ inner'[1] = first /\ inner'[2] = second
  BY <1>3, <1>5, <1>8
<1>10. ScopesInv'
  <2>1. c # "none"
    BY DEF Scalars
  <2> QED
    BY <1>3, <1>5, <1>7, <1>9, <2>1 DEF ScopesInv, Name
<1>11. failed' = {}
  <2>1. FunctionOf(Lower(c), {Lower(cs[k]) : k \in DOMAIN cs}) # Bad
    <3>1. Lower(c) \in {I32, Float, Void}
      BY LoweredTypes DEF Scalars
    <3>2. ASSUME NEW k \in DOMAIN cs PROVE Lower(cs[k]) \in {I32, Float, PtrI32, PtrFloat}
      BY LoweredTypes DEF Scalars
    <3>3. \A t \in {Lower(cs[k]) : k \in DOMAIN cs} :
            (IsInteger(t) \/ t = Float \/ Is(t, "ptr")) /\ t # Bad
      BY <3>2, Kinds, TypesApart DEF IsInteger
    <3>4. \A t : <<"fn">> \o t # Bad \/ t \notin {I32, Float, Void}
      BY SeqOne DEF Bad, I32, Float, Void
    <3> QED
      BY <3>1, <3>3, <3>4, TypesApart DEF FunctionOf, Asserted, IsInteger
  <2>2. ASSUME NEW k \in DOMAIN cs PROVE StoreInst(Lower(cs[k]), ParamVariable(cs[k])) # Bad
    <3>1. cs[k] \in Scalars \cup {"int*", "float*"}
      OBVIOUS
    <3> QED
      BY <3>1, LoweredTypes, PointerTypes, Conditions, TypesApart DEF ParamVariable, AllocaInst, Scalars
  <2>3. Bad \notin {FunctionOf(Lower(c), {Lower(cs[k]) : k \in DOMAIN cs})}
                   \cup {StoreInst(Lower(cs[k]), ParamVariable(cs[k])) : k \in DOMAIN cs}
    BY <2>1, <2>2
  <2> QED
    BY <2>3 DEF BeginFunction, Emit, TypingInv
<1> QED
  BY <1>2, <1>3, <1>10, <1>11 DEF TypingInv, StackInv

LEMMA ReturnedZero == ASSUME TypingInv, returns # "none" PROVE ReturnZero = Void
BY LoweredTypes, Conditions DEF TypingInv, ReturnZero, Scalars

LEMMA EndFunctionKeeps == ASSUME TypingInv, EndFunction PROVE TypingInv'
<1>1. inner \in Seq([Name -> Binding]) /\ Len(inner) = 2 /\ inner[1] \in [Name -> Binding]
  <2>1. inner \in Seq([Name -> Binding]) /\ Len(inner) = 2
    BY DEF EndFunction, InFunction, TypingInv, ScopesInv
  <2> QED
    BY <2>1
<1>2. inner' \in Seq([Name -> Binding]) /\ Len(inner') = 1 /\ inner'[1] = inner[1]
  <2>1. inner' = SubSeq(inner, 1, 1)
    BY <1>1 DEF EndFunction, Front
  <2>2. /\ SubSeq(inner, 1, 1) \in Seq([Name -> Binding]) /\ Len(SubSeq(inner, 1, 1)) = 1
        /\ SubSeq(inner, 1, 1)[1] = inner[1]
    BY <1>1, SubSeqProperties
  <2> QED
    BY <2>1, <2>2
<1>3. ScopesInv'
  BY <1>2 DEF TypingInv, ScopesInv, EndFunction, Name
<1>4. failed' = {}
  BY ReturnedZero, TypesApart DEF EndFunction, InFunction, Emit, TypingInv
<1> QED
  BY <1>3, <1>4 DEF TypingInv, StackInv, EndFunction

LEMMA StackLength == ASSUME TypingInv PROVE Len(stack) \in Nat
BY DEF TypingInv, StackInv

LEMMA NumKeeps == ASSUME TypingInv, NEW c \in Scalars, Num(c) PROVE TypingInv'
<1>1. /\ LoadInst(PointerTo(Lower(c))) = Lower(c)
      /\ Bad \notin {PointerTo(Lower(c)), StoreInst(Lower(c), PointerTo(Lower(c)))}
  BY Variables, ScalarTypes, TypesApart
<1>2. StackInv'
  BY <1>1, ScalarTypes, StackLength, Replaced DEF Num, Room, TypingInv, AllocaInst
<1> QED
  BY <1>1, <1>2, VisitorKeeps DEF Num, AllocaInst

\* The binding of a variable.
LEMMA VariableFound ==
  ASSUME TypingInv, NEW v \in Name, IsVariable(v)
  PROVE  Find(v).c \in VariableTypes /\ Find(v).ir = PointerTo(Lower(Find(v).c))
BY Found, Bindings DEF IsVariable

LEMMA VarKeeps == ASSUME TypingInv, NEW v \in Name, Var(v) PROVE TypingInv'
<1> DEFINE c == Find(v).c
           p == Find(v).ir
           t == IF ElementOf(p) \in {Float, I32} \/ Is(ElementOf(p), "ptr")
                THEN LoadInst(p) ELSE GetElementPtrInst(p, <<I32, I32>>)
<1>1. c \in VariableTypes /\ p = PointerTo(Lower(c))
  BY VariableFound DEF Var
<1>2. Emit("var", {t}) /\ Replace(0, Decayed(c), t) /\ UNCHANGED <<inner, returns, params>> /\ Room
  BY DEF Var
<1> HIDE DEF c, p
<1>3. t = Lower(Decayed(c))
  BY <1>1, VariableRead
<1> HIDE DEF t
<1>4. Decayed(c) \in CTypes /\ t # Bad
  BY <1>1, <1>3, Variables, ScalarTypes
<1>5. StackInv'
  BY <1>2, <1>3, <1>4, StackLength, Replaced DEF Room, TypingInv
<1> QED
  BY <1>2, <1>4, <1>5, VisitorKeeps

\* The test of a subscript creates no instruction of the wrong type.
LEMMA IndexChecked ==
  ASSUME TypingInv, returns # "none", NEW a \in {I32, Float}
  PROVE  Bad \notin CheckIndex(a)
<1>1. Subscript(a) = I32
  BY Conversions
<1>2. CallInst(FunctionNamed.ir, Void, <<>>, <<>>) = Void
  <2>1. FunctionNamed.ir = <<"fn">>
    BY DEF FunctionNamed
  <2>2. Bad \notin {<<>>[n] : n \in DOMAIN <<>>}
    OBVIOUS
  <2> QED
    BY <2>1, <2>2, Kinds DEF CallInst, Asserted
<1> QED
  BY <1>1, <1>2, Found, ReturnedZero, Conditions, TypesApart DEF CheckIndex

\* The address of an element of the array v, and what is loaded from it.
LEMMA ElementFound ==
  ASSUME TypingInv, NEW v \in Name, IsArray(v), NEW a \in {I32, Float}
  PROVE  LET c == ElementC(Find(v).c)
             p == Element(Find(v).ir, a)
         IN  /\ c \in Scalars /\ p # Bad /\ LoadInst(p) = Lower(c)
             /\ ElementOf(p) = Lower(c) /\ Lower(c) \in {I32, Float}
             /\ StoreInst(Lower(c), p) = Void
<1> DEFINE d == Find(v).c
<1>1. d \in VariableTypes \ Scalars /\ Find(v).ir = PointerTo(Lower(d))
  BY VariableFound DEF IsArray
<1> HIDE DEF d
<1>2. Element(PointerTo(Lower(d)), a) = PointerTo(Lower(ElementC(d))) /\ ElementC(d) \in Scalars
  BY <1>1, ElementAddress, Variables
<1>3. ElementC(d) \in VariableTypes
  BY <1>2, ScalarTypes
<1> QED
  BY <1>1, <1>2, <1>3, Variables DEF d

LEMMA ElementVarKeeps == ASSUME TypingInv, NEW v \in Name, ElementVar(v) PROVE TypingInv'
<1> DEFINE c == ElementC(Find(v).c)
           a == Value(0).ir
           p == Element(Find(v).ir, a)
<1>1. Len(stack) > 0 /\ a \in {I32, Float}
  BY TopTyped, ScalarTypes DEF ElementVar
<1>2. c \in Scalars /\ p # Bad /\ LoadInst(p) = Lower(c)
  BY <1>1, ElementFound DEF ElementVar
<1>3. /\ Emit("var", CheckIndex(a) \cup {p}) /\ Replace(1, c, LoadInst(p))
      /\ UNCHANGED <<inner, returns, params>> /\ returns # "none"
  BY DEF ElementVar, InFunction
<1>4. Bad \notin CheckIndex(a)
  BY <1>1, <1>3, IndexChecked
<1> HIDE DEF c, a, p
<1>5. StackInv'
  <2>1. c \in CTypes /\ 1 \in 0..Len(stack) /\ Len(stack) - 1 < MaxStack
    BY <1>1, <1>2, ScalarTypes, StackLength, BoundAssumption DEF TypingInv, StackInv
  <2> QED
    BY <1>2, <1>3, <2>1, Replaced DEF TypingInv
<1> QED
  BY <1>2, <1>3, <1>4, <1>5, VisitorKeeps

LEMMA AssignVarKeeps == ASSUME TypingInv, NEW v \in Name, AssignVar(v) PROVE TypingInv'
<1> DEFINE c == Find(v).c
           p == Find(v).ir
           a == Converted(Value(0).ir, ElementOf(p))
<1>1. Len(stack) > 0 /\ Value(0).ir \in {I32, Float}
  BY TopTyped, ScalarTypes DEF AssignVar
<1>2. c \in Scalars /\ c \in VariableTypes /\ p = PointerTo(Lower(c))
  BY VariableFound DEF AssignVar
<1>3. /\ Emit("assign", {StoreInst(a, p)}) /\ Replace(1, c, LoadInst(p))
      /\ UNCHANGED <<inner, returns, params>>
  BY DEF AssignVar
<1> HIDE DEF c, p
<1>4. a = Lower(c)
  BY <1>1, <1>2, Variables, Conversions
<1> HIDE DEF a
<1>5. LoadInst(p) = Lower(c) /\ StoreInst(a, p) # Bad
  BY <1>2, <1>4, Variables, TypesApart
<1>6. StackInv'
  <2>1. c \in CTypes /\ 1 \in 0..Len(stack) /\ Len(stack) - 1 < MaxStack
    BY <1>1, <1>2, ScalarTypes, StackLength, BoundAssumption DEF TypingInv, StackInv
  <2> QED
    BY <1>3, <1>5, <2>1, Replaced DEF TypingInv
<1> QED
  BY <1>3, <1>5, <1>6, VisitorKeeps

LEMMA AssignElementKeeps == ASSUME TypingInv, NEW v \in Name, AssignElement(v) PROVE TypingInv'
<1> DEFINE c == ElementC(Find(v).c)
           p == Element(Find(v).ir, Value(0).ir)
           a == Converted(Value(1).ir, ElementOf(p))
<1>1. Len(stack) > 1 /\ Value(0).ir \in {I32, Float} /\ Value(1).ir \in {I32, Float}
  BY TopTyped, ScalarTypes, StackLength DEF AssignElement
<1>2. /\ c \in Scalars /\ p # Bad /\ LoadInst(p) = Lower(c)
      /\ ElementOf(p) = Lower(c) /\ Lower(c) \in {I32, Float}
      /\ StoreInst(Lower(c), p) = Void
  BY <1>1, ElementFound DEF AssignElement
<1>3. /\ Emit("assign", CheckIndex(Value(0).ir) \cup {StoreInst(a, p)}) /\ Replace(2, c, LoadInst(p))
      /\ UNCHANGED <<inner, returns, params>> /\ returns # "none"
  BY DEF AssignElement, InFunction
<1>4. Bad \notin CheckIndex(Value(0).ir)
  BY <1>1, <1>3, IndexChecked
<1> HIDE DEF c, p
<1>5. a = Lower(c)
  BY <1>1, <1>2, Conversions
<1> HIDE DEF a
<1>6. StoreInst(a, p) # Bad
  BY <1>2, <1>5, TypesApart
<1>7. StackInv'
  <2>1. c \in CTypes /\ 2 \in 0..Len(stack) /\ Len(stack) - 2 < MaxStack
    BY <1>1, <1>2, ScalarTypes, StackLength, BoundAssumption DEF TypingInv, StackInv
  <2> QED
    BY <1>2, <1>3, <2>1, Replaced DEF TypingInv
<1> QED
  BY <1>3, <1>4, <1>6, <1>7, VisitorKeeps

LEMMA BinaryKeeps == ASSUME TypingInv, NEW isCompare \in BOOLEAN, Binary(isCompare) PROVE TypingInv'
<1> DEFINE a == Value(1).ir
           b == Value(0).ir
           t == IF isCompare THEN Compare(a, b) ELSE Arithmetic(a, b)
           c == IF ~isCompare /\ "float" \in {Value(0).c, Value(1).c} THEN "float" ELSE "int"
<1>1. /\ Len(stack) > 1 /\ Value(0).c \in Scalars /\ Value(1).c \in Scalars
      /\ a = Lower(Value(1).c) /\ b = Lower(Value(0).c)
  BY TopTyped, StackLength DEF Binary
<1>2. a \in {I32, Float} /\ b \in {I32, Float}
  BY <1>1, ScalarTypes
<1>3. Emit("binary", {t}) /\ Replace(2, c, t) /\ UNCHANGED <<inner, returns, params>>
  BY DEF Binary
<1>4. (a = I32 <=> Value(1).c = "int") /\ (b = I32 <=> Value(0).c = "int")
  BY <1>1, LoweredTypes, TypesApart DEF Scalars
<1>5. /\ Compare(a, b) = I32
      /\ Arithmetic(a, b) = IF a = I32 /\ b = I32 THEN I32 ELSE Float
  BY <1>2, Conversions
<1>6. t = Lower(c) /\ c \in CTypes
  BY <1>1, <1>4, <1>5, LoweredTypes DEF Scalars, CTypes
<1> HIDE DEF a, b, c, t
<1>7. StackInv' /\ t # Bad
  <2>1. c \in CTypes /\ 2 \in 0..Len(stack) /\ Len(stack) - 2 < MaxStack
    BY <1>1, <1>6, StackLength, BoundAssumption DEF TypingInv, StackInv
  <2> QED
    BY <1>3, <1>6, <2>1, Replaced, ScalarTypes DEF TypingInv
<1> QED
  BY <1>3, <1>7, VisitorKeeps

LEMMA SignatureTyped ==
  ASSUME TypingInv, returns # "none", NEW f \in Runtime \cup {"f"}
  PROVE  Signature(f).ret \in CTypes /\ Signature(f).params \in Seq(CTypes \ {"void"})
<1>1. CASE f \in Runtime
  <2>1. /\ Signature("input").ret = "int" /\ Signature("input").params = <<>>
        /\ Signature("output").ret = "void" /\ Signature("output").params = <<"int">>
        /\ Signature("outputFloat").ret = "void" /\ Signature("outputFloat").params = <<"float">>
        /\ Signature("neg_idx_except").ret = "void" /\ Signature("neg_idx_except").params = <<>>
    BY DEF Signature
  <2>2. /\ <<>> \in Seq(CTypes \ {"void"})
        /\ <<"int">> \in Seq(CTypes \ {"void"}) /\ <<"float">> \in Seq(CTypes \ {"void"})
    BY DEF CTypes, Scalars
  <2>3. "int" \in CTypes /\ "void" \in CTypes
    BY DEF CTypes, Scalars
  <2>4. f = "input" \/ f = "output" \/ f = "outputFloat" \/ f = "neg_idx_except"
    BY <1>1 DEF Runtime
  <2>5. CASE f = "input"
    BY <2>1, <2>2, <2>3, <2>5
  <2>6. CASE f = "output"
    BY <2>1, <2>2, <2>3, <2>6
  <2>7. CASE f = "outputFloat"
    BY <2>1, <2>2, <2>3, <2>7
  <2>8. CASE f = "neg_idx_except"
    BY <2>1, <2>2, <2>3, <2>8
  <2> QED
    BY <2>4, <2>5, <2>6, <2>7, <2>8
<1>2. CASE f = "f"
  <2>1. Signature("f") = [ret |-> returns, params |-> params]
    BY DEF Signature
  <2> QED
    BY <1>2, <2>1 DEF TypingInv, CTypes, Scalars
<1> QED
  BY <1>1, <1>2

LEMMA CallOfKeeps == ASSUME TypingInv, NEW f \in Runtime \cup {"f"}, CallOf(f) PROVE TypingInv'
<1> DEFINE wanted == Signature(f).params
           n == Len(wanted)
           actual == SubSeq(stack, Len(stack) - n + 1, Len(stack))
           fits(c, want) == c = want \/ (c \in Scalars /\ want \in Scalars)
           ret == Signature(f).ret
           lowered == [k \in 1..n |-> Lower(wanted[k])]
           passed == [k \in 1..n |-> ArgConverted(actual[k].ir, Lower(wanted[k]))]
           t == CallInst(Find(f).ir, Lower(ret), lowered, passed)
<1>1. /\ returns # "none" /\ Find(f).c = "function"
      /\ Len(stack) >= n /\ Len(stack) - n < MaxStack
      /\ \A k \in 1..n : fits(actual[k].c, wanted[k])
      /\ Emit("call", {t}) /\ Replace(n, ret, t) /\ UNCHANGED <<inner, returns, params>>
  BY DEF CallOf, InFunction
<1>2. ret \in CTypes /\ wanted \in Seq(CTypes \ {"void"})
  BY <1>1, SignatureTyped
<1>3. n \in Nat /\ \A k \in 1..n : wanted[k] \in CTypes \ {"void"}
  BY <1>2
<1>4. \A k \in 1..n : actual[k] \in TypedValue
  <2>1. stack \in Seq(TypedValue) /\ Len(stack) \in Nat
    BY DEF TypingInv, StackInv
  <2>2. \A k \in Len(stack) - n + 1..Len(stack) : stack[k] \in TypedValue
    BY <1>1, <1>3, <2>1
  <2>3. \A k \in 1..Len(stack) - (Len(stack) - n + 1) + 1 :
          actual[k] = stack[Len(stack) - n + 1 + k - 1]
    <3>1. Len(stack) - n + 1 \in Int /\ Len(stack) \in Int
      BY <1>3, <2>1
    <3> HIDE DEF n
    <3> QED
      BY <2>2, <3>1, SubSeqProperties
  <2>4. ASSUME NEW k \in 1..n PROVE actual[k] \in TypedValue
    <3>1. /\ k \in 1..Len(stack) - (Len(stack) - n + 1) + 1
          /\ Len(stack) - n + 1 + k - 1 \in Len(stack) - n + 1..Len(stack)
      BY <1>3, <2>1
    <3> QED
      BY <2>2, <2>3, <3>1
  <2> QED
    BY <2>4
<1> HIDE DEF actual, wanted, n, ret
<1>5. ASSUME NEW k \in 1..n PROVE ArgConverted(actual[k].ir, Lower(wanted[k])) = Lower(wanted[k])
  <2>1. actual[k].ir = Lower(actual[k].c)
    BY <1>4, TypedValues
  <2>2. CASE actual[k].c = wanted[k]
    BY <2>1, <2>2 DEF ArgConverted
  <2>3. CASE actual[k].c \in Scalars /\ wanted[k] \in Scalars
    BY <2>1, <2>3, ScalarTypes, Conversions
  <2> QED
    BY <1>1, <2>2, <2>3
<1>6. passed = lowered
  BY <1>5
<1>7. \A k \in DOMAIN passed : passed[k] # Bad
  BY <1>3, <1>5, ScalarTypes
<1>8. Find(f) = FunctionNamed
  BY <1>1, Found, Bindings DEF Name
<1>9. t = Lower(ret)
  <2>1. FunctionNamed.ir = <<"fn">>
    BY DEF FunctionNamed
  <2> HIDE DEF passed, lowered
  <2>2. Bad \notin {passed[k] : k \in DOMAIN passed}
    BY <1>7
  <2> QED
    BY <1>6, <1>8, <2>1, <2>2, Kinds DEF CallInst, Asserted
<1> HIDE DEF t
<1>10. StackInv'
  <2>1. n \in 0..Len(stack)
    BY <1>1, <1>3, StackLength
  <2> QED
    BY <1>1, <1>2, <1>9, <2>1, Replaced DEF TypingInv
<1>11. t # Bad
  BY <1>2, <1>9, ScalarTypes
<1> QED
  BY <1>1, <1>10, <1>11, VisitorKeeps

\* A statement that uses the value of its expression.
LEMMA ConsumeKeeps ==
  ASSUME TypingInv, NEW results, NEW visitor, Bad \notin results, Consume(results, visitor)
  PROVE  TypingInv'
<1>1. StackInv'
  BY BoundAssumption DEF Consume, StackInv
<1> QED
  BY <1>1, VisitorKeeps DEF Consume

\* The type of the only value that a statement looks at.
LEMMA OnlyValue ==
  ASSUME TypingInv, Len(stack) = 1, Value(0).c \in Scalars
  PROVE  /\ Value(0).ir \in {I32, Float} /\ Value(0).ir = Lower(Value(0).c)
         /\ IsInteger(Value(0).ir) => Value(0).ir = I32
BY TopTyped, ScalarTypes, TypesApart DEF IsInteger

LEMMA StatementKeeps ==
  ASSUME TypingInv, ExpressionStmt \/ SelectionStmt \/ IterationStmt \/ ReturnStmt
  PROVE  TypingInv'
<1>1. CASE ExpressionStmt
  BY <1>1, ConsumeKeeps DEF ExpressionStmt
<1>2. CASE SelectionStmt
  <2> DEFINE p == Value(0).ir
             r == CondBr(IF IsInteger(p) THEN ICmpInst(p, I32) ELSE FCmpInst(p, Float))
  <2>1. Consume({r}, "if") /\ p \in {I32, Float} /\ (IsInteger(p) => p = I32)
    BY <1>2, OnlyValue DEF SelectionStmt
  <2> HIDE DEF p
  <2>2. IsInteger(I32)
    BY DEF IsInteger
  <2>3. r # Bad
    BY <2>1, <2>2, Conditions, TypesApart
  <2> QED
    BY <2>1, <2>3, ConsumeKeeps
<1>3. CASE IterationStmt
  <2> DEFINE p == Value(0).ir
             r == CondBr(IF IsInteger(p) THEN ICmpInst(p, I32) ELSE ICmpInst(p, Float))
  <2>1. Consume({r}, "while") /\ Value(0).c = "int" /\ Len(stack) = 1
    BY <1>3, NamesAssumption DEF IterationStmt
  <2>2. p = I32
    BY <2>1, OnlyValue, LoweredTypes DEF Scalars
  <2> HIDE DEF p
  <2>3. r # Bad
    BY <2>2, Conditions, TypesApart DEF IsInteger
  <2> QED
    BY <2>1, <2>3, ConsumeKeeps
<1>4. CASE /\ InFunction /\ stack = <<>> /\ returns = "void"
           /\ Emit("return", {ReturnInst(Void, Lower(returns))})
           /\ UNCHANGED <<inner, returns, params, stack>>
  <2>1. ReturnInst(Void, Lower(returns)) # Bad
    BY <1>4, LoweredTypes, Conditions, TypesApart
  <2>2. StackInv'
    BY <1>4 DEF TypingInv, StackInv
  <2> QED
    BY <1>4, <2>1, <2>2, VisitorKeeps
<1>5. CASE /\ Len(stack) = 1 /\ returns \in Scalars /\ Value(0).c \in Scalars
           /\ Consume({ReturnInst(ReturnConverted(Value(0).ir, Lower(returns)), Lower(returns))}, "return")
  <2>1. ReturnConverted(Value(0).ir, Lower(returns)) = Lower(returns)
    BY <1>5, OnlyValue, ScalarTypes, Conversions
  <2>2. ReturnInst(Lower(returns), Lower(returns)) # Bad
    BY <1>5, ScalarTypes, Conditions, TypesApart
  <2> QED
    BY <1>5, <2>1, <2>2, ConsumeKeeps
<1> QED
  BY <1>1, <1>2, <1>3, <1>4, <1>5 DEF ReturnStmt

LEMMA TypingInvNext == TypingInv /\ [TypingNext]_typingVars => TypingInv'
<1> SUFFICES ASSUME TypingInv, [TypingNext]_typingVars PROVE TypingInv'
  OBVIOUS
<1>1. CASE UNCHANGED typingVars
  BY <1>1 DEF typingVars, TypingInv, ScopesInv, StackInv, Name
<1>2. CASE TypingNext
  BY <1>2, DeclareKeeps, BeginFunctionKeeps, EndFunctionKeeps, NumKeeps, VarKeeps, ElementVarKeeps,
     AssignVarKeeps, AssignElementKeeps, BinaryKeeps, CallOfKeeps, StatementKeeps
  DEF TypingNext
<1> QED
  BY <1>1, <1>2

LEMMA TypingInvKept == TypingInv => NoAssertionFails /\ TypesAgree
<1> SUFFICES ASSUME TypingInv PROVE NoAssertionFails /\ TypesAgree
  OBVIOUS
<1>1. \A n \in DOMAIN stack : stack[n].c \in CTypes /\ stack[n].ir = Lower(stack[n].c)
  <2>1. \A n \in DOMAIN stack : stack[n] \in TypedValue
    BY DEF TypingInv, StackInv
  <2> QED
    BY <2>1, TypedValues
<1>2. \A n \in DOMAIN params : params[n] \in CTypes \ {"void"}
  BY DEF TypingInv
<1>3. Len(inner) \in 1..2
  BY DEF TypingInv, ScopesInv
<1> QED
  BY <1>1, <1>2, <1>3 DEF TypingInv, StackInv, NoAssertionFails, TypesAgree, TypingTypeOK

\* NoAssertionFails, for any globals, parameters and locals: no assertion of Type.cpp or
\* Instruction.cpp fails while the visitors of CminusfBuilder work on a program that
\* uses its names as what they are.
THEOREM AssertionsHold == TypingSpec => []NoAssertionFails
<1>1. TypingInit => TypingInv
  BY TypingInvInit
<1>2. TypingInv /\ [TypingNext]_typingVars => TypingInv'
  BY TypingInvNext
<1>3. TypingInv => NoAssertionFails
  BY TypingInvKept
<1> QED
  BY <1>1, <1>2, <1>3, PTL DEF TypingSpec

\* TypesAgree, for any globals, parameters and locals and however many values wait: the
\* type of each LightIR value is that of its expression in the source.
THEOREM ValuesTyped == TypingSpec => []TypesAgree
<1>1. TypingInit => TypingInv
  BY TypingInvInit
<1>2. TypingInv /\ [TypingNext]_typingVars => TypingInv'
  BY TypingInvNext
<1>3. TypingInv => TypesAgree
  BY TypingInvKept
<1> QED
  BY <1>1, <1>2, <1>3, PTL DEF TypingSpec
=============================================================================
