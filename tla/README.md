# Verification of the LightIR compiler

This directory holds TLA+ models of the compiler in this repository (front end
for a C-like language, the intermediate representation *LightIR*, its passes, and a
LoongArch code generator), the TLC configurations that check them on small
instances, and proofs of the central properties for TLAPS.

    tlc -workers 2 -config MCLightIR.cfg MCLightIR   # one run
    tlapm LightIR_proof.tla                          # one module of proofs

`PROJECT.json` lists the components, the runs with their properties, a fault
("slip") for every property that makes the run fail, the source lines of every
definition, the hazards of the code, the findings and the theorems.

## 1. The system

The driver (`src/cminusfc/cminusfc.cpp`) runs sequentially: parse, build the AST, let
`CminusfBuilder` visit it to make a `Module`, run `Mem2Reg` and then `DeadCode` if
`-mem2reg` is given, print LightIR or run `CodeGen`. There are no threads, no
messages and nothing is persisted: what is hard here is not concurrency but
long-lived shared state (the def-use graph, the control-flow graph, the builder's
insert point and context) which every part changes through small operations, and
fixed points and recursions over it.

| Component | State | Operations | Used by |
|---|---|---|---|
| Def-use chains: `Value`, `User`, `Use` | `use_list_` of each value, `operands_` of each user | constructor, destructor, `set_operand`, `add_operand`, `remove_operand`, `remove_all_operands`, `replace_all_use_with`, `replace_use_with_if` | everything that touches instructions |
| Control-flow graph: `BasicBlock`, `BranchInst`, `Function` | `pre_bbs_`, `succ_bbs_`, operands of branches, list of blocks | constructors and destructors, `is_terminated`, `Function::remove` | builder, `Dominators`, `Mem2Reg`, `CodeGen` |
| Types and constants: `Type`, `Module`, `Constant`, `GlobalVariable` | the maps of a module, the static caches | one request for each kind | everything that compares types |
| Command line and stages: `Config`, `main`, `PassManager` | options, file names, files | parse and check the command line, run the stages, open and write the output | user |
| Lexer, parser, syntax tree | value stack, nodes, root | one action for each rule, deletion | driver |
| `AST`, `ASTPrinter` | tree of objects | `transform_node_iter`, one visitor for each class | driver, builder |
| `CminusfBuilder`, `Scope`, `IRBuilder` | stack of scopes, insert point, `context` (`outBB`, `cur_insert_point`, `in_loop`, `is_entered`, `req_lval`) | one visitor for each class | driver |
| `Dominators` | `idom_`, `dom_frontier_`, `dom_tree_succ_blocks_`, numbering | `run`: `create_idom`, `create_dominance_frontier`, `create_dom_tree_succ` | `Mem2Reg` |
| `Mem2Reg` | `vals`, `val_bb_map`, `phi_to_val`, `stack` | `generate_phi`, `rename` | driver |
| `FuncInfo` | `is_pure`, `worklist` | `run`: `trivial_mark`, `process` | `DeadCode` |
| `DeadCode` | `marked`, `work_list`, `wait_del` | `run`: `mark`, `sweep` | driver |
| Names and text: `Function::set_instr_name`, `Module::print`, `IRprinter` | `name_`, `seq_cnt_` | naming walk, one print function for each kind | driver, `CodeGen` |
| `CodeGen`, `ASMInstruction`, `Register` | `context` (`offset_map`, `frame_size`, `tfcount`), output | `allocate`, prologue, epilogue, one `gen_*` for each instruction, `Handle_phi`, `run` | driver |
| Logging, `io` runtime | none of interest | output | |

What makes each of them correct:

* *Def-use chains*: a value's use list names exactly the operands that are this value;
  nobody keeps a pointer to a destroyed value; replacing all uses ends, although
  the loop consumes the list that its body rewrites.
* *Control-flow graph*: the two ends of an edge and the branch that makes it agree, also
  after blocks have been taken out and while the function is torn down.
* *Types and constants*: one object for one type, the one that was asked for.
* *Driver*: files change only when everything that could fail has been done, and only the one
  that was meant.
* *Parser and tree*: the tree is the source in its order; each node is freed once.
* *AST*: nothing of the source is lost when the tree is deleted, nothing is reordered; an AST is made
  of trees in the grammar of `ast.cpp` and of no others.
* *Builder*: nothing is added after a terminator; edges and terminators agree; allocas
  that are moved out of loops still dominate their uses; the context is as it was
  when the next function starts; operands have the types that the constructors assert, and
  values those of their expressions.
* *Dominators*: the fixed point is the immediate-dominator relation and the
  frontiers follow from it; the climbing loops end.
* *Mem2Reg*: every load keeps its value; the result is in SSA form; no definition is
  taken from an empty stack.
* *FuncInfo, DeadCode*: a function is called pure only if it cannot reach a side
  effect; what is observable stays; what stays has all its operands; what is
  dead goes, cycles included.
* *Names and text*: no two values of a function share a name whatever passes did between two
  walks, and the text says what the function is.
* *CodeGen*: the machine reads for each operand what the IR says it is, whatever
  was stored, called or copied in between; frames do not overlap and the way back
  survives; each emitted instruction fits its encoding; each label is found.

## 2. The modules

| Module | Models | Notes |
|---|---|---|
| `OperandGraph` | what the def-use graph promises | abstract: only who uses whom; a replacement is one step |
| `DefUse` | `Value.cpp`, `User.cpp` | implements `OperandGraph`; the loops of the two replacements are one action per turn |
| `ControlFlow` | `BasicBlock`, `BranchInst`, `Function::remove`, teardown | lists as bags next to the operands of branches |
| `Interning` | maps of `Module`, caches of `Constant.cpp`, assertions and `print` of `Type.cpp` | an address is an index into the objects made |
| `Driver` | `cminusfc.cpp`, `PassManager` | one word of the command line per step, then the stages of `main` |
| `SyntaxTree` | `syntax_analyzer.y`, `pass_node`, `syntax_tree.c` | the value stack; a sentence is given as its derivation |
| `Ast` | `ast.cpp` | the transformation and the printer as operators over trees, of the older grammar and of this parser |
| `Builder` | `cminusf_builder.cpp`, `.hpp` | control flow: a stack of visitors in progress; the tree is chosen while it is visited |
| `Typing` | `cminusf_builder.cpp`, assertions of `Instruction.cpp` and `Type.cpp` | types: a stack of the values returned |
| `FuncInfo` | `FuncInfo.cpp` | one action per function marked, taken, and per use processed |
| `DeadCode` | `DeadCode.cpp` | extends `FuncInfo`, which runs first; clearing and deleting operands are `Clear` and `Delete` of `OperandGraph` |
| `Dominance` | definitions | dominance, immediate dominators and frontiers by paths, as reference |
| `Dominators` | `Dominators.cpp`, `.hpp` | one action per turn of each loop; depth-first search with an explicit stack |
| `Mem2Reg` | `Mem2Reg.cpp` | starts from the results `Dominators` is shown to compute (`Frontier`, `IsImmediateDominator`) |
| `Naming` | `Function.cpp`, `Module::print`, `IRprinter.cpp` | names given in walks, edits between them, the text |
| `Labels` | `CodeGen::run`, `gen_fcmp` | extends `Naming`: the labels are made of its names; all have the scope of the file |
| `CodeGen` | `CodeGen.cpp` | IR and generated code in step on a byte-addressed stack |
| `Frame` | `CodeGen.cpp` | the machine instructions of the frame, executed one by one |
| `LightIR_proof`, `FrontEnd_proof`, `Builder_proof`, `FuncInfo_proof`, `DeadCode_proof`, `Dominators_proof`, `Mem2Reg_proof`, `BackEnd_proof` | theorems | `LightIR_proof` is about `DefUse`, `ControlFlow` and `Interning`, `FrontEnd_proof` about `Driver` and `Typing`, `BackEnd_proof` about `Naming`, `Labels` and `Frame` |
| `CminusTrees`, `SysYDerivations`, `CodeGenPrograms` | inputs | syntax trees, derivations and programs |
| `MC*` | instances | constants for TLC, and the compositions of section 3 |

How state and actions correspond to the code:

* **DefUse.** `uses[v]` is `use_list_` as a bag of (user, position); the order of the list matters
  only for which use is replaced next, so `ReplaceOne` takes any. `operands`
  is `operands_`. `job` is the replacement in progress, for all uses or for those a
  predicate accepts, from a client or from a destructor (`dying`). `remove_use` is
  `remove_if`: it drops all equal entries. Destroying a user clears its operands first, as
  `~User` runs before `~Value`. A value replaced by itself returns at once, so that nothing
  has to be modelled for it.
* **ControlFlow.** `living` are the blocks constructed and not destroyed, `linked` those in the list of
  the function; `pre` and `succ` are the lists as bags, since a branch may name a block
  twice; `targets` the operands of the branch, which `~Value` of a target replaces by null.
  A block can be made again at the address of a destroyed one.
* **Interning.** `base` and the `..._map_` variables are the members of `Module`, the `cached_...` the statics;
  `answer` is the request and what it returned. A map looks up by key; floats by `==`.
* **Driver.** The variables are the words (`args`, `at`), the members of `Config`, the passes run and what each file holds.
  Each stage may stop the process where the code can (`exit`, an assertion, an exception).
* **SyntaxTree.** `nodes` are all nodes ever made, `live` those not freed, `stack` bison's value stack.
  The order of shifts and reductions is bison's and given by the derivation; a syntax error
  may come at any token. `dropped` is bookkeeping: what an action left out.
* **Ast.** `Transform` has one alternative for each branch of `transform_node_iter`; `Popped` is the
  stack through which left-nested lists go. It starts from trees of the cminus grammar, whose names `ast.cpp` knows
  (`OlderTrees`), and from those that the actions of `SyntaxTree` make of the sentences of the run (`ParsedTrees`). `Text` writes
  an AST back as source: it is no code but the reference for `SourceKept`, and `original` is bookkeeping for it.
* **Builder.** `calls` holds the visitors in progress with their locals, so that an action is the
  code between two `accept` calls. Blocks are numbered in order of creation; a name
  is bound to the block its alloca is in. `watched` is one pair (alloca, use), any of those
  that occur. A `while` with a float condition stops the compiler (the assertion
  in the constructor of `ICmpInst`), hence the guard of `BeginBody`.
* **Typing.** The same visitors again, seen through types alone: an element of `stack` is a returned value
  with the type `c` its expression has in the source, which no code computes, and the
  type `ir` of its LightIR value. A constructor is an operator that yields `Bad` when its assertion fails.
* **FuncInfo.** The names of its initial state and steps start with `Info`, since `DeadCode` extends it. `is_pure`, `worklist` are the members; `todo` and `pending` are the iteration of
  `run` over functions and of `process` over uses. The order of uses is arbitrary.
* **DeadCode.** `mark` and `sweep` are split where the code loops: `MarkFunction`, `MarkInstruction`,
  `Sweep` (collects `wait_del`), `Unlink` and `Erase` in any order (an unordered set),
  `SweepDone`. `work_list` is a set: only the marks, not their order, have an effect.
* **Dominators.** `node`, `int_to_bb`, `visited`, `idom` are the members; `finger1`, `finger2`,
  `runner`, `k`, `todo` the locals.
* **Mem2Reg.** A variable stands for its alloca. `stack` and `known` are the map and its
  keys; `frames` the calls of `rename`; `latest` what a load was replaced by. Children are
  visited in any order (a `std::set` of pointers). `back()` of an empty vector is `Garbage`.
  The actions `Run...` are the meaning of LightIR before and after the pass.
* **Naming.** `body` is a function as one sequence, `seqCnt` and `name` the members, `seq` the map of one walk.
  `Edit` puts a phi at the start of a block or takes an instruction out. The text is a
  record per line; an operand in it is what `print_as_op` makes.
* **Labels.** `labels` and `refs` are the labels and references of the output in order; a label is the tuple of
  its parts, and two labels with the same parts are the same symbol of the assembly file, in whatever functions they stand. A name
  of the language is letters and digits (`syntax_analyzer.y:299-301`), so that it may spell the label `exit<n>` of a comparison
  and no other label: `Symbol` says which names do.
* **CodeGen.** An action runs one IR instruction twice: on `env`/`cells` as IR, and on `mem`/`a`/`fa`
  as the emitted code does. Temporaries are loaded and used within one instruction and
  are not state. The result of arithmetic is a token that changes from turn to turn
  in a loop, so that a stale slot is noticed.
* **Frame.** `code` is what was appended for the IR instruction at hand, executed on `regs` and memory; `goal` is
  what it is for. Values are whole here, since their widths are the business of `CodeGen`.

## 3. The runs

Components that share no state but belong to one stage are checked in one run. Its module
(`MCLightIR`, `MCFrontEnd`, `MCBackEnd`) has a variable `part` that is chosen at the start: a behaviour
is a behaviour of that part, with the others idle, so that the state space is the
sum and not the product. Each part keeps its own initial states and actions. A property proved in section 4 is checked
as the component states it, and holds of an idle part as of its initial states; a property that is checked only
is stated for its part.

| Run | Instance and bounds | What it shows |
|---|---|---|
| `light_ir` | *chains*: two users, two other values, two operands each, replacements of all uses or by predicate; *operands*: one user with three operands; *blocks*: three blocks that may be made again; *types*: two made on request, arrays of two lengths, one parameter; *constants*: two modules, two integers, both zeros and NaN | `DefUse` implements `OperandGraph` in every mix of the operations; lists of edges agree through removal and teardown; one object for each type and constant |
| `front_end` | *driver*: command lines of up to five words; *tree*: five derivations with every shape of rule, one comment, a syntax error anywhere; *ast*: 807 trees of the older grammar with every kind of node, lists of up to three, and the trees of the five derivations; *types*: one function with two parameters, a global and a local, three values waiting | files change as meant; the tree keeps the tokens and is freed; a tree of the older grammar has an AST that keeps the source, one of this parser has none; no assertion about types fails |
| `builder` | seven blocks, six visitors in progress, one expression with operands at a time, an int local and an array parameter | graphs are well formed |
| `dead_code` | *calls*: `main`, a declaration and two bodies, all call patterns, recursion, local and global accesses; *phis*: nine instructions in the same functions, phis that use each other, calls of pure and impure functions, local and global stores | purity marks are exactly reachability of an impure function; all observable instructions stay, nothing dead stays; worklist and rounds end |
| `dominators` | every connected control-flow graph of four blocks with at most two successors, up to renaming | results equal the path definitions in `Dominance` |
| `mem2reg` | four graphs of five blocks (two ifs, loop with if, nested loop, if with loop), one or two variables, all placements | loads keep values on every path |
| `back_end` | *text*: a module with every kind of instruction, two phis that passes may put in and three instructions they may take out, any number of prints before the labels are made, one function that compares floats and a global called `exit2`; *values*: loops and calls with parameters of one register class (up to three), arrays, 256 bytes of stack; *frames*: frames of 32 to 4128 bytes, constants at every limit, two activations | names, text, labels, values and encodings |

The bounds contain what the properties are about: two users and two operands give a value
used twice by one user and once by another, three operands a removal with two to shift;
three blocks a self-loop, a pair and a bystander; four blocks are the smallest graphs that
are irreducible with three nodes besides the entry, for which more than one round
is needed; five blocks allow a join after a join and a loop in a loop; seven blocks an `if`
with `else` in a loop with room for a subscript; three values are the operands of an operator
and the value that waits below; five words an option, `-o` with its file, the input and one
too many; a loop turn in `CodeGen` gives a phi of both predecessors and a second call
over the leftovers of the first; the frames lie on both sides of 2048 bytes, as do
the offsets of slots. Deadlock is checked in no run: every part ends or stops at its bounds.

Every property fails under a slip of the code that is defined next to the definition it
replaces (`PROJECT.json`, "mutants"). Type invariants are conjuncts of the properties of
some modules (`FingersMeet`, `RenamingSound`, `FunctionWellFormed`, `TypesAgree`, `FilesKept`, `CallerRestored`); those of
the others are proved (section 4).

**Fairness.** The program is sequential: each specification with a liveness property
assumes `WF_vars(Next)` (for `DefUse`, weak fairness of the loop only, since clients need
not call anything), that is, a loop that can take its next turn takes it.
The other modules state none, as no liveness is claimed of them.

### Where the code departs from what it says

Five runs show a disagreement; each checks one property with the programs that
meet the case, which the passing runs leave out by a named condition:

* `dominators_unreachable`: `create_dominance_frontier` does not end when a join has an unreachable
  predecessor. The builder makes one for an `if` whose two arms return inside a loop.
  (`Dominators.cpp:61`)
* `mem2reg_unassigned`: a variable stored in one block only, loaded where that store does not
  dominate: the load is replaced by `back()` of an empty vector, or it stays while
  the store is erased. `Handled` in `Mem2Reg` is the condition under which the pass is right.
  (`Mem2Reg.cpp:67`, `118`)
* `labels_of_comparisons`: `tfcount` starts at zero in each function, and the labels of a comparison of floats do not have the
  name of the function: when two functions compare floats, the file defines `true_label0` twice, which an assembler
  refuses. (`CodeGen.cpp:429-437`, `CodeGen.hpp:83`)
* `codegen_swap`: phi copies are made one after the other; `t = x; x = y; y = t;` in a loop reads a
  value that is overwritten. (`CodeGen.cpp:529-555`)
* `codegen_float_locals`: a float local has four bytes reserved, is put eight below its slot and
  written with eight: it meets its neighbours. (`CodeGen.cpp:307`, `349`)

The models show more of them when the named condition is widened; the passing runs hold
under it:

* `CodeGenPrograms!MixedCall` as `Programs`: argument registers are counted together by the caller and
  apart by the callee (`CodeGen.cpp:457`, `181-188`); `OperandsRead` fails.
* `RemovesTwin = TRUE`: `remove_operand` of one of two equal neighbours loses the use of the one that
  stays (`User.cpp:35-38`); `UsesMatchOperands` fails. Nothing in the repository calls it.
* `LoopConditions` with `"float"`: a `while` over a float compares it as an integer and the constructor
  aborts (`cminusf_builder.cpp:306`); without `NamesAssumption`, `NoAssertionFails` fails. It fails, too, when `Locals` has
  `neg_idx_except`: the runtime function is found by its name, which a variable can hide (`:374`).
* A frame of 2048 bytes among `Frames` of `MCBackEnd` gets an epilogue whose immediate does not fit
  (`CodeGen.cpp:194` tests minus the size and emits plus the size), and so does the space of a local array
  of more than 2048 bytes (`:309` tests nothing); without `FramesSupported`, `Encodable` fails.
* A function or global called `exit0` and one comparison of floats define the same label (`CodeGen.cpp:437`): with
  `Symbol` of `MCBackEnd` mapping `y` to `<<"exit", 0>>`, `ReferencesResolve` fails.
* The action of a rule `FuncFParam , FuncFParams` leaves its third symbol out, and rules with an empty action
  keep their first (`syntax_analyzer.y:187`, `359-396`): parameters after the first and the digits
  of a fraction are not in the tree. `RestInTree` speaks of the tokens that are not `dropped`.
* After a syntax error `parse` returns a tree whose root was never set (`syntax_analyzer.y:431`), and its
  callers read it: `root` is `Garbage` then, and `UseTree` is what comes next.
* The grammar makes trees of SysY, while `transform_node_iter` knows the names of the older cminus grammar:
  on every tree of this parser the transformation aborts (`syntax_analyzer.y:107-115`, `ast.cpp:360-362`). `AstComplete` says so
  (`ParsedRefused`), and what the transformation does on the trees it is written for.

## 4. The proofs

For all values of the constants, from the assumptions named in the modules, which TLC evaluates in the runs:

| Module | Assumptions |
|---|---|
| `DefUse` | users are values, `Null` is none, `MaxOperands` is a natural number (`UserAssumption`, `NullAssumption`, `MaxOperandsAssumption`, `FiltersAssumption`, `RemovesTwinAssumption`) |
| `ControlFlow` | `NullBlock` is no block (`NullBlockAssumption`) |
| `Interning` | `BoundsAssumption`, `ModulesAssumption`: a bound is a natural number, `nullptr` is no module |
| `Driver` | a word has a part, and a command line is a sequence of words (`CommandLinesAssumption`) |
| `Typing` | the bound is a natural number and parameters are a sequence (`BoundAssumption`); loop conditions are ints and no name of the function hides `neg_idx_except` (`NamesAssumption`; section 3 shows what happens otherwise) |
| `Builder` | bounds and the number of blocks are positive (`BoundsAssumption`, `NAssumption`), locals are scalars or arrays (`NamesAssumption`) |
| `FuncInfo` | there is a `main`, functions are no instructions (`MainAssumption`, `DisjointAssumption`) |
| `DeadCode` | functions, data and instructions are apart, and the instructions finitely many (`DeadCodeAssumption`) |
| `Dominance`, `Dominators` | there is a block (`NAssumption`); no block has more than two successors, since LightIR has no other branch, and none of them is the entry, to which no statement of the source leads back (`GraphsAssumption`) |
| `Mem2Reg` | the stored value of a store is the result of a load further up the block, or of none (`ProgramsAssumption`) |
| `Naming` | a value is in one function (`ProgramAssumption`), `NoName` is no name (`NameAssumption`), bodies start as the builder leaves them (`StartAssumption`), instructions name no parameters or blocks of other functions (`OperandsAssumption`) |
| `Frame` | `FramesSupported`: constants are ints, local arrays have at most 2048 bytes, frames are not of 2048 bytes (section 3 shows what happens in these two cases) and their size is an int |
| `Labels` | the globals are finitely many and no functions, and a function is in the list once (`GlobalsAssumption`); names differ and spell no label but `exit<n>` (`SymbolAssumption`) |

The arguments:

* **DefUse** (`LightIR_proof`). `ChainsInv` is `TypeOK`, `JobOK` (the target of a replacement in progress
  exists and differs from the replaced value), `DeadEmpty` (a destroyed user has no operands), and the two
  invariants. They are needed together: that a destroyed value leaves no operand
  behind follows when the loop ends because its use list is empty *and* use lists match
  operands. `Refinement` maps a graph in which a replacement is in progress to the one
  after it (`operandsBar`): the client's call is the abstract step, the turns of the loop stutter.
  All but the type theorem assume `~RemovesTwin`, without which they are false.
* **ControlFlow** (`LightIR_proof`). `BlocksInv` is the type invariant with the three properties: that a
  destroyed block is named by no living branch needs that the lists of its predecessors
  agree with their branches, and that lists stay in the function needs that removal edits both ends.
* **Interning** (`LightIR_proof`). `KnownInv` says that each object made is in its map under the key of its own parts
  (`PointerKnown`, `ArrayKnown`, `FunctionKnown`) or in `base` (`SimpleKnown`); two equal objects then have one key
  and so one address, which is `TypesUnique`. `AnswerInv` is the converse, and adds the caches of constants: what a
  map holds under a key is made of that key, so that an answer that was found is as right as a new one. For floats
  this uses that a key is found only by a number `==` to it, and is never found by NaN.
* **Driver** (`FrontEnd_proof`). The reference for the command line, `IsValue`, counts the `-o` before a word; the code looks at
  one word after the other. Both agree since a word is a value exactly if it follows a `-o` that is none (`ValueRule`; the
  run of `-o` before a word has one length, `RunExists`, `RunUnique`). `ConfigInv` says that `Config` is what the words before
  the next one say, that the next one is no value, and that the output is given by a `-o` or made from the input.
  `FilesInv` says that a file that has changed is the output and all passes have run. An output made from the input ends in
  `ll` or `s` and so is not the input, which ends in `cminus` (`DefaultNotInput`): hence `SourceSurvives`.
* **Typing** (`FrontEnd_proof`). Few types can occur. Lemmas say of each what the constructors and conversions make of it
  (`PointerTypes`, `LoadedTypes`, `IndexedTypes`, `Conversions`, `Conditions`). `TypingInv` is inductive: nothing has failed, a scope
  binds a name to nothing, a function or a variable whose type is the pointer to that of its source (`ScopesInv`), and each
  waiting value is typed (`StackInv`). That `neg_idx_except` is always found needs that it is bound in the outer scope and not in the
  inner one.
* **FuncInfo** (`FuncInfo_proof`). `LostInv` is at the centre: of an impure function and a caller that still counts as pure, the first is
  waiting, or the use by the second is being processed (`NothingLost`). At the end nothing waits, so the impure
  functions are closed under callers; `SeedInv` adds that those impure by themselves are among them, and `SoundInv`
  that all of them reach such a one, which gives both directions of `PureMeansNoImpureCallee`.
* **DeadCode** (`DeadCode_proof`). `IInv` follows the kept instructions: they use kept instructions only
  (`DefsInv`), the doomed ones belong to the function in progress (`DoomedInv`), marks are closed and
  contained in every sufficient set (`MarkInv`), and in functions already swept all is
  needed (`SweptInv`). The last one gives `NoDeadLeft`: one sweep of a function is enough,
  the second round finds nothing. `ObservableKept` compares what is doomed with the program
  as it was: `FuncInfo` runs before the first round only, and its result is used in all of them. `PurityInv` says that
  it stays closed under what the kept instructions do, since sweeps clear operands of doomed ones only,
  and that a call of a function that reaches an impure one is therefore critical in every round.
* **Dominators** (`Dominators_proof`). The depth-first search numbers the blocks so that every block but the entry
  has a predecessor with a higher number (`DfsInv`): this is why the iteration always finds a first
  predecessor. At every moment of the iteration `idom` is a tree in which numbers grow towards the entry, and
  what strictly dominates a block dominates, or is, the block above it in the tree (`Tree`, `Iteration`): no dominator is ever
  lost, and the fingers of `intersect` climb to the nearest block above both. When a round changes nothing the
  blocks above a block in the tree are above its predecessors too, so that they dominate it, and
  `IdomCorrect` follows. That the fixed point is unique is not needed. `FrontierInv` says which blocks the
  frontiers have got so far: those up to the block at hand, and of its predecessors up to the runner.
* **Mem2Reg** (`Mem2Reg_proof`). Under the hypothesis that every program is `Handled`: a store comes before every
  load, on every path when a single block stores to the variable (which then gets no phi), on some path
  otherwise. Without it the theorems are false (`mem2reg_unassigned`). First dominance alone: of the
  definitions of a variable (stores and phis) that dominate a point there is a last one, and along an edge it is the
  same one unless the block entered has a phi, because a block where two of them meet is in the frontier
  of one. `PlaceInv` says that `generate_phi` closes the phis under frontiers. `WalkInv` says
  that the calls of `rename` in progress are a path of the dominator tree and the part
  of each stack that a call found ends with the last definition above its block (`StackInv`, by the heights at which
  the calls found it): a stack is then never empty when it is read, and is
  given back as it was. Hence `LatestInv` and `OperandInv`: loads and operands of phis get the last definition above them.
  `RunInv` runs the function before and after the pass in step along one path: memory holds what the last
  definition has in the rewritten function, which is `SameValues`.
* **Naming and Labels** (`BackEnd_proof`). A new name has the number `size of the map + seq_cnt_`. It is new because the numbers given
  are always those below this sum (`NumbersDense`), which edits between walks do not touch, and
  because the map holds named values of this function only (`MapNamed`). For `ReadBack` a body is `Sound` as long as
  operands are in it and phis have operands from predecessors; an edit changes it in one place (`Splice`), and
  `BodyInv` says that no edit breaks it. `WalkInv` says that the walk has named everything up to where it
  is, `TextInv` that a text is what would be printed now. With `NamesDiffer` each operand of the text then leads
  back to one definition. For `LabelsDefined` and `LabelsDistinct` the invariant says what has been emitted: labels have one of four
  forms (`KindInv`); a reference is to a label that is there, to a function, or
  to a block still to come (`RefInv`, `BlockInv`, `CalleeInv`), which gives `LabelsAlwaysDefined` for every program. That labels differ
  is true of programs with `NoClash` only (`LabelsResolve`): one function at most compares floats (`OneFunctionCompares`) and no name spells
  `exit<n>` (`NoExitNames`). Then labels of different values or functions differ because their names do (`UniqueInv`) and those
  of comparisons by the counter (`CountInv`).

* **Builder** (`Builder_proof`). `ShapeInv` is the shape of the stack of visitors: which visitor may be above which
  (`CallInv`), what `context` is for each of them (`ContextInv`), and that the scopes above the global one
  belong to visitors in progress, in their order (`Owners`). With it a visitor gives back what it found, and `ContextRestored` is the
  case of the empty stack. `GraphInv` is about the blocks: lists and terminators agree (`BlockInv`); a block
  without a terminator is the insert block, or exactly one visitor waits to end it (`OpenInv`); and what a visitor
  will branch to is newer than what those below it will (`TargetInv`), which is why no two of them end one
  block. `NeverPastTerminator` and `FunctionWellFormed` follow. For `AllocaDominatesUse` the blocks created since a visitor
  began are a region that is entered from one block only (`Region`), as all branches from outside go to targets
  of visitors below. `DominanceInv` says that a name is bound to the block from which the region of its scope is
  entered, so that no path to what is inserted in it misses the alloca.
* **Frame** (`BackEnd_proof`). First the layout (`FrameLayout`): the integer, the pointers and the arrays lie between the saved
  registers and the end of the frame, whatever the arrays; the offsets are a recursion over them, and the least one for which they
  would not grow leads to a contradiction. Then the code: what is emitted for an IR instruction is one of a few sequences, each of which is written as an
  instruction `Then` the rest, and `Stage` says after which of its instructions the machine is and what is in
  the registers there. The other parts of `FrameInv` are that activations lie below each other (`Layered`) and that their
  saved registers are in memory (`Saved`), which a store may not touch. There is one lemma for each kind of instruction; the
  12-bit, the `addi` and the `lu12i`/`ori` paths are cases of `ConstantAt`.

Only model-checked: all liveness (termination of each pass, of replacements), which the prover does not
reach; `PrintsApart`, whose `Text` is defined by recursion over the parts of a type; `CodeGen`, whose `OperandsRead` holds of
programs that define what they use, store before they load, keep pointers within their arrays and avoid the parallel
phis, float locals and mixed parameters of section 3's violated runs, so that it would need a type system for the IR's
memory and a data flow analysis as hypotheses; `SyntaxTree` and `Ast`, which are recursive over trees and need
induction over data. Where a proof here needs induction over numbers (heights of the tree, the last definition
above a point), it takes the least counterexample instead, whose existence the library proves as a fact about sets.

## 5. Not modelled

* `ConstantArray`, `num_node` and `dom_edge`: no caller in the repository.
* The patterns of the lexer and the tables of the parser, which flex and bison generate: a token and a
  derivation are given.
* Values of literals (`stoi`, `stof`, digits in the text), wording and layout of LightIR and assembly,
  exact arithmetic and rounding, folding of initialisers of globals, the printing of global variables.
* A call with more than eight arguments: `Register.hpp:40` aborts, and `Call` of `CodeGen` has it as a guard.
* The logger and the runtime library `io`, which only read and write.
* Crashes, retries and lost messages: the compiler is one sequential process without any of them; what a process
  that stops leaves behind is in `Driver`.

## 6. Plan

1. Done: all components have a module, but for the runtime library. Proofs for `DefUse`, `ControlFlow`, `Interning`,
   `Driver`, `Typing`, `Builder`, `FuncInfo`, `DeadCode`, `Dominators`, `Mem2Reg`, `Naming`, `Labels`, `Frame`.
2. Extend: `Mem2Reg` followed by `DeadCode` on one program, with the phis of null type; two functions in one module in
   `Builder`; arrays of floats and mixed parameters in `CodeGen` once the code agrees with itself.
3. Prove: in `CodeGen`, that operands are read where they were put, from a layout as in `Frame` and such an analysis.
