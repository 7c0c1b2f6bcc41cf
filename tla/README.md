# A verification project for the TKM interpreter

TKM is a small imperative language with function values; this repository is its
interpreter in C++: source text → lexer → parser → syntax tree → tree-walking
interpreter. The modules here model each of them, and a run of the whole program. The
documentation of the language (`docs/TKOM-dokumentacja-końcowa.md`) serves as its
specification, stage by stage: `Lexemes`, `Grammar` and `Reference` say what it says.
Paths below are relative to the repository.

## Inventory

| Component | Sources | State | Operations | What makes it correct |
|---|---|---|---|---|
| Interpreter | `src/interpreter/interpreter.cpp`, `include/interpreter.hpp` | `_tmp_result`, five flags (`_is_returning`, `_condition_met`, `_inside_loop`, `_on_continue`, `_on_break`), the environment, the C++ call stack | one `visit` per node, `_execute_main`, argument lists, conditions, loop entry and exit | the flags steer execution exactly as structured control flow; `_tmp_result` carries one result to the one that asked; scopes and frames balance on every way out |
| Callables | `global_function.cpp`, `composed_function.cpp`, `bind_front_function.cpp`, `builtin_functions.cpp` | a definition, two functions, a function with bound arguments, a C++ function | `call` | arguments by reference keep the rights of the declaration; the result has the declared type |
| Environment | `environment.cpp`, `call_frame.cpp`, `scope.cpp`, `variable.cpp` | registered functions, a stack of frames of scopes of holders, shared variables | register, call, exit, add and pop scope, declare, find, define check | lookup finds the innermost declaration of the current frame; variables stay typed; constants stay constant through references |
| TypeHandler | `type_handler.cpp`, `type.cpp`, `type.hpp` | none | comparisons of types, conversions | static typing by run-time checks |
| OperHandler | `oper_handler.cpp` | none | arithmetic, comparison, logic, composition, bind front | exact or an error, total order, typed function values |
| Syntax tree | `expression.hpp`, `statement.hpp`, `program.hpp` | immutable | – | – |
| Parser | `src/parser/parser.cpp`, `include/parser.hpp` | the token ahead, the C++ call stack | one function per construct, each called again for what is nested | the tree is the one the grammar gives; a text is refused only if nothing that may follow makes it a program; a function that gives nothing has taken nothing; every text is parsed or refused |
| Lexer, SourceHandler, Position | `src/lexer`, `src/source_handler`, `src/position` | one character ahead and its position, the position of the next | next token | the longest lexeme at each place, its value and position exact; limits of numbers, words, strings, comments |
| Command line | `main.cpp`, `core/cli_app.cpp`, `core/safe_exec.cpp` | the three components it owns | construct them, parse, accept, report the exception | nothing runs of a text that is refused; every run ends in its report |
| Exceptions | `exceptions.hpp`, `exceptions.cpp` | a position, a message | – | the class decides what is reported |
| Decorators, printer | `logging_lexer.cpp`, `verbose_parser.cpp`, `printer.cpp` | none | output | – |

Interactions: the parser pulls tokens from the lexer, which pulls characters from
the source handler; the interpreter visits the tree, calls callables, and these
visit the tree again through the interpreter they are given. There is one thread
and no persistence. What is hard is not concurrency but re-entrancy: the flags and
`_tmp_result` are single fields of an object whose methods call each other
recursively, and a variable may be reached through holders of several frames with
different rights. The parser shares one token in the same way, among functions that
call each other recursively and tell by it what to do next. The hazards of `PROJECT.json` are mostly of that kind.

## The modules

| Module | Models | Correspondence |
|---|---|---|
| `TypeHandler` | types, values, holders, the checks of types | a value carries its type; a `VariableHolder` is the index of its variable in a store and the right `can`; an `opt_vhold_or_val` is `Nothing`, `ValueArg` or `HolderArg` |
| `Ast` | the nodes | the field `do` is the name of the node |
| `OperHandler`, `Conversions` | operators, `as`, built-in functions | an operator gives the set of its possible outcomes, one but for undefined behaviour and `input` |
| `Environment` | the environment | methods as unguarded operators; `Next` is the protocol: each method with the checks its caller makes |
| `EnvironmentProofs` | theorems about `Environment` | |
| `Operators` | two operands of the operators | what the operators must yield, mathematically |
| `OperatorProofs` | theorems about `Operators` | |
| `Interpreter` | all `visit` and `call` methods | the C++ stack is the variable `stack`; one action per stretch of code between two recursive calls; an exception sets `status` |
| `Trees` | the classes of nodes | one assumption, `ProgramsAreTrees`: the children a node may have |
| `SequenceLemmas`, `InterpreterLemmas` | lemmas on sequences, on the values that operators yield, on what the items of `stack` owe | |
| `InterpreterProofs` | theorems about `Interpreter` | |
| `RefinementProofs` | theorems about `Interpreter` as an implementation of `Environment` | |
| `Reference` | the meaning of a program, from the docs | big-step, recursive; return, break and continue are outcomes, not flags; the environment is a map handed down |
| `Lexer` | `Lexer`, `SourceHandler`, `Position` | `building` holds the local variables of the builder in progress; one action per iteration of its loops; the token type of an operator is its first character, that of a keyword is `"KEYWORD"`, the rest is the value |
| `Lexemes` | the lexemes of a text, from the docs | declarative: which strings are lexemes, and the longest at each place |
| `LexerProofs` | theorems about `Lexer` | |
| `Parser` | all parsing functions | a function is a sequence of steps (test the token ahead, read the next, call, throw, combine what was parsed); `stack` is the C++ stack: for each call its steps to do and what it has parsed; one action per kind of step. `Gives` is the lexer: pairs of a token and what is left to give |
| `TokenFeeds` | `ILexer::get_next_token` | one assumption, `LexerGivesTokens`: whatever the lexer has left to give, it gives a token and has something left to give |
| `ParserProofs` | theorems about `Parser` | |
| `Grammar` | the trees of a sequence of tokens, from the docs | declarative: a symbol derives a sequence that can be cut into parts its own parts derive; ambiguity would show as two trees |
| `App` | `CLIApp`, `run_safe` | instances of `Lexer`, `Parser` and `Interpreter` side by side; the parser's call of the lexer, the delivery of its token, the acceptance of the program, the report |
| `MCEnvironment`, `MCLanguage`, `MCCalls`, `MCOperators`, `MCLexer`, `MCParser`, `MCApp`, `MCFindings` | instances | `MCPrograms` holds the concrete syntax and `AgreesWithReference`; `MCControl`, `MCHigherOrder` and `MCJumps` hold sets of programs that `MCLanguage` extends |

`Interpreter` instantiates `Environment`: its actions call the methods as
operators, the run `calls` checks that it implements the protocol
(`EnvImplemented == Env!Spec`), and `RefinementProofs` proves it. `Interpreter` and `Reference` share the operators
and the comparisons of types, not the control, nor the environment; those shared
parts are checked on their own in `Operators`.

`App` is composed of the same three modules that have runs of their own, each with its
variables renamed (the status of the lexer is `lexing`, that of the parser `parsing`, that
of the interpreter `running`), so that one behaviour goes from the first character to the
report. `TokenOf` is the one place where a token of `Lexer` becomes one of `Parser`.

Definitions with a comment that begins with "Slip" are plausible mistakes, one for
each property of a passing run; they are used by no specification and exist to
show that the property notices them (`mutants` of `PROJECT.json`).

Abstractions: text is made of whole strings, and which of them spell numbers is a
table of the instance, and no text holds the byte `\x03`, which the lexer takes for its end
(`EOF_CHAR`, `constants.hpp` 3); floats are exact fractions, infinities and NaN,
without rounding, overflow and the sign of zero; positions and messages are left out. Undefined behaviour is the set of
what the build may do: `(int)` of a double out of range may give any int, the
smallest int divided by -1 traps (status `SIGFPE`), its negation leaves it as it is,
and an int literal that overflows wraps around.
A freed variable is one that no holder reaches. The depth of recursion of the C++
stack is not bounded.

## The runs

Every program of an instance runs to its end: the bounds of the runs are their
sets of programs, each small enough that no counter needs a bound.
`lexer`, `parser` and `app` run every text to its end or its error. `Environment` as used by `Interpreter` has the bounds 1000, never reached.

| Run | Instance | Shows |
|---|---|---|
| `environment` | two frames of two scopes, two variables, two names, three types | types, references and constants in the bare protocol; two frames and two scopes are the least in which a reference is passed, hidden and assigned through |
| `language` | 1125 fillings of a loop with if, else if, else, in a function that is called; 2033 programs of expressions: compositions and bindings of function values, one that ends without its value among them, with several argument lists, programs with one fault, or with one operator or conversion on two operands; 450 programs of jumps: a return, a break, a continue or none, alone, in an inner loop or in a branch, in a loop whose body, inner loop, else or update calls a function that does one of these in a loop or outside any, and compositions of such functions | the flags behave as structured control flow; scopes balance; every loop ends; function values are typed, bound by value, called in frames of their own, also after the scope of the variable they were bound to; a missing value is an error wherever the reference says so; each error is raised where the reference raises it, after the same output. Of the jumps, some of which depart from the documentation: scopes and frames balance and no break or continue is pending without an open loop, whether or not they depart; until they do, a return ends its call and a break its loop, whatever is nested in it or called from it, and the flag of loops is accurate |
| `calls` | 222 programs: by reference, by value, recursive, shadowing, returning from a loop, with a later argument that changes the variable an earlier one refers to | results are typed values, references in flight are valid, constants keep their value through every program; the programs are trees as `Trees` assumes; the interpreter keeps to the protocol of `Environment`, so that the theorems apply to it |
| `parser` | in the body of a function: any two of 12 operators, one per level, with at most 5 operands and operators; any 5 pieces of lists of arguments, calls and bindings; any 4 of names, `=`, parentheses and `;`; any 4 branches of an if; and six whole programs that hold every construct, with any one token left out, replaced by or preceded by one of seven others, or the text cut off there | the tree is the only one of the grammar; a refusal is never wrong, at the token where it happens; no token is lost by a function that gives nothing; recursion follows nesting; every text ends |
| `app` | 196 programs as texts: eight beginnings (correct, and one error for each component) before each of 23 continuations, and 12 texts that are empty, cut off or have something after the end | what is printed and reported is what `Lexemes`, `Grammar` and `Reference` make of the text one after the other; the errors of the three components in every order |
| `operators` | ints of -10..9 and samples of the other types, infinities and NaN among them | exactness, order (and what NaN does to it), truncation, what conversions keep, rounding |
| `lexer` | all texts of at most five characters over six alphabets (words, numbers, operators, strings, comments, line endings) | the tokens are the longest lexemes with their positions and values, an error exactly where there is none; the limits of the instance (4 for words, 2 for strings, 3 for comments, 17 for ints, 15 for fractions) are reached and exceeded; the last digits of the two number limits are those of the real ones |

The width of int is a constant (`MaxInt`), 9 in the instances: the code compares
with the bounds symbolically, and a small width puts every pair of operands within
reach.

The passing instances stay away from the places where the code is known to depart
from its documentation, but for the programs of `MCJumps`, which go there on purpose: of these
`language` claims only what survives (`AgreesUnlessJumping` and `NothingLeftUnlessJumping` set them
aside). Five of those places have a run of their own that must fail, on one small program
or text:

| Run | Property | What happens |
|---|---|---|
| `inside_loop` | `InsideLoopIsAccurate` | the end of an inner loop clears the flag for the outer one |
| `branches` | `BranchesAreExclusive` | else runs after a taken else if that contains an if, a loop or a call with one |
| `composition` | `CompositionCallsBoth` | the second function stops after one statement |
| `callee_break` | `LoopStatementsHaveALoop` | the break of a function without a loop is not refused but acts on the loop of its caller (`interpreter.cpp:162`) |
| `int_literal` | `IntNeverWraps` | a literal one above the largest int is accepted and wraps around |

More departures from the documentation were read in the code. They have no run that fails;
where a passing run would meet one, it says so:

- a program that begins with a comment is refused, since the parser's constructor takes the
  first token past the loop that leaves comments out (`parser.cpp:3`); the docs (lines 124-125)
  let a comment begin anywhere. `RunsAsDocumented` lets such a text be refused;
- a function type after `mut`, of a variable or of a parameter, is refused by
  `std::invalid_argument` (`type.cpp:90`, through `parser.cpp` 639 and 744), which is none of the
  parser's exceptions and has no position; the grammar of the docs (lines 422, 486) has it.
  `MutableFunction` in `Grammar` names these texts: `parser` and `app` have some, `GivesTheTree` and
  `RunsAsDocumented` demand that they are refused, and `RefusesNoProgram` that this exception is for
  them only;
- the update of a loop runs with `_on_continue` still set after a continue, so that a
  function it calls stops after its first statement (`interpreter.cpp:180`);
- a function that ends without the value its type promises, as the first of a
  composition, reaches the error of `type_handler.cpp:52` that "should never" happen. `language` has
  such functions wherever else a value is asked for;
- a parameter takes the name of a function or of another parameter
  (`global_function.cpp:22`), which the docs (line 160) forbid for variables. The parameters of
  `calls`, where `NoNameTaken` is checked, take none;
- `as_float` gives 1.0 for `true` (`type_handler.cpp:144`), the docs say 0.0 (line 108), and
  `as_int` converts a float that no int can hold without an error (`type_handler.cpp:115`), the
  docs announce one (line 97). `CastsKeepTheValue` says nothing of these two conversions;
- what follows a comment at its limit is read as code (`lexer.cpp:308`), and a string at
  its limit is cut (`lexer.cpp:67`); the docs (line 125) let a comment go on to the end of
  the line;
- `(a) = 5;` is accepted, as an assignment to the variable with the empty name
  (`parser.cpp:266-291`), and `for (mut i: int = ...` too (`parser.cpp:294-306`): neither
  is of the grammar of the docs (lines 426 and 433). `Tolerated` in `Grammar` names both;
- `function<int:function<int:int>>` is refused, for the lexer takes `>>` as one operator
  (`parser.cpp:724`); a space between the two helps. The grammar (line 485) knows no such
  exception;
- the table of priorities in the docs (lines 48-49) puts `==` above `<`, their grammar
  and the code do the opposite. `Grammar` follows the grammar;
- the int part of a float may not begin with a zero unless it is one
  (`lexer.cpp:111`), the grammar of the docs (line 475) lets it.

The model follows the code in each. `AgreesWithinLimits` sets aside the texts in which
a string or a comment goes beyond its limit; `lexer` has no literal between the largest
int and the next multiple of ten, the place of `int_literal`.

In `parser`, `GivesTheTree` sets aside what `Tolerated` names; `app` has no text in which
the two would show.

Fairness: `FairSpec` of `Interpreter` and of `Parser`, and `Spec` of `App`, add
`WF_vars(Run)`, for termination (`Terminates`, `EndsInReport`). The program is a single
thread; what it does next is always enabled until it ends, and waits for nothing but
`input` and the characters of the source, which the operating system gives.

`Stopped` lets a finished program stutter, so that TLC's deadlock check stays on
and shows that no program gets stuck: every combination of a node and a state of
the interpreter, of a step and a token of the parser, has an action or an exception.

## What is proved

### Environment

`EnvironmentProofs` proves, for any names, types, values, built-in functions and
bounds, from the assumptions that values have one of the types, that `none` is not a
type, that the built-in functions are values under known names and that the bounds
are naturals:

- `TypeCorrect`: `Spec => []TypeOK`;
- `StoreIsTyped`: a variable always holds a value of its declared type;
- `HoldersAreConstCorrect`: no holder dangles or may change a constant;
- `ImmutableVariablesKeepTheirValue`: `Spec => [][NoConstChange]_envVars`.

The inductive invariant is `IInv == TypeOK /\ StoreTyped /\ ConstHolders`.
`ConstNeverChanges` needs `ConstHolders`, since an assignment trusts the right of
the holder it finds; `ConstHolders` needs `TypeOK` (frames have a scope, scopes are
total) and the guard `ArgMatchesParam` of a binding, which is the only place where
a right could be gained. The lemmas follow the methods: what `AddVariable`, a
declaration and an assignment change (`AddVariableEffect`, `DeclareEffect`,
`AssignEffect`), what `FindVariable` returns (`FindVariableInTop`, from
`GreatestIndex` by well-founded induction over the naturals), and one step lemma per
invariant with one case per action.

### Interpreter

`InterpreterProofs` proves, for every set of programs, every range of int and every
table of the conversions, from these assumptions only: a program is made of the nodes
the classes of the repository can make (`ProgramsAreTrees`), the largest int is
positive (`MaxIntIsPositive`), and the names of the built-in functions are names
(`BuiltinsAreNamed`). It assumes nothing of the meaning of a program, nor that the
parser made it:

- `TypeCorrect`: `Spec => []TypeOK`; in particular each variable holds a value of the
  type it was declared with;
- `CallsAreBalanced`: `[]FramesMatchCalls`: the environment has one frame for each call
  in progress, and in each frame one scope for each block and loop in progress in that
  call, whichever way the blocks before were left;
- `CallsReturnValues`: `[]ReturnsAreValues`: the result of a call has the type the
  function promises, or there is none;
- `ReferencesStayValid`: `[]HoldersInFlight`: references among arguments and results
  lead to a variable and give no more rights than it has;
- `ConstantsNeverChange`: `Spec => ConstantsStay`, an action property: whatever chain of
  calls, by reference, composed or bound, a constant has been through, it has its value.

The inductive invariant (`Invariance`) is
`IInv == EnvironmentOK /\ StackOK /\ IsResult(tmpResult, store) /\ ResultFits /\ FlagsAreBoolean`:

- `EnvironmentOK`: what the store, the frames and the registered functions hold are
  legal values. A function value is legal if it is in a set each of whose members is a
  built-in function, one of a definition, a composition of two of the set that compose,
  or one of the set with values bound to its first parameters (`IsFunction`). The set
  takes the place of an induction over how functions are nested, which the prover does
  not have; `FunctionParts` takes a function apart and `GlobalIsFunction`,
  `ComposedIsFunction` and `BoundIsFunction` put one together. Without it nothing is
  known of the arguments a bound function hands on, nor of the types a composition joins.
- `StackOK`: every item of the stack holds arguments and nodes that it may hold
  (`AreItems`); an item is above one that can have called it (`InOrder`: an expression is
  never above a block that did not ask for it, so that `tmpResult` reaches the item that
  did); the scopes and frames each item owes are those the environment has
  (`Balanced`); and between the halves of a composition the result fits the second one
  (`HalvesFit`). `FramesMatchCalls` follows from `Balanced`, which relates every item
  to the number of scopes at its call, and not just the totals: a step that ends a call must
  know how many scopes it leaves.
- `ResultFits`: `tmpResult` is what the item on top may take, of the type of the function
  that is returning if one is. `ReturnsAreValues` needs it at the moment of the return.

The proof has one lemma per action (`...Keeps`), which rest on lemmas for the moves the
actions share: `Push`, `Become`, `Leave` (a stretch of code begins, goes on, ends),
`ScopeOpened`, `ScopeGoesOn`, `ScopeClosed`, `FrameUp`, `FrameDown`. `InterpreterLemmas` shows
what a change at the head of the stack does to the counts of calls and scopes, and that each
operator, conversion and built-in function yields a value of its type, or an error.

`ConstantsNeverChange` splits the same way: `AssignVariable` is the only action that writes
to the store in place (`OthersKeepConstants`), and it writes through a holder whose right
the invariant bounds (`AssignKeepsConstants`).

The flags are right only as long as the departures above do not occur. Three theorems say
so of properties that `language` checks, each with a hypothesis that names the moment at which a
departure takes effect and nothing else:

- `ReturnsEndCalls`: `Spec => ReturnsEndTheirCall`, that is
  `[]~ReturnEscapes => [](NoReturnPending /\ NothingLeftBehind)`.
  `ReturnEscapes` is a pending return at the call of the second half of a composition
  (`composition`), or at an if that looks for its next branch because the branch taken
  reset `_condition_met` (`branches`). In any other program a body starts with no return
  pending, and every statement finds `_tmp_result` empty;
- `BreaksEndLoops`: `Spec => BreaksEndTheirLoop`, that is
  `[]~ReturnEscapes /\ []~BreakEscapes => []NoBreakPending`.
  `BreakEscapes` is a pending break at the end of a call, that is one that belongs to a loop of
  the caller, or at an if that looks for its next branch. The first hypothesis is needed for
  the nesting of items below, which is proved together with the first theorem;
- `InsideLoopIsRight`: `Spec => InsideLoopUnlessNested`, that is
  `[]~LoopEndsInside => []InsideLoopIsAccurate`.
  `LoopEndsInside` is the end of a loop while another one is open (`inside_loop`).

The fourth has no hypothesis. `JumpsStayInLoops`: `Spec => []JumpsHaveALoop`: in every program,
departures or not, no break or continue is pending, and `_inside_loop` lets none through, once
the last loop of all calls in progress has ended. What goes wrong goes wrong within loops.

The programs of `MCJumps` go through all the departures and come to their hypotheses' limits from
both sides: in some a loop ends inside another one, in others many loops, calls and branches end
without that.

The invariant for the first is `FlagInv`: while a return is pending the item on top is one
that ends for it (`Unwinding`: the end of a statement, block, iteration, loop, if or call);
an item that may make a return pending, or pass one on, waits above an item that ends for
it (`Nested`); and `_tmp_result` is empty at every item that neither takes nor leaves a
result (`Idle`), unless a return is pending. `Nested` is what makes it inductive: it says of
the items below what the second part will need of them when they are on top. `BreakInv`
says the same of a break, over the same `Nested`. `InsideInv` is about open loops: `LoopsKept`
says of every action but the start and the end of a loop that it changes neither whether a loop
is open nor the flag (`LoopsOpenedOrClosed`), so that `LoopOpened` and `LoopClosed` are all that is
left for it, and for `JumpsHaveALoop`, which is inductive over the same lemmas. For the
actions that visit a child and resume as another item, `ChildVisited` says once what
all three need (`GoesInto`).

`RefinementProofs` proves, from the same assumptions:

- `LookupsStayTrue`: `Spec => []Kept`. Names and holders are looked up before an expression is
  evaluated and used after it, with any number of calls in between: the name a
  declaration checked is still free, the holder an assignment found is still what its name
  finds, and every reference among arguments and in `tmpResult` is to a variable that a
  frame can reach;
- `ImplementsEnvironment`: `Spec /\ []WithinInstance => EnvImplemented`: every step of the
  interpreter is a step of the protocol of `Environment`, or leaves the environment alone,
  so that the checks `Environment` leaves to its callers are all made. `WithinInstance`
  bounds what the instance bounds: values and types are among `Values` and `Types`, and there are at
  most 1000 frames, scopes and variables. The instance of the run `calls` fulfils it, with the
  built-in functions among its values, in every state;
- `NamesStayApart`: `Spec /\ []FreeParameters => NoNameTaken`: a variable never hides a
  function or another variable of its scope, unless a parameter does: parameters are
  bound without being looked up (one of the departures above).

The refinement mapping is the identity on the three variables of the environment. What
needs proof is that the guards of the protocol hold, and for these `IInv` is too weak: the guard of
`DeclareVariable` was checked when the declaration began, and between the two the
expression ran. `Kept` closes this gap. `Undisturbed` says that above an item that
remembers something its own call has nothing but expressions, which declare nothing and open no scope;
`Remembered` says of each such item that what it remembers holds in the frame of its call,
however many frames are above it.

### Operators

`OperatorProofs` proves the five properties of `Operators` for every range of int and
all operands that are scalar values (`OperandsAreScalars`), given that the instance's
order of strings names each string once (`StringsAreOrdered`) and that the strings of
ints are read as they are written (`IntsAreSpelled`): `ValuesAreOrdered`,
`DivisionIsDefined`, `IntsNeverWrap`, `CastsLoseNothing` and `RoundingIsLeast` state
`OrderIsTotal`, `DivisionTruncates`, `ArithmeticIsExact`, `CastsKeepTheValue` and
`RoundIsNearest`. The arithmetic is in a few lemmas: `TruncatedRest` (the
remainder of a truncated division), `FractionsCompare` (fractions are ordered by their cross
products), `CutIsTruncated` (the int that a fraction is cut to is the one that `Truncated`
computes, by `NoMultiple`: there is no other), `Nearest` (rounding half away from zero moves by at most half a unit).

### Lexer

`LexerProofs` proves, for any texts, letters and limits (naturals, those of numbers
at least 9): `TypeCorrect`; `LimitsAreKept`: no identifier, string or comment
exceeds its limit and no fraction of a float wraps around; and `PositionsAreKnown`: the
position of the character ahead is that of its place in the text, whatever the line endings.
For the limits the inductive invariant adds
`EscapesFit`: after a backslash a string is still below its limit, since the escaped
character is added without a check. `FractionStaysBelow` is the arithmetic of the check
before a digit; the corresponding lemma for ints is false, which `int_literal` shows.
For the positions it adds (`PlacesOK`) that the source knows the place of the next character
and has not stopped between the two characters of a line ending; `PlaceAfter` counts lines
and columns from one character to the next, and `BuildReadsOrKeeps` says that every
builder reads one character or none.

### Parser

`ParserProofs` proves, for every lexer that gives tokens (`LexerGivesTokens`), finite text
or not:

- `TypeCorrect`: `Spec => []TypeOK`; the call of the program is always the outermost, there
  is always a token to test, it is no comment but for the very first, and what is thrown is
  one of the exceptions of `parser.cpp` or the `std::invalid_argument` of the constructor of
  `VariableType` (`type.cpp` 90), which leaves the parser in the same way;
- `NothingIsLost`: `[]NothingGivenNothingTaken`: a function gives nothing only before it
  takes a token, so that the caller may go on as if it had not been called.

The inductive invariant (`Invariance`) is `IInv`, of which two parts carry the proof:

- `MayGoOn`: what the function on top has to do is `SureSteps`, from which no `giveUp` can
  be reached, or it has taken no token and what it has to do is `Fresh`: it tests or calls
  without reading until it is sure or gives up. Steps are nested, and a loop repeats
  its own, so that both are greatest fixed points, stated with a set of steps that is
  closed under what may come next (`Followers`), in place of an induction over the
  nesting. `RulesAreFresh` shows that every one of the 38 functions is `Fresh` when it is
  called; this is where a function that reads a token before it may still give nothing
  would fail.
- `AreCalls`: each frame is one that the frame below waits for (`Calling`), and that frame
  may go on without an answer as long as nothing was taken since its own start. Two
  kinds of functions need care: some are called as if they might give nothing but never do
  (`AlwaysGive`), and `Condition` gives nothing for `()` after two tokens, but is only
  called where this is an error. `GiveNothing` and `GiveResult` drop a
  frame, so that `TypeOK` needs to know that the outermost (`Outermost`) does neither.

There is one lemma per action (`TokensTaken` to `BoundOrCalled`), over `GoesOn` (the
function on top goes on), `GoesBack` (it answers its caller) and `TopPushed`.

### Model-checked only

- What a continue ends: it stays pending through the update and the condition of its loop, so
  that a hypothesis that excludes the departure would say what is to be proved. `JumpsHaveALoop`
  is what remains of it in general; `AgreesUnlessJumping` has the rest, in programs without it.
- `AgreesWithReference`, `GivesTheTree`, `RefusesNoProgram`, `AgreesWithinLimits`,
  `RunsAsDocumented`: they compare with recursive definitions.
- `Terminates`, `EndsInReport`: liveness under fairness.
- `RecursionIsNested`: it compares numbers of brackets over any part of the text, which
  the proof would have to sum up call by call.
- What is said of `App`.

## Not modelled

Options of the command line and the opening of the file, the decorators of the verbose
mode and the printer: input and output without state. Messages and positions of exceptions
and of nodes: no decision of the program depends on them.

## Plan

1. `Interpreter` instances with function parameters, nested loops and three levels of
   calls.
2. `RecursionIsNested` for every lexer.
