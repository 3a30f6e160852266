# minishell (claude/): TLA+ models, checks and proofs

The repository holds many versions of one program, the 42 school's *minishell*:
`claude/`, `codex/`, `fromscratch/`, `signal-less/`, four exercises
(`practice0` to `practice3`), two independent ones (`ayusa-minishell/`,
`42-minishell/`), and the sources of bash, dash and readline to compare with.
The documents and the test scripts at the top (`test_reviewsheet.py`,
`test-signals.py`, `signal-fix-report.md`, `resources.md`, `deps.md`, ...) are
about `claude/`, and so is this directory. Paths below are relative to
`claude/src/`.

## 1. Inventory

| part | source | state | operations |
|---|---|---|---|
| read-evaluate loop | `core/main.c`, `core/loop.c` | `t_shell`: `exit_code`, `interactive`, `cur_mem`, `cur_input` | `ms_run`, `process_input`, `ms_loop`, `shell_cleanup` |
| signals | `signal/*.c` | `g_sig`, the disposition of SIGINT and SIGQUIT | `sig_set_interactive`, `_noninteractive`, `_heredoc`, `_exec_parent`, `_exec_child`, three handlers |
| here-documents | `heredoc/*.c` | `r->fd`, the file in /tmp, the saved descriptor | `gather_heredocs`, `heredoc_fd`, `heredoc_loop`, `close_pipeline_heredocs` |
| execution in the shell | `exec/exec.c`, `exec/redirect.c` | descriptors 0 and 1, `in_save`, `out_save` | `exec_pipeline`, `exec_single_parent`, `apply_redirects` |
| forked pipelines | `exec/pipeline.c` | `pids`, the pipe ends of every process | `fork_all`, `fork_child`, `child_exec`, `wait_all` |
| path search | `exec/path.c` | none | `find_exec_path` |
| builtins | `builtin/*.c` | the working directory, the environment | `run_builtin`, `bi_cd`, `bi_export`, `bi_unset`, `bi_exit`, ... |
| environment | `env/*.c` | `vars`, `len`, `cap` | `env_init`, `env_get`, `env_set`, `env_unset`, `env_to_arr` |
| lexer | `lexer/*.c` | the cursor, the token list | `lex_line`, `lex_word_end` |
| parser | `parser/*.c` | the cursor, `argv`, the redirect lists | `parse_pipeline`, `parse_cmds`, `count_argc`, `fill_cmd` |
| expansion | `expand/*.c` | `nav`, string buffers | `expand_pipeline`, `expand_word`, `split_ifs` |
| arenas | `mem/*.c` | chains of blocks | `ms_alloc`, `mem_reset`, `mem_mark`, `mem_pop` |
| terminal, messages, utilities | `term/`, `core/error.c`, `utils/`, `libft/` | the terminal's settings | I/O and string helpers |

**How they interact.** `main` runs `ms_run`, which reads an input and runs
`ms_loop` on each of its lines. `ms_loop` calls the lexer, the parser and the
expansion, each with an arena of its own, then `exec_pipeline`. That collects all
here-documents first, then either runs a builtin in the shell with its standard
descriptors saved, or applies redirects alone, or forks one child per command.
Two things cut across this sequence: a SIGINT handler may run between any two
instructions, and writes `g_sig`, which several functions read and clear, or
closes descriptor 0; and the children of a pipeline run beside the shell and
share with it the ends of the pipes.

**What is hard.** There are no threads and nothing is stored between runs. What
a test hardly reaches is (a) a SIGINT in each of the windows between a test of
`g_sig`, a change of the handler and a system call; (b) a line that fails
half-way, after it has moved, opened or allocated something; (c) the order in
which a shell and its children close the pipe ends; (d) the agreement of two
passes, one that counts and one that fills. `PROJECT.json` lists the hazards at
their lines, with the properties that cover them.

## 2. Modules

| module | models |
|---|---|
| `FdTable` | external: the kernel's table of descriptors, where a new descriptor takes the lowest free number |
| `Shell` | `core/`, `signal/`, `heredoc/`, `exec/exec.c`, `exec/redirect.c`: one process, its SIGINT handlers, its descriptors and its heap |
| `Repl` | no code: what the loop promises its user. `Shell` implements it |
| `Pipeline` | `exec/pipeline.c` and `child_exec`: the shell and up to `MaxCount` children |
| `Parser` | `parser/`: token lists of any form |
| `Lexer` | `lexer/`: lines over classes of characters |
| `Words` | what the builtins make of a word: `valid_ident`, the split of `export_one`, `ft_atol`; and what the words mean |
| `EnvTable` | `env/`: the table of variables, as operators on a record |
| `Builtins` | `builtin/`: export, unset, cd and exit on that table and the working directory |
| `EnvMap` | no code: names and their values. `Builtins` implements it |
| `Expand` | `expand/` and `heredoc_write`: quotes, variables, fields, in two passes |
| `Arena` | `mem/`: one chain of blocks, with marks |
| `MCShell`, `MCPipeline`, `MCParser`, `MCLexer`, `MCBuiltins`, `MCExpand`, `MCArena` | small instances for TLC |
| `ShellProofs`, `PipelineProofs`, `LexerProofs`, `ParserProofs`, `ArenaProofs`, `EnvTableProofs`, `BuiltinsProofs`, `ExpandProofs` | theorems |

`Shell` composes the parts: it runs the loop with the outcomes that `Lexer`,
`Parser` and `Expand` can have, owns the arenas that `Arena` looks into, leaves the
children to `Pipeline` and the effect of a builtin on the environment to
`Builtins`, which extends `EnvTable` and `Words`.

### Shell

`pc` says where the shell is between two points at which a signal handler could
be told apart from one running a little earlier or later. So one action is, for
instance, `sa.sa_handler = ...; sigaction(...)`, and `sig_set_interactive` is two
actions (`g_sig = 0`, then the new disposition), because a SIGINT between them
goes to the old handler and stays recorded. `Sigint` is enabled in every live
state, at most `MaxSig` times, and does what the handler installed at that moment
does.

* `fdt` is the shell's descriptor table; every `open`, `dup`, `dup2` and `close`
  of the shell itself is applied to it. `open` may fail, and must when the table
  is full (`MaxFd`).
* `mem` is the set of heap objects alive (the environment, the input, the three
  arenas, the name of the here-document's file, `pids`); `cur_mem` and
  `cur_input` are the pointers `shell_cleanup` follows.
* `tmp` counts here-document files with a name in /tmp.
* `hd` holds the locals of `heredoc_fd` and `heredoc_loop`; `save` and `ret`
  those of `exec_single_parent` and `exec_pipeline`.
* A line is a record: what the lexer, parser and expansion make of it
  (`kind`), the number of its commands, the class of its first word, and its
  redirects in order. Texts are left out.
* `intr` and `spoiled` are history variables. `spoiled` records the four things
  after which the code does not promise its descriptors: `"late"`, a SIGINT after
  the last test of `g_sig` (see the findings); `"bare"`, redirects without a
  command, which replace the shell's own descriptors; `"nofd"`, a `dup` that
  failed and was not looked at; `"failed"`, an `open` or `pipe` that failed with
  later here-documents or an earlier pipe end still open.

Allocation failures are left out here. A pipeline's children appear only as the
status `wait_all` returns; `Pipeline` has them in detail.

### Repl

Six variables: whether the shell is interactive, whether it is at the prompt, in
a line, gone or killed, `$?`, the line, whether Ctrl-C has cut its here-document
short, and whether an interactive shell has installed its first handler.
`ImplementsRepl` (refinement mapping at the end of `Shell`) says that `$?`
changes only where a user can explain it, and that no SIGINT ends an interactive
shell that has prompted.

### Pipeline

Process 0 is the shell, process j the child of command j. `held[p]` is the set of
pipe ends and here-documents process p has open. A child goes from `born`
(forked, still with the shell's handler and all its descriptors) to `ready`
(pipe ends moved to descriptors 0 and 1) to `run` (redirects applied, the
builtin or the program runs) to `dead` and `reaped`. Reading sees end of file only
when a pipe is empty and nobody holds its write end; writing to a pipe nobody
holds the read end of kills the writer. The programs are external: they read to
the end of file, write `Writes` items, may exit early with any status.

### Lexer and Parser

`Lexer` runs `lex_line` on lines over eight classes of characters (blank, other
white space, `|`, `<`, `>`, the two quotes, anything else). `Parser` runs
`parse_pipeline` on lists of tokens; a token is its type, and its place in the
list stands for its text. `count_argc`, which sizes `argv`, and `fill_cmd`, which
fills it, are walks of their own, as in the code: that they agree is a property.

### Words, EnvTable, Builtins, EnvMap

The state of `Builtins` is what the shell keeps from line to line besides its
descriptors: `env` (the slots in use, `cap`, and how many strings of the heap
belong to it), the working directory, `$?`; and the command being run with a
cursor over its words, since `bi_export` and `bi_unset` go on after a bad word.
The shell inherits any of some environments (entries without "=", names that are
no identifiers, a name twice), then runs a script.

Every operation that changes the table takes the allocation that fails in it, and
`Init` the one of the table itself, so that what is left behind is that of the
code: `set_new` leaves the table grown, `env_set` frees the old value first,
`env_init` gives up. `strs` then tells a lost string from a free one.

The file system is external: `Dirs` are directories by the text `getcwd` gives for
them, and `Paths` says where a text may lead from each, so that "..", relative
names, and links that may change meanwhile lead to directories of another name, and
a text may lead to different ones. `chdir` moves to one of those, or fails; `getcwd`
tells which one, or fails because it has been removed. `CdTellsTruth` asks that PWD
be that directory and never the text cd was given.

`ft_atol` works on longs of `LongBits` bits with C's wrap-around, and exit's
number is cut to `CharBits`, which leave room for the status 2 of the code's
errors. `Readings` and `IntegerReadings` say independently what a word means, as the set of
all ways to read it. The value export leaves is that of the words read so, one after
the other (`ValueAfter`); unset is to leave just the variables none of its words
names, which is asked where no name was inherited twice. A word names one only if it is an identifier: `valid_ident` also passes
`A=x`, and refuses a name that was inherited and is none, so unset cannot remove it.
That no inherited name contains "=" is assumed, for `init_one` cuts an entry at its
first.

`EnvMap` has a stack of values for each name, more than one only if the name was
inherited twice: setting replaces the top, unsetting uncovers the next, and no
other name is touched. The mapping is `ValuesOf`, at the end of `Builtins`.

### Expand

`pc`, `c` and `i` are the loops of `expand_pipeline`, `expand_cmd_argv` and
`expand_cmd_redirects`. `CountWord` expands a word and adds what
`count_exp_argc` adds (`FieldCount`, with `ifs_wc`); `FillWord` expands it again
and stores what `fill_one` stores (`FieldsOf`, with `split_ifs`). The loops are
functions of the turn: `Expansion` is that of `expand_word`, one turn of which is
`ExpandTurn`, and also that of `expand_heredoc_line`, for which no character opens
a quote; `WcTurn`, `SplitTurn` and `StripTurn` are turns of `ifs_wc`, `split_ifs`
and `strip_quotes`. Each turn moves the cursor, so there are never more turns than
characters. Texts are sequences over nine classes of characters, because here the
text is the subject. One variable may be set, to texts with blanks, quotes or a "$"
in them; `shell` is what the expansion reads of `t_shell`, its value and `$?`.

`FieldsRight` compares this with what a word means, which is stated without a
cursor, for each place of the whole text: which quote is open there (`OpenQuote`),
whether it delimits, whether a "$" before it names it (`Named`), and what a "$"
stands for (`Meaning`). The fields are then the text's runs between blanks.

An allocation may fail anywhere. `expand_word` does not look at the result of
`sb_append` for a single character, so a failure there loses the first character
and goes on; `lost` records it, and both properties stop there: with a word that
becomes empty in the first pass only, the second stores one word more than the
array has room for.

### Arena

`chain` is the list of blocks, `heap` the blocks `malloc` has given out and not
got back, `marks` the marks the caller keeps, used as a stack as `mem_pop`
demands, and `handed` (history) the pieces the caller may use. Addresses come
back: a new block may be one that was freed. No function of `claude/` calls
`mem_mark` or `mem_pop` yet. Sizes near the largest `size_t`, where the rounding
would wrap, are left out: the largest one asked for is that of a line.

## 3. Runs

| run | expected | what it shows |
|---|---|---|
| `shell_safety` | pass | two inputs out of 13, two SIGINTs anywhere, opens, dups and pipes that fail: what the shell keeps is sound, it implements `Repl`, and an interrupted here-document comes back by itself |
| `shell_late_sigint` | violation | a SIGINT after the last test of `g_sig` in a here-document does not give 130 |
| `shell_handlers` | violation | a builtin after a here-document runs under readline's handler |
| `pipeline` | pass | six pipelines, every interleaving, one SIGINT, failing `pipe` and `fork` |
| `pipeline_reaping` | violation | children are left behind when `pipe` or `fork` fails |
| `pipeline_fork_after_sigint` | violation | commands are forked after a SIGINT has killed the first ones |
| `parser` | pass | all token lists of up to six tokens |
| `lexer` | pass | all lines of up to four characters, and of five without white space other than blanks |
| `lexer_whitespace` | violation | a carriage return outside quotes makes `lex_line` loop for ever |
| `builtins` | pass | scripts of one to three commands on five inherited environments, and every word of up to three odd characters given to export or exit; one failing allocation. The table implements `EnvMap` |
| `expand` | pass | every word of up to five characters, pairs of words, redirects, here-documents, two commands; eight values; one failing allocation |
| `arena` | pass | up to three blocks, two marks, requests of one to seven bytes, aligned to two |

**Bounds.** `MaxInputs = 2`: the second input meets whatever the first left
behind (descriptors, heap, `$?`, `g_sig`, the handler), and every line leaves the
same kinds of things, so that a third meets nothing new. `MaxSig = 2`: one SIGINT
to interrupt a here-document and one more in the windows while that is undone.
`MaxFd` is 6 (5 in the violation runs), about what one line of the instance
needs, so that opens and dups fail for want of descriptors as well as at random. The
lines have up to three redirects, here-documents first, last and twice, in each of
the three ways `exec_pipeline` runs them. Pipelines of three have a first, a
middle and a last command, which are the three cases of `fork_child`; `Writes = 2`
on a pipe of one item makes a writer wait for its reader.
`InitCap = 2` (64 in the code) makes the table grow with its first variable and
again with its third. `LongBits = 6` and `CharBits = 4` put the largest long at
31, so that words of three characters lie on both sides of every edge, as those of
twenty do for 64 bits; the code treats no width in a special way. Two
directories with "..", a relative name, and a link that leads to either make every
cd come to another place than its text names, or stay where it is. `MaxFail = 1`:
after one failure nothing in these modules keeps a trace of it but the table or a
lost character, and a second one finds only that. Words of five characters hold
every two neighbouring characters inside and outside quotes; longer ones repeat
them. Three blocks are one to go back to, one above it and one to come back from
`malloc`; requests of seven bytes are larger than the smallest block.

**Fairness.** `Shell`: weak fairness of the steps the shell takes by itself. The
steps that wait for the user (the prompt, a line of a here-document) or for
children (`wait_all`) are not fair, and SIGINT is never forced.
`HeredocInterruptReturns` therefore says that after Ctrl-C nothing more is needed
from the user. `Pipeline`: weak fairness of the shell and of every child, which
the kernel schedules, and of the commands' own reads, writes and final exit; that
last part is an assumption about the programs, without which a pipeline need not
end. A command that could block for ever on a pipe is not helped by it. `Lexer`: weak
fairness of its one loop, which nothing else can hold up.

## 4. Findings

Four places where the documents say one thing and the code does another, and one
where the lexer does not return; each is the counterexample of a violation run
and is quoted in `PROJECT.json`.

1. `heredoc/heredoc_fd.c:80-85`: a SIGINT after the last test of `g_sig` closes
   descriptor 0 for good; `$?` is not 130, and the next prompt reads end of file.
2. `heredoc/heredoc_fd.c:85`: `heredoc_fd` leaves the interactive handler behind,
   so builtins after a here-document run under it.
3. `exec/pipeline.c:116`: when `pipe` fails the children there are not waited for.
4. `exec/pipeline.c:92`: the commands of a pipeline are forked after a SIGINT.
5. `lexer/lexer.c:94`: white space other than blank and tab, outside quotes, is
   neither skipped nor part of a word: `lex_line` adds empty words for ever.

## 5. Proofs

The theorems hold for every set of lines and inputs, every `MaxFd >= 2`, and any
number of inputs and signals, for every size of a block or a table, for every inherited
environment and script, and for texts of any length; the named assumptions on the constants, one in
each module, are all they rest on.

* `ShellProofs`: `TypeCorrect`, `NoTemporaryFileLeft`, `ForksUnderRecorder`,
  `OwnershipKept`, `ExitFreesAll`, `InterruptGives130`. The properties are about
  states between lines, so none is inductive. The invariant adds what holds in
  between, at every `pc`: which objects are allocated (`HeapInv`), what
  `cur_mem` and `cur_input` point to (`OwnerInv`), which handlers can be installed
  (`HandlerInv`), whether a file has a name (`TempInv`), and where an interrupted
  document stands on its way to 130 (`StatusInv`). There is one step per action,
  for each group of conjuncts.

  `ShellImplementsRepl`, at the end: the initial states map to initial states and
  every step to a step of `Repl` or a stutter. On top of the invariant it needs
  `LineInv`: what kind of line can be at which `pc`, and what `ret` can be there.

  Then the descriptors: `StdioIsRestored`, `StdioStaysOpen`, `NoLineLeaks`,
  `FailuresLeakReadEnds`, `LastRedirectWins`. A new descriptor takes the lowest
  free number, so a descriptor 0 that is closed for a while could be taken by the
  next `open`, and a later restore or close would then hit the wrong file. The
  lemmas say what each call does to every descriptor; the invariant says who owns
  which one at every `pc`: above 2, each open descriptor is the write end or the
  copy `heredoc_fd` holds, a copy `exec_single_parent` holds, or a here-document
  whose redirect is still to come (`HighInv`, with `GatheredInv` for which
  redirects these are), unless a failure left it; the owners hold different ones,
  none of them standard (`ApartInv`), each the file it should be (`CopiesInv`).
  Descriptor 0 is closed only between the handler and what undoes it (`OpenInv`;
  without a signal, never: `QuietInv`). `StdioInv` says what the standard
  descriptors are meanwhile: the shell's own, except for what the redirects passed
  so far have made of them. Two of the properties were first checked under
  stronger preconditions than they need; with this invariant they hold in every
  history (`LeaksOnlyReadEnds`) and in every one without a failed redirect or
  `pipe()` (`NoDescriptorLeak`), and are stated so.
* `PipelineProofs`: `TypeCorrect`, `EndsStayInPlace`, `EofIsNeverEarly`,
  `StatusIsTheLast`, `NothingIsLeft`, for any number of commands. A step of a child
  changes that child only, and what it holds only shrinks once it is forked
  (`ChildMoves`). The invariant says what the shell holds at each `pipe()` and
  `fork()` (`ShellHeldInv`), what a child holds at each of its steps
  (`ChildHeldInv`), that a live command before a reader still holds the write end
  it uses (`WriterInv`: this is what keeps an end of file from coming early), which
  children have been made (`ForkInv`) and which ones `wait_all` has taken
  (`ReapInv`).
* `LexerProofs`: `LexerTyped`, `WordsAlwaysAgree`, `OperatorsAlwaysAgree`,
  `RefusedWhenUnclosed`, for every line. `lex_word_end` forgets the quote when a
  word ends; the properties follow it over the whole line. The two agree because
  every token ends outside quotes (`QuoteInv`), so a word begun there sees the same
  quotes (`WordEnds`, by induction along the line). The words so far are then the
  runs that begin before the cursor (`WordsInv`): that no word is cut in two needs
  that the cursor never stands inside a run, which `QuoteInv` says too. Tokens
  follow each other without overlap (`OrderInv`), no bare operator before the
  cursor is left out, and each has the type and length its characters say
  (`OperatorsInv`, `OperatorType`).
* `ParserProofs`: `ParserTyped`, `ArgvNeverOverrun`, `ArgvAlwaysFilled`,
  `GrammarIsAccepted`, `TokensArePlaced`, for every list of tokens. `count_argc` and `fill_cmd` walk the same command one
  after the other and by different rules, so the invariant relates their walks:
  the stops of `count_argc` follow each other with nothing in between and end
  outside the command (`WalkInv`), `fill_cmd` is always on one of them, and
  `argv` holds exactly the words counted before that stop (`FillInv`). Standing
  on the last stop it has therefore stored all of them (`FullInv`).

  The grammar is a statement about the whole list, which four functions check a
  part of each. `GrammarInv` says what is settled before the cursor: every token
  there is well placed, so many pipes stand there as commands have begun, and the
  cursor is never on a redirect's target; a pipe is looked at again only when the
  token behind it begins a command. `PlacedInv` says that each row of `argv` and
  of the redirects lists, in order, just the command's words and targets before the
  cursor. The type of a redirect is a difference of two enumerations in the code,
  and equal to its token's (`RedirectTypeIs`).

* `ArenaProofs`: `PiecesNeverOverlap` and `ChainAlwaysSound`, for any blocks,
  sizes, alignment and number of marks. That pieces do not overlap is not
  inductive: `mem_pop` moves the end of the used part back. The invariant says
  where each mark stands (`MarkAt`: which block was the top one, and that what was
  handed out before lies below the mark), that marks set later do not stand lower
  (`Ordered`), and that the chain's blocks are distinct and all of the heap
  (`HeapInv`). Popping a mark then leaves the earlier ones standing.

* `EnvTableProofs`, its first part: `AtolRight`, for longs of any width: `ft_atol` refuses a word
  exactly where it is not spaces, a sign, digits, spaces, or spells an integer no
  long holds; otherwise it gives that integer. `parse_digits` computes without
  signs, tests each digit before it adds it, and negates at the end by wrapping;
  so the argument compares it, digit by digit, with the value of the digits read so
  far. Up to the first digit that does not fit the two are the same number, which
  never wraps, since what passes the test before it stays below the limit
  (`DigitTurn`); from then on the value only grows (`ValueGrows`). The one
  spelling of a word is found from its first character that is not a space. The
  module also has the powers of two and the form of induction the others use: the
  set of the places where a statement is true takes the role of the predicate
  (`AllNaturals`, `UpTo`).

  The second part says of each operation of the table, on any table, that it leaves
  room for the next variable and that the count of strings stays the sum `env_free`
  computes (`SoundTable`), what it does to the variable at each place, what names
  and values the table may then have (`Holds`), what `env_get` finds afterwards,
  and that no name comes to stand twice. A name may be inherited twice, and
  `find_key` sees the first only; so the later lemmas are about all the values of a
  name, in order (`Values`). They say that setting one replaces the first or adds
  one, that unsetting takes the first away (`KeptShift`: every later place moves
  down by one), and that neither touches another name.

* `BuiltinsProofs`, on these: `TableAlwaysSound`, `BuiltinsTypes`,
  `NamesAlwaysSound`, `CdAlwaysTellsTruth`, `ExitCodeAlwaysRight`, and the refinement `TableImplementsMap`. The invariants
  add to the properties what `env_init` has read so far (`NamesInv`), that a cd
  still runs where and on what it began (`CdInv`), and that the status of exit is
  the one of its word (`ExitInv`). That a child sees what the shell sees is false
  of a table in which a variable without a value hides a later one of the same
  name: `env_get` finds the first, and `env_to_arr` passes over it. `SeenInv` says
  that none is hidden, and has to say so for every name, the ones read before
  `env_init` ends included; where the names come from rests on `valid_ident` and
  `export_one` splitting a word alike, proved for every word (`ValidKey`). For the
  refinement every action is one of `EnvMap`'s or leaves the map alone. A cd that
  sets PWD and OLDPWD is one `Move`, whichever of the two allocations fails.

  `WordsAlwaysTakeEffect` speaks of a command that is over, and export and unset go
  word by word. The set of the ways to read a word has one element or none, and
  none exactly where `valid_ident` refuses it (`ReadingsAreOne`, in `EnvTableProofs`),
  so one turn of `bi_export` does to every name what the word says (`ExportedGet`);
  `ExportSoFar` then follows the values from word to word. For unset the
  invariant is a quantity that does not change: what the words to come would leave
  of the table is what all words leave of the first one (`UnsetSoFar`). It is kept
  because removing one variable and then some names leaves, in the same order, what
  removing all of them leaves (`UnsetSpares`), if no name stands twice; and because
  a good word that is no identifier has an "=", which no name in the table has
  (`CutAtEquals`).

* `ExpandProofs`: `ArgvAlwaysFilled` and `FieldsAlwaysRight`, for any pipelines,
  values, lines of here-documents and number of failing allocations. Most of it is
  about the loops, whose turns are followed by induction on their number.

  `ExpansionIs`: after every turn of `expand_word` the text so far is the one the
  places before the cursor mean, the open quote is the one open there, and no "$"
  before the cursor names the place it is at (`Agrees`). The last is what makes the
  jump over a name harmless: the places jumped over are just those the "$" names
  (`ExpandVarIs`), none of them is a quote or another "$", so none adds text or
  changes the open quote (`NothingJoined`), and the place behind belongs to no name
  (`NotNamedAcross`). The same lemma, with no quotes, is about `expand_heredoc_line`;
  `StripIsDelimiter` is its like for `strip_quotes`.

  `FieldsAgree`: `ifs_wc` and `split_ifs`, turn for turn, have the cursor at the same
  place, as many fields counted as cut, and cut just the runs that begin before it.
  A turn starts at the beginning or on a blank, so it passes one whole run or, at
  the end, none (`RunsPassed`).

  The invariant then has little left to say: in the first pass `total` is the number
  of fields of the words before the `i`-th, in the second `nav` holds them, and in
  between `total` is the length of all (`PassesAgree`); the redirects and commands
  before the cursors are right (`RedirectsSoFar`, `CommandsSoFar`); and without a
  failed allocation the expansion stops only at a file without a name
  (`GaveUpFor`). All of it under `~lost`, which once false stays so: a text that has
  lost a character is not the text of the other pass.

Model-checked only. Every invariant and action property that a passing run checks,
and the two refinements, are now theorems too; liveness stays with TLC
(`HeredocInterruptReturns`, `PipelineReturns`, `ReturnsOnBlanks`), for the prover does
neither fairness nor `ENABLED`. The findings are counterexamples, which
need no proof.

## 6. Plan

Done: `FdTable`, `Shell`, `Repl`, `Pipeline`, `Lexer`, `Parser`, `Builtins` with
`EnvTable` and `EnvMap`, `Expand`, `Arena`, and the proofs above.

Left: no safety property that is checked is without a theorem. What could be added is
more of the model: the failing allocations named below.

**Not modelled, and why.** SIGQUIT (the shell ignores it throughout, its children
take the default); the terminal's settings and the messages, and what echo, pwd,
env and export print, with export's sorting (pure output); the search of PATH (a
pure function of PATH and the file system, whose three outcomes are in `Pipeline`);
readline's buffers (third-party); stdio buffering around `dup2`; allocations that
fail in the lexer, the parser, the loop and `env_to_arr`; `env_get` called with NULL when the
copy of a variable's name fails, after which the code is undefined.

Nearly all of the repository's lines are bash, dash and readline, put there to be
read, and other versions of this program, by the same and by other hands
(section 1). A model of those would be a model of other programs, each far larger
than this one; so the map covers `claude/src/` and nothing else of the tree.
