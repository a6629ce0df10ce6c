# A TLA+ model of ed

This directory holds TLA+ specifications of the line editor *ed* in this
repository (`src/`), configurations that check them with TLC and proofs that
TLAPS checks. They are written from the C code; `PROJECT.json` says for every
definition which lines it models.

    tlc -config buffer.cfg MCLineBuffer      # one run
    tlapm Streams_proofs.tla                 # the proofs of one module

## 1. The system

ed is a single process with a single thread. What makes it hard to get right
is not concurrency of its own but *being cut short*: SIGINT abandons a command
with `siglongjmp` wherever it is, unless inside a critical section, SIGHUP
saves the buffer and exits, reads and writes and `malloc` fail half way, and
whatever was done so far must be consistent and be undone by `u`. The second
difficulty is state that one command leaves for the next: the undo queue, the
`is_modified` flag, the global flag, the cached line, the position of the
buffer file, the open file, compiled patterns, the parameters of a repeated
substitution, the stack of macros. The third is the one place where ed is
several processes, the filter `[range]!command`.

| Component | Source | State | Operations | What makes it correct |
| --- | --- | --- | --- | --- |
| Signals | `signal.c`, `main.c` | `_mutex`, `_sigflags`, `_sigactive`, jump buffer | `spl1`, `spl0`, handlers, `SETJMP` | no handler inside a critical section; none left open; interrupts and hangups acted upon |
| Line buffer | `buffer.c`, `undo.c`, `cmds.c`, `global.c` | deque of line nodes, undo queue, marks, lines of a global command, `state[2]` | append, delete, join, move, copy, undo, mark, global | the deque is well formed, no node leaks or dangles, `u` is exact |
| Line lookup | `buffer.c` | static `lp`, `n_prev` | `get_line_node` | the node returned is the line asked for |
| Buffer file | `buffer.c` | temporary file, `offset`, `seek_on_write` | `put_buffer_line`, `get_buffer_line` | a line's text is where its node says, and is what is read |
| Session | `main.c`, `exec.c`, `undo.c` | `is_modified`, `state[1]`, `global` | e, E, q, Q, r, w, u, g | no unwritten change is lost without a warning; `u` undoes one command |
| Default file | `io.c`, `exec.c`, `buffer.c` | `file->name`, `inode`, `handle`, locks | E, f, r, w | the handle is open on the file, locked, and written only for its name |
| Streams | `io.c`, `cmds.c` | `is_empty`, `is_binary`, `newline_appended` | read, write, join | what is read is written |
| Registers | `register.c` | register files | copy, move, append | contents |
| Macros | `register.c`, `exec.c` | `stack_frame[]`, script buffer, `stdin` | `@`, push, pop, unwind | callers go on where they were; everything is restored at the end |
| Substitution | `subst.c`, `exec.c` | `s_nth`, `s_mod`, `s_f`, the loops | s and its short forms | the matches asked for are replaced, the rest is kept, the loops end |
| Patterns | `regexp.c`, `subst.c` | last search, last substitution, `lhs` | `get_compiled_regex` | no pattern leaks or is used after it is freed |
| Addresses | `parse.c`, `regexp.c` | region, dot | `address_range`, searches | ranges mean what they say; searches visit each line once; errors leave dot where the work was given up |
| Filters | `filter.c` | processes, pipes | `!` with addresses | no deadlock, no child left |
| Files, options | `parse.c`, `main.c` | file list | globbing, `next_edit`, `save_edit` | each file edited once |
| Display | `page.c`, `utf8.c` | frame buffer | p, l, n, z, scrolling | layout |
| Encryption | `cbc.c` | key | `x` | round trip |

They interact through calls and shared state in one address space: every
command of `exec.c` runs over the line buffer between `spl1 ()` and `spl0 ()`;
`main ()` is the target of the jump of SIGINT and of every error; macros and
global commands call `exec_command ()` again from inside a command; addresses
compile the patterns that substitutions reuse; commands that read or write
lines share the position of the buffer file, and a filter's child shares it
even across processes.

## 2. Modules

| Module | Models |
| --- | --- |
| `Signals`, `MCSignals` | the signal discipline, window by window |
| `LineDeque` | the routines on line nodes, the undo queue, marks and the global buffer, as operators on a record that stands for `ed_buffer_t` |
| `LineBuffer` | the editing commands over `LineDeque`, one step per critical section |
| `LineEditor` | abstract specification: a sequence of lines with one level of undo |
| `LineBufferView`, `MCLineBuffer` | the refinement mapping from `LineBuffer` to `LineEditor`; constants |
| `LineCache` | `get_line_node ()` one assignment at a time |
| `BufferFile` | putting and getting lines in the temporary file, system call by system call |
| `Streams`, `MCStreams` | composes `BufferFile` with files, registers, filter output and the flags of the buffer |
| `Session`, `MCSession` | the modified flag, undo and quitting; the text is opaque |
| `FileHandle`, `MCFileHandle` | the stream, inode and lock of the default file |
| `MacroStack`, `MCMacroStack` | macros |
| `Subst`, `MCSubst` | which matches a substitution replaces |
| `RegexSlots` | the compiled patterns and who points to them |
| `Addresses`, `MCAddresses` | composes `RegexSlots` with ranges, searches and dot |
| `Filter`, `MCFilter` | the processes and pipes of a filter |
| `LineBuffer_lemmas` | lemmas about the operators of `LineDeque`, for any number of nodes |
| `LineBuffer_proofs`, `Signals_proofs` (with `LineCache`), `FileHandle_proofs` (with `Filter`), `MacroStack_proofs` (with `Session`), `Addresses_proofs` (with `RegexSlots`), `Streams_proofs` (with `BufferFile`), `Subst_proofs` | theorems |

**Signals.** The process is a stack of frames, `main ()` below and handlers
above it. The kernel delivers an unblocked pending signal on top of any frame;
`signal_handler` records it if `_mutex` is raised, otherwise its handler runs.
`spl0` is several steps: it lowers `_mutex`, then tests SIGHUP, SIGINT and
SIGWINCH one after the other, with a window for another signal before each.
Commands enter critical sections in any number (up to `MaxSections`) and nest
them (up to `MaxDepth`). A routine may return by its error path without
`spl0 ()`, as `append_text_node ()` does (up to `MaxLeaks` times); the
properties say what holds in spite of it.

**LineDeque, LineBuffer.** Nodes are allocated from a finite heap; links, undo
entries, marks and the global buffer refer to nodes. `a`, `i`, `c`, `r`, `E`,
`!`, `t` and `s` add lines one critical section at a time and may end between
any two of them (`Abort`), by an error, SIGINT or the end of memory; `d`, `j`,
`m`, `k` and `u` are one critical section and one step. A global command marks
lines and runs commands on them. Text is not modelled: a line is its node. The
abstract `LineEditor` says that every command replaces a range or exchanges
two neighbouring ranges, and that `u` swaps text and dot with those at the
start of the last command. `old` is mapped to what undoing all entries of the
queue would make of the links, so the refinement is exact at every step, also
in the middle of a command.

**LineCache.** Lines do not move during a call, so a node is its number. The
history variable `off` becomes 1 when a signal ends a walk between the
assignment to `lp` and that to `n_prev`; walks that restart at the head or the
tail of the deque set both and clear it.

**BufferFile, Streams.** `offset` is where ed believes the buffer file to be,
`pos` where it is. A put is one step for each outcome, since it runs in a
critical section; a get is a seek, a read and an assignment, and an interrupt
or an error may fall between any two. A command that goes through lines is a
`job` that keeps its place: `p`, `w`, `j` and moves to registers get lines;
`a`, `r`, `E`, `!` and moves from registers put them. Lines carry the text
they should have as history (`text`, and `sound` while the offset they were
put with was right). Files are sequences over `Byte`, a set with at least `NL`
and `NUL`, so the flags `is_binary` and `newline_appended` have their effects.

**Session.** Texts are members of a small set. `safe`, `warned`, `before`,
`written`, `unflagged` and `stuck` are history variables: which texts a file
holds as a whole, which the user was warned of, where the last command started,
whether the file was written since, which texts a known weakness of
`is_modified` has left with the flag 0, and whether `global` was left set.
Besides the editing commands, which set the flag line by line, there are the
commands that do not: `r` into an empty buffer, of a file (rightly) or of a
command's output, `0!command` (`filter_empty`), `E !command`, a read that is
cut short, and `w` of a part of the buffer (`w_part`). A user who does not do
these can be modelled by leaving them out of `Faults`.

**FileHandle.** The kernel is a table of streams with their inodes and their
`flock` locks. `read_file ()` and `write_file ()` are a call in progress (`op`)
that goes through `stat`, `fopen`, the assignment of `handle` and `inode`,
`set_file_lock ()` and the transfer, one step each; before each step other
processes may remove and replace files and SIGINT may end the call. The lock may
be refused, or not be possible at all, and the call goes on. `op.had` collects
what the name has stood for between `stat` and `fopen`, `seen` keeps it for the
default file: two different members are the race that `io.c:681` and `io.c:904`
mention. `fcntl` locks are set as well by the code but are not modelled: closing
*any* stream of the file drops them. A command that uses a closed stream stops
the model (`used`). On Linux `init_ed_command` does not close the old handle; `linux` is
chosen initially and never changes, so both builds are checked.

**MacroStack.** The script buffer is a sequence of commands with a position,
shared by all activations of `exec_macro ()`. A command that is not a call
succeeds, fails or returns EOF, and changes the number of lines at will.

**Subst.** Lines are all sequences of up to three bytes, some with a character
of two, and some with NUL bytes. The loops end at the end of the line and, as
the code tests `! *txt`, at a NUL byte where the match is empty (`AtEnd`): the
properties about matches are about the line up to there (`Seen`). A repeated
command may be one of a command list that is executed again for another line
(`again`): then `g` does not toggle. `regexec` is the leftmost-longest match of four patterns
chosen for the cases that matter: a plain one, one that matches the empty
string anywhere, at the start only (REG_NOTBOL) and at the end only. `sel` is
the full command which, by README.md ("Repeated Substitution Modifiers"), the
last one stands for.

**RegexSlots, Addresses.** A compiled pattern is a block of a heap whose
`malloc` returns the lowest free block, so that a pointer left behind soon
refers to another pattern. `Addresses` reads a list of addresses one by one
into the four variables of `address_range ()`; a search compiles its pattern
(outside of a critical section, where an interrupt can cut it in two) and then
looks at one line per step. Which lines match is chosen when the search starts
(`find.hits`). After an address list come `p`, `s` in its forms or `g`, or the
command fails. `s` takes one step for each line (`substitute_lines`), can fail at any
of them, before or after the line was deleted, and be interrupted between them;
`g` keeps its queue, moves dot to the next line that matched (`exec_global`) and
reads the addresses and commands of its list like any others. A substitution
replaces a line by one line here; what lists that delete and move lines do to
the queue is in `LineBuffer`. The sessions of the run (`MCAddresses`) are lists of
three addresses, two patterns with `s` and `g`, and a `g` over two lines with
lists of several commands.

**Filter.** `held` says which processes hold which end of which pipe, so that
end of file and a broken pipe are what the kernel would make of them. ed, the
shell and the writer take one system call at a time; `fork`, `fdopen` and
`malloc` may fail, and SIGINT reaches all processes of the group.

## 3. Runs

| Run | Bounds | Distinct states | Shows |
| --- | --- | --- | --- |
| `signals` | 3 signals of 4 kinds, 3 sections nested twice, 1 leak | 65 571 | `HandlersOutsideSections`, `NoLockLeak`, `NoSignalForgotten`, `InterruptHonoured`, `HangupCompletes` |
| `buffer` | 3 nodes, 1 mark, command lists of 2 undo entries; 4 kinds of session: all commands, marks, and i, d, u or i, m, u in command lists | 122 992 | `DequeOK`, `CacheOK`, `HeapAccounted`, `NoDangling`, `GlobalLive`, `ImplementsEditor` |
| `cache` | 6 lines | 1 846 | `LineFound`, `WalkEnds` |
| `streams` | 2 lines, 3 bytes, 1 failure or interrupt, 4 kinds of session | 899 312 | `TextStored`, `ReadsOwnText`, `RoundTrip`, `FlagsTrue` |
| `session` | 3 texts, all failures | 546 514 | `LossAccounted`, `UndoesLast`, `QuitAsks` |
| `files` | 2 names, 2 inodes, 3 streams (symmetric) | 1 401 396 | `HandleOpen`, `NoUseAfterClose`, `LockHeld`, `WritesTarget` |
| `macro` | 4 frames, 3 lines, 3 registers, one recursive | 29 571 | `StackMatches`, `ReturnsToCaller`, `ScriptRestored`, `MacroEnds` |
| `subst` | lines up to 3 bytes, 4 patterns, numbers -2, 0, 2; with 3 multibyte and 7 binary lines | 81 709 | `CountExact`, `ReplacesChosen`, `KeepsText`, `LoopsEnd` |
| `addresses` | 2 lines, 3 addresses, 2 patterns or command lists, 3 blocks | 1 235 038 | `RangeAsWritten`, `SearchNearest`, `DotKept`, `SlotsOwnPatterns`, `PatternAsTabled`, `SearchEnds` |
| `filter` | 2 filters, 2 pieces of input, pipes of 1 piece, 4 shell commands | 360 533 | `ChildrenReaped`, `FilterEnds` |
| `session_write_undo` | 3 texts, no failures | | `NoSilentLoss` is violated |
| `subst_frequency` | as `subst` | | `FrequencyDefined` is violated |

What they show, beyond the names:

* `signals`: handlers run only outside of critical sections; ed never waits for
  a command inside one, a leaked section excepted; an interrupt or a hangup
  recorded in a section is acted upon when the section ends, unless an
  interrupt jumps out of the very `handle_hup ()`.
* `buffer`: after every critical section the links form one ring, the cached
  line is right, each node is in the buffer, in the undo queue or free, and
  marks and the lines a global command has yet to visit are live; and every
  command, interrupted or not, is undone exactly.
* `streams`: whatever mixture of gets, puts, errors and interrupts, lines keep
  their text, except those put after a failed put or after a filter, before
  the next seek; a binary file that is read and written is the same byte for
  byte; no buffer is taken for empty, or for text, that is not.
* `session`: `q`, `wq` and the end of input drop a text silently only if it is
  one of those in `unflagged`; interrupts, errors and command lists add none.
* `files`: handle is open, and it and the inode are what the default name was
  between `stat` and `fopen`; once its lock was set the file stays locked; a write goes
  to a file that the name was, unless the race has separated handle and inode.
* `addresses`: the left-to-right evaluation computes what the list means as a
  whole; a search finds the nearest match and ends; a command given up before
  its work leaves dot where it began (in a command list: where the list is) or
  where `;` put it, an `s` given up in its work leaves it at the line reached;
  exactly the patterns in the two slots are allocated, and commands use the
  pattern the table in `regexp.c` gives them.
* `filter`: whichever way the shell reads and writes, and with pipes that are
  too small, the filter ends and its children are waited for.

Where the code does not keep a property under all circumstances, the property
names the exception by a history variable (`off`, `slip`, `spoiled`, `cut`,
`unflagged`, `stuck`, `shut`, `unlocked`, `seen`, `orphan`, `torn`) that is set by
that event only;
section 5 lists them.

Why the bounds are enough to be interesting: three signals let a second and a
third arrive in every window of the first; two nodes of text and one that is
deleted but kept for undo are enough for every case of `move_lines`,
`delete_lines` and the undo queue to touch the head, the tail and the middle
of the deque, and the heap runs out, so that failing `malloc` is reached; two
lines and three bytes leave a line before and one after any position of the
buffer file; with two file names and two inodes a file can be replaced by the
other or by one that no name and no stream has left, in every window of a call,
and three streams are the handle, a leaked one and a new one; with four frames a recursive macro reaches the limit at
every depth of its callers; lines of three bytes have every order of empty and
non-empty matches of `x*`, and -2, 0 and 2 are below, at and above the
boundaries of each test; three addresses give every combination of omitted,
relative and absolute ones around two delimiters, and three blocks hold two
slots and the pattern being compiled; the second filter meets what an
interrupted first one leaves. `CHECK_DEADLOCK FALSE` is used only where the
system ends: after quitting, after a hangup, when a closed stream is used,
when ed is killed or waits for ever, or when a named bound is used up.

The `buffer` run leaves out reads that are cut short (`AbortIn`): they leave
`is_empty` set, and the next `a` then deletes a line. `streams` models them.

**Fairness.** `Signals!FairSpec`: the process is scheduled, and the kernel
delivers a pending unblocked signal; nothing is assumed of the user or of who
sends signals. `LineCache`, `MacroStack`, `Subst` and `Addresses` assume weak
fairness of the steps of a loop that waits for nothing (in `Addresses` also of
the error message that follows a failure); commands of the user and interrupts
are not fair. `Filter` assumes that ed, the shell and the writer are each
scheduled while a system call of theirs can return, and that the shell command
itself does not loop: its program is finite.

Every property comes with a bug variant (named after the definition it
replaces) under which TLC finds it violated: `PROJECT.json`, `mutants`.

## 4. Proofs

For every value of the constants, so without the bounds of section 3:

* `Signals_proofs` (`TypeCorrect`, `SectionsAtomic`, `LockReleased`,
  `JumpReady`, `SignalsHandled`). Assumption: `SIGS` are signals, the bounds
  natural numbers. The inductive invariant says that `_mutex` is the nesting
  depth of the frame that runs (plus the sections leaked), that every interrupted
  frame is outside of its sections, and that signals are active only with the
  jump buffer set. `HandlersOutsideSections` is not inductive without the first
  two: `signal_handler ()` decides by a counter that all frames share.
  `NoSignalForgotten` needs `FlagInv` besides: for each registered signal there
  is a frame on the stack that will test its flag (inside a section, or in
  `spl0 ()` at or before that test) or that will not return.
* `LineCache`, in `Signals_proofs` (`WalkTypeCorrect`, `CacheExact`,
  `LookupCorrect`). Assumption:
  `L \in Nat`. The invariant `CacheInv` relates `lp` and `n_prev` at each program
  counter: equal between iterations, one apart between the two assignments.
  `LineFound` follows from it at the end of the walk.
* `Session`, in `MacroStack_proofs` (`TypeCorrect`, `FlagTrusted`, `QuitAsksFirst`,
  `UndoCorrect`). Assumption: `Empty \in Text`, `Faults` as named. `LossAccounted` says that
  with the flag 0 the text is in a file, the user was warned of it, or it is one of
  `unflagged`, to which the named events alone add a text. It needs that the
  *saved* state is accounted for as well (`SavedAccounted`), because `u` makes it
  the current one; `UndoesLast` needs that a command list is only executed with
  `global` set and that `global` is set at the prompt only after a bad suffix.
* `FileHandle_proofs` (`InodeTellsTruth`, `ClosedStreamsUnused`,
  `DefaultFileLocked`, `WriteGoesToTarget`), for any names and numbers of inodes
  and streams, and for calls that other processes and SIGINT may cut into at every
  step. The argument follows one stream through a call (`CallInv`): until it is
  assigned it is not the stream of `handle`; what it is open on is what its name was
  since `stat`; and a stream that the call will close is neither `handle` nor the
  one that the lock of its file depends on (`LockInv`). None of the properties is
  inductive without it. `InodeTellsTruth` includes the race: handle and inode are
  both in `seen`, so they agree where the file was not created or replaced between
  `stat` and `fopen`; `DefaultFileLocked` starts when `set_file_lock ()` was called on
  a file that can be locked, not at the opening.
* `Filter`, in `FileHandle_proofs` (`NoChildLeft`), for any number of filters, any shell commands
  and pipes of any size. `WAITPID ()` counts children without looking at who they
  are; the invariant says that the children of earlier filters are gone and, at
  each place, how many of this one's are left: never more than `waiting`.
* `MacroStack_proofs` (`StackSound`, `CallersResumed`, `PromptRestored`), for any
  registers, programs, scripts and size of the stack. Each property is about the
  innermost activation while `pop_stack_frame ()` uncovers one from below, so
  the invariant `Layered` is a picture of the whole script buffer: under every
  frame lies the script of its caller, then the frame's own register, and its
  address is where the caller goes on.
* `Addresses_proofs` (`RangeCorrect`, `SearchCorrect`, `DotSafe`, `SlotsSound`,
  `PatternsCorrect`), for buffers and address lists of any length, any offsets,
  patterns and size of the heap, and any sessions. Four invariants: `RangeInv` says what the four local variables of `address_range ()` are in
  terms of the meaning of the list read so far, with the case of a first address
  that is omitted and whose value depends on what follows; `SearchInv` that every
  line passed by a search is not a match; `SubstInv` where dot is while `s` goes
  through its range, which `DotSafe` needs to have it in the buffer when `s` is
  stopped; `SlotInv` which blocks the two slots,
  `lhs` and a compilation in progress refer to, at each place where the
  compilation can be interrupted. `ListMeaning` is a recursive function; that it
  exists and what adding an address does to it is proved by induction on the
  length of the list.
* `Streams_proofs` (`TextKept`, `OwnTextRead`, `FlagsRight`, `RoundTripKept`), for
  any bytes, files, registers, sessions and number of faults. `FileOK` says that where nothing was
  read since the last put and no put has failed, `offset` and the file are both
  at its end; `Aligned` that between reads they agree, or the file is at its end,
  or have slipped; `NodesStored` that the text of every sound line is in the file.
  `ReadsOwnText` needs the case of the end of the file: a put that fails with the
  offset -1 leaves file and offset apart without a slip, and only because the
  file is then at its end can a read without a seek return nothing but the empty
  text. `FlagsTrue` is not inductive: while a stream is read the flags lag
  behind the lines, and the text that `j` has collected may hold a NUL that no
  line has any longer; `FlagOK` says both. `RoundTrip` is an equation between a
  stream and the concatenation of all lines. `RoundInv` states it without
  recursion: there is a sequence of texts (`Spells`) that starts empty and grows by
  a line and its newline at each index; `E` extends it with each line it reads
  (`Reads`), and what `w` has written so far is a member of it (`Sofar`). The case
  that decides is the last line of binary data, which is written without the
  newline that was added: it needs that `newline_appended` says exactly that, and
  that `is_binary` says exactly that there is a NUL.
* `Subst_proofs` (`CountIsExact`, `ChosenAreReplaced`, `TextIsKept`), for lines of any
  length, any commands and modifiers of any size. Assumption: every lead byte of a
  line is followed by a continuation byte and no continuation byte stands alone
  (lines of valid UTF-8, NUL bytes anywhere), and the pattern is one of the four. The properties are
  stated over the matches of the line in order, the code finds them one
  `regexec ()` at a time in what is left of the line. `Remaining` says what a loop
  in any state will still find, and the invariant of `count_matches ()` is that what
  is counted and what remains add up; that of `substitute_matching ()` that the
  pieces written so far end at `txt`, cut no character, and replace those matches
  among the first `k` that the command chooses. The case that decides is an empty
  match: whether it counts depends on whether a match has just ended there
  (`matched_prev`) and, for `x*$`, on what lies ahead (`nil_next`).

* `LineBuffer_lemmas` and `LineBuffer_proofs` (`UndoSound`, `Invariant`,
  `DequeCorrect`, `CacheCorrect`, `HeapCorrect`, `NothingDangles`,
  `GlobalLinesLive`, `EditorImplemented`), for any number of nodes and marks, any sessions and any
  bounds (`DequeAssumption`, `BufferAssumption`: numbers are numbers), whatever
  commands may be cut short but for `r`, `E` and `!`.

  The properties speak of walks along the links (`Chain`, `Follow`: recursive
  functions), which say nothing of how the links came about. The proofs compare
  the state with a text `T`, the sequence of the nodes of the lines, instead:
  `Ring (forw, back, T)` says that the links are those of `T`, and where they are,
  a walk from any line meets the lines after it (`FollowForw`, `ChainIs`).
  Inserting, cutting out and exchanging ranges of `T` is then what
  `APPEND_NODE`, `LINK_NODES` and the four calls of `move_lines ()` do.

  None of the five properties is inductive, because `u` brings back links from the
  past. The invariant has to say of the undo queue what each entry will find
  when its turn comes: `Deque (q, f, b, heap, T, T0)` says that there is a text
  for every point of the queue, from `T0`, the one at the start of the command, to
  `T`, the present one; that each entry (two for a move) tells how one follows from the one before it;
  and that the lines of a deleting entry are allocated, belong to no other entry,
  are not on `T` and *still have the links they had in the text they were cut
  from* (`Frozen`). That is what makes `undo_entry ()` right, which puts a range
  back by assigning the two links around it, and what makes
  `reset_undo_queue ()` right, which finds the lines to free by walking inside the
  range. `UndoSound` says what follows for a queue of any length: `u` turns a queue
  from `T0` to `T` into one from `T` to `T0`, so that the text is `T0` and a second
  `u` makes it `T`. Further parts of `Sound`: marks are on allocated lines, the
  cached line has the cached address, the state kept for `u` is one of `T0`, and
  what a global command has yet to visit is on `T`. `Safe` adds the local variables
  of a command in progress (`OpOK`), which survive from one critical section to
  the next: the entry `append_lines ()` extends is the newest and ends with the line that it
  appends after; the node `copy_lines ()` goes on from is on `T`, although lines have
  been inserted meanwhile; the addresses `s` goes on to are addresses of `T`.
  `IInv` says that some `T` and `T0` make the state safe.

  The hypothesis `AbortIn \cap {"r", "E", "!"} = {}` is necessary: a read that is
  cut short leaves `is_empty` set in a buffer with lines (section 5, `io.c:262`), and
  with it TLC finds that the next `r` deletes the current line and then leaves dot
  behind the last one (`DequeOK`). What is cut short inside
  any other command, at every point, is covered.

  The refinement (`EditorImplemented`, under the same hypothesis) needs no further
  invariant. Every step proved safe says besides what it makes of the two texts
  (`Edits`): a command takes `T` as the new `T0` and changes `T` (`Starts`), or leaves
  `T0` and goes on changing `T` (`Goes`); the dot moves (`Points`); `u` exchanges the
  texts and the states (`Undoes`); `E` drops them (`Loads`). `Changed` is the change: a
  range is replaced by lines that were not allocated when the step began, or two
  neighbouring ranges are exchanged. The lines of `T0` are all allocated, those on `T`
  and those that the queue owns, so a line new to the heap is new to both, as
  `LineEditor` demands. What is left is the refinement mapping. Its `old` is what undoing the
  whole queue would make of the links; `UndoDeque`, the lemma behind `UndoSound`, says
  that this is `T0` in every safe state (`SafeView`), and each part of `Edits` is then
  an action of `LineEditor` (`StepView`). A command that its failure path cuts
  short needs no case of its own: what it has done is a change, and `T0` is
  what it was.

Every inductive invariant but that of `LineBuffer`, which says that a sequence
exists, was checked by TLC on the instance of its run before it was proved; of
`LineBuffer` TLC checks what follows from it.

The library's induction theorems have an operator as parameter and cannot be
used, but its theorems about sets can: that every non-empty set of numbers has a
smallest member (`SmallestNat`, from `WFMin` and `NatLessThanWellFounded`) gives
induction where a proof needs it.

Only model-checked:

* liveness, which is out of the prover's reach: `InterruptHonoured`,
  `HangupCompletes`, `WalkEnds`, `MacroEnds`, `LoopsEnd`, `SearchEnds`,
  `FilterEnds`.

## 5. Findings and known weaknesses

Two have a run of their own:

* `undo.c:94`: `u` after `w` brings back the modified flag from before the
  change, 0: `q` then loses the difference between buffer and file silently
  (`session_write_undo`).
* `subst.c:526`: `s/x/y/g-2` on a line with exactly two matches divides by zero
  (`subst_frequency`).

Others were met while modelling. The models contain them unless it says
otherwise, and the properties are stated around them.

Signals:

* `signal.c:276`: a SIGPIPE recorded inside a critical section is never handled
  (`NoSignalForgotten` speaks of the other kinds).
* `signal.c:59`: SIGINT during a `handle_hup ()` called by `spl0 ()` abandons
  the hangup: ed.hup is not completed and ed does not exit (the exception in
  `HangupCompletes`).
* `buffer.c:673`: `append_text_node ()` returns without `spl0 ()` when it has no
  memory; signals are only recorded from then on.

Lines and the buffer file:

* `buffer.c:465`: callers outside of critical sections (for instance
  `global.c:44`, `subst.c:386`, `exec.c:832`) can be interrupted between the two
  assignments, after which `get_line_node ()` returns a neighbour of the line
  asked for (`off` in `LineCache`).
* `buffer.c:344`: a `get_buffer_line ()` that fails or is interrupted after it
  has assigned `offset` leaves file and offset apart. The next get of *the same
  line* sees no need to seek and returns other text; a `w` that is tried again
  after the interrupt writes it (`slip` in `BufferFile`).
* `buffer.c:401`: a put that fails while writing leaves the offset -1, one whose
  node cannot be allocated leaves the old offset; lines put before the next get
  are stored under wrong positions (`spoiled`).
* `filter.c:157`: the child that writes lines to a filter reads them through
  the open file it shares with ed, and so moves the position that ed's next put
  counts on: with `seek_on_write` 0 it overwrites other lines.
* `ed.h:720`, `cmds.c:241`: `malloc` failing for an undo node leaves a change that
  `u` does not undo. Not modelled.

Files, flags and streams:

* `io.c:262`: `is_empty` is cleared after the last line read. A read into an
  empty buffer that is cut short leaves lines in a buffer flagged empty; the
  next `a` acts as `c`, the next `r` deletes the current line (`cut` in
  `Streams`).
* `exec.c:1160`, `io.c:668`, `io.c:804`: a read that is cut short, a write that
  fails after truncating the file and an unnoticed failure of the last
  `fflush ()` leave `is_modified` wrong (`unflagged` in `Session`).
* `filter.c:123`, `exec.c:1159`, `exec.c:578`: what `0!command` and `r !command` read
  into an empty buffer, and `E !command` into any, is in no file, and
  `is_modified` stays 0: `q` loses it silently (`unflagged`).
* `exec.c:1530`: `w` of a part of an unmodified buffer to its own file (`1w`) truncates
  it (`io.c:668`) and leaves `is_modified` 0: `q` then loses the other lines
  silently (`unflagged`).
* `io.c:681`, `io.c:904`: the file may be created or replaced between `stat ()` and
  `fopen ()`. `inode` and `handle` are then of different files, and a later `w` may
  take the one for the other (`seen`, `Replaced` in `FileHandle`).
* `io.c:89`, `io.c:112`, `io.c:697`: a file that cannot be locked, or is locked by another
  process, is used without a lock, and SIGINT taken by the `spl0 ()` at `io.c:108` or
  `io.c:695` leaves the handle without one (`unlocked`). `LockHeld` is about files
  whose lock was set.
* `io.c:779` and its callers: `newline_appended` is one flag for the last line.
  Reading an empty file at the end of a binary buffer, or `j` on its last line,
  clears it; README.md:871-873 says that no newline is appended. Writing or moving
  to a register a part of a binary buffer leaves out the newline of the part's
  last line. `RoundTrip` is about files that are written unchanged.
* `io.c:319`: output of a filter is copied with `strdup`, which loses what
  follows a NUL in a line.
* `exec.c:714`: `G` or `V` with a bad suffix leaves `global` set, and `u` then
  undoes several commands (`stuck` in `Session`).
* `io.c:711`: `w samefile`, naming the default file explicitly, closes the
  stream of the default file while `handle` still refers to it (`shut` in
  `FileHandle`): later commands use a closed stream, or one that was opened
  for another file in the meantime.
* `io.c:89`, `io.c:694`, `buffer.c:194`: `r` of the default file, `w` of a file
  that did not exist and `E` on Linux leave streams open for good. Closing a
  second stream of a file drops its `fcntl` lock. An interrupted `w other`
  leaves a stream that is flushed when ed exits. `E` reports success when the
  file cannot be opened again.
* `register.c:88`, `register.c:157`: `(status = f (...) < 0)` assigns the
  comparison. After an error the status is 1, not negative, and `m>` deletes
  lines that were not stored in the register.

Macros, substitutions and addresses:

* `global.c:103`, `subst.c:382`: an error in the list of a `g`, or in the middle of an `s`,
  leaves dot at the line reached, not where the command began. `DotKept` says
  which lines those can be.

* `register.c:279`: when a nested macro fails it unwinds the whole stack, but
  only the inner loop of its caller ends; with lines left the caller reads
  `stack_frame[-1]` (`seek_outside` in `MacroStack`). An error on a line also
  does not stop the macro from running on the next.
* `subst.c:476`: with a frequency relative to the last match (`3g-1`) the test for
  too few matches also refuses the last match (`TooFew` in `Subst`).
* `exec.c:1186`, `subst.c:92`: in the list of a `g`, `sg2` toggles GSUB for the first line
  only, while `resubstitute ()` clears it for each: on later lines one match is
  replaced, not every second one as README.md:1131 ("a new global modulus
  modifier (g2) overrides the old") has it on the first. `Effect` in `Subst`
  says so (`again`); `ReplacesChosen` is stated with it.
* `subst.c:506`, `subst.c:546`, `subst.c:633`, `subst.c:650`: in a binary line the loops
  end at a NUL byte where the pattern matches the empty string; `s/x*/y/g` replaces
  nothing behind it (`Seen` in `Subst`).
* `subst.c:635`: `count_matches ()` steps by bytes, `substitute_matching ()` by
  characters: on multibyte lines it counts empty matches that do not exist, and
  `$` may select none or another one. `CountExact` says "at least" for such
  lines, `ReplacesChosen` leaves out modifiers that count from the last match.
* `regexp.c:224`: a substitution that fails after its pattern was compiled, or a
  search after `s//` or `sr`, frees the pattern that `lhs` still points to; a
  short form then uses freed memory or another pattern (`orphan` in
  `RegexSlots`).
* `parse.c:147`: a search compiles its pattern outside of a critical section,
  although `get_compiled_regex ()` asserts one; an interrupt between free and
  assignment leaves a freed pattern in the slot (`torn`).
* `sr` after a search and a later substitution (`/a`, `s;b;x`, `sr`) substitutes with
  the pattern of the search, a, as the table above `get_compiled_regex ()` has it;
  README.md:1083-1087 says that it is that of the substitution, b.
  `PatternAsTabled` is about the table: it holds in spite of this disagreement.
* The table above `get_compiled_regex ()` differs from the code in two rows:
  `sr` without a previous search fails (I.3), and `s` after nothing but a search
  fails with "No previous substitution" (II.1).

Filters:

* `filter.c:173`: when opening or reading the shell's output fails, ed goes on to
  wait for the shell with its end of `op` still open: with more output than the
  pipe holds they wait for each other for good (`Stuck`). A failing second
  `fork` leaves `ip[0]` open, and after a failing `delete_lines ()` `WAITPID ()`
  uses `write_pid` uninitialized.
* `filter.c:20`: `WAITPID ()` counts any child, also those that an interrupted
  filter has left.
* The writer child keeps ed's handler of SIGINT: an interrupt makes it jump to
  `main ()`, a second editor on the same terminal.

## 6. Plan

Done: Signals, the line buffer with its refinement, LineCache, Session,
FileHandle, MacroStack, Subst, RegexSlots and Addresses, BufferFile and
Streams, Filter; proofs about all of them, the refinement included.

## 7. Not modelled

* Display and paging (`page.c`) lay out text, and the UTF-8 tables classify
  characters; neither changes the buffer. Encryption (`cbc.c`) is arithmetic on
  bytes.
* Options, file lists, globbing and shell quoting (`main.c`, `parse.c`) process
  strings before the shell and `glob (3)`.
* Parts of modelled files: `macro_in_global` (a macro called from a command
  list), the modifier `p` of repeated substitutions, replacement templates,
  lines continued by a backslash (`get_extended_line`), failure of `malloc` for
  undo nodes, `d` with the compile option `WANT_ED_REGISTER_DELETE`.
* Vendored code: `lib/` and `gnulib` are five sixths of the C code in the
  repository (`regcomp.c`, `regexec.c`, `glob.c`, replacement headers) and are
  used as libraries. ed's own code is the 11 000 lines of `src/src/`, of which
  the models stand for about 43 %; what is left of it is mostly the above and
  the parsing and printing around the modelled logic.
* Test suite, build files.
