------------------------------ MODULE Streams ------------------------------
(***************************************************************************)
(* Text between the buffer and streams (io.c): files and registers that    *)
(* are read into the buffer and written from it, line by line, with the    *)
(* flags that tell whether the buffer is empty, whether it holds NULs, and *)
(* whether the newline at its end was added when it was read.              *)
(*                                                                         *)
(* A stream is a sequence of bytes, "NL" and "NUL" among them.  A command  *)
(* that goes through lines is a job, which reads or writes one line at a   *)
(* time and can fail or be interrupted in between.                         *)
(***************************************************************************)
EXTENDS BufferFile, FiniteSetsExt

CONSTANTS
  Byte,               \* the bytes, "NL" and "NUL" among them
  Files, Registers,   \* the streams; "null" is /dev/null
  Sessions,           \* bound: the commands that are used together, with the
                      \* lines typed and what the files hold at first
  MaxFaults,          \* bound: failures and interrupts
  MaxLines,           \* bound: lines in the buffer
  MaxBytes            \* bound: bytes in the buffer file and in each stream

Names == Files \cup Registers

ASSUME StreamAssumption ==
  /\ {"NL", "NUL"} \subseteq Byte
  /\ "null" \in Files /\ Files \cap Registers = {}
  /\ \A s \in Sessions : s.text \subseteq Seq(Byte) /\ s.contents \subseteq Seq(Byte)
  /\ MaxFaults \in Nat /\ MaxLines \in Nat /\ MaxBytes \in Nat

VARIABLES
  buf,      \* the lines: seek and len of each node, and its text as history
  st,       \* the flags of ed->state
  store,    \* what each stream holds
  job,      \* the command in progress
  from,     \* history: what was read into an empty buffer that has not
            \* changed since, else Unknown
  cut,      \* history: was a read cut short, or wrong text joined?
  session,  \* the session this is
  faults    \* failures and interrupts so far

vars == <<bf, buf, st, store, job, from, cut, session, faults>>

Unknown == [known |-> FALSE, text |-> <<>>]

\* The locals of a command: name is its stream, lo and to are its first and
\* its last line, at is the line it has come to, rest the text it has yet to
\* read or has collected, all whether it concerns the whole buffer, tail
\* whether a stream is read to its end; step is where get_buffer_line () is,
\* got what it has read.  newline_missing and input_is_binary are fields of
\* ed->state that every read starts with.
Idle == [cmd |-> "none", name |-> "null", at |-> 0, lo |-> 0, to |-> 0,
         rest |-> <<>>, size |-> 0, all |-> FALSE, tail |-> FALSE,
         step |-> "line", got |-> <<>>, slipped |-> FALSE,
         newline_missing |-> FALSE, input_is_binary |-> FALSE]

\* init_ed_state ()
init_ed_state ==
  [is_binary |-> FALSE, is_empty |-> TRUE, newline_appended |-> FALSE]

Init ==
  /\ BufferFileInit
  /\ buf = <<>> /\ st = init_ed_state
  /\ session \in Sessions
  /\ store \in {s \in [Names -> session.contents \cup {<<>>}] :
                  \A n \in Registers \cup {"null"} : s[n] = <<>>}
  /\ job = Idle /\ from = Unknown /\ cut = FALSE
  /\ faults = 0

HasNUL(t) == \E i \in DOMAIN t : t[i] = "NUL"
Lines == Len(buf)
Insert(b, after, node) ==
  SubSeq(b, 1, after) \o <<node>> \o SubSeq(b, after + 1, Len(b))
PutAfter(b, after, t) == Insert(Overwritten(b), after, NewNode(File, t))
Without(lo, hi) == SubSeq(buf, 1, lo - 1) \o SubSeq(buf, hi + 1, Lines)

\* Flags after delete_lines ().
Deleted(s, hi) == [s EXCEPT !.newline_appended = @ /\ hi # Lines]

Ready(c) == job = Idle /\ c \in session.cmds /\ UNCHANGED session
NoFault == UNCHANGED <<session, faults>>
Fault == faults < MaxFaults /\ faults' = faults + 1 /\ UNCHANGED session
Fits(t) == Max({Len(bytes), offset}) + Len(t) <= MaxBytes
Room(t) == Lines < MaxLines /\ Fits(t)

----------------------------------------------------------------------------
(* Commands that put lines without reading any. *)

\* One line typed after `a'.  In a buffer that is flagged empty `a' is `c'.
a_cmd(after, t) ==
  LET c_cmd == st.is_empty /\ Lines > 0
      line  == Max({1, after})
      b     == IF c_cmd THEN Without(line, line) ELSE buf
      s0    == IF c_cmd THEN Deleted(st, line) ELSE st
      to    == IF c_cmd THEN line - 1 ELSE after
      s     == [s0 EXCEPT !.is_binary = @ \/ HasNUL(t),
                          !.newline_appended = @ /\ to # Len(b)]
  IN  /\ Ready("a") /\ Room(t)
      /\ \/ /\ SetFile(PutLine(File, t)) /\ UNCHANGED faults
            /\ buf' = PutAfter(b, to, t)
            /\ st' = [s EXCEPT !.is_empty = FALSE]
         \/ /\ \E f \in PutFailures(File, t) : SetFile(f) /\ Fault
            /\ buf' = Overwritten(b) /\ st' = s
      /\ from' = Unknown
      /\ UNCHANGED <<store, job, cut>>

\* Flags when d has deleted lines and b is left; m into a register looks at
\* them only if it has taken the last line.
Emptied(s, b) ==
  [s EXCEPT !.is_empty = (b = <<>>), !.is_binary = @ /\ b # <<>>]
Moved(hi, b) == IF hi = Lines THEN Emptied(Deleted(st, hi), b) ELSE st

d_cmd(lo, hi) ==
  /\ Ready("d")
  /\ buf' = Without(lo, hi)
  /\ st' = Emptied(Deleted(st, hi), buf')
  /\ from' = Unknown
  /\ cut' = (cut /\ buf' # <<>>)
  /\ UNCHANGED <<bf, store, job, faults>>

----------------------------------------------------------------------------
(* read_stream () *)

ReadJob(c, n, text, after, lines) ==
  [Idle EXCEPT !.cmd = c, !.name = n, !.at = after, !.rest = text,
               !.size = Len(text), !.tail = (after = lines)]

\* r: a buffer that is flagged empty loses its current line, wherever that is
\* (addresses past its new end are not looked at).
r_cmd(n, after) ==
  /\ Ready("r")
  /\ IF st.is_empty /\ Lines > 0
       THEN /\ after < Lines
            /\ \E dot \in 1 .. Lines : buf' = Without(dot, dot)
            /\ job' = ReadJob("r", n, store[n], after, Lines - 1)
       ELSE /\ job' = ReadJob("r", n, store[n], after, Lines)
            /\ UNCHANGED buf
  /\ from' = Unknown
  /\ UNCHANGED <<bf, st, store, cut, faults>>

\* E starts with an empty buffer and a new buffer file.
E_cmd(n) ==
  /\ Ready("E")
  /\ reopen_ed_buffer
  /\ buf' = <<>> /\ st' = init_ed_state
  /\ job' = ReadJob("E", n, store[n], 0, 0)
  /\ from' = Unknown /\ cut' = FALSE
  /\ UNCHANGED <<store, faults>>

\* t and m from a register.
append_from_register(c, n, after) ==
  /\ Ready(c)
  /\ job' = ReadJob(c, n, store[n], after, Lines)
  /\ from' = Unknown
  /\ UNCHANGED <<bf, buf, st, store, cut, faults>>

\* !: filter_lines () deletes the lines and has a child process write them to
\* the shell.  The child reads the buffer file through the same open file, and
\* moves it, while ed keeps its offset.  The shell's output is read to memory
\* first and then put in the place of the lines.
filter_lines(lo, hi, output) ==
  LET b == Without(lo, hi)
      s == Deleted(st, hi)
  IN  /\ Ready("filter")
      /\ buf' = b
      /\ st' = IF b = <<>> THEN [s EXCEPT !.is_binary = FALSE, !.is_empty = TRUE]
                          ELSE s
      /\ job' = ReadJob("filter", "null", output, lo - 1, Len(b))
      /\ from' = Unknown /\ cut' = (cut /\ b # <<>>)
      /\ UNCHANGED <<bf, store, faults>>

\* The child reads a line.
filter_child ==
  /\ job.cmd = "filter"
  /\ \E p \in 0 .. Len(bytes) : move_file(p)
  /\ UNCHANGED <<buf, st, store, job, from, cut>> /\ NoFault

\* get_stream_line (): the first line of b.  At the end of the stream the
\* newline may be missing.
NLs(b) == {i \in DOMAIN b : b[i] = "NL"}
FirstLine(b) == IF NLs(b) = {} THEN b ELSE SubSeq(b, 1, Min(NLs(b)) - 1)
AfterLine(b) == IF NLs(b) = {} THEN <<>> ELSE SubSeq(b, Min(NLs(b)) + 1, Len(b))

Reading == job.cmd \in {"E", "r", "t_from", "m_from", "filter"}

\* A read that ends before the end of its stream.
CutShort == job' = Idle /\ cut' = TRUE /\ Fault

\* One turn of the loop.
read_line ==
  LET t == FirstLine(job.rest)
  IN  /\ Reading /\ job.rest # <<>> /\ Room(t)
      /\ \/ /\ SetFile(PutLine(File, t))
            /\ buf' = PutAfter(buf, job.at, t)
            /\ job' = [job EXCEPT !.at = @ + 1, !.rest = AfterLine(@),
                                  !.input_is_binary = @ \/ HasNUL(t),
                                  !.newline_missing = (NLs(job.rest) = {})]
            /\ UNCHANGED cut /\ NoFault
         \/ /\ \E f \in PutFailures(File, t) : SetFile(f)
            /\ CutShort
            /\ buf' = Overwritten(buf)
      /\ UNCHANGED <<st, store, from>>

\* ferror () or malloc () failing.
read_error ==
  /\ Reading
  /\ CutShort
  /\ UNCHANGED <<bf, buf, st, store, from>>

\* Bug variant: text read after binary data makes the buffer text again.
read_flags_text ==
  [st EXCEPT !.is_empty = @ /\ job.size = 0,
             !.newline_appended = IF job.tail THEN job.newline_missing ELSE @,
             !.is_binary = job.input_is_binary]

\* The flags when the stream is at its end.
read_flags ==
  [st EXCEPT !.is_empty = @ /\ job.size = 0,
             !.newline_appended = IF job.tail THEN job.newline_missing ELSE @,
             !.is_binary = @ \/ job.input_is_binary]

\* `r /dev/null' says that no newline ends a binary buffer; m has emptied its
\* register.
read_stream_done ==
  /\ Reading /\ job.rest = <<>>
  /\ st' = IF job.cmd = "r" /\ job.name = "null" /\ read_flags.is_binary
             THEN [read_flags EXCEPT !.newline_appended = TRUE]
             ELSE read_flags
  /\ store' = IF job.cmd = "m_from" THEN [store EXCEPT ![job.name] = <<>>] ELSE store
  /\ from' = IF job.cmd = "E" THEN [known |-> TRUE, text |-> store[job.name]] ELSE Unknown
  /\ job' = Idle
  /\ UNCHANGED <<bf, buf, cut>> /\ NoFault

----------------------------------------------------------------------------
(* Commands that read lines lo to hi of the buffer: p prints them, w, t    *)
(* and m write them to a stream, j joins them.                             *)

LineJob(c, n, lo, hi) ==
  [Idle EXCEPT !.cmd = c, !.name = n, !.at = lo, !.lo = lo, !.to = hi,
               !.all = (lo = 1 /\ hi = Lines)]

display_lines(lo, hi) ==
  /\ Ready("p")
  /\ job' = LineJob("p", "null", lo, hi)
  /\ UNCHANGED <<bf, buf, st, store, from, cut, faults>>

join_lines(lo, hi) ==
  /\ Ready("j")
  /\ job' = LineJob("j", "null", lo, hi)
  /\ UNCHANGED <<bf, buf, st, store, from, cut, faults>>

\* w truncates the file first, W does not; registers likewise.
write_file(c, n, lo, hi, append) ==
  /\ Ready(c)
  /\ store' = IF append THEN store ELSE [store EXCEPT ![n] = <<>>]
  /\ job' = [LineJob(c, n, lo, hi) EXCEPT !.all = @ /\ ~ append]
  /\ UNCHANGED <<bf, buf, st, from, cut, faults>>

\* A register that cannot be emptied: append_to_register () returns the value
\* of a comparison instead of the error, and m goes on to delete the lines.
append_to_register_unreset(c, n, lo, hi) ==
  /\ job = Idle /\ c \in session.cmds /\ store[n] # <<>> /\ Fault
  /\ IF c = "m_to" THEN buf' = Without(lo, hi) /\ st' = Moved(hi, buf')
                 ELSE UNCHANGED <<buf, st>>
  /\ from' = IF c = "m_to" THEN Unknown ELSE from
  /\ UNCHANGED <<bf, store, job, cut>>

Fetching == job.cmd \in {"p", "w", "t_to", "m_to", "j"} /\ job.at <= job.to
Node == buf[job.at]

\* The steps of get_buffer_line ().
fetch_reposition ==
  /\ Fetching /\ job.step = "line"
  /\ reposition(Node)
  /\ job' = [job EXCEPT !.step = IF OutOfPosition(Node) THEN "seek" ELSE "read"]
  /\ UNCHANGED <<buf, st, store, from, cut>> /\ NoFault

fetch_seek ==
  /\ Fetching /\ job.step = "seek"
  /\ fseek(Node)
  /\ job' = [job EXCEPT !.step = "read"]
  /\ UNCHANGED <<buf, st, store, from, cut>> /\ NoFault

fetch_read ==
  /\ Fetching /\ job.step = "read"
  /\ fread(Node)
  /\ job' = [job EXCEPT !.step = "advance", !.got = TextAt(pos, Node.len),
                        !.slipped = @ \/ slip]
  /\ UNCHANGED <<buf, st, store, from, cut>> /\ NoFault

\* Bug variant: the newline that was appended is left out from text, too.
Output_text ==
  IF job.at = job.to /\ st.newline_appended
    THEN job.got ELSE Append(job.got, "NL")

\* What write_stream () adds for the line.  The newline that was appended when
\* the text was read is left out from binary data.
Output ==
  IF job.at = job.to /\ st.is_binary /\ st.newline_appended
    THEN job.got ELSE Append(job.got, "NL")

\* The line is used: printed, written or added to those being joined.
fetch_done ==
  /\ Fetching /\ job.step = "advance"
  /\ advance(Node)
  /\ job' = [job EXCEPT !.step = "line", !.at = @ + 1, !.got = <<>>,
                        !.rest = IF job.cmd = "j" THEN @ \o job.got ELSE @]
  /\ IF job.cmd \in {"w", "t_to", "m_to"}
       THEN /\ Len(store[job.name]) + Len(Output) <= MaxBytes
            /\ store' = [store EXCEPT ![job.name] = @ \o Output]
       ELSE UNCHANGED store
  /\ UNCHANGED <<buf, st, from, cut>> /\ NoFault

Fetched == job.cmd \in {"p", "w", "t_to", "m_to", "j"} /\ job.at > job.to

lines_done ==
  /\ Fetched /\ job.cmd \in {"p", "w", "t_to"}
  /\ job' = Idle
  /\ UNCHANGED <<bf, buf, st, store, from, cut>> /\ NoFault

\* m: the lines are in the register and leave the buffer.
move_done ==
  /\ Fetched /\ job.cmd = "m_to"
  /\ buf' = Without(job.lo, job.to)
  /\ st' = Moved(job.to, buf')
  /\ cut' = (cut /\ buf' # <<>>)
  /\ from' = Unknown
  /\ job' = Idle
  /\ UNCHANGED <<bf, store>> /\ NoFault

\* j: one line takes their place, unless it cannot be put.
join_done ==
  LET b == Without(job.lo, job.to)
  IN  /\ Fetched /\ job.cmd = "j"
      /\ Fits(job.rest)
      /\ \/ /\ SetFile(PutLine(File, job.rest)) /\ NoFault
            /\ buf' = PutAfter(b, job.lo - 1, job.rest)
         \/ /\ \E f \in PutFailures(File, job.rest) : SetFile(f) /\ Fault
            /\ buf' = Overwritten(b)
      /\ st' = Deleted(st, job.to)
      /\ from' = Unknown
      /\ job' = Idle
      /\ cut' = (cut \/ job.slipped \/ \E i \in job.lo .. job.to : ~ buf[i].sound)
      /\ UNCHANGED store

\* A line that cannot be read: the command ends.
fetch_error ==
  /\ Fetching
  /\ \/ job.step = "seek" /\ lose_read
     \/ job.step = "read" /\ fread_fails(Node)
  /\ job' = Idle /\ Fault
  /\ UNCHANGED <<buf, st, store, from, cut>>

\* A line that cannot be written: part of it is in the stream.
put_stream_line_error ==
  /\ Fetching /\ job.step = "advance" /\ job.cmd \in {"w", "t_to", "m_to"}
  /\ advance(Node)
  /\ \E k \in 0 .. Len(job.got) :
       /\ Len(store[job.name]) + k <= MaxBytes
       /\ store' = [store EXCEPT ![job.name] = @ \o SubSeq(job.got, 1, k)]
  /\ job' = Idle /\ Fault
  /\ UNCHANGED <<buf, st, from, cut>>

\* inter_register_copy () and inter_register_move (): append_stream () ends the
\* text with a newline.  A register that was never used takes over the other's
\* file as it is; that it was never used is not remembered here.
EndNL(t) == IF t = <<>> \/ Last(t) = "NL" THEN t ELSE Append(t, "NL")

inter_register(move, a, b, append) ==
  LET base  == IF append THEN store[b] ELSE <<>>
      moved == IF move THEN [store EXCEPT ![a] = <<>>] ELSE store
  IN  /\ Ready(IF move THEN "m_to" ELSE "t_to") /\ a # b
      /\ Len(base) + Len(EndNL(store[a])) <= MaxBytes
      /\ \/ store' = [moved EXCEPT ![b] = base \o EndNL(store[a])]
         \/ move /\ store[b] = <<>> /\ store' = [moved EXCEPT ![b] = store[a]]
      /\ UNCHANGED <<bf, buf, st, job, from, cut, faults>>

\* SIGINT: the jump to main () drops the job.
interrupt ==
  /\ job # Idle /\ Fault
  /\ IF Fetching /\ job.step # "line" THEN lose_read ELSE UNCHANGED bf
  /\ cut' = (cut \/ Reading)
  /\ job' = Idle
  /\ UNCHANGED <<buf, st, store, from>>

----------------------------------------------------------------------------
Ranges == {r \in (1 .. MaxLines) \X (1 .. MaxLines) : r[1] <= r[2] /\ r[2] <= Lines}
Writable == Files \ {"null"}

Edit ==
  \/ \E after \in 0 .. Lines, t \in session.text : a_cmd(after, t)
  \/ \E r \in Ranges : d_cmd(r[1], r[2]) \/ join_lines(r[1], r[2])
  \/ \E r \in Ranges : display_lines(r[1], r[2])

Read ==
  \/ \E n \in Files : E_cmd(n) \/ (\E after \in 0 .. Lines : r_cmd(n, after))
  \/ \E n \in Registers, c \in {"t_from", "m_from"}, after \in 0 .. Lines :
       append_from_register(c, n, after)
  \/ \E r \in Ranges, t \in session.text :
       filter_lines(r[1], r[2], <<>>) \/ filter_lines(r[1], r[2], Append(t, "NL"))
  \/ filter_child \/ read_line \/ read_error \/ read_stream_done

Write ==
  \/ \E r \in Ranges, append \in BOOLEAN :
       \/ \E n \in Writable : write_file("w", n, r[1], r[2], append)
       \/ \E n \in Registers, c \in {"t_to", "m_to"} : write_file(c, n, r[1], r[2], append)
  \/ \E n \in Writable : Lines = 0 /\ write_file("w", n, 1, 0, FALSE)
  \/ \E r \in Ranges, n \in Registers, c \in {"t_to", "m_to"} :
       append_to_register_unreset(c, n, r[1], r[2])
  \/ \E a, b \in Registers, move, append \in BOOLEAN : inter_register(move, a, b, append)

Fetch ==
  \/ fetch_reposition \/ fetch_seek \/ fetch_read \/ fetch_done
  \/ fetch_error \/ put_stream_line_error
  \/ lines_done \/ move_done \/ join_done

Next == Edit \/ Read \/ Write \/ Fetch \/ interrupt

Spec == Init /\ [][Next]_vars

----------------------------------------------------------------------------
(* Properties.                                                             *)

\* The text of every line of the buffer is in the buffer file where its node
\* says, after any mixture of lines read and put, of interrupts and errors; all
\* but the lines put with an offset that is wrong, because a put has failed, and
\* no line was read since.  Where a filter's child has moved the file, such a
\* put may overwrite the text of any line.
TextStored ==
  \A i \in DOMAIN buf :
    buf[i].sound => /\ buf[i].seek >= 0
                    /\ TextAt(buf[i].seek, buf[i].len) = buf[i].text

\* get_buffer_line () returns the text of the line it is given, unless the read
\* before it was cut short between its seek and its last assignment, or a
\* filter's child has moved the file, and no seek has been made since.
ReadsOwnText ==
  job.step = "advance" => job.got = Node.text \/ slip \/ ~ Node.sound

\* A file that is read and written back is the same, byte for byte, if it has
\* a NUL; and if it has none it at most gains a newline at its end.
RoundTrip ==
  job.cmd = "w" /\ Fetched /\ job.all /\ from.known =>
    \/ store[job.name] = IF HasNUL(from.text) THEN from.text ELSE EndNL(from.text)
    \/ job.slipped

\* Between commands the flags are right about the buffer: none that is flagged
\* empty has lines (`a' and `r' would delete one), and none that has a NUL is
\* taken for text, unless a read was cut short.
FlagsTrue ==
  job = Idle /\ ~ cut =>
    /\ st.is_empty => buf = <<>>
    /\ (\E i \in DOMAIN buf : HasNUL(buf[i].text)) => st.is_binary
=============================================================================
