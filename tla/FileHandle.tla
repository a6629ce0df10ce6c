----------------------------- MODULE FileHandle -----------------------------
(***************************************************************************)
(* The file that ed keeps open and locked (built with --enable-file-lock   *)
(* where there is flock ()).  ed->file->handle is the stream of the        *)
(* default file and ed->file->inode the inode it was opened on, as stat () *)
(* has given it: read_file () and write_file () (io.c) compare it with the *)
(* inode of the file they are given, to find out whether that file is the  *)
(* one already open.                                                       *)
(*                                                                         *)
(* A command is as many steps as it has places where something may come    *)
(* between: stat (), open, assignment, lock, transfer.  Before each of     *)
(* them other processes may remove, replace or rename files, and SIGINT    *)
(* may end the command.  Streams, inodes and locks are the library's and   *)
(* the kernel's: fopen () hands out a stream that is not open, and a flock *)
(* () lock belongs to a stream.  (The fcntl () lock set as well goes when any *)
(* stream on the file is closed; it is not modelled.)                      *)
(***************************************************************************)
EXTENDS Naturals

CONSTANTS
  File,     \* file names
  Inode,    \* bound: inodes of the file system
  Stream    \* bound: streams the process can have open

NoName == "none"

\* "i-node 0 is not assigned to any file", and 0 is NULL.
ASSUME FileAssumption == 0 \notin Inode /\ 0 \notin Stream /\ NoName \notin File

VARIABLES
  linux,    \* is __linux__ defined?
  name,     \* ed->file->name
  inode,    \* ed->file->inode
  handle,   \* ed->file->handle
  dir,      \* the inode of every file name, 0 if there is no such file
  open,     \* the inode every stream is open on, 0 if it is closed
  flk,      \* streams that hold a flock () lock
  op,       \* the call of read_file () or write_file () in progress
  seen,     \* history: what the default file was, from stat () to its opening
  unlocked, \* history: 1 while handle has not been given its lock
  shut,     \* history: 1 once write_file () has closed handle
  used      \* history: 1 once a closed stream has been used

ed_file == <<linux, name, inode, handle>>
system == <<dir, open, flk>>
history == <<seen, unlocked, shut, used>>
vars == <<linux, name, inode, handle, dir, open, flk, op, seen, unlocked, shut, used>>

\* A call: the function, the file, is_default, the inode that stat () has
\* given, the stream, the next step, and what the file was until it is opened.
Call(cmd, fn, is_default) ==
  [cmd |-> cmd, fn |-> fn, is_default |-> is_default, ino |-> dir[fn], fp |-> 0,
   pc |-> "open", had |-> {dir[fn]}]
Idle ==
  [cmd |-> "none", fn |-> NoName, is_default |-> FALSE, ino |-> 0, fp |-> 0,
   pc |-> "open", had |-> {}]

Init ==
  /\ linux \in BOOLEAN
  /\ name = NoName /\ inode = 0 /\ handle = 0
  /\ dir \in [File -> Inode \cup {0}]
  /\ open = [s \in Stream |-> 0] /\ flk = {} /\ op = Idle
  /\ seen = {} /\ unlocked = 0 /\ shut = 0 /\ used = 0

----------------------------------------------------------------------------
(* Streams and locks. *)

IsOpen(s) == s # 0 /\ open[s] # 0
Free == {s \in Stream : open[s] = 0}
fopen(s, ino) == open' = [open EXCEPT ![s] = ino]
fclose(s) == open' = [open EXCEPT ![s] = 0] /\ flk' = flk \ {s}

\* An inode that no file name and no stream refers to.
Fresh == Inode \ ({dir[f] : f \in File} \cup {open[s] : s \in Stream})

\* Bug variant: the lock is not taken.
set_file_lock_not(s) == UNCHANGED flk

\* set_file_lock (): flock () fails when another stream has the lock of the
\* same file, even one of the same process.
set_file_lock(s) ==
  flk' = IF \E x \in flk \ {s} : open[x] = open[s] THEN flk ELSE flk \cup {s}

\* A closed stream is used: anything may happen, so the model stops there.
Misused ==
  /\ used' = 1 /\ op' = Idle
  /\ UNCHANGED <<ed_file, system, seen, unlocked, shut>>

\* The call ends, with an error or because there is nothing to do.
Leave == op' = Idle /\ UNCHANGED <<ed_file, system, history>>

At(cmd, pc) == used = 0 /\ op.cmd = cmd /\ op.pc = pc

\* "File already open"
AlreadyOpen == op.ino # 0 /\ op.ino = inode

----------------------------------------------------------------------------
(* The commands, up to stat () in get_inode (). *)

Prompt == used = 0 /\ op = Idle /\ UNCHANGED <<linux, system>>

\* `r file' and `w file' set the default name if there is none; `w' does so
\* before it writes, and may write a part of the buffer.
rw_cmd(cmd, fn) ==
  /\ Prompt
  /\ name' = IF name = NoName THEN fn ELSE name
  /\ op' = Call(cmd, fn, name = NoName)
  /\ UNCHANGED <<inode, handle, history>>

rw_cmd_default(cmd) ==
  /\ Prompt /\ name # NoName
  /\ op' = Call(cmd, name, TRUE)
  /\ UNCHANGED <<name, inode, handle, history>>

\* init_ed_command () forgets the handle; other systems than Linux close it.
E_cmd(fn) ==
  \/ used = 0 /\ op = Idle /\ ~ linux /\ handle # 0 /\ ~ IsOpen(handle) /\ Misused
  \/ /\ used = 0 /\ op = Idle
     /\ linux \/ handle = 0 \/ IsOpen(handle)
     /\ IF linux \/ handle = 0 THEN UNCHANGED <<open, flk>> ELSE fclose(handle)
     /\ name' = fn /\ inode' = 0 /\ handle' = 0
     /\ op' = Call("read", fn, TRUE)
     /\ seen' = {} /\ unlocked' = 0 /\ shut' = 0
     /\ UNCHANGED <<linux, dir, used>>

f_cmd(fn) ==
  /\ Prompt
  /\ name' = fn
  /\ UNCHANGED <<inode, handle, op, history>>

----------------------------------------------------------------------------
(* read_file () *)

\* The position of the stream is set if the file is already open, and still it
\* is opened once more: what the name is by now.
read_open ==
  /\ At("read", "open")
  /\ \/ AlreadyOpen /\ ~ IsOpen(handle) /\ Misused
     \* "File does not exist", "File open error", or nothing is to be read.
     \/ Leave
     \/ /\ AlreadyOpen => IsOpen(handle)
        /\ dir[op.fn] # 0
        /\ \E s \in Free : /\ fopen(s, dir[op.fn])
                           /\ op' = [op EXCEPT !.fp = s, !.pc = "assign"]
        /\ UNCHANGED <<ed_file, dir, flk, history>>

\* Bug variant: the inode is not remembered with the handle.
SetHandle_no_inode ==
  /\ handle' = op.fp /\ seen' = op.had
  /\ unlocked' = 1 /\ shut' = 0
  /\ UNCHANGED inode

\* Both are set in one critical section.
SetHandle ==
  /\ inode' = op.ino /\ handle' = op.fp /\ seen' = op.had
  /\ unlocked' = 1 /\ shut' = 0

\* The new stream is kept as handle only if the file is not already open.
read_assign ==
  /\ At("read", "assign")
  /\ IF op.is_default /\ ~ AlreadyOpen THEN SetHandle
     ELSE UNCHANGED <<inode, handle, seen, unlocked, shut>>
  /\ op' = [op EXCEPT !.pc = "lock"]
  /\ UNCHANGED <<linux, name, system, used>>

\* The lock is set on the stream, or it cannot be: the file could be opened for
\* reading only, another process has it locked, or there are no locks; ed goes
\* on all the same.
lock(cmd) ==
  /\ At(cmd, "lock")
  /\ \/ UNCHANGED <<flk, unlocked>>
     \/ /\ set_file_lock(op.fp)
        /\ unlocked' = IF op.fp = handle THEN 0 ELSE unlocked
  /\ op' = [op EXCEPT !.pc = "transfer"]
  /\ UNCHANGED <<ed_file, dir, open, seen, shut, used>>

\* Bug variant: the stream is closed although it is kept as handle.
read_transfer_closed ==
  /\ At("read", "transfer")
  /\ fclose(op.fp)
  /\ op' = Idle
  /\ UNCHANGED <<ed_file, dir, history>>

\* A read that fails leaves the stream open.
read_transfer ==
  /\ At("read", "transfer")
  /\ UNCHANGED <<open, flk>> \/ (~ op.is_default /\ fclose(op.fp))
  /\ op' = Idle
  /\ UNCHANGED <<ed_file, dir, history>>

----------------------------------------------------------------------------
(* write_file () *)

\* The file is the one already open: it is truncated, and will be written,
\* through handle, which has its lock or not.
write_open_handle ==
  \/ Leave                              \* "Permission denied"
  \/ ~ IsOpen(handle) /\ Misused
  \/ /\ IsOpen(handle)
     /\ op' = [op EXCEPT !.fp = handle, !.pc = "transfer"]
     /\ UNCHANGED <<ed_file, system, history>>

\* Any other file is opened, and created if the name is of no file by now.
write_open_new ==
  \/ Leave                              \* "File open error"
  \/ /\ \E s \in Free, ino \in IF dir[op.fn] = 0 THEN Fresh ELSE {dir[op.fn]} :
          /\ fopen(s, ino)
          /\ dir' = [dir EXCEPT ![op.fn] = ino]
          /\ op' = [op EXCEPT !.fp = s, !.pc = "assign", !.had = @ \cup {ino}]
     /\ UNCHANGED <<ed_file, flk, history>>

\* Bug variant: the inode of the file is not compared.
write_open_any ==
  /\ At("write", "open")
  /\ IF inode # 0 THEN write_open_handle ELSE write_open_new

write_open ==
  /\ At("write", "open")
  /\ IF AlreadyOpen THEN write_open_handle ELSE write_open_new

write_assign ==
  /\ At("write", "assign")
  /\ IF op.is_default THEN SetHandle
     ELSE UNCHANGED <<inode, handle, seen, unlocked, shut>>
  /\ op' = [op EXCEPT !.pc = "lock"]
  /\ UNCHANGED <<linux, name, system, used>>

\* The stream is closed unless the file was named by default; an error leaves
\* it open.
write_transfer ==
  /\ At("write", "transfer")
  /\ \/ UNCHANGED <<open, flk, shut>>
     \/ /\ ~ op.is_default /\ fclose(op.fp)
        /\ shut' = IF op.fp = handle THEN 1 ELSE shut
  /\ op' = Idle
  /\ UNCHANGED <<ed_file, dir, seen, unlocked, used>>

----------------------------------------------------------------------------
\* SIGINT: main () reads the next command, and nothing is undone.
Interrupt == used = 0 /\ op # Idle /\ Leave

\* Someone else removes a file, or replaces it by a new one or another one.
External(fn, ino) ==
  /\ used = 0
  /\ dir' = [dir EXCEPT ![fn] = ino]
  /\ op' = IF op.fn = fn /\ op.pc = "open" THEN [op EXCEPT !.had = @ \cup {ino}] ELSE op
  /\ UNCHANGED <<ed_file, open, flk, history>>

Next ==
  \/ \E fn \in File :
       \/ \E cmd \in {"read", "write"} : rw_cmd(cmd, fn)
       \/ E_cmd(fn) \/ f_cmd(fn)
       \/ \E ino \in Fresh \cup {dir[f] : f \in File} \cup {0} : External(fn, ino)
  \/ \E cmd \in {"read", "write"} : rw_cmd_default(cmd) \/ lock(cmd)
  \/ read_open \/ read_assign \/ read_transfer
  \/ write_open \/ write_assign \/ write_transfer
  \/ Interrupt

Spec == Init /\ [][Next]_vars

----------------------------------------------------------------------------
(* Properties. *)

\* Was the default file created or replaced between stat () and its opening?
Replaced == \E x, y \in seen : x # y

\* ed->file->inode tells the truth: handle is a stream that is open on that
\* inode, however the file was opened, rewritten, replaced or renamed since,
\* and whatever was interrupted.  If the file was created or replaced between
\* stat () and fopen (), the race that io.c notes twice, then the two are what
\* the name was in that time.  An explicit `w' of the file has closed handle.
HandleOpen ==
  shut = 0 /\ handle # 0 =>
    IsOpen(handle) /\ {inode, open[handle]} \subseteq seen

\* No stream is used after it was closed, with the same exception.
NoUseAfterClose == used = 1 => shut = 1

\* Once handle was given its lock, the process keeps the file locked as long as
\* it is open, with flock (): through handle or through a stream that was never
\* closed; however often the file is read and written meanwhile.
LockHeld ==
  shut = 0 /\ handle # 0 /\ unlocked = 0 => \E s \in flk : open[s] = open[handle]

\* A write goes to a file that its name was while the command was executed,
\* also when files are replaced behind the back of the editor: handle is never
\* taken for another file, unless its own file was replaced before fopen ().
WritesTarget ==
  op.cmd = "write" /\ op.fp # 0 /\ shut = 0 =>
    open[op.fp] \in op.had \/ (op.fp = handle /\ Replaced)
=============================================================================
