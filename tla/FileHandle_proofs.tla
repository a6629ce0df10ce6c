------------------------- MODULE FileHandle_proofs -------------------------
(***************************************************************************)
(* Proofs about FileHandle, for any file names, inodes and streams, and    *)
(* about Filter (below).                                                   *)
(*                                                                         *)
(* The argument follows one stream through the steps of a call: until it   *)
(* is assigned it is not the stream of handle, what it is open on is what  *)
(* the file was since stat (), and a stream that a call will close is not  *)
(* the one that handle, or the lock of its file, depends on.               *)
(***************************************************************************)
EXTENDS FileHandle, Filter, TLAPS

Inode0 == Inode \cup {0}
Stream0 == Stream \cup {0}

CallType ==
  [cmd : {"none", "read", "write"}, fn : File \cup {NoName}, is_default : BOOLEAN,
   ino : Inode0, fp : Stream0, pc : {"open", "assign", "lock", "transfer"},
   had : SUBSET Inode0]

TypeInv ==
  /\ linux \in BOOLEAN /\ name \in File \cup {NoName}
  /\ inode \in Inode0 /\ handle \in Stream0
  /\ dir \in [File -> Inode0] /\ open \in [Stream -> Inode0]
  /\ flk \subseteq Stream /\ op \in CallType
  /\ seen \subseteq Inode0
  /\ unlocked \in {0, 1} /\ shut \in {0, 1} /\ used \in {0, 1}

\* The call in progress, as far as it has come.
CallInv ==
  /\ op.cmd = "none" => op = Idle
  /\ op.pc = "open" => op.fp = 0
  /\ op.cmd # "none" => op.fn \in File /\ op.ino \in op.had
  /\ op.cmd # "none" /\ op.pc = "open" => dir[op.fn] \in op.had
  /\ op.pc # "open" => op.fp # 0 /\ open[op.fp] # 0
  /\ op.pc = "assign" => open[op.fp] \in op.had
  /\ op.pc = "assign" /\ shut = 0 => op.fp # handle
  /\ op.cmd = "read" /\ op.pc # "open" /\ ~ op.is_default /\ shut = 0 => op.fp # handle
  /\ op.pc # "open" /\ shut = 0 =>
       open[op.fp] \in op.had \/ (op.fp = handle /\ Replaced)

\* handle is open, and on a file that its name was when it was opened.
HandleInv ==
  /\ inode # 0 => handle # 0
  /\ HandleOpen

\* The lock is held through a stream that the call in progress does not close.
LockInv ==
  shut = 0 /\ handle # 0 /\ unlocked = 0 =>
    \E s \in flk : /\ open[s] = open[handle]
                   /\ op.fp = s => op.is_default \/ s = handle

IInv == TypeInv /\ CallInv /\ HandleInv /\ LockInv /\ NoUseAfterClose

----------------------------------------------------------------------------
(* The steps of every action that the parts of the invariant look at. *)

LEMMA InitIInv == Init => IInv
BY FileAssumption DEF Init, IInv, TypeInv, CallInv, HandleInv, HandleOpen, LockInv,
   NoUseAfterClose, Idle, CallType, Inode0, Stream0

\* A call that begins knows what its file is.
LEMMA CallBegins ==
  ASSUME TypeInv, NEW cmd \in {"read", "write"}, NEW fn \in File, NEW d \in BOOLEAN
  PROVE  /\ Call(cmd, fn, d) \in CallType
         /\ Call(cmd, fn, d).cmd = cmd /\ Call(cmd, fn, d).pc = "open"
         /\ Call(cmd, fn, d).fp = 0 /\ Call(cmd, fn, d).fn = fn
         /\ Call(cmd, fn, d).ino = dir[fn] /\ Call(cmd, fn, d).had = {dir[fn]}
BY DEF Call, CallType, TypeInv, Inode0, Stream0

LEMMA IdleIs ==
  /\ Idle \in CallType
  /\ Idle.cmd = "none" /\ Idle.fp = 0 /\ Idle.pc = "open" /\ Idle.fn = NoName
BY DEF Idle, CallType, Inode0, Stream0

\* Nothing but the call itself ends.
LEMMA LeaveIInv == IInv /\ Leave => IInv'
<1> SUFFICES ASSUME IInv, Leave PROVE IInv'
  OBVIOUS
<1>1. TypeInv' /\ NoUseAfterClose'
  BY IdleIs DEF IInv, TypeInv, Leave, ed_file, system, history, NoUseAfterClose
<1>2. CallInv'
  BY IdleIs DEF Leave, CallInv
<1>3. HandleInv'
  BY DEF IInv, HandleInv, HandleOpen, IsOpen, Leave, ed_file, system, history
<1>4. LockInv'
  BY IdleIs, FileAssumption
     DEF IInv, TypeInv, LockInv, Leave, ed_file, system, history
<1> QED
  BY <1>1, <1>2, <1>3, <1>4 DEF IInv

\* A closed stream can only be used once an explicit `w' has closed it.
LEMMA MisusedIInv == IInv /\ Misused /\ shut = 1 => IInv'
<1> SUFFICES ASSUME IInv, Misused, shut = 1 PROVE IInv'
  OBVIOUS
<1>1. TypeInv' /\ NoUseAfterClose'
  BY IdleIs DEF IInv, TypeInv, Misused, ed_file, system, NoUseAfterClose
<1>2. CallInv'
  BY IdleIs DEF Misused, CallInv
<1>3. HandleInv' /\ LockInv'
  BY DEF IInv, HandleInv, HandleOpen, LockInv, Misused, ed_file, system
<1> QED
  BY <1>1, <1>2, <1>3 DEF IInv

\* The handle of a file that is already open is open.
LEMMA AlreadyOpenIs == IInv /\ AlreadyOpen /\ shut = 0 => IsOpen(handle)
BY DEF IInv, HandleInv, HandleOpen, AlreadyOpen

----------------------------------------------------------------------------
(* Commands. *)

LEMMA BeginIInv ==
  ASSUME IInv, NEW cmd \in {"read", "write"}, NEW fn \in File, NEW d \in BOOLEAN,
         op' = Call(cmd, fn, d), name' \in File \cup {NoName}, linux' = linux,
         UNCHANGED <<system, inode, handle, history>>
  PROVE  IInv'
<1>0. TypeInv
  BY DEF IInv
<1>1. TypeInv' /\ NoUseAfterClose'
  BY <1>0, CallBegins DEF IInv, TypeInv, system, history, NoUseAfterClose
<1>2. CallInv'
  <2>1. dir' = dir
    BY DEF system
  <2> QED
    BY <1>0, <2>1, CallBegins DEF CallInv
<1>3. HandleInv'
  BY DEF IInv, HandleInv, HandleOpen, IsOpen, system, history
<1>4. LockInv'
  <2>1. op'.fp = 0 /\ flk \subseteq Stream
    BY <1>0, CallBegins DEF TypeInv
  <2> QED
    BY <2>1, FileAssumption DEF IInv, LockInv, system, history
<1> QED
  BY <1>1, <1>2, <1>3, <1>4 DEF IInv

LEMMA EIInv == ASSUME IInv, NEW fn \in File, E_cmd(fn) PROVE IInv'
<1>0. TypeInv
  BY DEF IInv
<1>1. CASE ~ linux /\ handle # 0 /\ ~ IsOpen(handle) /\ Misused
  <2>1. shut = 1
    BY <1>1, <1>0 DEF IInv, HandleInv, HandleOpen, TypeInv
  <2> QED
    BY <1>1, <2>1, MisusedIInv
<1>2. CASE ~ (~ linux /\ handle # 0 /\ ~ IsOpen(handle) /\ Misused)
  <2>1. /\ IF linux \/ handle = 0 THEN UNCHANGED <<open, flk>> ELSE fclose(handle)
        /\ name' = fn /\ inode' = 0 /\ handle' = 0
        /\ op' = Call("read", fn, TRUE)
        /\ seen' = {} /\ unlocked' = 0 /\ shut' = 0
        /\ linux' = linux /\ dir' = dir /\ used' = used /\ used = 0
    BY <1>2 DEF E_cmd
  <2>2. open' \in [Stream -> Inode0] /\ flk' \subseteq Stream
    BY <2>1, <1>0 DEF fclose, TypeInv, Inode0
  <2>3. TypeInv' /\ NoUseAfterClose'
    BY <2>1, <2>2, <1>0, CallBegins DEF TypeInv, NoUseAfterClose, Inode0, Stream0
  <2>4. CallInv'
    <3>1. /\ op'.cmd = "read" /\ op'.pc = "open" /\ op'.fp = 0 /\ op'.fn = fn
          /\ op'.ino = dir[fn] /\ op'.had = {dir[fn]}
      BY <2>1 DEF Call
    <3> QED
      BY <2>1, <3>1 DEF CallInv
  <2>5. HandleInv' /\ LockInv'
    BY <2>1 DEF HandleInv, HandleOpen, LockInv
  <2> QED
    BY <2>3, <2>4, <2>5 DEF IInv
<1> QED
  BY <1>1, <1>2

\* `f' only changes the name.
LEMMA FIInv == ASSUME IInv, NEW fn \in File, f_cmd(fn) PROVE IInv'
<1>1. /\ name' = fn
      /\ UNCHANGED <<linux, inode, handle, dir, open, flk, op, seen, unlocked, shut, used>>
  BY DEF f_cmd, Prompt, system, history
<1>2. TypeInv'
  BY <1>1 DEF IInv, TypeInv
<1>3. CallInv' /\ HandleInv' /\ LockInv' /\ NoUseAfterClose'
  BY <1>1 DEF IInv, CallInv, HandleInv, HandleOpen, IsOpen, LockInv, NoUseAfterClose,
              Replaced
<1> QED
  BY <1>2, <1>3 DEF IInv

----------------------------------------------------------------------------
(* The steps of a call. *)

\* A stream is opened: it was no stream of handle or of a lock that counts.
LEMMA OpenIInv ==
  ASSUME IInv, used = 0, op.cmd # "none", op.pc = "open",
         NEW s \in Free, NEW ino \in Inode, NEW had \in SUBSET Inode0,
         ino \in had, op.had \subseteq had, fopen(s, ino),
         op' = [op EXCEPT !.fp = s, !.pc = "assign", !.had = had],
         dir' \in [File -> Inode0], UNCHANGED <<ed_file, flk, history>>
  PROVE  IInv'
<1>0. TypeInv /\ CallInv
  BY DEF IInv
<1>1. /\ s \in Stream /\ s # 0 /\ open[s] = 0 /\ ino # 0
      /\ open' = [open EXCEPT ![s] = ino]
  BY FileAssumption DEF Free, fopen
<1>2. /\ open'[s] = ino
      /\ \A x \in Stream \ {s} : open'[x] = open[x]
      /\ open' \in [Stream -> Inode0]
  BY <1>0, <1>1 DEF TypeInv, Inode0
<1>3. /\ op' \in CallType /\ op'.fp = s /\ op'.pc = "assign" /\ op'.had = had
      /\ op'.cmd = op.cmd /\ op'.fn = op.fn /\ op'.ino = op.ino
      /\ op'.is_default = op.is_default
  BY <1>0, <1>1 DEF TypeInv, CallType, Stream0
<1>4. shut = 0 /\ handle # 0 => handle # s /\ handle \in Stream
  BY <1>0, <1>1 DEF IInv, HandleInv, HandleOpen, IsOpen, TypeInv, Stream0
<1>5. TypeInv' /\ NoUseAfterClose'
  BY <1>0, <1>2, <1>3 DEF IInv, TypeInv, NoUseAfterClose, ed_file, history
<1>6. CallInv'
  <2>1. handle' = handle /\ shut' = shut
    BY DEF ed_file, history
  <2>2. shut' = 0 => op'.fp # handle'
    BY <2>1, <1>1, <1>3, <1>4
  <2>3. op'.fn \in File /\ op'.ino \in op'.had
    BY <1>0, <1>3 DEF CallInv
  <2> QED
    BY <1>1, <1>2, <1>3, <2>2, <2>3 DEF CallInv
<1>7. HandleInv'
  BY <1>0, <1>2, <1>4 DEF IInv, HandleInv, HandleOpen, IsOpen, ed_file, history
<1>8. LockInv'
  <2> SUFFICES ASSUME shut = 0, handle # 0, unlocked = 0
               PROVE  \E x \in flk : /\ open'[x] = open'[handle]
                                     /\ op'.fp = x => op'.is_default \/ x = handle
    BY DEF LockInv, ed_file, history
  <2>1. PICK x \in flk : open[x] = open[handle]
    BY DEF IInv, LockInv
  <2>2. open[handle] # 0 /\ x \in Stream
    BY <1>0, <2>1 DEF IInv, HandleInv, HandleOpen, IsOpen, TypeInv
  <2>3. x # s
    BY <2>1, <2>2, <1>1
  <2> QED
    BY <2>1, <2>2, <2>3, <1>2, <1>3, <1>4
<1> QED
  BY <1>5, <1>6, <1>7, <1>8 DEF IInv

LEMMA ReadOpenIInv == IInv /\ read_open => IInv'
<1> SUFFICES ASSUME IInv, read_open PROVE IInv'
  OBVIOUS
<1>0. TypeInv /\ CallInv /\ used = 0 /\ op.cmd = "read" /\ op.pc = "open"
  BY DEF IInv, read_open, At
<1>1. CASE AlreadyOpen /\ ~ IsOpen(handle) /\ Misused
  BY <1>0, <1>1, AlreadyOpenIs, MisusedIInv DEF TypeInv
<1>2. CASE Leave
  BY <1>2, LeaveIInv
<1>3. CASE /\ dir[op.fn] # 0
           /\ \E s \in Free : /\ fopen(s, dir[op.fn])
                              /\ op' = [op EXCEPT !.fp = s, !.pc = "assign"]
           /\ UNCHANGED <<ed_file, dir, flk, history>>
  <2>1. PICK s \in Free : /\ fopen(s, dir[op.fn])
                          /\ op' = [op EXCEPT !.fp = s, !.pc = "assign"]
    BY <1>3
  <2>2. dir[op.fn] \in Inode /\ dir[op.fn] \in op.had /\ op.had \in SUBSET Inode0
    BY <1>0, <1>3 DEF TypeInv, CallInv, CallType, Inode0
  <2>3. op' = [op EXCEPT !.fp = s, !.pc = "assign", !.had = op.had]
    BY <1>0, <2>1 DEF TypeInv, CallType
  <2>4. dir' \in [File -> Inode0] /\ UNCHANGED <<ed_file, flk, history>>
    BY <1>0, <1>3 DEF TypeInv
  <2> QED
    BY <1>0, <2>1, <2>2, <2>3, <2>4, OpenIInv
<1> QED
  BY <1>1, <1>2, <1>3 DEF read_open

\* What a step that changes only the place of the call keeps.
LEMMA AssignIInv ==
  ASSUME IInv, NEW cmd \in {"read", "write"}, At(cmd, "assign"),
         SetHandle \/ UNCHANGED <<inode, handle, seen, unlocked, shut>>,
         cmd = "read" /\ ~ op.is_default
           => UNCHANGED <<inode, handle, seen, unlocked, shut>>,
         op' = [op EXCEPT !.pc = "lock"],
         UNCHANGED <<linux, name, system, used>>
  PROVE  IInv'
<1>0. TypeInv /\ CallInv /\ used = 0 /\ op.cmd = cmd /\ op.pc = "assign"
  BY DEF IInv, At
<1>1. /\ op' \in CallType /\ op'.pc = "lock" /\ op'.fp = op.fp /\ op'.had = op.had
      /\ op'.cmd = op.cmd /\ op'.fn = op.fn /\ op'.ino = op.ino
      /\ op'.is_default = op.is_default
  BY <1>0 DEF TypeInv, CallType
<1>2. open' = open /\ flk' = flk /\ dir' = dir
  BY DEF system
<1>3. TypeInv' /\ NoUseAfterClose'
  BY <1>0, <1>1 DEF TypeInv, CallType, NoUseAfterClose, system, SetHandle
<1>4. CASE SetHandle
  <2>1. cmd = "read" => op.is_default \/ shut' # 0 \/ op.fp # handle'
    BY <1>0, <1>4 DEF CallInv, SetHandle
  <2>2. CallInv'
    BY <1>0, <1>1, <1>2, <2>1 DEF CallInv
  <2>3. HandleInv'
    BY <1>0, <1>1, <1>2, <1>4 DEF CallInv, SetHandle, HandleInv, HandleOpen, IsOpen
  <2>4. LockInv'
    BY <1>4 DEF SetHandle, LockInv
  <2> QED
    BY <1>3, <2>2, <2>3, <2>4 DEF IInv
<1>5. CASE UNCHANGED <<inode, handle, seen, unlocked, shut>>
  <2>1. CallInv'
    BY <1>0, <1>1, <1>2, <1>5 DEF CallInv
  <2>2. HandleInv'
    BY <1>2, <1>5 DEF IInv, HandleInv, HandleOpen, IsOpen
  <2>3. LockInv'
    BY <1>1, <1>2, <1>5 DEF IInv, LockInv
  <2> QED
    BY <1>3, <2>1, <2>2, <2>3 DEF IInv
<1> QED
  BY <1>4, <1>5

\* The lock: either it is set, on handle or another stream, or nothing is.
LEMMA LockIInv == ASSUME IInv, NEW cmd \in {"read", "write"}, lock(cmd) PROVE IInv'
<1>0. TypeInv /\ CallInv /\ used = 0 /\ op.cmd = cmd /\ op.pc = "lock"
  BY DEF IInv, At, lock
<1>1. /\ op' \in CallType /\ op'.pc = "transfer" /\ op'.fp = op.fp /\ op'.had = op.had
      /\ op'.cmd = op.cmd /\ op'.fn = op.fn /\ op'.ino = op.ino
      /\ op'.is_default = op.is_default
  BY <1>0 DEF TypeInv, CallType, lock
<1>2. /\ UNCHANGED <<ed_file, dir, open, seen, shut, used>>
      /\ \/ UNCHANGED <<flk, unlocked>>
         \/ /\ set_file_lock(op.fp)
            /\ unlocked' = IF op.fp = handle THEN 0 ELSE unlocked
  BY DEF lock
<1>3. op.fp \in Stream /\ flk \subseteq flk' /\ flk' \subseteq Stream /\ unlocked' \in {0, 1}
  BY <1>0, <1>2 DEF TypeInv, CallInv, CallType, Stream0, set_file_lock
<1>4. TypeInv' /\ NoUseAfterClose'
  BY <1>0, <1>1, <1>2, <1>3 DEF TypeInv, NoUseAfterClose, ed_file
<1>5. CallInv'
  BY <1>0, <1>1, <1>2 DEF CallInv, ed_file, Replaced
<1>6. HandleInv'
  BY <1>2 DEF IInv, HandleInv, HandleOpen, IsOpen, ed_file
<1>7. LockInv'
  <2> SUFFICES ASSUME shut = 0, handle # 0, unlocked' = 0
               PROVE  \E x \in flk' : /\ open[x] = open[handle]
                                      /\ op.fp = x => op.is_default \/ x = handle
    BY <1>1, <1>2 DEF LockInv, ed_file
  <2>1. CASE unlocked = 0
    BY <1>3, <2>1 DEF IInv, LockInv
  <2>2. CASE unlocked # 0
    <3>1. set_file_lock(op.fp) /\ op.fp = handle
      BY <1>2, <2>2
    <3>2. CASE op.fp \in flk'
      BY <3>1, <3>2
    <3>3. CASE op.fp \notin flk'
      <4>1. PICK x \in flk \ {op.fp} : open[x] = open[op.fp]
        BY <3>1, <3>3 DEF set_file_lock
      <4> QED
        BY <3>1, <4>1, <1>3
    <3> QED
      BY <3>2, <3>3
  <2> QED
    BY <2>1, <2>2
<1> QED
  BY <1>4, <1>5, <1>6, <1>7 DEF IInv

\* The call ends, and closes its stream if handle does not depend on it.
LEMMA CloseIInv ==
  ASSUME IInv, op.pc = "transfer", op.cmd # "none", ~ op.is_default, fclose(op.fp),
         op' = Idle, UNCHANGED <<ed_file, dir, seen, unlocked, used>>,
         shut' = (IF op.fp = handle THEN 1 ELSE shut) \/ (shut' = shut /\ (shut = 0 => op.fp # handle))
  PROVE  IInv'
<1>0. TypeInv /\ CallInv
  BY DEF IInv
<1>1. shut' \in {0, 1} /\ (shut' = 0 => shut = 0 /\ op.fp # handle)
  BY <1>0 DEF TypeInv
<1>2. /\ op.fp \in Stream /\ op.fp # 0
      /\ open' = [open EXCEPT ![op.fp] = 0] /\ flk' = flk \ {op.fp}
  BY <1>0 DEF TypeInv, CallInv, CallType, Stream0, fclose
<1>3. /\ open' \in [Stream -> Inode0] /\ flk' \subseteq Stream
      /\ \A x \in Stream \ {op.fp} : open'[x] = open[x]
  BY <1>0, <1>2 DEF TypeInv, Inode0
<1>4. TypeInv'
  BY <1>0, <1>1, <1>3, IdleIs DEF TypeInv, ed_file
<1>5. CallInv'
  BY IdleIs DEF CallInv
<1>6. NoUseAfterClose'
  BY <1>0, <1>1 DEF IInv, NoUseAfterClose, TypeInv
<1>7. HandleInv'
  <2>1. shut' = 0 /\ handle # 0 => handle \in Stream \ {op.fp}
    BY <1>0, <1>1 DEF TypeInv, Stream0
  <2>2. shut' = 0 /\ handle # 0 => open'[handle] = open[handle]
    BY <2>1, <1>3
  <2> QED
    BY <1>1, <2>2 DEF IInv, HandleInv, HandleOpen, IsOpen, ed_file
<1>8. LockInv'
  <2> SUFFICES ASSUME shut' = 0, handle # 0, unlocked = 0
               PROVE  \E x \in flk' : open'[x] = open'[handle] /\ x # 0
    BY IdleIs DEF LockInv, ed_file
  <2>1. shut = 0 /\ op.fp # handle
    BY <1>1
  <2>2. PICK x \in flk : /\ open[x] = open[handle]
                         /\ op.fp = x => op.is_default \/ x = handle
    BY <2>1 DEF IInv, LockInv
  <2>3. x # op.fp /\ x \in Stream /\ handle \in Stream
    BY <2>1, <2>2, <1>0 DEF TypeInv, Stream0
  <2>4. x \in flk' /\ open'[x] = open[x] /\ open'[handle] = open[handle]
    BY <1>2, <1>3, <2>1, <2>2, <2>3
  <2> QED
    BY <2>2, <2>3, <2>4, FileAssumption
<1> QED
  BY <1>4, <1>5, <1>6, <1>7, <1>8 DEF IInv

LEMMA ReadTransferIInv == IInv /\ read_transfer => IInv'
<1> SUFFICES ASSUME IInv, read_transfer PROVE IInv'
  OBVIOUS
<1>0. /\ op.cmd = "read" /\ op.pc = "transfer" /\ op' = Idle
      /\ UNCHANGED <<ed_file, dir, history>>
  BY DEF read_transfer, At
<1>1. CASE UNCHANGED <<open, flk>>
  <2>1. Leave
    BY <1>0, <1>1 DEF Leave, system
  <2> QED
    BY <2>1, LeaveIInv
<1>2. CASE ~ op.is_default /\ fclose(op.fp)
  <2>1. shut = 0 => op.fp # handle
    BY <1>0, <1>2 DEF IInv, CallInv
  <2>2. shut' = shut /\ UNCHANGED <<seen, unlocked, used>>
    BY <1>0 DEF history
  <2> QED
    BY <1>0, <1>2, <2>1, <2>2, CloseIInv
<1> QED
  BY <1>1, <1>2 DEF read_transfer

LEMMA WriteTransferIInv == IInv /\ write_transfer => IInv'
<1> SUFFICES ASSUME IInv, write_transfer PROVE IInv'
  OBVIOUS
<1>0. /\ op.cmd = "write" /\ op.pc = "transfer" /\ op' = Idle
      /\ UNCHANGED <<ed_file, dir, seen, unlocked, used>>
  BY DEF write_transfer, At
<1>1. CASE UNCHANGED <<open, flk, shut>>
  <2>1. Leave
    BY <1>0, <1>1 DEF Leave, system, history
  <2> QED
    BY <2>1, LeaveIInv
<1>2. CASE /\ ~ op.is_default /\ fclose(op.fp)
           /\ shut' = IF op.fp = handle THEN 1 ELSE shut
  BY <1>0, <1>2, CloseIInv
<1> QED
  BY <1>1, <1>2 DEF write_transfer

LEMMA WriteOpenIInv == IInv /\ write_open => IInv'
<1> SUFFICES ASSUME IInv, write_open PROVE IInv'
  OBVIOUS
<1>0. TypeInv /\ CallInv /\ used = 0 /\ op.cmd = "write" /\ op.pc = "open"
  BY DEF IInv, write_open, At
<1>1. CASE Leave
  BY <1>1, LeaveIInv
<1>2. CASE AlreadyOpen /\ ~ IsOpen(handle) /\ Misused
  BY <1>0, <1>2, AlreadyOpenIs, MisusedIInv DEF TypeInv
<1>3. CASE /\ AlreadyOpen /\ IsOpen(handle)
           /\ op' = [op EXCEPT !.fp = handle, !.pc = "transfer"]
           /\ UNCHANGED <<ed_file, system, history>>
  <2>1. /\ op' \in CallType /\ op'.pc = "transfer" /\ op'.fp = handle /\ op'.had = op.had
        /\ op'.cmd = op.cmd /\ op'.fn = op.fn /\ op'.ino = op.ino
    BY <1>0, <1>3 DEF TypeInv, CallType
  <2>2. /\ linux' = linux /\ name' = name /\ inode' = inode /\ handle' = handle
        /\ dir' = dir /\ open' = open /\ flk' = flk
        /\ seen' = seen /\ unlocked' = unlocked /\ shut' = shut /\ used' = used
    BY <1>3 DEF ed_file, system, history
  <2>3. TypeInv' /\ NoUseAfterClose'
    BY <1>0, <2>1, <2>2 DEF IInv, TypeInv, NoUseAfterClose
  <2>4. shut = 0 => open[handle] \in op.had \/ Replaced
    <3>1. op.ino = inode /\ op.ino \in op.had /\ handle # 0
      BY <1>0, <1>3 DEF AlreadyOpen, IsOpen, CallInv
    <3>2. shut = 0 => inode \in seen /\ open[handle] \in seen
      BY <3>1 DEF IInv, HandleInv, HandleOpen
    <3> QED
      BY <3>1, <3>2 DEF Replaced
  <2>5. CallInv'
    <3>1. Replaced' <=> Replaced
      BY <2>2 DEF Replaced
    <3> QED
      BY <1>0, <1>3, <2>1, <2>2, <2>4, <3>1 DEF CallInv, IsOpen
  <2>6. HandleInv'
    BY <2>2 DEF IInv, HandleInv, HandleOpen, IsOpen
  <2>7. LockInv'
    BY <2>1, <2>2 DEF IInv, LockInv
  <2> QED
    BY <2>3, <2>5, <2>6, <2>7 DEF IInv
<1>4. ASSUME NEW s \in Free,
             NEW ino \in IF dir[op.fn] = 0 THEN Fresh ELSE {dir[op.fn]},
             fopen(s, ino), dir' = [dir EXCEPT ![op.fn] = ino],
             op' = [op EXCEPT !.fp = s, !.pc = "assign", !.had = @ \cup {ino}],
             UNCHANGED <<ed_file, flk, history>>
      PROVE  IInv'
  <2>1. ino \in Inode
    BY <1>0 DEF Fresh, TypeInv, CallInv, Inode0
  <2>2. op.had \cup {ino} \in SUBSET Inode0 /\ dir' \in [File -> Inode0]
    BY <1>0, <1>4, <2>1 DEF TypeInv, CallType, Inode0
  <2>3. op' = [op EXCEPT !.fp = s, !.pc = "assign", !.had = op.had \cup {ino}]
    BY <1>4
  <2> QED
    BY <1>0, <1>4, <2>1, <2>2, <2>3, OpenIInv
<1> QED
  BY <1>1, <1>2, <1>3, <1>4 DEF write_open, write_open_handle, write_open_new

----------------------------------------------------------------------------
\* What another process does to a file is what the call in progress can see.
LEMMA ExternalIInv ==
  ASSUME IInv, NEW fn \in File, NEW ino \in Inode0, External(fn, ino)
  PROVE  IInv'
<1>0. TypeInv /\ CallInv
  BY DEF IInv
<1>1. /\ linux' = linux /\ name' = name /\ inode' = inode /\ handle' = handle
      /\ open' = open /\ flk' = flk
      /\ seen' = seen /\ unlocked' = unlocked /\ shut' = shut /\ used' = used
      /\ dir' = [dir EXCEPT ![fn] = ino]
  BY DEF External, ed_file, history
<1>2. /\ op' \in CallType /\ op'.pc = op.pc /\ op'.fp = op.fp /\ op.had \subseteq op'.had
      /\ op'.cmd = op.cmd /\ op'.fn = op.fn /\ op'.ino = op.ino
      /\ op'.is_default = op.is_default
      /\ op.fn = fn /\ op.pc = "open" => ino \in op'.had
      /\ op.fn # fn => op' = op
  BY <1>0 DEF External, TypeInv, CallType
<1>3. TypeInv' /\ NoUseAfterClose'
  BY <1>0, <1>1, <1>2 DEF IInv, TypeInv, NoUseAfterClose
<1>4. CallInv'
  <2>1. op'.cmd = "none" => op' = Idle
    BY <1>0, <1>2, IdleIs, FileAssumption DEF CallInv
  <2>2. op'.cmd # "none" /\ op'.pc = "open" => dir'[op'.fn] \in op'.had
    BY <1>0, <1>1, <1>2 DEF CallInv, TypeInv
  <2>3. Replaced' <=> Replaced
    BY <1>1 DEF Replaced
  <2> QED
    BY <1>0, <1>1, <1>2, <2>1, <2>2, <2>3 DEF CallInv
<1>5. HandleInv'
  BY <1>1 DEF IInv, HandleInv, HandleOpen, IsOpen
<1>6. LockInv'
  BY <1>1, <1>2 DEF IInv, LockInv
<1> QED
  BY <1>3, <1>4, <1>5, <1>6 DEF IInv

LEMMA NextIInv == IInv /\ [Next]_vars => IInv'
<1> SUFFICES ASSUME IInv, [Next]_vars PROVE IInv'
  OBVIOUS
<1>0. TypeInv /\ CallInv
  BY DEF IInv
<1>1. ASSUME NEW fn \in File, NEW cmd \in {"read", "write"}, rw_cmd(cmd, fn)
      PROVE  IInv'
  <2>1. PICK d \in BOOLEAN : d = (name = NoName)
    OBVIOUS
  <2>2. op' = Call(cmd, fn, d) /\ name' \in File \cup {NoName} /\ linux' = linux
    BY <1>0, <1>1, <2>1 DEF rw_cmd, Prompt, TypeInv
  <2>3. UNCHANGED <<system, inode, handle, history>>
    BY <1>1 DEF rw_cmd, Prompt
  <2> QED
    BY <2>2, <2>3, BeginIInv
<1>2. ASSUME NEW cmd \in {"read", "write"}, rw_cmd_default(cmd) PROVE IInv'
  <2>1. name \in File /\ op' = Call(cmd, name, TRUE) /\ linux' = linux
        /\ name' \in File \cup {NoName}
    BY <1>0, <1>2 DEF rw_cmd_default, Prompt, TypeInv
  <2>2. UNCHANGED <<system, inode, handle, history>>
    BY <1>2 DEF rw_cmd_default, Prompt
  <2> QED
    BY <2>1, <2>2, BeginIInv
<1>3. ASSUME NEW fn \in File, E_cmd(fn) \/ f_cmd(fn) PROVE IInv'
  BY <1>3, EIInv, FIInv
<1>4. ASSUME NEW fn \in File,
             NEW ino \in Fresh \cup {dir[f] : f \in File} \cup {0}, External(fn, ino)
      PROVE  IInv'
  <2>1. ino \in Inode0
    BY <1>0 DEF Fresh, TypeInv, Inode0
  <2> QED
    BY <1>4, <2>1, ExternalIInv
<1>5. ASSUME NEW cmd \in {"read", "write"}, lock(cmd) PROVE IInv'
  BY <1>5, LockIInv
<1>6. CASE read_open
  BY <1>6, ReadOpenIInv
<1>7. CASE read_assign
  <2>1. At("read", "assign")
        /\ (SetHandle \/ UNCHANGED <<inode, handle, seen, unlocked, shut>>)
        /\ (~ op.is_default => UNCHANGED <<inode, handle, seen, unlocked, shut>>)
        /\ op' = [op EXCEPT !.pc = "lock"]
        /\ UNCHANGED <<linux, name, system, used>>
    BY <1>7 DEF read_assign
  <2> QED
    BY <2>1, AssignIInv
<1>8. CASE write_assign
  <2>1. At("write", "assign")
        /\ (SetHandle \/ UNCHANGED <<inode, handle, seen, unlocked, shut>>)
        /\ op' = [op EXCEPT !.pc = "lock"]
        /\ UNCHANGED <<linux, name, system, used>>
    BY <1>8 DEF write_assign
  <2> QED
    BY <2>1, AssignIInv
<1>9. CASE read_transfer
  BY <1>9, ReadTransferIInv
<1>10. CASE write_open
  BY <1>10, WriteOpenIInv
<1>11. CASE write_transfer
  BY <1>11, WriteTransferIInv
<1>12. CASE Interrupt
  BY <1>12, LeaveIInv DEF Interrupt
<1>13. CASE UNCHANGED vars
  <2>1. /\ linux' = linux /\ name' = name /\ inode' = inode /\ handle' = handle
        /\ dir' = dir /\ open' = open /\ flk' = flk /\ op' = op
        /\ seen' = seen /\ unlocked' = unlocked /\ shut' = shut /\ used' = used
    BY <1>13 DEF vars
  <2> QED
    BY <2>1 DEF IInv, TypeInv, CallInv, HandleInv, HandleOpen, IsOpen, LockInv,
                NoUseAfterClose, Replaced
<1> QED
  BY <1>1, <1>2, <1>3, <1>4, <1>5, <1>6, <1>7, <1>8, <1>9, <1>10, <1>11, <1>12, <1>13
     DEF Next

LEMMA Invariant == Spec => []IInv
BY InitIInv, NextIInv, PTL DEF Spec

----------------------------------------------------------------------------
(* Theorems. *)

\* ed->file->inode tells the truth about ed->file->handle, in any interleaving
\* of calls, interrupts and other processes, but for the race that io.c notes.
THEOREM InodeTellsTruth == Spec => []HandleOpen
<1>1. IInv => HandleOpen
  BY DEF IInv, HandleInv
<1> QED
  BY <1>1, Invariant, PTL

\* No closed stream is used, unless an explicit `w' of the file closed handle.
THEOREM ClosedStreamsUnused == Spec => []NoUseAfterClose
<1>1. IInv => NoUseAfterClose
  BY DEF IInv
<1> QED
  BY <1>1, Invariant, PTL

\* The default file stays locked once set_file_lock () has succeeded.
THEOREM DefaultFileLocked == Spec => []LockHeld
<1>1. IInv => LockHeld
  BY DEF IInv, LockInv, LockHeld
<1> QED
  BY <1>1, Invariant, PTL

\* A write goes to a file that its name was while the command was executed.
THEOREM WriteGoesToTarget == Spec => []WritesTarget
<1>1. IInv => WritesTarget
  BY DEF IInv, CallInv, WritesTarget
<1> QED
  BY <1>1, Invariant, PTL

(***************************************************************************)
(* Filter, for any number of filters, any shell commands, any amount of    *)
(* text and pipes of any size.                                             *)
(*                                                                         *)
(* WAITPID () counts children without looking at who they are.  That it    *)
(* waits for the right ones is an invariant about the count: while no      *)
(* interrupt has left a filter, the children of earlier filters are gone,  *)
(* and no more than `waiting' of the two children of this one are not.     *)
(***************************************************************************)

PCs == {"idle", "shell_forked", "lines_deleted", "writer_forked", "read", "put",
        "wait"}
States == {"none", "started", "running", "zombie", "rogue", "reaped"}

FilterType ==
  /\ pc \in PCs
  /\ cur \in Nat
  /\ pc # "idle" => cur \in Filters
  /\ waiting \in {0, 1, 2}
  /\ state \in [Children -> States]

Gone(p) == state[p] \in {"none", "reaped"}

\* Children of other filters than the current one.
OthersGone == \A p \in Children : p[2] # cur => Gone(p)

\* How many of the children of the current filter there are, at each place.
CurrentInv ==
  /\ pc = "idle" => \A p \in Children : Gone(p)
  /\ pc \in {"shell_forked", "lines_deleted"} => Gone(Writer(cur))
  /\ pc = "wait" /\ waiting = 1 => Gone(Shell(cur)) \/ Gone(Writer(cur))
  /\ pc = "wait" /\ waiting = 0 => Gone(Shell(cur)) /\ Gone(Writer(cur))

FilterInv == FilterType /\ (~ jumped => OthersGone /\ CurrentInv)

----------------------------------------------------------------------------
\* The children of filter i, and no others.
LEMMA ChildNames ==
  ASSUME NEW i \in Filters
  PROVE  /\ Shell(i) \in Children /\ Writer(i) \in Children
         /\ Shell(i)[2] = i /\ Writer(i)[2] = i
         /\ Shell(i) # Writer(i)
         /\ \A p \in Children : p[2] = i => p = Shell(i) \/ p = Writer(i)
  BY DEF Shell, Writer, Children

LEMMA InitFilterInv == FilterInit => FilterInv
  BY DEF FilterInit, FilterInv, FilterType, PCs, States, OthersGone, CurrentInv, Gone, Filters

\* Splits a step into what ed and its children do.
LEMMA FilterSteps ==
  ASSUME [FilterNext]_filter_vars
  PROVE  \/ \E program \in Programs : fork_shell(program)
         \/ delete_lines \/ delete_lines_fails
         \/ fork_writer \/ fork_writer_fails
         \/ open_output \/ open_output_fails
         \/ read_output \/ read_output_fails
         \/ put_lines \/ WAITPID \/ interrupt
         \/ \E i \in Filters : ShellStep(i) \/ WriterStep(i)
         \/ UNCHANGED filter_vars
  BY DEF FilterNext, EdStep, Failure

\* A child that is there may change, but not come, and ed does not notice.
LEMMA ChildKeeps ==
  ASSUME FilterInv, NEW q \in Children, NEW s \in States, ~ Gone(q),
         state' = [state EXCEPT ![q] = s], UNCHANGED ed_vars
  PROVE  FilterInv'
  <1>1. FilterType'
    BY DEF FilterInv, FilterType, ed_vars
  <1>2. \A p \in Children : Gone(p) => Gone(p)'
    BY DEF FilterInv, FilterType, Gone
  <1>3. pc # "idle" => Shell(cur) \in Children /\ Writer(cur) \in Children
    BY ChildNames DEF FilterInv, FilterType
  <1> QED
    BY <1>1, <1>2, <1>3 DEF FilterInv, OthersGone, CurrentInv, ed_vars

\* What the shell and the writer do.
LEMMA ChildStepKeeps ==
  ASSUME FilterInv, NEW i \in Filters, ShellStep(i) \/ WriterStep(i)
  PROVE  FilterInv'
  <1>0. Shell(i) \in Children /\ Writer(i) \in Children
    BY ChildNames
  <1>1. CASE UNCHANGED <<state, ed_vars>>
    BY <1>1 DEF FilterInv, FilterType, OthersGone, CurrentInv, Gone, ed_vars
  <1>2. CASE ~ UNCHANGED <<state, ed_vars>>
    <2>1. PICK q \in {Shell(i), Writer(i)}, s \in {"running", "zombie"} :
            /\ state[q] \in {"started", "running"}
            /\ state' = [state EXCEPT ![q] = s]
            /\ UNCHANGED ed_vars
      BY <1>2 DEF ShellStep, WriterStep, exec_shell, shell_reads, shell_writes,
                  shell_exits, start_writer, write_stream, exit
    <2>2. q \in Children /\ s \in States /\ ~ Gone(q)
      BY <1>0, <2>1 DEF States, Gone
    <2> QED
      BY <2>1, <2>2, ChildKeeps
  <1> QED
    BY <1>1, <1>2

\* Every step keeps the invariant.
LEMMA NextFilterInv == FilterInv /\ [FilterNext]_filter_vars => FilterInv'
  <1> SUFFICES ASSUME FilterInv, [FilterNext]_filter_vars PROVE FilterInv'
    OBVIOUS
  <1> USE DEF FilterInv, FilterType, PCs
  <1>0. pc # "idle" => /\ Shell(cur) \in Children /\ Writer(cur) \in Children
                       /\ Shell(cur) # Writer(cur)
                       /\ Shell(cur)[2] = cur /\ Writer(cur)[2] = cur
    BY ChildNames
  <1>1. ASSUME NEW program \in Programs, fork_shell(program) PROVE FilterInv'
    <2>1. /\ cur + 1 \in Filters /\ cur' = cur + 1 /\ pc = "idle"
          /\ pc' = "shell_forked" /\ UNCHANGED <<waiting, jumped>>
          /\ state' = [state EXCEPT ![Shell(cur + 1)] = "started"]
      BY <1>1 DEF fork_shell
    <2>2. /\ Shell(cur + 1) \in Children /\ Writer(cur + 1) \in Children
          /\ Shell(cur + 1)[2] = cur + 1 /\ Shell(cur + 1) # Writer(cur + 1)
      BY <2>1, ChildNames
    <2>3. FilterType'
      BY <2>1, <2>2 DEF States, Filters
    <2>4. ASSUME ~ jumped' PROVE OthersGone' /\ CurrentInv'
      <3>1. \A p \in Children : p # Shell(cur + 1) => Gone(p)'
        BY <2>1, <2>2, <2>4 DEF CurrentInv, Gone
      <3> QED
        BY <2>1, <2>2, <3>1 DEF OthersGone, CurrentInv
    <2> QED
      BY <2>3, <2>4
  <1>2. CASE delete_lines
    BY <1>2 DEF delete_lines, OthersGone, CurrentInv, Gone
  <1>3. CASE delete_lines_fails
    <2>1. PICK s \in {"rogue", "zombie", state[Shell(cur)]} :
            /\ state' = [state EXCEPT ![Shell(cur)] = s]
            /\ pc = "shell_forked" /\ pc' = "wait" /\ waiting' \in {1, 2}
            /\ UNCHANGED <<cur, jumped>>
      BY <1>0, <1>3 DEF delete_lines_fails
    <2>2. FilterType'
      BY <1>0, <2>1 DEF States
    <2>3. \A p \in Children : p # Shell(cur) => (Gone(p) => Gone(p)')
      BY <1>0, <2>1 DEF Gone
    <2> QED
      BY <1>0, <2>1, <2>2, <2>3 DEF OthersGone, CurrentInv
  <1>4. CASE fork_writer
    <2>1. /\ pc = "lines_deleted" /\ pc' = "writer_forked"
          /\ state' = [state EXCEPT ![Writer(cur)] = "started"]
          /\ UNCHANGED <<cur, waiting, jumped>>
      BY <1>4 DEF fork_writer
    <2>2. FilterType'
      BY <1>0, <2>1 DEF States
    <2>3. \A p \in Children : p # Writer(cur) => (Gone(p) => Gone(p)')
      BY <1>0, <2>1 DEF Gone
    <2> QED
      BY <1>0, <2>1, <2>2, <2>3 DEF OthersGone, CurrentInv
  <1>5. CASE fork_writer_fails
    BY <1>5 DEF fork_writer_fails, OthersGone, CurrentInv, Gone
  <1>6. CASE open_output \/ open_output_fails
    BY <1>6 DEF open_output, open_output_fails, OthersGone, CurrentInv, Gone
  <1>7. CASE read_output \/ read_output_fails
    BY <1>7 DEF read_output, read_output_fails, OthersGone, CurrentInv, Gone
  <1>8. CASE put_lines
    BY <1>8 DEF put_lines, OthersGone, CurrentInv, Gone
  <1>9. CASE WAITPID
    <2>0. pc = "wait" /\ UNCHANGED <<cur, jumped>>
      BY <1>9 DEF WAITPID
    <2>1. CASE pc' = "idle"
      <3>1. /\ waiting' = 0 /\ UNCHANGED state
            /\ waiting = 0 \/ \A p \in Children : Gone(p)
        BY <1>9, <2>0, <2>1 DEF WAITPID, Gone
      <3>2. ~ jumped => \A p \in Children : Gone(p)
        BY <1>0, <2>0, <3>1, ChildNames DEF OthersGone, CurrentInv
      <3> QED
        BY <2>0, <2>1, <3>1, <3>2 DEF OthersGone, CurrentInv, Gone
    <2>2. CASE pc' # "idle"
      <3>1. PICK q \in Children :
              /\ state[q] = "zombie" /\ state' = [state EXCEPT ![q] = "reaped"]
              /\ waiting > 0 /\ waiting' = waiting - 1 /\ pc' = pc
        BY <1>9, <2>0, <2>2 DEF WAITPID
      <3>2. FilterType'
        BY <2>0, <3>1 DEF States
      <3>3. /\ ~ Gone(q) /\ Gone(q)'
            /\ \A p \in Children : Gone(p) => Gone(p)'
        BY <3>1 DEF Gone
      <3>4. ~ jumped => q = Shell(cur) \/ q = Writer(cur)
        BY <2>0, <3>3, ChildNames DEF OthersGone
      <3> QED
        BY <1>0, <2>0, <3>1, <3>2, <3>3, <3>4 DEF OthersGone, CurrentInv
    <2> QED
      BY <2>1, <2>2
  <1>10. CASE interrupt
    <2>1. state' \in [Children -> States]
      BY <1>10 DEF interrupt, States
    <2> QED
      BY <1>10, <2>1 DEF interrupt
  <1>11. CASE UNCHANGED filter_vars
    BY <1>11 DEF filter_vars, OthersGone, CurrentInv, Gone
  <1> QED
    BY <1>1, <1>2, <1>3, <1>4, <1>5, <1>6, <1>7, <1>8, <1>9, <1>10, <1>11,
       FilterSteps, ChildStepKeeps

\* The invariant holds in every reachable state.
LEMMA FilterInvariant == FilterSpec => []FilterInv
  BY InitFilterInv, NextFilterInv, PTL DEF FilterSpec

\* filter_lines () leaves no child behind, whatever fails on its way and
\* however the shell behaves, as long as no interrupt has left a filter.
THEOREM NoChildLeft == FilterSpec => []ChildrenReaped
  <1>1. FilterInv => ChildrenReaped
    BY DEF FilterInv, CurrentInv, Gone, ChildrenReaped
  <1> QED
    BY <1>1, FilterInvariant, PTL
============================================================================
