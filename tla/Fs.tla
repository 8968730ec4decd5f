--------------------------------- MODULE Fs ---------------------------------
(***************************************************************************)
(* Names, inodes and open files: the calls of kernel/sysfile.c on          *)
(* kernel/fs.c and kernel/file.c, and getfilesize() of project 5.  A call  *)
(* is a step for every inode it waits for: one per path element of namex() *)
(* and one per ilock() after it.  The processes run the programs of        *)
(* module UserTests.                                                       *)
(*                                                                         *)
(* An inode is kept once, for iupdate() follows every change of the copy   *)
(* in memory, and a directory is a function from names to inode numbers.   *)
(* What a file holds is its size only; module FileWrite has the blocks and *)
(* the writes that fall short, module Log the waiting in begin_op().       *)
(***************************************************************************)
EXTENDS UserTests, FiniteSets

CONSTANTS
    Procs,      \* slots of processes
    NONE,       \* no process
    NInodes,    \* inodes of the disk, numbered from 1
    NINODE,     \* param.h: inodes in memory
    NFILE,      \* param.h: open files of the system
    NOFILE      \* param.h: open files of a process

VARIABLES
    fs,         \* inodes, their reference counts and locks, open files, transactions
    proc        \* what each process is doing

vars == <<fs, proc>>

Inums == 1..NInodes
ROOTINO == 1

FreeInode == [type |-> "free", nlink |-> 0, size |-> 0, ents |-> << >>]
Inode(type, ents) == [type |-> type, nlink |-> 1, size |-> 0, ents |-> ents]
NoFile == [ref |-> 0, ip |-> 0, off |-> 0, readable |-> FALSE, writable |-> FALSE]

(* skipelem() keeps DIRSIZ characters of a name.                           *)
skipelem(name) == IF name = n15 THEN n14 ELSE name

-----------------------------------------------------------------------------
(* The functions of fs.c, from one state s of the tables to the next.      *)
Panic(s, what) == [s EXCEPT !.panic = what]

begin_op(s, p) == [s EXCEPT !.inop = @ \cup {p}]
end_op(s, p) == [s EXCEPT !.inop = @ \ {p}]

iget(s, i) ==
    IF s.ref[i] = 0 /\ Cardinality({j \in Inums : s.ref[j] > 0}) = NINODE
    THEN Panic(s, "iget: no inodes")
    ELSE [s EXCEPT !.ref[i] = @ + 1]

LastPut(s, i) == s.ref[i] = 1 /\ s.ino[i].nlink = 0 /\ s.ino[i].type # "free"

(* The names in a directory that is freed are lost.                        *)
Entries(s, i) == {n \in DOMAIN s.ino[i].ents : n \notin {".", ".."}}

Lose(s, i) ==
    [j \in Inums |-> s.lost[j] + Cardinality({n \in Entries(s, i) : s.ino[i].ents[n] = j})]

(* Mutated form: the lock stays with the process.                          *)
iunlock_Forgotten(s, i) == s

iunlock(s, i) == [s EXCEPT !.lock[i] = NONE]

(* iput(): itrunc() and the freeing of the inode end in log_write(); the   *)
(* reference is dropped after them, in IputEnds.                           *)
iput(s, p, i) ==
    IF ~LastPut(s, i) THEN [s EXCEPT !.ref[i] = @ - 1]
    ELSE IF s.inop = {} THEN Panic(s, "log_write outside of trans")
    ELSE [s EXCEPT !.ino[i] = FreeInode, !.put[p] = @ \cup {i}, !.lost = Lose(s, i)]

IputEnds(p) ==
    /\ fs.panic = ""
    /\ \E i \in fs.put[p] :
          fs' = [fs EXCEPT !.ref[i] = @ - 1, !.put[p] = @ \ {i},
                           !.stuck = IF fs.ref[i] = 1 /\ fs.ino[i].type # "free" THEN @ \cup {i} ELSE @]
    /\ UNCHANGED proc

(* dirlink() after its test that the name is new; the disk has room for    *)
(* slots entries in a directory.                                           *)
dirlink(s, d, name, i) == [s EXCEPT !.ino[d].ents = @ @@ (name :> i)]
HasRoom(s, d) == Cardinality(DOMAIN s.ino[d].ents) < s.slots

ialloc(s) == {i \in Inums : s.ino[i].type = "free" /\ \A j \in 1..(i - 1) : s.ino[j].type # "free"}

-----------------------------------------------------------------------------
(* Steps of a process: At a place in the kernel, with no iput() under way; *)
(* it goes on To another place, or Returns a value.                        *)
At(p, pc) == fs.panic = "" /\ proc[p].pc = pc /\ fs.put[p] = {}

Call(p) == Head(proc[p].todo)

Unlocked(i) == fs.lock[i] = NONE
NoType(i) == fs.ino[i].type = "free"

To(p, s, r) == fs' = s /\ proc' = [proc EXCEPT ![p] = r]

Idle == [ip |-> 0, dp |-> 0, old |-> 0, name |-> "", path |-> <<>>, updir |-> FALSE]

Returns(p, s, v) == To(p, s, Idle @@ [proc[p] EXCEPT !.pc = "ret", !.ret = v])

IlockPanics(p, pc, i) ==
    /\ At(p, pc) /\ Unlocked(i) /\ NoType(i)
    /\ fs' = Panic(fs, "ilock: no type") /\ UNCHANGED proc

(* The end of a call, with end_op() where the call has begun a transaction.*)
Return(p) ==
    /\ At(p, "ret")
    /\ To(p, end_op([fs EXCEPT !.wrong = @ \/ ~Accepts(Call(p).exp, proc[p].ret)], p),
          [proc[p] EXCEPT !.pc = "user", !.todo = Tail(@),
                          !.last = IF Call(p).op = "open" /\ ~Call(p).keep THEN proc[p].ret ELSE @,
                          !.fd = IF Call(p).op = "open" /\ Call(p).keep THEN proc[p].ret ELSE @])

-----------------------------------------------------------------------------
(* namex(), started by every call with a path.                             *)
PathCalls == {"open", "mkdir", "mknod", "unlink", "chdir", "link", "getfilesize"}

Creates(c) == c.op \in {"mkdir", "mknod"} \/ (c.op = "open" /\ "O_CREATE" \in c.mode)

nameiparent(p) == proc[p].old # 0 \/ Call(p).op = "unlink" \/ Creates(Call(p))

Found(p) ==
    IF proc[p].old # 0 THEN "linkdir" ELSE IF Creates(Call(p)) THEN "create" ELSE Call(p).op

Namei(p, s, r, path) ==
    LET start == IF path.abs THEN ROOTINO ELSE proc[p].cwd
    IN  To(p, iget(s, start), [r EXCEPT !.pc = "namex", !.ip = start,
                               !.path = [k \in DOMAIN path.el |-> skipelem(path.el[k])]])

NameFails(p, s) ==
    IF proc[p].old = 0 THEN Returns(p, s, -1)
    ELSE To(p, s, [proc[p] EXCEPT !.pc = "linkbad", !.ip = 0, !.path = <<>>])

InCall(p, ops) == At(p, "user") /\ proc[p].todo # <<>> /\ Call(p).op \in ops

(* getfilesize() begins no transaction.                                    *)
Start(p) ==
    /\ InCall(p, PathCalls)
    /\ Namei(p, IF Call(p).op = "getfilesize" THEN fs ELSE begin_op(fs, p), proc[p], Call(p).path)

(* The path is used up, or its last element is left to the caller.         *)
NamexEnds(p) ==
    /\ At(p, "namex") /\ proc[p].path = <<>>
    /\ IF nameiparent(p)
       THEN NameFails(p, iput(fs, p, proc[p].ip))
       ELSE To(p, fs, [proc[p] EXCEPT !.pc = Found(p)])

IsDir(i) == fs.ino[i].type = "dir"
LastElement(p) == nameiparent(p) /\ Len(proc[p].path) = 1

NamexStops(p) ==
    /\ At(p, "namex") /\ LastElement(p) /\ Unlocked(proc[p].ip) /\ IsDir(proc[p].ip)
    /\ To(p, fs, [proc[p] EXCEPT !.pc = Found(p), !.name = Head(proc[p].path), !.path = <<>>])

Entry(i, name) == name \in DOMAIN fs.ino[i].ents

NamexMisses(p) ==
    LET i == proc[p].ip
    IN  /\ At(p, "namex") /\ proc[p].path # <<>> /\ Unlocked(i) /\ ~NoType(i)
        /\ ~IsDir(i) \/ (~LastElement(p) /\ ~Entry(i, Head(proc[p].path)))
        /\ NameFails(p, iput(fs, p, i))

(* A directory whose name is gone; its ".." counts no more.                *)
Removed(d) ==
    /\ d # ROOTINO
    /\ \A e \in Inums : \A n \in Entries(fs, e) : fs.ino[e].ents[n] # d

(* dirlookup() takes its reference before the directory is unlocked and    *)
(* put.                                                                    *)
NamexStep(p) ==
    LET i == proc[p].ip  name == Head(proc[p].path)
    IN  /\ At(p, "namex") /\ proc[p].path # <<>> /\ ~LastElement(p)
        /\ Unlocked(i) /\ IsDir(i) /\ Entry(i, name)
        /\ To(p, iput(iget(fs, fs.ino[i].ents[name]), p, i),
              [proc[p] EXCEPT !.ip = fs.ino[i].ents[name], !.path = Tail(@),
                              !.updir = @ \/ (name = ".." /\ Removed(i))])

NamexPanics(p) == proc[p].path # <<>> /\ IlockPanics(p, "namex", proc[p].ip)

-----------------------------------------------------------------------------
(* sys_open() from the allocation of the file on, with the inode locked.   *)
Opens(p, s, i) ==
    LET mode == Call(p).mode
        files == {f \in 1..NFILE : s.file[f].ref = 0}
        fds == {fd \in 0..(NOFILE - 1) : proc[p].ofile[fd] = 0}
        f == Min(files)  fd == Min(fds)
        size == IF "O_TRUNC" \in mode /\ s.ino[i].type = "file" THEN 0 ELSE s.ino[i].size
    IN  IF files = {} \/ fds = {} THEN Returns(p, iput(s, p, i), -1)
        ELSE To(p, [s EXCEPT !.ino[i].size = size,
                             !.file[f] = [ref |-> 1, ip |-> i,
                                          off |-> IF "O_APPEND" \in mode THEN s.ino[i].size ELSE 0,
                                          readable |-> "O_WRONLY" \notin mode,
                                          writable |-> mode \cap {"O_WRONLY", "O_RDWR"} # {}]],
                Idle @@ [proc[p] EXCEPT !.pc = "ret", !.ret = fd, !.ofile[fd] = f])

sys_open(p) ==
    LET i == proc[p].ip
    IN  /\ At(p, "open") /\ Unlocked(i) /\ ~NoType(i)
        /\ IF IsDir(i) /\ Call(p).mode # {} THEN Returns(p, iput(fs, p, i), -1) ELSE Opens(p, fs, i)

(* create() finds the name: the directory is unlocked before the inode is  *)
(* locked.                                                                 *)
CreateFinds(p) ==
    LET d == proc[p].ip  i == fs.ino[d].ents[proc[p].name]
    IN  /\ At(p, "create") /\ Unlocked(d) /\ Entry(d, proc[p].name)
        /\ To(p, iput(iget(fs, i), p, d), [proc[p] EXCEPT !.pc = "created", !.ip = i])

CreateOld(p) ==
    LET i == proc[p].ip
    IN  /\ At(p, "created") /\ Unlocked(i) /\ ~NoType(i)
        /\ IF Call(p).op = "open" /\ ~IsDir(i)
           THEN Opens(p, fs, i)
           ELSE Returns(p, iput(fs, p, i), -1)

NewType(p) ==
    CASE Call(p).op = "open" -> "file" [] Call(p).op = "mkdir" -> "dir" [] Call(p).op = "mknod" -> "dev"

(* ialloc(), and the new inode as create() fills it.                       *)
NewInode(p, d, i) ==
    iget([fs EXCEPT !.ino[i] = Inode(NewType(p), IF NewType(p) = "dir"
                                                 THEN ("." :> i) @@ (".." :> d) ELSE << >>)], i)

CreateNew(p) ==
    LET d == proc[p].ip
    IN  /\ At(p, "create") /\ Unlocked(d) /\ ~Entry(d, proc[p].name)
        /\ \E i \in ialloc(fs) :
              LET s == dirlink(NewInode(p, d, i), d, proc[p].name, i)
                  t == iput(IF NewType(p) = "dir" THEN [s EXCEPT !.ino[d].nlink = @ + 1] ELSE s, p, d)
              IN  /\ HasRoom(fs, d)
                  /\ IF Call(p).op = "open" THEN Opens(p, t, i) ELSE Returns(p, iput(t, p, i), 0)

(* No inode is free, or the directory cannot grow: the new inode is put    *)
(* with no links.                                                          *)
CreateFails(p) ==
    LET d == proc[p].ip
    IN  /\ At(p, "create") /\ Unlocked(d) /\ ~Entry(d, proc[p].name)
        /\ \/ ialloc(fs) = {} /\ Returns(p, iput(fs, p, d), -1)
           \/ \E i \in ialloc(fs) :
                 LET s == [NewInode(p, d, i) EXCEPT !.ino[i].nlink = 0]
                 IN  ~HasRoom(fs, d) /\ Returns(p, iput(iput(s, p, i), p, d), -1)

-----------------------------------------------------------------------------
(* sys_unlink(): the directory stays locked while the inode is waited for. *)
sys_unlink(p) ==
    LET d == proc[p].ip  name == proc[p].name  i == fs.ino[d].ents[name]
    IN  /\ At(p, "unlink") /\ Unlocked(d)
        /\ IF name \in {".", ".."} \/ ~Entry(d, name)
           THEN Returns(p, iput(fs, p, d), -1)
           ELSE To(p, [iget(fs, i) EXCEPT !.lock[d] = p],
                   [proc[p] EXCEPT !.pc = "unlinked", !.dp = d, !.ip = i])

(* Mutated form: a directory is removed whatever it holds.                 *)
isdirempty_Always(i) == TRUE

isdirempty(i) == Entries(fs, i) = {}

UnlinkEnds(p) ==
    LET d == proc[p].dp  i == proc[p].ip
        unlocked == iunlock(fs, d)
        s == [unlocked EXCEPT !.ino[d].ents = [n \in DOMAIN @ \ {proc[p].name} |-> @[n]],
                              !.ino[d].nlink = IF IsDir(i) THEN @ - 1 ELSE @]
        t == iput(s, p, d)
    IN  /\ At(p, "unlinked") /\ Unlocked(i) /\ ~NoType(i)
        /\ IF fs.ino[i].nlink < 1 THEN fs' = Panic(fs, "unlink: nlink < 1") /\ UNCHANGED proc
           ELSE IF IsDir(i) /\ ~isdirempty(i)
           THEN Returns(p, iput(iput(unlocked, p, i), p, d), -1)
           ELSE Returns(p, iput([t EXCEPT !.ino[i].nlink = @ - 1], p, i), 0)

(* sys_link(): the count is raised before the new name is looked up.       *)
sys_link(p) ==
    LET i == proc[p].ip
    IN  /\ At(p, "link") /\ Unlocked(i) /\ ~NoType(i)
        /\ IF IsDir(i) THEN Returns(p, iput(fs, p, i), -1)
           ELSE Namei(p, [fs EXCEPT !.ino[i].nlink = @ + 1], [proc[p] EXCEPT !.old = i], Call(p).new)

LinkEnds(p) ==
    LET d == proc[p].ip  name == proc[p].name
        seen == IF Entry(d, name) THEN iput(iget(fs, fs.ino[d].ents[name]), p, fs.ino[d].ents[name]) ELSE fs
    IN  /\ At(p, "linkdir") /\ Unlocked(d)
        /\ IF Entry(d, name) \/ ~HasRoom(fs, d)
           THEN NameFails(p, iput(seen, p, d))
           ELSE Returns(p, iput(iput(dirlink(fs, d, name, proc[p].old), p, d), p, proc[p].old), 0)

(* Mutated form: the count stays raised.                                   *)
LinkBad_KeepsCount(p) ==
    LET i == proc[p].old
    IN  /\ At(p, "linkbad") /\ Unlocked(i)
        /\ Returns(p, iput(fs, p, i), -1)

LinkBad(p) ==
    LET i == proc[p].old
    IN  /\ At(p, "linkbad") /\ Unlocked(i)
        /\ Returns(p, iput([fs EXCEPT !.ino[i].nlink = @ - 1], p, i), -1)

(* The directory that was current is put inside the transaction.           *)
sys_chdir(p) ==
    LET i == proc[p].ip
    IN  /\ At(p, "chdir") /\ Unlocked(i) /\ ~NoType(i)
        /\ IF ~IsDir(i) THEN Returns(p, iput(fs, p, i), -1)
           ELSE To(p, iput(fs, p, proc[p].cwd),
                   Idle @@ [proc[p] EXCEPT !.pc = "ret", !.ret = 0, !.cwd = i])

sys_getfilesize(p) ==
    LET i == proc[p].ip
    IN  /\ At(p, "getfilesize") /\ Unlocked(i) /\ ~NoType(i)
        /\ Returns(p, iput(fs, p, i), IF fs.ino[i].type = "file" THEN 0 ELSE -1)

OpenPanics(p) ==
    \E pc \in {"open", "created", "unlinked", "link", "chdir", "getfilesize"} :
        IlockPanics(p, pc, proc[p].ip)

-----------------------------------------------------------------------------
(* Calls on a descriptor.  argfd() finds its file.                         *)
FdCalls == {"dup", "read", "write", "fstat", "list", "close"}

Fd(p) == LET fd == Call(p).fd IN IF fd = LAST THEN proc[p].last ELSE IF fd = FD THEN proc[p].fd ELSE fd

argfd(p) == IF Fd(p) \in 0..(NOFILE - 1) THEN proc[p].ofile[Fd(p)] ELSE 0

BadFd(p) == InCall(p, FdCalls) /\ argfd(p) = 0 /\ Returns(p, fs, -1)

OnFile(p, op) == InCall(p, {op}) /\ argfd(p) # 0

sys_dup(p) ==
    LET fds == {fd \in 0..(NOFILE - 1) : proc[p].ofile[fd] = 0}
    IN  /\ OnFile(p, "dup")
        /\ IF fds = {} THEN Returns(p, fs, -1)
           ELSE To(p, [fs EXCEPT !.file[argfd(p)].ref = @ + 1],
                   [proc[p] EXCEPT !.pc = "ret", !.ret = Min(fds), !.ofile[Min(fds)] = argfd(p)])

(* fileread() and filewrite() of an inode, as far as offset and size go.   *)
Least(a, b) == IF a <= b THEN a ELSE b

sys_read(p) ==
    LET f == fs.file[argfd(p)]
        n == IF f.off > fs.ino[f.ip].size THEN 0 ELSE Least(Call(p).n, fs.ino[f.ip].size - f.off)
    IN  /\ OnFile(p, "read")
        /\ IF ~f.readable THEN Returns(p, fs, -1)
           ELSE Unlocked(f.ip) /\ Returns(p, [fs EXCEPT !.file[argfd(p)].off = @ + n], n)

sys_write(p) ==
    LET f == fs.file[argfd(p)]  end == f.off + Call(p).n
    IN  /\ OnFile(p, "write")
        /\ IF ~f.writable THEN Returns(p, fs, -1)
           ELSE /\ Unlocked(f.ip)
                /\ IF f.off > fs.ino[f.ip].size THEN Returns(p, fs, -1)
                   ELSE Returns(p, [fs EXCEPT !.file[argfd(p)].off = end,
                                              !.ino[f.ip].size = IF end > @ THEN end ELSE @], Call(p).n)

(* fstat() for the size, and a loop of read() over a directory for the     *)
(* number of names in it.                                                  *)
sys_fstat(p) ==
    LET i == fs.file[argfd(p)].ip
    IN  \/ OnFile(p, "fstat") /\ Unlocked(i) /\ Returns(p, fs, fs.ino[i].size)
        \/ OnFile(p, "list") /\ Unlocked(i) /\ Returns(p, fs, Cardinality(Entries(fs, i)))

fileclose(s, p, f) ==
    IF s.file[f].ref > 1 THEN [s EXCEPT !.file[f].ref = @ - 1]
    ELSE iput(begin_op([s EXCEPT !.file[f] = NoFile], p), p, s.file[f].ip)

sys_close(p) ==
    /\ OnFile(p, "close")
    /\ To(p, fileclose(fs, p, argfd(p)), [proc[p] EXCEPT !.pc = "ret", !.ret = 0, !.ofile[Fd(p)] = 0])

-----------------------------------------------------------------------------
(* Processes: fork() shares the open files and the current directory,      *)
(* exit() closes them one after the other, wait() waits for a child.       *)
Unused ==
    Idle @@ [pc |-> "unused", todo |-> <<>>, parent |-> NONE, cwd |-> 0, ret |-> 0,
             ofile |-> [fd \in 0..(NOFILE - 1) |-> 0], last |-> -1, fd |-> -1]

fork_(p) ==
    LET free == {q \in Procs : proc[q].pc = "unused"}
        child == CHOOSE q \in free : TRUE
        fds(f) == {fd \in 0..(NOFILE - 1) : proc[p].ofile[fd] = f}
    IN  /\ InCall(p, {"fork"}) /\ free # {}
        /\ fs' = [fs EXCEPT !.ref[proc[p].cwd] = @ + 1,
                            !.file = [f \in 1..NFILE |-> [@[f] EXCEPT !.ref = @ + Cardinality(fds(f))]]]
        /\ proc' = [proc EXCEPT ![p].pc = "ret", ![p].ret = 0,
                                ![child] = [proc[p] EXCEPT !.todo = Call(p).child, !.parent = p]]

wait_(p) ==
    /\ InCall(p, {"wait"})
    /\ \E q \in Procs :
          /\ proc[q].parent = p /\ proc[q].pc = "zombie"
          /\ proc' = [proc EXCEPT ![p].pc = "ret", ![p].ret = 0, ![q] = Unused]
    /\ UNCHANGED fs

Exits(p) == At(p, "user") /\ proc[p].todo = <<>>

ExitFile(p) ==
    LET fds == {fd \in 0..(NOFILE - 1) : proc[p].ofile[fd] # 0}
    IN  /\ Exits(p) /\ p \notin fs.inop /\ fds # {}
        /\ To(p, fileclose(fs, p, proc[p].ofile[Min(fds)]), [proc[p] EXCEPT !.ofile[Min(fds)] = 0])

(* The end_op() of a fileclose().                                          *)
ExitClosed(p) == Exits(p) /\ p \in fs.inop /\ proc[p].cwd # 0 /\ To(p, end_op(fs, p), proc[p])

(* Mutated form: the current directory is put outside the transaction.     *)
ExitCwd_NoTrans(p) ==
    /\ Exits(p) /\ p \notin fs.inop /\ proc[p].cwd # 0 /\ \A fd \in DOMAIN proc[p].ofile : proc[p].ofile[fd] = 0
    /\ To(p, iput(fs, p, proc[p].cwd), [proc[p] EXCEPT !.cwd = 0])

ExitCwd(p) ==
    /\ Exits(p) /\ p \notin fs.inop /\ proc[p].cwd # 0 /\ \A fd \in DOMAIN proc[p].ofile : proc[p].ofile[fd] = 0
    /\ To(p, iput(begin_op(fs, p), p, proc[p].cwd), [proc[p] EXCEPT !.cwd = 0])

ExitEnds(p) ==
    /\ Exits(p) /\ proc[p].cwd = 0
    /\ To(p, end_op(fs, p), [Unused EXCEPT !.pc = "zombie", !.parent = proc[p].parent])

(* A program that goes on at random.                                       *)
Pick_(p) ==
    /\ InCall(p, {"pick"})
    /\ \E calls \in Menu(Call(p).menu) :
          proc' = [proc EXCEPT ![p].todo = calls \o Tail(@)]
    /\ UNCHANGED fs

-----------------------------------------------------------------------------
(* The tree that mkfs makes, and one process with one of the programs.     *)
Tree ==
    [i \in Inums |->
        IF i = ROOTINO
        THEN Inode("dir", ("." :> 1) @@ (".." :> 1) @@ ("README" :> 2) @@ ("cat" :> 3) @@ ("echo" :> 4))
        ELSE IF i <= RootFiles + 1 THEN Inode("file", << >>) ELSE FreeInode]

Init ==
    \E first \in Procs, test \in DOMAIN Programs(NINODE) :
        /\ first = CHOOSE p \in Procs : TRUE
        /\ fs = [ino |-> Tree, ref |-> [i \in Inums |-> IF i = ROOTINO THEN 1 ELSE 0],
                 lock |-> [i \in Inums |-> NONE], put |-> [p \in Procs |-> {}],
                 file |-> [f \in 1..NFILE |-> NoFile], inop |-> {}, panic |-> "", wrong |-> FALSE,
                 slots |-> IF test \in FullDisk THEN RootFiles + 4 ELSE 99,
                 lost |-> [i \in Inums |-> 0], stuck |-> {}]
        /\ proc = [p \in Procs |-> IF p = first
                                    THEN [Unused EXCEPT !.pc = "user", !.todo = Programs(NINODE)[test],
                                                        !.cwd = ROOTINO]
                                    ELSE Unused]

Enter(p) ==
    /\ proc[p].pc = "user"
    /\ \/ Start(p) \/ BadFd(p) \/ sys_dup(p) \/ sys_read(p) \/ sys_write(p) \/ sys_fstat(p) \/ sys_close(p)
       \/ fork_(p) \/ wait_(p) \/ ExitFile(p) \/ ExitClosed(p) \/ ExitCwd(p) \/ ExitEnds(p) \/ Pick_(p)

Walk(p) ==
    /\ proc[p].pc = "namex"
    /\ NamexEnds(p) \/ NamexStops(p) \/ NamexMisses(p) \/ NamexStep(p) \/ NamexPanics(p)

Inside(p) ==
    /\ proc[p].pc \notin {"unused", "user", "namex", "zombie"}
    /\ \/ sys_open(p) \/ CreateFinds(p) \/ CreateOld(p) \/ CreateNew(p) \/ CreateFails(p)
       \/ sys_unlink(p) \/ UnlinkEnds(p) \/ sys_link(p) \/ LinkEnds(p) \/ LinkBad(p)
       \/ sys_chdir(p) \/ sys_getfilesize(p) \/ OpenPanics(p) \/ Return(p)

Step(p) == Enter(p) \/ Walk(p) \/ Inside(p) \/ IputEnds(p)

Stopped == fs.panic # "" \/ \A p \in Procs : proc[p].pc \in {"unused", "zombie"}

Next == \E p \in Procs : Step(p)

(* Some process that can go on is run.  As the programs end, this runs     *)
(* every process that is not waiting for ever.                             *)
Fairness == WF_vars(Next)

Spec == Init /\ [][Next]_vars /\ Fairness

-----------------------------------------------------------------------------
RefCounts ==
    fs.panic = "" =>
    /\ \A i \in Inums :
          fs.ref[i] = Cardinality({f \in 1..NFILE : fs.file[f].ref > 0 /\ fs.file[f].ip = i})
                      + Cardinality({p \in Procs : proc[p].cwd = i})
                      + Cardinality({p \in Procs : proc[p].ip = i})
                      + Cardinality({p \in Procs : proc[p].dp = i})
                      + Cardinality({p \in Procs : proc[p].old = i})
                      + Cardinality({p \in Procs : i \in fs.put[p]})
    /\ \A f \in 1..NFILE :
          fs.file[f].ref = Cardinality({<<p, fd>> \in Procs \X (0..(NOFILE - 1)) : proc[p].ofile[fd] = f})

LinkCounts ==
    \A i \in {j \in Inums : fs.ino[j].type # "free"} :
        LET names(d) == {n \in DOMAIN fs.ino[d].ents \ {"."} :
                            fs.ino[d].ents[n] = i /\ ~(n = ".." /\ Removed(d))}
            all == UNION {{d} \X names(d) : d \in {e \in Inums : IsDir(e)}}
        IN  /\ fs.ino[i].nlink = Cardinality(all) + fs.lost[i]
                                 + Cardinality({p \in Procs : proc[p].old = i})
            /\ fs.ino[i].nlink = 0 => fs.ref[i] > 0 \/ i \in fs.stuck

(* The counts on which everything is freed agree with what they count, on  *)
(* all error paths.  ip->ref: the open files, current directories and      *)
(* local variables of calls that point to the inode; f->ref: descriptors;  *)
(* ip->nlink: the names of the inode, with the ".." of its subdirectories, *)
(* the link() under way and the names lost in a removed directory.  An     *)
(* inode without links is free or somebody still refers to it, unless      *)
(* iput() raced with ialloc() for it (fs.c:355-361).                       *)
CountsAgree == RefCounts /\ LinkCounts

(* The kernel panics in two places only: in an iput() of getfilesize(),    *)
(* which frees an inode outside any transaction, and at the inode that the *)
(* ".." of a removed directory names.                                      *)
PanicsKnown ==
    \/ fs.panic = ""
    \/ /\ fs.panic = "log_write outside of trans"
       /\ \E p \in Procs : proc[p].todo # <<>> /\ Call(p).op = "getfilesize"
    \/ fs.panic = "ilock: no type" /\ \E p \in Procs : proc[p].updir

(* Every call of the tests returns what the test accepts.                  *)
TestsPass == ~fs.wrong

(* Every program comes to its end: no call waits for ever for an inode.    *)
TestsEnd == <>Stopped
=============================================================================
