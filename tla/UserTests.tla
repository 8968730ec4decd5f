------------------------------ MODULE UserTests ------------------------------
(***************************************************************************)
(* The file system tests of user/usertests.c and the random calls of       *)
(* user/grind.c as programs: sequences of system calls, each with the      *)
(* results the program accepts.  Loops keep the turns that differ.  Module *)
(* Fs runs the programs.                                                   *)
(***************************************************************************)
EXTENDS Integers, SequencesExt

(* The results a test accepts: anything but -1, -1, both, or one number.   *)
Ok == 1000
Fail == -1
Either == 1001

Accepts(exp, r) == exp = Either \/ (exp = Ok /\ r # -1) \/ exp = r

(* Paths, relative to the current directory and absolute.                  *)
Rel(el) == [abs |-> FALSE, el |-> el]
Abs(el) == [abs |-> TRUE, el |-> el]

(* The descriptor of the last open(), and the variable fd of grind.        *)
LAST == 100
FD == 101

open(path, mode, exp) == [op |-> "open", path |-> path, mode |-> mode, keep |-> FALSE, exp |-> exp]
OpenFD(path, mode) == [open(path, mode, Either) EXCEPT !.keep = TRUE]
PathCall(op, path, exp) == [op |-> op, path |-> path, exp |-> exp]
mkdir(path, exp) == PathCall("mkdir", path, exp)
unlink(path, exp) == PathCall("unlink", path, exp)
chdir(path, exp) == PathCall("chdir", path, exp)
link(old, new, exp) == [op |-> "link", path |-> old, new |-> new, exp |-> exp]
FdCall(op, fd, n, exp) == [op |-> op, fd |-> fd, n |-> n, exp |-> exp]
read(fd, n, exp) == FdCall("read", fd, n, exp)
write(fd, n, exp) == FdCall("write", fd, n, exp)
close(fd) == FdCall("close", fd, 0, Either)
fork(child) == [op |-> "fork", child |-> child, exp |-> Ok]
wait == [op |-> "wait", exp |-> Ok]
Pick(menu) == [op |-> "pick", menu |-> menu]

CRW == {"O_CREATE", "O_RDWR"}
CRWT == {"O_CREATE", "O_RDWR", "O_TRUNC"}
CWT == {"O_CREATE", "O_WRONLY", "O_TRUNC"}
WT == {"O_WRONLY", "O_TRUNC"}
RDONLY == {}
BUF == 50

(* Files that mkfs puts in the root directory (README, cat and echo).      *)
RootFiles == 3

Rep(k, turn) == FlattenSeq([j \in 1..k |-> turn])
CloseOpen(path, mode) == <<open(path, mode, Either), close(LAST)>>
Names(prefix, set) == [j \in 1..Len(set) |-> Rel(<<prefix \o set[j]>>)]
Digits(n) == SubSeq(<<"0", "1", "2", "3", "4", "5", "6", "7", "8", "9">>, 1, n)
Each(paths, Turn(_)) == FlattenSeq([j \in 1..Len(paths) |-> Turn(paths[j])])

-----------------------------------------------------------------------------
truncate1 ==
    LET f == Rel(<<"truncfile">>)
    IN  << unlink(f, Either), open(f, CWT, Either), write(0, 4, Either), close(0),
           open(f, RDONLY, Either), read(0, 32, 4),
           open(f, WT, Either), open(f, RDONLY, Either), read(2, 32, 0), read(0, 32, 0),
           write(1, 6, Either), read(2, 32, 6), read(0, 32, 2),
           unlink(f, Either), close(1), close(0), close(2) >>

truncate2 ==
    LET f == Rel(<<"truncfile">>)
    IN  << unlink(f, Either), open(f, CWT, Either), write(0, 4, Either), open(f, WT, Either),
           write(0, 1, -1), unlink(f, Either), close(0), close(1) >>

truncate3 ==
    LET f == Rel(<<"truncfile">>)
        child == << open(f, {"O_WRONLY"}, Ok), write(LAST, 10, 10), close(0),
                    open(f, RDONLY, Either), read(LAST, 32, Either), close(0) >>
        parent == << open(f, CWT, Ok), write(LAST, 3, 3), close(0) >>
    IN  CloseOpen(f, CWT) \o << fork(Rep(1, child)) >> \o Rep(2, parent)
        \o << wait, unlink(f, Either) >>

iputtest ==
    << mkdir(Rel(<<"iputdir">>), Ok), chdir(Rel(<<"iputdir">>), Ok),
       unlink(Rel(<<"..", "iputdir">>), Ok), chdir(Abs(<<>>), Ok) >>

exitiputtest ==
    << fork(<< mkdir(Rel(<<"iputdir">>), Ok), chdir(Rel(<<"iputdir">>), Ok),
               unlink(Rel(<<"..", "iputdir">>), Ok) >>), wait >>

openiputtest ==
    LET d == Rel(<<"oidir">>)
    IN  << mkdir(d, Ok), fork(<< open(d, {"O_RDWR"}, Fail) >>), unlink(d, 0), wait >>

opentest ==
    << open(Rel(<<"echo">>), RDONLY, Ok), close(0), open(Rel(<<"doesnotexist">>), RDONLY, Fail) >>

writetest ==
    LET f == Rel(<<"small">>)
    IN  << open(f, CRW, Ok) >> \o Rep(4, << write(0, 10, 10) >>)
        \o << close(0), open(f, RDONLY, Ok), read(0, BUF, 40), close(0), unlink(f, Ok) >>

createtest ==
    LET files == Names("a", Digits(3))
    IN  Each(files, LAMBDA f : CloseOpen(f, CRW)) \o Each(files, LAMBDA f : << unlink(f, Either) >>)

dirtest ==
    << mkdir(Rel(<<"dir0">>), Ok), chdir(Rel(<<"dir0">>), Ok),
       chdir(Rel(<<"..">>), Ok), unlink(Rel(<<"dir0">>), Ok) >>

sharedfd ==
    LET f == Rel(<<"sharedfd">>)
        writes == Rep(2, << write(0, 10, 10) >>)
    IN  << unlink(f, Either), open(f, CRW, Ok), fork(writes) >> \o writes
        \o << wait, close(0), open(f, RDONLY, Ok), read(0, BUF, 40), read(0, BUF, 0),
              close(0), unlink(f, Either) >>

fourfiles ==
    LET f(j) == Rel(<<"f" \o Digits(4)[j]>>)
        child(j) == << open(f(j), CRW, Ok), write(LAST, 5, 5), write(0, 5, 5) >>
    IN  FlattenSeq([j \in 1..2 |-> << unlink(f(j), Either), fork(child(j)) >>]) \o << wait, wait >>
        \o FlattenSeq([j \in 1..2 |-> << open(f(j), RDONLY, Either), read(0, BUF, 10),
                                         read(0, BUF, 0), close(0), unlink(f(j), Either) >>])

(* i = 0, 1, 2: the file of turn 1 is removed in turn 2.                   *)
createdelete ==
    LET f(pi, i) == Rel(<<pi \o Digits(3)[i + 1]>>)
        child(pi) == CloseOpen(f(pi, 0), CRW) \o CloseOpen(f(pi, 1), CRW)
                     \o CloseOpen(f(pi, 2), CRW) \o << unlink(f(pi, 1), Ok) >>
        check(pi) == << open(f(pi, 0), RDONLY, Ok), close(LAST), open(f(pi, 1), RDONLY, Fail),
                        open(f(pi, 2), RDONLY, Ok), close(LAST),
                        unlink(f(pi, 0), Either), unlink(f(pi, 1), Either), unlink(f(pi, 2), Either) >>
    IN  << fork(child("p")), fork(child("q")), wait, wait >> \o check("p") \o check("q")

unlinkread ==
    LET f == Rel(<<"unlinkread">>)
    IN  << open(f, CRW, Ok), write(0, 5, Either), close(0), open(f, {"O_RDWR"}, Ok), unlink(f, 0),
           open(f, CRW, Either), write(1, 3, Either), close(1),
           read(0, BUF, 5), write(0, 10, 10), close(0), unlink(f, Either) >>

linktest ==
    LET lf1 == Rel(<<"lf1">>)  lf2 == Rel(<<"lf2">>)
    IN  << unlink(lf1, Either), unlink(lf2, Either), open(lf1, CRW, Ok), write(0, 5, 5), close(0),
           link(lf1, lf2, Ok), unlink(lf1, Either), open(lf1, RDONLY, Fail),
           open(lf2, RDONLY, Ok), read(0, BUF, 5), close(0),
           link(lf2, lf2, Fail), unlink(lf2, Either), link(lf2, lf1, Fail),
           link(Rel(<<".">>), lf1, Fail) >>

(* Turns 0, 1, 4 and 6 stand for the four ways in which the child and the  *)
(* parent meet: both create, both link, one of each.                       *)
concreate ==
    LET c0 == Rel(<<"C0">>)
        file(i) == Rel(<<"C" \o i>>)
        make(i) == << open(file(i), CRW, Ok), close(0) >>
        ln(i) == << link(c0, file(i), Either) >>
        turn(i, child, parent) == << unlink(file(i), Either), fork(child) >> \o parent \o << wait >>
        opens(i) == Rep(2, CloseOpen(file(i), RDONLY))
        unlinks(i) == Rep(2, << unlink(file(i), Either) >>)
        clean(i, child, parent) == << fork(child) >> \o parent \o << wait >>
    IN  turn("0", make("0"), make("0")) \o turn("1", ln("1"), ln("1"))
        \o turn("4", make("4"), ln("4")) \o turn("6", ln("6"), make("6"))
        \o << open(Rel(<<".">>), RDONLY, Either), FdCall("list", 0, 0, RootFiles + 4), close(0) >>
        \o clean("0", opens("0"), unlinks("0")) \o clean("1", unlinks("1"), opens("1"))
        \o clean("4", unlinks("4"), opens("4")) \o clean("6", opens("6"), unlinks("6"))

LinkUnlinkMenu ==
    LET x == Rel(<<"x">>)
    IN  { CloseOpen(x, CRW), << link(Rel(<<"cat">>), x, Either) >>, << unlink(x, Either) >> }

linkunlink ==
    << unlink(Rel(<<"x">>), Either), fork(Rep(2, << Pick("linkunlink") >>)),
       Pick("linkunlink"), Pick("linkunlink"), wait >>

subdir ==
    LET dd == Rel(<<"dd">>)  ff == Rel(<<"dd", "ff">>)
        ddff == Rel(<<"dd", "dd", "ff">>)  ffff == Rel(<<"dd", "dd", "ffff">>)
    IN  << unlink(Rel(<<"ff">>), Either), mkdir(dd, 0), open(ff, CRW, Ok), write(0, 2, Either), close(0),
           unlink(dd, Fail), mkdir(Abs(<<"dd", "dd">>), 0),
           open(ddff, CRW, Ok), write(0, 2, Either), close(0),
           open(Rel(<<"dd", "dd", "..", "ff">>), RDONLY, Ok), read(0, BUF, 2), close(0),
           link(ddff, ffff, 0), unlink(ddff, 0), open(ddff, RDONLY, Fail),
           chdir(dd, 0), chdir(Rel(<<"dd", "..", "..", "dd">>), 0),
           chdir(Rel(<<"dd", "..", "..", "..", "dd">>), 0), chdir(Rel(<<".", "..">>), 0),
           open(ffff, RDONLY, Ok), read(0, BUF, 2), close(0) >>

subdir_end ==
    LET dd == Rel(<<"dd">>)  ff == Rel(<<"dd", "ff">>)  ddd == Rel(<<"dd", "dd">>)
        ddff == Rel(<<"dd", "dd", "ff">>)  ffff == Rel(<<"dd", "dd", "ffff">>)
        inFile == Rel(<<"dd", "ff", "ff">>)  inNone == Rel(<<"dd", "xx", "ff">>)
        new == Rel(<<"dd", "dd", "xx">>)
    IN  << open(ddff, RDONLY, Fail), open(inFile, CRW, Fail), open(inNone, CRW, Fail),
           open(dd, {"O_CREATE"}, Fail), open(dd, {"O_RDWR"}, Fail), open(dd, {"O_WRONLY"}, Fail),
           link(inFile, new, Fail), link(inNone, new, Fail), link(ff, ffff, Fail),
           mkdir(inFile, Fail), mkdir(inNone, Fail), mkdir(ffff, Fail),
           unlink(inNone, Fail), unlink(inFile, Fail),
           chdir(ff, Fail), chdir(Rel(<<"dd", "xx">>), Fail),
           unlink(ffff, 0), unlink(ff, 0), unlink(dd, Fail), unlink(ddd, Ok), unlink(dd, Ok) >>

(* Names of 14 and of 15 characters.                                       *)
n14 == "12345678901234"
n15 == "123456789012345"

fourteen ==
    << mkdir(Rel(<<n14>>), 0), mkdir(Rel(<<n14, n15>>), 0),
       open(Rel(<<n15, n15, n15>>), {"O_CREATE"}, Ok), close(0),
       open(Rel(<<n14, n14, n14>>), RDONLY, Ok), close(0),
       mkdir(Rel(<<n14, n14>>), Fail), mkdir(Rel(<<n15, n14>>), Fail),
       unlink(Rel(<<n15, n14>>), Either), unlink(Rel(<<n14, n14>>), Either),
       unlink(Rel(<<n14, n14, n14>>), Either), unlink(Rel(<<n15, n15, n15>>), Either),
       unlink(Rel(<<n14, n15>>), Either), unlink(Rel(<<n14>>), Either) >>

rmdot ==
    << mkdir(Rel(<<"dots">>), 0), chdir(Rel(<<"dots">>), 0),
       unlink(Rel(<<".">>), Fail), unlink(Rel(<<"..">>), Fail), chdir(Abs(<<>>), 0),
       unlink(Rel(<<"dots", ".">>), Fail), unlink(Rel(<<"dots", "..">>), Fail),
       unlink(Rel(<<"dots">>), 0) >>

dirfile ==
    LET f == Rel(<<"dirfile">>)  xx == Rel(<<"dirfile", "xx">>)
    IN  << open(f, {"O_CREATE"}, Ok), close(0), chdir(f, Fail),
           open(xx, RDONLY, Fail), open(xx, {"O_CREATE"}, Fail), mkdir(xx, Fail), unlink(xx, Fail),
           link(Rel(<<"README">>), xx, Fail), unlink(f, 0),
           open(Rel(<<".">>), {"O_RDWR"}, Fail), open(Rel(<<".">>), RDONLY, Either), write(0, 1, Fail),
           close(0) >>

(* The loops run NINODE + 1 times, whatever the size of the table.         *)
iref(NINODE) ==
    LET none == Rel(<<>>)  xx == Rel(<<"xx">>)  d == Rel(<<"irefd">>)
    IN  Rep(NINODE + 1, << mkdir(d, 0), chdir(d, 0), mkdir(none, Either),
                           link(Rel(<<"README">>), none, Either) >> \o CloseOpen(none, {"O_CREATE"})
                        \o CloseOpen(xx, {"O_CREATE"}) \o << unlink(xx, Either) >>)
        \o Rep(NINODE + 1, << chdir(Rel(<<"..">>), Either), unlink(d, Either) >>) \o << chdir(Abs(<<>>), Either) >>

bigdir ==
    LET bd == Rel(<<"bd">>)
    IN  << unlink(bd, Either), open(bd, {"O_CREATE"}, Ok), close(0) >>
        \o Each(Names("x", Digits(4)), LAMBDA f : << link(bd, f, 0) >>) \o << unlink(bd, Either) >>
        \o Each(Names("x", Digits(4)), LAMBDA f : << unlink(f, 0) >>)

manywrites ==
    LET name == [j \in 1..2 |-> Rel(<<"b" \o <<"a", "b">>[j]>>)]
        once(j) == << open(name[j], CRW, Ok), write(LAST, 50, 50), close(0) >>
        child(j) == << unlink(name[j], Either) >> \o Rep(j, once(j))
                    \o << unlink(name[j], Either), unlink(name[j], Either) >>
    IN  << fork(child(1)), fork(child(2)), wait, wait >>

(* The disk has no room left for another entry in the directory.           *)
diskfull ==
    LET zz == Names("zz", Digits(3))  d == Rel(<<"diskfulldir">>)
    IN  << unlink(d, Either) >>
        \o Each(zz, LAMBDA f : << unlink(f, Either) >> \o CloseOpen(f, CRWT))
        \o << mkdir(d, Fail), unlink(d, Either) >> \o Each(zz, LAMBDA f : << unlink(f, Either) >>)

outofinodes ==
    LET zz == Names("zz", Digits(9))
    IN  Each(zz, LAMBDA f : << unlink(f, Either) >> \o CloseOpen(f, CRWT))
        \o Each(zz, LAMBDA f : << unlink(f, Either) >>)
-----------------------------------------------------------------------------
(* go() of user/grind.c: the cases that use the file system, without the   *)
(* ones that only fork, kill, or use memory and pipes.  The write and the  *)
(* read through fd come after the calls that open it.                      *)
GrindMenu ==
    LET viaA == Rel(<<"grindir", "..", "a">>)
        subA == Rel(<<"a", "..", "a", ".", "a">>)
    IN  { CloseOpen(viaA, CRW),
          CloseOpen(Rel(<<"grindir", "..", "grindir", "..", "b">>), CRW),
          << unlink(viaA, Either) >>,
          << chdir(Rel(<<"grindir">>), 0), unlink(Rel(<<"..", "b">>), Either), chdir(Abs(<<>>), Either) >>,
          << close(FD), OpenFD(Abs(<<"grindir", "..", "a">>), CRW), write(FD, 9, Either) >>,
          << close(FD), OpenFD(Abs(<<".", "grindir", ".", "..", "b">>), CRW), read(FD, 9, Either) >>,
          << mkdir(viaA, Either) >> \o CloseOpen(subA, CRW) \o << unlink(Rel(<<"a", "a">>), Either) >>,
          << mkdir(Abs(<<"..", "b">>), Either) >> \o CloseOpen(Rel(<<"grindir", "..", "b", "b">>), CRW)
             \o << unlink(Rel(<<"b", "b">>), Either) >>,
          << unlink(Rel(<<"b">>), Either),
             link(Rel(<<"..", "grindir", ".", "..", "a">>), Rel(<<"..", "b">>), Either) >>,
          << unlink(Rel(<<"..", "grindir", "..", "a">>), Either),
             link(Rel(<<"..", ".", "b">>), Abs(<<"grindir", "..", "a">>), Either) >> }

(* Case 20, in a child, and case 21.                                       *)
GrindTree ==
    LET a == Rel(<<"a">>)
    IN  << fork(<< unlink(a, Either), mkdir(a, Either), chdir(a, Either), unlink(Rel(<<"..", "a">>), Either),
                   OpenFD(Rel(<<"x">>), CRW), unlink(Rel(<<"x">>), Either) >>), wait >>

GrindFile ==
    LET c == Rel(<<"c">>)
    IN  << unlink(c, Either), open(c, CRW, Ok), write(LAST, 1, 1),
           FdCall("fstat", LAST, 0, 1), close(LAST), unlink(c, Either) >>

(* Its setting up of the directory.                                        *)
GoSetUp ==
    << mkdir(Rel(<<"grindir">>), Either), chdir(Rel(<<"grindir">>), 0), chdir(Abs(<<>>), Either) >>

-----------------------------------------------------------------------------
(* Programs of our own for what the tests leave out: getfilesize() while   *)
(* the file is removed, a name made in a removed directory, the ".." of    *)
(* one, a create() that fails while an inode is being freed, and the calls *)
(* dup(), mknod() and open() with O_APPEND.                                *)
getfilesize(path) == PathCall("getfilesize", path, Either)

sizes ==
    LET f == Rel(<<"f">>)
    IN  << open(f, CRW, Ok), close(0), fork(<< getfilesize(f), getfilesize(Rel(<<".">>)) >>),
           unlink(f, 0), wait >>

lostname ==
    LET d == Rel(<<"d">>)
    IN  << mkdir(d, 0), chdir(d, 0), unlink(Rel(<<"..", "d">>), 0),
           open(Rel(<<"x">>), CRW, Ok), chdir(Abs(<<>>), 0), close(0),
           mkdir(d, 0), chdir(d, 0), unlink(Rel(<<"..", "d">>), 0),
           mkdir(Rel(<<"x">>), 0), chdir(Abs(<<>>), 0) >>

updir ==
    << mkdir(Rel(<<"d">>), 0), mkdir(Rel(<<"d", "e">>), 0), chdir(Rel(<<"d", "e">>), 0),
       unlink(Rel(<<"..", "e">>), 0), unlink(Abs(<<"d">>), 0),
       fork(<< chdir(Rel(<<"..">>), Either) >>), chdir(Rel(<<"..", "..">>), Either), wait >>

fullrace ==
    LET d == Rel(<<"d">>)  f == Rel(<<"d", "f">>)
    IN  << mkdir(d, 0), open(f, CRW, Ok), close(0), mkdir(Rel(<<"e">>), 0),
           fork(<< open(Rel(<<"g">>), CRW, Fail), mkdir(Rel(<<"h">>), Fail) >>), unlink(f, 0), wait >>

descriptors ==
    LET f == Rel(<<"f">>)
    IN  << open(f, CRW, 0), FdCall("dup", 0, 0, 1), write(0, 3, 3), write(1, 2, 2), close(0),
           open(f, {"O_WRONLY", "O_APPEND"}, 0), write(0, 4, 4), FdCall("fstat", 1, 0, 9),
           FdCall("dup", 0, 0, 2), FdCall("dup", 0, 0, 3), FdCall("dup", 0, 0, Fail),
           open(f, RDONLY, Fail), PathCall("mknod", Rel(<<"tty">>), 0),
           read(0, BUF, Fail), close(9), unlink(f, 0), unlink(Rel(<<"tty">>), 0) >>

(* iter(): two processes in go(), a case each.  One sets up the directory  *)
(* for both and stands for iter() too; it leaves case 20 to the other.     *)
grind == GoSetUp \o << fork(<< Pick("go") >>), Pick("iter"), wait >>

Menu(name) ==
    CASE name = "linkunlink" -> LinkUnlinkMenu
      [] name = "iter" -> GrindMenu \cup {GrindFile}
      [] name = "go" -> GrindMenu \cup {GrindFile, GrindTree}

Programs(NINODE) ==
    [truncate1 |-> truncate1, truncate2 |-> truncate2, truncate3 |-> truncate3, iputtest |-> iputtest,
     exitiputtest |-> exitiputtest, openiputtest |-> openiputtest, opentest |-> opentest,
     writetest |-> writetest, createtest |-> createtest, dirtest |-> dirtest, sharedfd |-> sharedfd,
     fourfiles |-> fourfiles, createdelete |-> createdelete, unlinkread |-> unlinkread,
     linktest |-> linktest, concreate |-> concreate, linkunlink |-> linkunlink,
     subdir |-> subdir \o subdir_end, fourteen |-> fourteen, rmdot |-> rmdot, dirfile |-> dirfile,
     iref |-> iref(NINODE), bigdir |-> bigdir, manywrites |-> manywrites, diskfull |-> diskfull,
     outofinodes |-> outofinodes, sizes |-> sizes, lostname |-> lostname, updir |-> updir,
     fullrace |-> fullrace, descriptors |-> descriptors, grind |-> grind]

FullDisk == {"diskfull", "fullrace"}
=============================================================================
