----------------------------- MODULE FileSystem -----------------------------
(***************************************************************************)
(* Inodes and directories (kernel/fs.c) under the system calls open,       *)
(* close, mkdir, unlink, link and chdir (kernel/sysfile.c).  The disk is   *)
(* what a transaction of the log sees.  The table has one entry per inode, *)
(* which is what the search of iget() under itable.lock is for.  "." and   *)
(* devices are left out; open() for writing and with a full file table     *)
(* only differ in that they may fail.                                      *)
(*                                                                         *)
(* A step ends where a thread may wait for an inode's sleep lock or takes  *)
(* itable.lock: what is done with an inode locked and touches no other     *)
(* inode's lock is one step, and so is a critical section of itable.lock.  *)
(***************************************************************************)
EXTENDS Integers, Sequences, FiniteSets

CONSTANTS
    Thread, NoThread,
    NInode,        \* sb.ninodes - 1
    Name, DotDot,  \* the elements of path names
    Slash,         \* what an absolute path name starts with
    Paths          \* the path names that are used

Inum == 1 .. NInode
ROOTINO == 1
NoInode == 0
NoCopy == [type |-> "none", nlink |-> 0]      \* ip->valid = 0

Absolute(p) == p # << >> /\ Head(p) = Slash
Elements(p) == IF Absolute(p) THEN Tail(p) ELSE p

ASSUME InodeAssumption == NInode \in Nat \ {0}
ASSUME PathAssumption ==
    /\ IsFiniteSet(Thread) /\ NoThread \notin Thread
    /\ IsFiniteSet(Name) /\ DotDot \notin Name /\ Slash \notin Name \cup {DotDot}
    /\ \A p \in Paths : Elements(p) \in Seq(Name \cup {DotDot}) \ {<< >>}

VARIABLES
    disk,          \* dinodes: type and nlink
    ents,          \* contents of directories
    ref, copy, lk, \* table: ip->ref, ip->type and ip->nlink, owner of ip->lock
    pc, op, path, new,  \* the call of each thread; new: second argument of link()
    ip, dp, old,   \* its inode pointers (each one is a reference)
    puts, then,    \* inodes it has to iput() next; where it goes on after that
    cwd, fd        \* its current directory, its open file

callVars == <<op, path, new>>
threadVars == <<pc, op, path, new, ip, dp, old, puts, then, cwd, fd>>
vars == <<disk, ents, ref, copy, lk, threadVars>>

NoEnts == [n \in Name \cup {DotDot} |-> NoInode]
Dinode == [type : {"free", "file", "dir"}, nlink : Nat]
Ops == {"open", "chdir", "link", "link2", "create", "mkdir", "unlink", "none"}
Locking == {"walk", "found", "parent", "exists", "create", "unlink", "undo"}
InCall == Locking \cup {"created", "unlink2", "bad", "put", "free", "drop"}

TypeOK ==
    /\ disk \in [Inum -> Dinode]
    /\ ents \in [Inum -> [Name \cup {DotDot} -> Inum \cup {NoInode}]]
    /\ ref \in [Inum -> Nat]
    /\ copy \in [Inum -> Dinode \cup {NoCopy}]
    /\ lk \in [Inum -> Thread \cup {NoThread}]
    /\ pc \in [Thread -> InCall \cup {"idle"}]
    /\ op \in [Thread -> Ops]
    /\ path \in [Thread -> Seq(Name \cup {DotDot})]
    /\ new \in [Thread -> Paths \cup {<< >>}]
    /\ ip \in [Thread -> Inum \cup {NoInode}] /\ dp \in [Thread -> Inum \cup {NoInode}]
    /\ old \in [Thread -> Inum \cup {NoInode}]
    /\ puts \in [Thread -> Seq(Inum)]
    /\ then \in [Thread -> InCall \cup {"idle"}]
    /\ cwd \in [Thread -> Inum] /\ fd \in [Thread -> Inum \cup {NoInode}]

(* The file system that mkfs makes, with nothing but the root directory;   *)
(* every thread is in it.                                                  *)
Init ==
    /\ disk = [i \in Inum |-> IF i = ROOTINO THEN [type |-> "dir", nlink |-> 1]
                              ELSE [type |-> "free", nlink |-> 0]]
    /\ ents = [i \in Inum |-> IF i = ROOTINO THEN [NoEnts EXCEPT ![DotDot] = ROOTINO]
                              ELSE NoEnts]
    /\ ref = [i \in Inum |-> IF i = ROOTINO THEN Cardinality(Thread) ELSE 0]
    /\ copy = [i \in Inum |-> NoCopy]
    /\ lk = [i \in Inum |-> NoThread]
    /\ pc = [t \in Thread |-> "idle"] /\ op = [t \in Thread |-> "none"]
    /\ path = [t \in Thread |-> << >>] /\ new = [t \in Thread |-> << >>]
    /\ ip = [t \in Thread |-> NoInode] /\ dp = [t \in Thread |-> NoInode]
    /\ old = [t \in Thread |-> NoInode]
    /\ puts = [t \in Thread |-> << >>] /\ then = [t \in Thread |-> "idle"]
    /\ cwd = [t \in Thread |-> ROOTINO] /\ fd = [t \in Thread |-> NoInode]

-----------------------------------------------------------------------------
Go(t, l) == pc' = [pc EXCEPT ![t] = l]
Set(f, t, v) == [f EXCEPT ![t] = v]

(* ilock(i) waits for the sleep lock and loads the copy; if the inode on   *)
(* disk is free it panics, and the thread stays where it is.               *)
NoType(i) == copy[i] = NoCopy /\ disk[i].type = "free"
Ilock(i) == lk[i] = NoThread /\ ~NoType(i)
Loaded(i) == IF copy[i] = NoCopy THEN disk[i] ELSE copy[i]

(* iget(i) and idup(i).  An entry that nobody references is given to the   *)
(* next inode that needs one, and is not valid then: Drop() says so here.  *)
Got(i) == [ref EXCEPT ![i] = @ + 1]
Drop(i) ==
    /\ ref' = [ref EXCEPT ![i] = @ - 1]
    /\ copy' = IF ref[i] = 1 THEN [copy EXCEPT ![i] = NoCopy] ELSE copy

(* What dirlookup() finds in a locked directory, and the directories after *)
(* dirlink() or after the removal of a name (i = NoInode).                 *)
dirlookup(d, n) == ents[d][n]
dirlink(d, n, i) == [ents EXCEPT ![d][n] = i]

(* iput() the inodes of s, then go on at l.                                *)
PutThen(t, s, l) ==
    /\ puts' = Set(puts, t, s)
    /\ then' = Set(then, t, l)
    /\ Go(t, "put")

(* The call is over, after the iput() of the inodes of s (if any) and      *)
(* end_op().                                                               *)
Return(t, s) ==
    /\ puts' = Set(puts, t, s)
    /\ then' = Set(then, t, "idle")
    /\ Go(t, IF s = << >> THEN "idle" ELSE "put")
    /\ op' = Set(op, t, "none")
    /\ path' = Set(path, t, << >>) /\ new' = Set(new, t, << >>)

-----------------------------------------------------------------------------
(* namex() starts at the root or at the current directory.                 *)
Start(t, p) ==
    LET i == IF Absolute(p) THEN ROOTINO ELSE cwd[t] IN
    /\ path' = Set(path, t, Elements(p))
    /\ ip' = Set(ip, t, i) /\ ref' = Got(i)
    /\ Go(t, "walk")

(* A system call starts: begin_op(), and namex().                          *)
Call(t, o, p, q) ==
    /\ pc[t] = "idle"
    /\ o \in {"open", "create"} => fd[t] = NoInode
    /\ op' = Set(op, t, o) /\ new' = Set(new, t, q)
    /\ Start(t, p)
    /\ UNCHANGED <<disk, ents, copy, lk, dp, old, puts, then, cwd, fd>>

(* The calls for which namex() stops at the parent directory.              *)
NameiParent(t) == op[t] \in {"create", "mkdir", "unlink", "link2"}

(* namex() fails, with an inode to put.                                    *)
NotFound(t, i) ==
    /\ ip' = Set(ip, t, NoInode)
    /\ IF op[t] = "link2" THEN PutThen(t, <<i>>, "undo") /\ UNCHANGED callVars
                           ELSE Return(t, <<i>>)

(* One round of the loop of namex(), with ip locked.                       *)
Walk(t) ==
    LET i == ip[t]
        e == dirlookup(i, Head(path[t]))
        last == Len(path[t]) = 1
    IN
    /\ pc[t] = "walk" /\ Ilock(i)
    /\ \/ /\ \/ Loaded(i).type # "dir"
             \/ ~(NameiParent(t) /\ last) /\ e = NoInode
          /\ NotFound(t, i)
          /\ UNCHANGED <<ref, dp>>
       \/ /\ Loaded(i).type = "dir" /\ NameiParent(t) /\ last
          /\ dp' = Set(dp, t, i) /\ ip' = Set(ip, t, NoInode)
          /\ Go(t, "parent")
          /\ UNCHANGED <<ref, puts, then, callVars>>
       \/ /\ Loaded(i).type = "dir" /\ ~(NameiParent(t) /\ last) /\ e # NoInode
          /\ ip' = Set(ip, t, e) /\ ref' = Got(e)
          /\ path' = Set(path, t, Tail(path[t]))
          /\ PutThen(t, <<i>>, IF last THEN "found" ELSE "walk")
          /\ UNCHANGED <<op, new, dp>>
    /\ copy' = Set(copy, i, Loaded(i))
    /\ UNCHANGED <<disk, ents, lk, old, cwd, fd>>

(* sys_open() of an inode that is there, and locked: fileopen or failure   *)
(* of filealloc().                                                         *)
OpenFile(t, i) ==
    /\ ip' = Set(ip, t, NoInode)
    /\ \/ fd' = Set(fd, t, i) /\ Return(t, << >>)
       \/ Return(t, <<i>>) /\ UNCHANGED fd

(* sys_open() without O_CREATE, after namei().                             *)
Open(t) ==
    /\ pc[t] = "found" /\ op[t] = "open" /\ Ilock(ip[t])
    /\ OpenFile(t, ip[t])
    /\ copy' = Set(copy, ip[t], Loaded(ip[t]))
    /\ UNCHANGED <<disk, ents, ref, lk, dp, old, cwd>>

(* Mutant: the pointer is cleared before the current directory is set.     *)
ChdirCleared(t) ==
    /\ pc[t] = "found" /\ op[t] = "chdir" /\ Ilock(ip[t])
    /\ ip' = Set(ip, t, NoInode)
    /\ IF Loaded(ip[t]).type = "dir"
         THEN Return(t, <<cwd[t]>>) /\ cwd' = Set(cwd, t, NoInode)
         ELSE Return(t, <<ip[t]>>) /\ UNCHANGED cwd
    /\ copy' = Set(copy, ip[t], Loaded(ip[t]))
    /\ UNCHANGED <<disk, ents, ref, lk, dp, old, fd>>

(* sys_chdir(), after namei().                                             *)
Chdir(t) ==
    /\ pc[t] = "found" /\ op[t] = "chdir" /\ Ilock(ip[t])
    /\ ip' = Set(ip, t, NoInode)
    /\ IF Loaded(ip[t]).type = "dir"
         THEN Return(t, <<cwd[t]>>) /\ cwd' = Set(cwd, t, ip[t])
         ELSE Return(t, <<ip[t]>>) /\ UNCHANGED cwd
    /\ copy' = Set(copy, ip[t], Loaded(ip[t]))
    /\ UNCHANGED <<disk, ents, ref, lk, dp, old, fd>>

(* iupdate() of a locked inode whose copy becomes c.                       *)
Iupdate(i, c) == copy' = Set(copy, i, c) /\ disk' = Set(disk, i, c)
Links(c, k) == [c EXCEPT !.nlink = @ + k]

(* Mutant: sys_link() adds the entry without counting the link.            *)
LinkUncounted(i) == Iupdate(i, Loaded(i))

(* ip->nlink++ in sys_link().                                              *)
CountLink(i) == Iupdate(i, Links(Loaded(i), 1))

(* sys_link(), after namei(old): the link is counted first, then namex()   *)
(* starts for the parent of the new name.                                  *)
Link(t) ==
    LET i == ip[t] IN
    /\ pc[t] = "found" /\ op[t] = "link" /\ Ilock(i)
    /\ \/ /\ Loaded(i).type = "dir"
          /\ copy' = Set(copy, i, Loaded(i))
          /\ ip' = Set(ip, t, NoInode)
          /\ Return(t, <<i>>)
          /\ UNCHANGED <<disk, ref, old>>
       \/ /\ Loaded(i).type # "dir"
          /\ CountLink(i)
          /\ old' = Set(old, t, i)
          /\ op' = Set(op, t, "link2")
          /\ Start(t, new[t])
          /\ UNCHANGED <<new, puts, then>>
    /\ UNCHANGED <<ents, lk, dp, cwd, fd>>

(* Mutant: sys_link() without the iput(ip) at its end.                     *)
LinkKeepsOld(t) == <<dp[t]>>

(* What sys_link() puts when it succeeds.                                  *)
LinkPuts(t) == <<dp[t], old[t]>>

(* sys_link(), after nameiparent(new).  dirlink() fails if the name exists *)
(* (dirlookup() has referenced its inode, which is put with dp locked) or  *)
(* if the directory cannot grow.                                           *)
Link2(t) ==
    LET d == dp[t]
        e == dirlookup(d, Head(path[t]))
    IN
    /\ pc[t] = "parent" /\ op[t] = "link2" /\ Ilock(d)
    /\ \/ /\ e # NoInode
          /\ ref' = Got(e)
          /\ lk' = Set(lk, d, t)
          /\ PutThen(t, <<e>>, "bad")
          /\ UNCHANGED <<ents, dp, old, callVars>>
       \/ /\ e = NoInode
          /\ dp' = Set(dp, t, NoInode)
          /\ PutThen(t, <<d>>, "undo")
          /\ UNCHANGED <<ents, ref, lk, old, callVars>>
       \/ /\ e = NoInode
          /\ ents' = dirlink(d, Head(path[t]), old[t])
          /\ dp' = Set(dp, t, NoInode) /\ old' = Set(old, t, NoInode)
          /\ Return(t, LinkPuts(t))
          /\ UNCHANGED <<ref, lk>>
    /\ copy' = Set(copy, d, Loaded(d))
    /\ UNCHANGED <<disk, ip, cwd, fd>>

(* The label "bad" of sys_link().                                          *)
UndoLink(t) ==
    LET i == old[t] IN
    /\ pc[t] = "undo" /\ Ilock(i)
    /\ Iupdate(i, Links(Loaded(i), -1))
    /\ old' = Set(old, t, NoInode)
    /\ Return(t, <<i>>)
    /\ UNCHANGED <<ents, ref, lk, ip, dp, cwd, fd>>

-----------------------------------------------------------------------------
(* Mutant: ialloc() does not write the type to the disk.                   *)
DinodeUnmarked(t, i) == disk[i]

(* The dinode that ialloc() writes.                                        *)
NewDinode(t, i) ==
    [type |-> IF op[t] = "mkdir" THEN "dir" ELSE "file", nlink |-> 0]

FreeInodes == {i \in Inum : disk[i].type = "free"}

(* create(), after nameiparent(), up to the ilock() of the inode: the name *)
(* exists, ialloc() finds no free inode, or it has one (dp stays locked).  *)
(* ialloc() looks at one dinode at a time and others free inodes behind    *)
(* it, so it may miss some.                                                *)
Ialloc(t) ==
    LET d == dp[t]
        e == dirlookup(d, Head(path[t]))
    IN
    /\ pc[t] = "parent" /\ op[t] \in {"create", "mkdir"} /\ Ilock(d)
    /\ \/ /\ e # NoInode
          /\ ip' = Set(ip, t, e) /\ ref' = Got(e)
          /\ copy' = Set(copy, d, Loaded(d))
          /\ dp' = Set(dp, t, NoInode)
          /\ PutThen(t, <<d>>, "exists")
          /\ UNCHANGED <<disk, lk, callVars>>
       \/ /\ e = NoInode
          /\ copy' = Set(copy, d, Loaded(d))
          /\ dp' = Set(dp, t, NoInode)
          /\ Return(t, <<d>>)
          /\ UNCHANGED <<disk, ref, lk, ip>>
       \/ /\ e = NoInode
          /\ \E i \in FreeInodes :
               /\ disk' = Set(disk, i, NewDinode(t, i))
               /\ ip' = Set(ip, t, i) /\ ref' = Got(i)
               /\ copy' = Set(copy, d, Loaded(d))
          /\ lk' = Set(lk, d, t)
          /\ Go(t, "create")
          /\ UNCHANGED <<dp, puts, then, callVars>>
    /\ UNCHANGED <<ents, old, cwd, fd>>

(* create() of a name that exists.                                         *)
Exists(t) ==
    LET i == ip[t] IN
    /\ pc[t] = "exists" /\ Ilock(i)
    /\ copy' = Set(copy, i, Loaded(i))
    /\ IF op[t] = "create" /\ Loaded(i).type = "file"
         THEN OpenFile(t, i)
         ELSE /\ ip' = Set(ip, t, NoInode)
              /\ Return(t, <<i>>)
              /\ UNCHANGED fd
    /\ UNCHANGED <<disk, ents, ref, lk, dp, old, cwd>>

(* create(), from ilock(ip) to its end.  A dirlink() fails if a directory  *)
(* cannot grow.                                                            *)
Create(t) ==
    LET i == ip[t]
        d == dp[t]
        isdir == op[t] = "mkdir"
        up(m, k) == [m EXCEPT ![i] = [Loaded(i) EXCEPT !.nlink = k],
                              ![d].nlink = @ + IF isdir THEN k ELSE 0]
    IN
    /\ pc[t] = "create" /\ Ilock(i)
    /\ \/ /\ copy' = up(copy, 1) /\ disk' = up(disk, 1)
          /\ ents' = [ents EXCEPT ![i][DotDot] = IF isdir THEN d ELSE NoInode,
                                  ![d][Head(path[t])] = i]
          /\ lk' = [lk EXCEPT ![d] = NoThread, ![i] = t]
          /\ dp' = Set(dp, t, NoInode)
          /\ PutThen(t, <<d>>, "created")
          /\ UNCHANGED ip
       \/ /\ copy' = up(copy, 0) /\ disk' = up(disk, 0)
          /\ \/ isdir /\ ents' = dirlink(i, DotDot, d)
             \/ UNCHANGED ents
          /\ ip' = Set(ip, t, NoInode)
          /\ PutThen(t, <<i>>, "bad")
          /\ UNCHANGED <<lk, dp>>
    /\ UNCHANGED <<ref, callVars, old, cwd, fd>>

(* After create(), with the new inode locked.                              *)
Created(t) ==
    LET i == ip[t] IN
    /\ pc[t] = "created"
    /\ lk' = Set(lk, i, NoThread)
    /\ IF op[t] = "create" THEN OpenFile(t, i)
       ELSE /\ ip' = Set(ip, t, NoInode)
            /\ Return(t, <<i>>)
            /\ UNCHANGED fd
    /\ UNCHANGED <<disk, ents, ref, copy, dp, old, cwd>>

(* iput(dp), and the end of the call or the label "bad" of sys_link().     *)
PutParent(t) ==
    /\ dp' = Set(dp, t, NoInode)
    /\ IF op[t] = "link2" THEN PutThen(t, <<dp[t]>>, "undo") /\ UNCHANGED callVars
                          ELSE Return(t, <<dp[t]>>)

(* Mutant: iput(dp) without iunlock(dp).                                   *)
BadLocked(t) ==
    /\ pc[t] = "bad"
    /\ PutParent(t)
    /\ UNCHANGED <<disk, ents, ref, copy, lk, ip, old, cwd, fd>>

(* iunlockput(dp) after the iput() of the inode that was found in dp, or   *)
(* created in it: in sys_link() if dirlink() fails, at the end of the      *)
(* label "fail" of create() and of "bad" of sys_unlink().                  *)
Bad(t) ==
    /\ pc[t] = "bad"
    /\ lk' = Set(lk, dp[t], NoThread)
    /\ PutParent(t)
    /\ UNCHANGED <<disk, ents, ref, copy, ip, old, cwd, fd>>

-----------------------------------------------------------------------------
(* sys_unlink(), after nameiparent(), up to the ilock() of the inode.      *)
Unlink(t) ==
    LET d == dp[t]
        n == Head(path[t])
        e == dirlookup(d, n)
    IN
    /\ pc[t] = "parent" /\ op[t] = "unlink" /\ Ilock(d)
    /\ \/ /\ n = DotDot \/ e = NoInode
          /\ copy' = Set(copy, d, Loaded(d))
          /\ dp' = Set(dp, t, NoInode)
          /\ Return(t, <<d>>)
          /\ UNCHANGED <<ref, lk, ip>>
       \/ /\ n # DotDot /\ e # NoInode
          /\ ip' = Set(ip, t, e) /\ ref' = Got(e)
          /\ copy' = Set(copy, d, Loaded(d))
          /\ lk' = Set(lk, d, t)
          /\ Go(t, "unlink")
          /\ UNCHANGED <<dp, puts, then, callVars>>
    /\ UNCHANGED <<disk, ents, old, cwd, fd>>

isdirempty(i) == \A n \in Name : ents[i][n] = NoInode

(* sys_unlink(), from ilock(ip) to iunlockput(dp); ip stays locked.        *)
Unlink1(t) ==
    LET i == ip[t]
        d == dp[t]
        k == IF Loaded(i).type = "dir" THEN -1 ELSE 0
    IN
    /\ pc[t] = "unlink" /\ Ilock(i) /\ Loaded(i).nlink >= 1
    /\ IF Loaded(i).type = "dir" /\ ~isdirempty(i)
       THEN /\ copy' = Set(copy, i, Loaded(i))
            /\ ip' = Set(ip, t, NoInode)
            /\ PutThen(t, <<i>>, "bad")
            /\ UNCHANGED <<disk, ents, lk, dp>>
       ELSE /\ ents' = dirlink(d, Head(path[t]), NoInode)
            /\ copy' = [copy EXCEPT ![i] = Loaded(i), ![d] = Links(@, k)]
            /\ disk' = [disk EXCEPT ![d] = Links(@, k)]
            /\ lk' = [lk EXCEPT ![d] = NoThread, ![i] = t]
            /\ dp' = Set(dp, t, NoInode)
            /\ PutThen(t, <<d>>, "unlink2")
            /\ UNCHANGED ip
    /\ UNCHANGED <<ref, callVars, old, cwd, fd>>

(* The end of sys_unlink().                                                *)
Unlink2(t) ==
    LET i == ip[t] IN
    /\ pc[t] = "unlink2"
    /\ Iupdate(i, Links(copy[i], -1))
    /\ lk' = Set(lk, i, NoThread)
    /\ ip' = Set(ip, t, NoInode)
    /\ Return(t, <<i>>)
    /\ UNCHANGED <<ents, ref, dp, old, cwd, fd>>

(* Mutant: iput() frees an inode that others still reference.              *)
FreesShared(i) == ref[i] >= 1 /\ copy[i] # NoCopy /\ copy[i].nlink = 0

-----------------------------------------------------------------------------
(* iput(): the test under itable.lock, which takes the sleep lock of an    *)
(* inode to be freed ...                                                   *)
Frees(i) == ref[i] = 1 /\ copy[i] # NoCopy /\ copy[i].nlink = 0

Iput(t) ==
    LET i == Head(puts[t]) IN
    /\ pc[t] = "put"
    /\ \/ /\ Frees(i) /\ lk[i] = NoThread
          /\ lk' = Set(lk, i, t)
          /\ Go(t, "free")
          /\ UNCHANGED <<ref, copy, puts>>
       \/ /\ ~Frees(i)
          /\ Drop(i)
          /\ puts' = Set(puts, t, Tail(puts[t]))
          /\ Go(t, IF Len(puts[t]) = 1 THEN then[t] ELSE "put")
          /\ UNCHANGED lk
    /\ UNCHANGED <<disk, ents, callVars, ip, dp, old, then, cwd, fd>>

(* ... itrunc() and iupdate() without itable.lock ...                      *)
IputFree(t) ==
    LET i == Head(puts[t]) IN
    /\ pc[t] = "free"
    /\ disk' = Set(disk, i, [type |-> "free", nlink |-> 0])
    /\ ents' = Set(ents, i, NoEnts)
    /\ copy' = Set(copy, i, NoCopy)
    /\ lk' = Set(lk, i, NoThread)
    /\ Go(t, "drop")
    /\ UNCHANGED <<ref, callVars, ip, dp, old, puts, then, cwd, fd>>

(* ... and the reference, under itable.lock again.                         *)
IputDrop(t) ==
    LET i == Head(puts[t]) IN
    /\ pc[t] = "drop"
    /\ Drop(i)
    /\ puts' = Set(puts, t, Tail(puts[t]))
    /\ Go(t, IF Len(puts[t]) = 1 THEN then[t] ELSE "put")
    /\ UNCHANGED <<disk, ents, lk, callVars, ip, dp, old, then, cwd, fd>>

(* sys_close() of the only descriptor of the file.                         *)
Close(t) ==
    /\ pc[t] = "idle" /\ fd[t] # NoInode
    /\ fd' = Set(fd, t, NoInode)
    /\ Return(t, <<fd[t]>>)
    /\ UNCHANGED <<disk, ents, ref, copy, lk, path, new, ip, dp, old, cwd>>

Step(t) ==
    \/ Walk(t) \/ Open(t) \/ Chdir(t) \/ Link(t) \/ Link2(t) \/ UndoLink(t)
    \/ Ialloc(t) \/ Exists(t) \/ Create(t) \/ Created(t) \/ Bad(t)
    \/ Unlink(t) \/ Unlink1(t) \/ Unlink2(t)
    \/ Iput(t) \/ IputFree(t) \/ IputDrop(t)

Next ==
    \E t \in Thread :
        \/ \E o \in {"open", "chdir", "create", "mkdir", "unlink"}, p \in Paths :
              Call(t, o, p, << >>)
        \/ \E p, q \in Paths : Call(t, "link", p, q)
        \/ Close(t)
        \/ Step(t)

Spec == Init /\ [][Next]_vars

-----------------------------------------------------------------------------
(* The inode that a thread at a label of Locking is about to ilock().      *)
Target(t) ==
    CASE pc[t] = "parent" -> dp[t]
      [] pc[t] = "undo" -> old[t]
      [] OTHER -> ip[t]

(* No call panics: ilock() never reads a free inode ("ilock: no type") and *)
(* sys_unlink() never finds an entry for an inode without links ("unlink:  *)
(* nlink < 1").                                                            *)
NoPanic ==
    \A t \in Thread : pc[t] \in Locking /\ lk[Target(t)] = NoThread =>
        /\ ~NoType(Target(t))
        /\ pc[t] = "unlink" => Loaded(ip[t]).nlink >= 1

(* The comment in iput(): "ip->ref == 1 means no other process can have ip *)
(* locked, so this acquiresleep() won't block (or deadlock)".              *)
PutNeverBlocks ==
    \A t \in Thread : pc[t] = "put" /\ Frees(Head(puts[t])) =>
        lk[Head(puts[t])] = NoThread

(* Threads never wait for each other's inode locks in a cycle: create()    *)
(* and sys_unlink() hold the parent while they lock the child, everything  *)
(* else locks one inode at a time.                                         *)
NoWaitCycle ==
    \A S \in (SUBSET Thread) \ {{}} : \E t \in S :
        pc[t] \in Locking => lk[Target(t)] \notin S

(* Where the iput()s of an inode are still to be done.                     *)
Putters(i) == {x \in Thread \X (1 .. 2) : x[2] <= Len(puts[x[1]]) /\ puts[x[1]][x[2]] = i}

(* ip->ref counts the pointers to the inode that threads hold, in a call,  *)
(* as current directory or as open file: none is dropped or put twice on   *)
(* any path through the error handling.                                    *)
RefCounts ==
    \A i \in Inum :
        ref[i] = Cardinality({t \in Thread : ip[t] = i}) + Cardinality({t \in Thread : dp[t] = i})
               + Cardinality({t \in Thread : old[t] = i}) + Cardinality({t \in Thread : cwd[t] = i})
               + Cardinality({t \in Thread : fd[t] = i}) + Cardinality(Putters(i))

EntriesFor(i) == {x \in Inum \X Name : ents[x[1]][x[2]] = i}

(* A directory entry never outlives what it names: an inode has on disk at *)
(* least as many links as there are entries for it.                        *)
LinksCovered ==
    \A i \in Inum : EntriesFor(i) # {} =>
        /\ disk[i].type # "free"
        /\ Cardinality(EntriesFor(i)) <= disk[i].nlink
=============================================================================
