-------------------------- MODULE FileSystemProofs --------------------------
(***************************************************************************)
(* References to inodes are counted, iput() of the last reference never    *)
(* waits, and the inode locks never deadlock, for any number of processes, *)
(* inodes and names.                                                       *)
(***************************************************************************)
EXTENDS FileSystem, TLAPS

Elem == Name \cup {DotDot}

Pointer == Inum \cup {NoInode}

Puts == {"put", "free", "drop"}

Label == InCall \cup {"idle"}

(* Where a thread is in its call, whatever it is putting before it goes on.*)
Place(t) == IF pc[t] \in Puts THEN then[t] ELSE pc[t]

After == {"idle", "walk", "found", "undo", "exists", "created", "bad", "unlink2"}

IpPlace == {"walk", "found", "exists", "create", "created", "unlink", "unlink2"}

DpPlace == {"parent", "create", "bad", "unlink"}

ThreadTypes ==
    /\ pc \in [Thread -> Label] /\ op \in [Thread -> Ops]
    /\ path \in [Thread -> Seq(Elem)] /\ new \in [Thread -> Paths \cup {<< >>}]
    /\ ip \in [Thread -> Pointer] /\ dp \in [Thread -> Pointer] /\ old \in [Thread -> Pointer]
    /\ puts \in [Thread -> Seq(Inum)] /\ then \in [Thread -> Label]
    /\ cwd \in [Thread -> Inum] /\ fd \in [Thread -> Pointer]

RefTypes == ref \in [Inum -> Int] /\ ents \in [Inum -> [Elem -> Pointer]]

(* Which pointers a thread has at each place.                              *)
Pointers(t) ==
    /\ ip[t] # NoInode <=> Place(t) \in IpPlace
    /\ dp[t] # NoInode <=> Place(t) \in DpPlace
    /\ old[t] # NoInode <=> op[t] = "link2"
    /\ pc[t] \in Puts <=> puts[t] # << >>
    /\ Len(puts[t]) <= 2 /\ then[t] \in After

(* Which call it may be in there, and what it keeps of the arguments.      *)
Calls(t) ==
    /\ Place(t) = "idle" <=> op[t] = "none"
    /\ Place(t) = "found" => op[t] \in {"open", "chdir", "link"}
    /\ Place(t) = "undo" => op[t] = "link2"
    /\ Place(t) = "parent" => op[t] \in {"create", "mkdir", "unlink", "link2"}
    /\ Place(t) \in {"exists", "create", "created"} => op[t] \in {"create", "mkdir"}
    /\ Place(t) \in {"unlink", "unlink2"} => op[t] = "unlink"
    /\ Place(t) = "bad" => op[t] \in {"create", "mkdir", "unlink", "link2"}
    /\ Place(t) \in {"walk", "parent", "create", "unlink"} => path[t] # << >>
    /\ op[t] = "link" => new[t] \in Paths
    /\ op[t] \in {"open", "create"} => fd[t] = NoInode

ControlInv == \A t \in Thread : Pointers(t) /\ Calls(t)

Base == ThreadTypes /\ RefTypes /\ ControlInv /\ RefCounts

(* The variables of the other threads, which no step of thread t touches.  *)
Others(t) ==
    \A u \in Thread \ {t} :
        /\ pc'[u] = pc[u] /\ op'[u] = op[u] /\ path'[u] = path[u] /\ new'[u] = new[u]
        /\ ip'[u] = ip[u] /\ dp'[u] = dp[u] /\ old'[u] = old[u]
        /\ puts'[u] = puts[u] /\ then'[u] = then[u] /\ cwd'[u] = cwd[u] /\ fd'[u] = fd[u]

(* Counting the threads that have a pointer to an inode.                   *)
One(b) == IF b THEN 1 ELSE 0

InPuts(s, i) == One(Len(s) >= 1 /\ s[1] = i) + One(Len(s) >= 2 /\ s[2] = i)

Own(t, i) ==
    One(ip[t] = i) + One(dp[t] = i) + One(old[t] = i) + One(cwd[t] = i) + One(fd[t] = i)
    + InPuts(puts[t], i)

Count(f, i) == Cardinality({t \in Thread : f[t] = i})

Counted(f, g, t, i) ==
    Count(f, i) \in Nat /\ Count(g, i) = Count(f, i) - One(f[t] = i) + One(g[t] = i)

(* A step changes the variables of one thread.                             *)
Moves(f, g, S, t) == f \in [Thread -> S] /\ (g = f \/ \E v \in S : g = Set(f, t, v))

CallMoves(t) ==
    Moves(op, op', Ops, t) /\ Moves(path, path', Seq(Elem), t) /\ Moves(new, new', Paths \cup {<< >>}, t)

PutMoves(t) ==
    Moves(pc, pc', Label, t) /\ Moves(puts, puts', Seq(Inum), t) /\ Moves(then, then', Label, t)

PtrMoves(t) ==
    Moves(ip, ip', Pointer, t) /\ Moves(dp, dp', Pointer, t) /\ Moves(old, old', Pointer, t)

KeptMoves(t) == Moves(cwd, cwd', Inum, t) /\ Moves(fd, fd', Pointer, t)

Local(t) == CallMoves(t) /\ PutMoves(t) /\ PtrMoves(t) /\ KeptMoves(t)

Kept(f, g, S, t) == g \in [Thread -> S] /\ \A u \in Thread \ {t} : g[u] = f[u]

(* Where a step leaves thread t.                                           *)
At(t, l, o, p, i, d, e, s, k) ==
    /\ pc'[t] = l /\ op'[t] = o /\ path'[t] = p /\ ip'[t] = i /\ dp'[t] = d /\ old'[t] = e
    /\ puts'[t] = s /\ then'[t] = k

(* Pointers(t) and Calls(t) of a thread that is there.                     *)
Fit(w, o, i, d, e) ==
    /\ i # NoInode <=> w \in IpPlace
    /\ d # NoInode <=> w \in DpPlace
    /\ e # NoInode <=> o = "link2"

Suits(w, o, p, n, f) ==
    /\ w = "idle" <=> o = "none"
    /\ w = "found" => o \in {"open", "chdir", "link"}
    /\ w = "undo" => o = "link2"
    /\ w = "parent" => o \in {"create", "mkdir", "unlink", "link2"}
    /\ w \in {"exists", "create", "created"} => o \in {"create", "mkdir"}
    /\ w \in {"unlink", "unlink2"} => o = "unlink"
    /\ w = "bad" => o \in {"create", "mkdir", "unlink", "link2"}
    /\ w \in {"walk", "parent", "create", "unlink"} => p # << >>
    /\ o = "link" => n \in Paths
    /\ o \in {"open", "create"} => f = NoInode

AtEnd(t, s) ==
    /\ pc'[t] = IF s = << >> THEN "idle" ELSE "put"
    /\ op'[t] = "none" /\ path'[t] = << >> /\ ip'[t] = NoInode /\ dp'[t] = NoInode /\ old'[t] = NoInode
    /\ puts'[t] = s /\ then'[t] = "idle"

(* What a step must do for ControlInv and RefCounts.                       *)
Accounts(t) == \A j \in Inum : ref'[j] = ref[j] + Own(t, j)' - Own(t, j)

EndsOwning(t, s, j) == Own(t, j)' = One(cwd'[t] = j) + One(fd'[t] = j) + InPuts(s, j)

OwnThen(t, j, i, d, e, s) ==
    Own(t, j)' = One(i = j) + One(d = j) + One(e = j) + One(cwd[t] = j) + One(fd[t] = j) + InPuts(s, j)

(* Thread t has no inode to give up; a step takes a reference to i.        *)
Empty(t, j) == ip[t] = NoInode /\ dp[t] = NoInode /\ old[t] = NoInode /\ InPuts(puts[t], j) = 0
Takes(i, j) == ref[j] \in Int /\ ref'[j] = ref[j] + One(i = j)

Good(t) == Local(t) /\ (Pointers(t) /\ Calls(t))' /\ Accounts(t) /\ RefTypes'

(* Every step is a call, a close or a step of a call.                      *)
CallStep(t) ==
    \E o \in Ops \ {"none", "link2"}, p \in Paths, q \in Paths \cup {<< >>} :
        Call(t, o, p, q) /\ (o = "link" => q \in Paths)

LEMMA TailFact ==
    ASSUME NEW S, NEW s \in Seq(S), s # << >>
    PROVE  /\ Head(s) \in S /\ Tail(s) \in Seq(S) /\ Len(Tail(s)) = Len(s) - 1
           /\ Len(s) = 1 <=> Tail(s) = << >>
<1>1. Head(s) \in S /\ Tail(s) \in Seq(S) /\ Len(Tail(s)) = Len(s) - 1 /\ Len(s) \in Nat
  OBVIOUS
<1>2. \A r \in Seq(S) : Len(r) = 0 <=> r = << >>
  OBVIOUS
<1>3. Len(Tail(s)) = 0 <=> Tail(s) = << >>
  BY Zenon, <1>1, <1>2
<1> QED
  BY <1>1, <1>3

LEMMA Constants ==
    /\ NoInode \in Pointer /\ NoInode \notin Inum /\ ROOTINO \in Inum
    /\ \A i \in Inum : i \in Pointer /\ <<i>> \in Seq(Inum) /\ \A j \in Inum : <<i, j>> \in Seq(Inum)
    /\ << >> \in Seq(Inum) /\ << >> \in Seq(Elem) /\ << >> \in Paths \cup {<< >>}
    /\ "none" \in Ops /\ "link2" \in Ops /\ "idle" \in Label
    /\ \A l \in After \cup DpPlace \cup IpPlace \cup Puts : l \in Label
  BY InodeAssumption
  DEF NoInode, Inum, ROOTINO, Pointer, Ops, Label, InCall, Locking, After, DpPlace, IpPlace, Puts

(* What a thread has by where it is.                                       *)
LEMMA Has ==
    ASSUME NEW t \in Thread, ThreadTypes, Pointers(t), Calls(t)
    PROVE  /\ pc[t] \in IpPlace => ip[t] \in Inum
           /\ pc[t] \in DpPlace => dp[t] \in Inum
           /\ pc[t] = "undo" => op[t] = "link2"
           /\ op[t] = "link2" => old[t] \in Inum
           /\ pc[t] \in {"walk", "parent", "create", "unlink"} =>
                path[t] # << >> /\ Head(path[t]) \in Elem /\ Tail(path[t]) \in Seq(Elem)
           /\ pc[t] \in Puts =>
                puts[t] # << >> /\ Head(puts[t]) \in Inum /\ Tail(puts[t]) \in Seq(Inum)
<1> USE Zenon
<1>1. ip[t] \in Pointer /\ dp[t] \in Pointer /\ old[t] \in Pointer
      /\ path[t] \in Seq(Elem) /\ puts[t] \in Seq(Inum)
  BY DEF ThreadTypes
<1>2. /\ pc[t] \in IpPlace => Place(t) \in IpPlace
      /\ pc[t] \in DpPlace => Place(t) \in DpPlace
      /\ pc[t] = "undo" => Place(t) = "undo"
      /\ pc[t] \in {"walk", "parent", "create", "unlink"} =>
           Place(t) \in {"walk", "parent", "create", "unlink"}
  BY SMT DEF Place, IpPlace, DpPlace, Puts
<1>3. \A j \in Pointer : j # NoInode => j \in Inum
  BY DEF Pointer
<1>5. path[t] # << >> => Head(path[t]) \in Elem /\ Tail(path[t]) \in Seq(Elem)
  BY <1>1, TailFact
<1>6. puts[t] # << >> => Head(puts[t]) \in Inum /\ Tail(puts[t]) \in Seq(Inum)
  BY <1>1, TailFact
<1> QED
  BY <1>1, <1>2, <1>3, <1>5, <1>6 DEF Pointers, Calls

LEMMA HasNot ==
    ASSUME NEW t \in Thread, Pointers(t)
    PROVE  /\ pc[t] \notin IpPlace \cup Puts => ip[t] = NoInode
           /\ pc[t] \notin DpPlace \cup Puts => dp[t] = NoInode
           /\ op[t] # "link2" => old[t] = NoInode
           /\ pc[t] \notin Puts => puts[t] = << >>
  BY Zenon DEF Pointers, Place

LEMMA Apart == NoInode \notin Inum
  BY Zenon, Constants

(* What a walk, the end of sys_link(), ialloc() and the start of           *)
(* sys_unlink() come to.                                                   *)
WalkEnd(t) ==
    LET i == ip[t]
        e == ents[i][Head(path[t])]
    IN
    /\ \/ /\ At(t, "put", "link2", path[t], NoInode, NoInode, old[t], <<i>>, "undo")
          /\ op[t] = "link2" /\ ref' = ref
       \/ AtEnd(t, <<i>>) /\ op[t] # "link2" /\ ref' = ref
       \/ /\ At(t, "parent", op[t], path[t], NoInode, i, old[t], << >>, then[t])
          /\ NameiParent(t) /\ Loaded(i).type = "dir" /\ ref' = ref
       \/ /\ At(t, "put", op[t], Tail(path[t]), e, NoInode, old[t], <<i>>,
                IF Len(path[t]) = 1 THEN "found" ELSE "walk")
          /\ ~(NameiParent(t) /\ Len(path[t]) = 1) /\ e # NoInode
          /\ Loaded(i).type = "dir" /\ ref' = Got(e) /\ new'[t] = new[t]
    /\ new'[t] = new[t] \/ new'[t] = << >>
    /\ copy' = Set(copy, i, Loaded(i)) /\ UNCHANGED <<disk, ents, lk, cwd, fd>>

Link2End(t) ==
    LET d == dp[t]
        n == Head(path[t])
        e == ents[d][n]
    IN
    /\ \/ /\ At(t, "put", "link2", path[t], NoInode, d, old[t], <<e>>, "bad")
          /\ e # NoInode /\ new'[t] = new[t] /\ ref' = Got(e) /\ lk' = Set(lk, d, t) /\ UNCHANGED ents
       \/ /\ At(t, "put", "link2", path[t], NoInode, NoInode, old[t], <<d>>, "undo")
          /\ new'[t] = new[t] /\ UNCHANGED <<ref, lk, ents>>
       \/ /\ AtEnd(t, <<d, old[t]>>) /\ new'[t] = << >> /\ UNCHANGED <<ref, lk>>
          /\ e = NoInode /\ ents' = dirlink(d, n, old[t])
    /\ copy' = Set(copy, d, Loaded(d)) /\ UNCHANGED <<disk, cwd, fd>>

IallocEnd(t) ==
    LET d == dp[t]
        e == ents[d][Head(path[t])]
    IN
    /\ \/ /\ At(t, "put", op[t], path[t], e, NoInode, NoInode, <<d>>, "exists")
          /\ e # NoInode /\ new'[t] = new[t] /\ ref' = Got(e) /\ UNCHANGED <<disk, lk>>
       \/ AtEnd(t, <<d>>) /\ new'[t] = << >> /\ UNCHANGED <<disk, ref, lk>>
       \/ \E i \in FreeInodes :
            /\ At(t, "create", op[t], path[t], i, d, NoInode, << >>, then[t])
            /\ e = NoInode /\ new'[t] = new[t] /\ ref' = Got(i)
            /\ disk' = Set(disk, i, NewDinode(t, i)) /\ lk' = Set(lk, d, t)
    /\ copy' = Set(copy, d, Loaded(d)) /\ UNCHANGED <<ents, cwd, fd>>

UnlinkEnd(t) ==
    LET d == dp[t]
        n == Head(path[t])
        e == ents[d][n]
    IN
    /\ \/ AtEnd(t, <<d>>) /\ new'[t] = << >> /\ UNCHANGED <<ref, lk>>
       \/ /\ At(t, "unlink", op[t], path[t], e, d, NoInode, << >>, then[t])
          /\ n # DotDot /\ e # NoInode /\ new'[t] = new[t] /\ ref' = Got(e) /\ lk' = Set(lk, d, t)
    /\ copy' = Set(copy, d, Loaded(d)) /\ UNCHANGED <<disk, ents, cwd, fd>>
Ends(t) ==
    (Walk(t) => WalkEnd(t)) /\ (Link2(t) => Link2End(t)) /\ (Ialloc(t) => IallocEnd(t)) /\ (Unlink(t) => UnlinkEnd(t))

(* The arithmetic of the steps that take an inode, and of a return with    *)
(* one inode to put.                                                       *)
LEMMA OwnTakes ==
    ASSUME NEW t, NEW j \in Inum, NEW i, NEW d, NEW s, ip[t] = NoInode, old[t] = NoInode, InPuts(puts[t], j) = 0,
           (d = dp[t] /\ InPuts(s, j) = 0) \/ (d = NoInode /\ InPuts(s, j) = One(dp[t] = j)),
           OwnThen(t, j, i, d, NoInode, s), ref[j] \in Int, ref'[j] = ref[j] + One(i = j)
    PROVE  ref'[j] = ref[j] + Own(t, j)' - Own(t, j)
  BY Apart DEF OwnThen, Own, One

LEMMA OwnStarts ==
    ASSUME NEW t, NEW j \in Inum, NEW i, NEW s, Empty(t, j), InPuts(s, j) = 0, OwnThen(t, j, i, NoInode, NoInode, s),
           Takes(i, j)
    PROVE  ref'[j] = ref[j] + Own(t, j)' - Own(t, j)
  BY OwnTakes DEF Empty, Takes

LEMMA OwnEnds ==
    ASSUME NEW t, NEW j \in Inum, NEW s, dp[t] = NoInode, old[t] = NoInode, InPuts(puts[t], j) = 0,
           InPuts(s, j) = One(ip[t] = j), EndsOwning(t, s, j), UNCHANGED <<ref, cwd, fd>>, ref[j] \in Int
    PROVE  ref'[j] = ref[j] + Own(t, j)' - Own(t, j)
  BY Apart DEF EndsOwning, Own, One

LEMMA OwnInt ==
    ASSUME NEW t, NEW j
    PROVE  Own(t, j) \in Int
  BY DEF Own, InPuts, One

LEMMA Link2Ends ==
    ASSUME NEW t \in Thread, ThreadTypes, ip[t] = NoInode, puts[t] = << >>, Link2(t)
    PROVE  Link2End(t)
  BY SMTT(20) DEF Link2End, Link2, PutThen, Return, LinkPuts, dirlookup, callVars, Go, Set, ThreadTypes, At, AtEnd

LEMMA IallocEnds ==
    ASSUME NEW t \in Thread, ThreadTypes, ip[t] = NoInode, old[t] = NoInode, puts[t] = << >>, Ialloc(t)
    PROVE  IallocEnd(t)
  BY SMTT(20) DEF IallocEnd, Ialloc, PutThen, Return, dirlookup, callVars, Go, Set, ThreadTypes, At, AtEnd

LEMMA UnlinkEnds ==
    ASSUME NEW t \in Thread, ThreadTypes, ip[t] = NoInode, old[t] = NoInode, puts[t] = << >>, Unlink(t)
    PROVE  UnlinkEnd(t)
  BY SMTT(20) DEF UnlinkEnd, Unlink, Return, dirlookup, callVars, Go, Set, ThreadTypes, At, AtEnd

-----------------------------------------------------------------------------
(* A step of thread t touches no variable of another thread, leaves t at a  *)
(* place where it has the pointers it should have, and changes ref by what  *)
(* t gets and puts.                                                         *)
LEMMA StepBase ==
    ASSUME ThreadTypes, RefTypes, ControlInv, NEW t \in Thread
    PROVE  CallStep(t) \/ Close(t) \/ Step(t) =>
             ThreadTypes' /\ RefTypes' /\ ControlInv' /\ Others(t) /\ Accounts(t) /\ Ends(t)
<1> Pointers(t) /\ Calls(t)
  BY Zenon DEF ControlInv
<1>InPutsFacts. ASSUME NEW x
      PROVE  /\ InPuts(<< >>, x) = 0
             /\ \A a \in Inum : InPuts(<<a>>, x) = One(a = x)
             /\ \A a, b \in Inum : InPuts(<<a, b>>, x) = One(a = x) + One(b = x)
  BY <1>InPutsFacts DEF InPuts, One
<1>InPutsTail. ASSUME NEW s \in Seq(Inum), s # << >>, Len(s) <= 2, NEW x
      PROVE  InPuts(Tail(s), x) = InPuts(s, x) - One(Head(s) = x)
  <2> USE <1>InPutsTail
  <2>1. /\ Len(s) \in Nat /\ Len(s) >= 1 /\ Head(s) = s[1]
        /\ Len(Tail(s)) = Len(s) - 1 /\ (Len(s) = 2 => Tail(s)[1] = s[2])
    OBVIOUS
  <2> QED
    BY <2>1 DEF InPuts, One
<1>MovesFrame. ASSUME NEW f, NEW g, NEW S, Moves(f, g, S, t)
      PROVE  Kept(f, g, S, t)
  BY Zenon, <1>MovesFrame DEF Moves, Set, Kept
<1>SetAt. ASSUME NEW S, NEW f \in [Thread -> S], NEW v
      PROVE  Set(f, t, v)[t] = v
  BY Zenon, <1>SetAt DEF Set
<1>ReturnMoves. ASSUME NEW s \in Seq(Inum), Return(t, s)
      PROVE  CallMoves(t) /\ PutMoves(t)
  <2> USE Zenon, <1>ReturnMoves
  <2>1. "put" \in Label /\ "idle" \in Label
    BY Constants DEF Puts
  <2>2. (IF s = << >> THEN "idle" ELSE "put") \in Label
    BY <2>1
  <2>3. CallMoves(t)
    BY Constants DEF CallMoves, Moves, Return, ThreadTypes
  <2>4. PutMoves(t)
    BY <2>1, <2>2 DEF PutMoves, Moves, Return, Go, Set, ThreadTypes
  <2> QED
    BY <2>3, <2>4
<1>PutThenMoves. ASSUME NEW s \in Seq(Inum), NEW l \in After, PutThen(t, s, l)
      PROVE  PutMoves(t)
  <2> USE <1>PutThenMoves
  <2>1. "put" \in Label /\ l \in Label
    BY Zenon, Constants DEF Puts
  <2> QED
    BY Zenon, <2>1 DEF PutMoves, Moves, PutThen, Go, Set, ThreadTypes
<1>GoMoves. ASSUME NEW l \in DpPlace \cup IpPlace \cup Puts, Go(t, l), UNCHANGED <<puts, then>>
      PROVE  PutMoves(t)
  <2> USE <1>GoMoves
  <2>1. l \in Label
    BY Zenon, Constants
  <2> QED
    BY Zenon, <2>1 DEF PutMoves, Moves, Go, Set, ThreadTypes
<1>SameCall. ASSUME UNCHANGED callVars
      PROVE  CallMoves(t)
  BY Zenon, <1>SameCall DEF CallMoves, Moves, ThreadTypes, callVars
<1>OpenFileMoves. ASSUME NEW i \in Inum, OpenFile(t, i)
      PROVE  /\ CallMoves(t) /\ PutMoves(t)
             /\ Moves(ip, ip', Pointer, t) /\ Moves(fd, fd', Pointer, t)
  <2> USE Zenon, <1>OpenFileMoves
  <2>1. CallMoves(t) /\ PutMoves(t)
    BY Constants, <1>ReturnMoves DEF OpenFile
  <2>2. Moves(ip, ip', Pointer, t)
    BY Constants DEF OpenFile, Moves, ThreadTypes
  <2>3. Moves(fd, fd', Pointer, t)
    BY Constants DEF OpenFile, Moves, ThreadTypes
  <2> QED
    BY <2>1, <2>2, <2>3
(* iput() goes on at "then", if there is nothing else to put.              *)
<1>PutNextMoves. ASSUME Tail(puts[t]) \in Seq(Inum), puts' = Set(puts, t, Tail(puts[t])),
            UNCHANGED then, Go(t, IF Len(puts[t]) = 1 THEN then[t] ELSE "put")
      PROVE  PutMoves(t)
  <2> USE <1>PutNextMoves
  <2>1. then[t] \in Label /\ "put" \in Label
    BY Zenon, Constants DEF ThreadTypes, Puts
  <2>2. (IF Len(puts[t]) = 1 THEN then[t] ELSE "put") \in Label
    BY Zenon, <2>1
  <2> QED
    BY Zenon, <2>2 DEF PutMoves, Moves, ThreadTypes, Go, Set
<1>GotFact. ASSUME NEW i \in Inum
      PROVE  /\ Got(i) \in [Inum -> Int]
             /\ \A j \in Inum : Got(i)[j] = ref[j] + One(i = j)
  BY <1>GotFact DEF RefTypes, Got, One
<1>DropFact. ASSUME NEW i \in Inum, Drop(i)
      PROVE  /\ ref' \in [Inum -> Int]
             /\ \A j \in Inum : ref'[j] = ref[j] - One(i = j)
  BY <1>DropFact DEF RefTypes, Drop, One
<1>EndControl. ASSUME NEW s \in Seq(Inum), Len(s) <= 2, AtEnd(t, s)
      PROVE  (Pointers(t) /\ Calls(t))'
  <2> USE <1>EndControl
  <2>1. Place(t)' = "idle"
    BY Zenon DEF AtEnd, Place, Puts
  <2>2. Pointers(t)'
    BY SMTT(20), <2>1 DEF AtEnd, Pointers, IpPlace, DpPlace, Puts, After
  <2>3. Calls(t)'
    BY SMTT(20), <2>1 DEF AtEnd, Calls
  <2> QED
    BY Zenon, <2>2, <2>3
<1>EndOwn. ASSUME NEW s, AtEnd(t, s), NEW j \in Inum
      PROVE  EndsOwning(t, s, j)
  <2> USE <1>EndOwn
  <2>1. InPuts(s, j) \in Int
    BY DEF InPuts, One
  <2> QED
    BY <2>1, Apart DEF EndsOwning, AtEnd, Own, One
<1>Lengths. /\ << >> \in Seq(Inum) /\ Len(<< >>) <= 2
            /\ \A a \in Inum : <<a>> \in Seq(Inum) /\ Len(<<a>>) <= 2 /\ <<a>> # << >>
            /\ \A a, b \in Inum : <<a, b>> \in Seq(Inum) /\ Len(<<a, b>>) <= 2 /\ <<a, b>> # << >>
    OBVIOUS
<1>PutsAt. ASSUME NEW o, NEW p, NEW i, NEW d, NEW e, NEW s, NEW k, At(t, "put", o, p, i, d, e, s, k),
            Fit(k, o, i, d, e), s # << >>, Len(s) <= 2, k \in After
      PROVE  Pointers(t)' /\ Place(t)' = k
  <2> USE Zenon, <1>PutsAt
  <2>1. Place(t)' = k /\ pc'[t] \in Puts
    BY DEF At, Place, Puts
  <2>2. (ip[t] # NoInode <=> Place(t) \in IpPlace)' /\ (dp[t] # NoInode <=> Place(t) \in DpPlace)'
    BY <2>1 DEF At, Fit
  <2>3. (old[t] # NoInode <=> op[t] = "link2")' /\ puts'[t] # << >> /\ Len(puts'[t]) <= 2 /\ then'[t] \in After
    BY DEF At, Fit
  <2> QED
    BY <2>1, <2>2, <2>3 DEF Pointers
<1>GoesAt. ASSUME NEW l, NEW o, NEW p, NEW i, NEW d, NEW e, NEW k, At(t, l, o, p, i, d, e, << >>, k),
            Fit(l, o, i, d, e), l \notin Puts, k \in After
      PROVE  Pointers(t)' /\ Place(t)' = l
  <2> USE Zenon, <1>GoesAt
  <2>1. Place(t)' = l /\ pc'[t] \notin Puts
    BY DEF At, Place
  <2>2. (ip[t] # NoInode <=> Place(t) \in IpPlace)' /\ (dp[t] # NoInode <=> Place(t) \in DpPlace)'
    BY <2>1 DEF At, Fit
  <2>3. (old[t] # NoInode <=> op[t] = "link2")' /\ puts'[t] = << >> /\ Len(puts'[t]) <= 2 /\ then'[t] \in After
    BY <1>Lengths DEF At, Fit
  <2> QED
    BY <2>1, <2>2, <2>3 DEF Pointers
<1>CallsAt. ASSUME NEW l, NEW o, NEW p, NEW i, NEW d, NEW e, NEW s, NEW k, NEW w, At(t, l, o, p, i, d, e, s, k),
            Place(t)' = w, Suits(w, o, p, new'[t], fd'[t])
      PROVE  Calls(t)'
  <2>1. op'[t] = o /\ path'[t] = p /\ Place(t)' = w
    BY Zenon, <1>CallsAt DEF At
  <2>2. Suits(Place(t)', op'[t], path'[t], new'[t], fd'[t])
    BY Zenon, <2>1, <1>CallsAt
  <2> QED
    BY Zenon, <2>2 DEF Suits, Calls
<1>OwnAt. ASSUME NEW l, NEW o, NEW p, NEW i, NEW d, NEW e, NEW s, NEW k, At(t, l, o, p, i, d, e, s, k),
            UNCHANGED <<cwd, fd>>, NEW j
      PROVE  OwnThen(t, j, i, d, e, s)
  BY Zenon, <1>OwnAt DEF At, Own, OwnThen
(* iput() keeps what the thread goes on with; only its list of inodes to   *)
(* put gets shorter.                                                       *)
<1>PutControl. ASSUME pc[t] \in Puts, pc'[t] \in Puts \cup {then[t]},
            At(t, pc'[t], op[t], path[t], ip[t], dp[t], old[t], puts'[t], then[t]),
            pc'[t] \in Puts <=> puts'[t] # << >>, Len(puts'[t]) <= 2, UNCHANGED fd, new'[t] = new[t]
      PROVE  (Pointers(t) /\ Calls(t))'
  <2> USE Zenon, <1>PutControl
  <2>1. Place(t)' = Place(t)
    BY DEF At, Place, Pointers
  <2>2. Pointers(t)'
    BY <2>1 DEF At, Pointers
  <2>3. Calls(t)'
    BY <2>1 DEF At, Calls
  <2> QED
    BY <2>2, <2>3
<1>PutNextBase. ASSUME pc[t] \in Puts,
            At(t, IF Len(puts[t]) = 1 THEN then[t] ELSE "put", op[t], path[t], ip[t], dp[t], old[t], Tail(puts[t]), then[t]),
            Drop(Head(puts[t])), UNCHANGED <<cwd, fd>>, new'[t] = new[t]
      PROVE  (Pointers(t) /\ Calls(t))' /\ Accounts(t)
  <2> USE Zenon, <1>PutNextBase
  <2>1. puts[t] \in Seq(Inum) /\ puts[t] # << >> /\ Len(puts[t]) <= 2 /\ then[t] \notin Puts
    BY DEF ThreadTypes, Pointers, After, Puts
  <2>2. /\ Head(puts[t]) \in Inum /\ Len(Tail(puts[t])) = Len(puts[t]) - 1
        /\ Len(puts[t]) = 1 <=> Tail(puts[t]) = << >>
    BY <2>1, TailFact
  <2>3. puts'[t] = Tail(puts[t]) /\ pc'[t] = IF Len(puts[t]) = 1 THEN then[t] ELSE "put"
    BY DEF At
  <2>4. Len(puts'[t]) <= 2
    BY SMT, <2>1, <2>2, <2>3
  <2>5. pc'[t] \in Puts \cup {then[t]} /\ (pc'[t] \in Puts <=> puts'[t] # << >>)
    BY <2>1, <2>2, <2>3 DEF Puts
  <2>6. At(t, pc'[t], op[t], path[t], ip[t], dp[t], old[t], puts'[t], then[t])
    BY DEF At
  <2>7. (Pointers(t) /\ Calls(t))'
    BY <2>4, <2>5, <2>6, <1>PutControl
  <2>9. \A j \in Inum : ref'[j] = ref[j] - One(Head(puts[t]) = j)
    BY <2>2, <1>DropFact
  <2>8. ASSUME NEW j \in Inum PROVE ref'[j] = ref[j] + Own(t, j)' - Own(t, j)
    <3>6. InPuts(Tail(puts[t]), j) = InPuts(puts[t], j) - One(Head(puts[t]) = j)
      BY <2>1, <1>InPutsTail
    <3>1. InPuts(puts'[t], j) = InPuts(puts[t], j) - One(Head(puts[t]) = j)
      BY <3>6, <2>3
    <3>2. ref'[j] = ref[j] - One(Head(puts[t]) = j) /\ ref[j] \in Int
      BY <2>9 DEF RefTypes
    <3>3. ip'[t] = ip[t] /\ dp'[t] = dp[t] /\ old'[t] = old[t]
      BY DEF At
    <3>4. InPuts(puts[t], j) \in Int /\ One(Head(puts[t]) = j) \in Int
      BY SMT DEF InPuts, One
    <3>5. PICK m \in Int : /\ Own(t, j) = m + InPuts(puts[t], j)
                           /\ Own(t, j)' = m + InPuts(puts'[t], j)
      <4>1. One(ip[t] = j) \in Int /\ One(dp[t] = j) \in Int /\ One(old[t] = j) \in Int
            /\ One(cwd[t] = j) \in Int /\ One(fd[t] = j) \in Int
        BY SMT DEF One
      <4> QED
        BY SMT, <3>3, <4>1 DEF Own
    <3> QED
      BY SMT, <3>1, <3>2, <3>4, <3>5
  <2> QED
    BY <2>7, <2>8 DEF Accounts
<1>SameEnts. ASSUME UNCHANGED ents,
            UNCHANGED ref \/ (\E i \in Inum : ref' = Got(i)) \/ (\E i \in Inum : Drop(i))
      PROVE  RefTypes'
  <2> USE <1>SameEnts
  <2>1. ASSUME NEW i \in Inum, ref' = Got(i) PROVE ref' \in [Inum -> Int]
    BY Zenon, <2>1, <1>GotFact
  <2>2. ASSUME NEW i \in Inum, Drop(i) PROVE ref' \in [Inum -> Int]
    BY Zenon, <2>2, <1>DropFact
  <2> QED
    BY Zenon, <2>1, <2>2 DEF RefTypes
<1>EntsTypes. /\ \A i \in Inum : \A n \in Elem : \A j \in Pointer : dirlink(i, n, j) \in [Inum -> [Elem -> Pointer]]
              /\ \A i, d \in Inum : \A n \in Elem : \A j, k \in Pointer :
                   [ents EXCEPT ![i][DotDot] = k, ![d][n] = j] \in [Inum -> [Elem -> Pointer]]
              /\ \A i \in Inum : Set(ents, i, NoEnts) \in [Inum -> [Elem -> Pointer]]
  <2>1. DotDot \in Elem /\ NoEnts \in [Elem -> Pointer] /\ ents \in [Inum -> [Elem -> Pointer]]
    BY Zenon, Constants DEF Elem, NoEnts, RefTypes
  <2>2. ASSUME NEW E \in [Inum -> [Elem -> Pointer]], NEW i \in Inum, NEW n \in Elem, NEW j \in Pointer
        PROVE  [E EXCEPT ![i][n] = j] \in [Inum -> [Elem -> Pointer]]
    OBVIOUS
  <2>3. ASSUME NEW i \in Inum, NEW d \in Inum, NEW n \in Elem, NEW j \in Pointer, NEW k \in Pointer
        PROVE  [ents EXCEPT ![i][DotDot] = k, ![d][n] = j] \in [Inum -> [Elem -> Pointer]]
    BY Zenon, <2>1
  <2>4. ASSUME NEW i \in Inum PROVE Set(ents, i, NoEnts) \in [Inum -> [Elem -> Pointer]]
    BY <2>1 DEF Set
  <2>5. ASSUME NEW i \in Inum, NEW n \in Elem, NEW j \in Pointer PROVE dirlink(i, n, j) \in [Inum -> [Elem -> Pointer]]
    BY <2>1, <2>2 DEF dirlink
  <2> QED
    BY Zenon, <2>3, <2>4, <2>5
(* Every action keeps the control of its thread, and the references right. *)
<1>Close. Close(t) => Good(t)
  <2> HAVE Close(t)
  <2> USE Zenon
  <2> fd[t] \in Inum
    BY DEF Close, ThreadTypes, Pointer
  <2> ip[t] = NoInode /\ dp[t] = NoInode /\ old[t] = NoInode /\ puts[t] = << >>
    BY HasNot DEF Close, Calls, Place, IpPlace, DpPlace, Puts
  <2>l. Local(t)
    <3> CallMoves(t) /\ PutMoves(t)
      BY Constants, <1>ReturnMoves DEF Close
    <3> PtrMoves(t)
      BY Constants DEF Close, PtrMoves, Moves, ThreadTypes
    <3> KeptMoves(t)
      BY Constants DEF Close, KeptMoves, Moves, ThreadTypes
    <3> QED
      BY DEF Local
  <2>s. LET i == fd[t]
        IN
        /\ AtEnd(t, <<i>>) /\ new'[t] = << >> /\ fd' = Set(fd, t, NoInode)
        /\ UNCHANGED <<disk, ents, ref, copy, lk, cwd>>
    BY SMTT(20) DEF Close, Return, Go, Set, ThreadTypes, At, AtEnd
  <2>b. (Pointers(t) /\ Calls(t))' /\ Accounts(t)
    <3> cwd[t] \in Inum /\ fd[t] \in Pointer /\ fd \in [Thread -> Pointer] /\ cwd \in [Thread -> Inum]
      BY DEF ThreadTypes
    <3> DEFINE i == fd[t]
    <3> ip[t] = NoInode /\ dp[t] = NoInode /\ puts[t] = << >> /\ old[t] = NoInode
      BY HasNot DEF Close, IpPlace, DpPlace, Calls, Place, Puts
    <3> UNCHANGED <<ref, cwd>> /\ fd' = Set(fd, t, NoInode)
      BY <2>s
    <3> Set(fd, t, NoInode)[t] = NoInode
      BY SMT DEF Set
    <3>6. CASE AtEnd(t, <<i>>)
      <4>1. AtEnd(t, <<i>>) /\ <<i>> \in Seq(Inum) /\ Len(<<i>>) <= 2
        BY <3>6, <1>Lengths
      <4>2. (Pointers(t) /\ Calls(t))'
        BY <4>1, <1>EndControl
      <4>3. ASSUME NEW j \in Inum PROVE ref'[j] = ref[j] + Own(t, j)' - Own(t, j)
        <5>1. EndsOwning(t, <<i>>, j)
          BY <4>1, <1>EndOwn
        <5>2. InPuts(<<i>>, j) = One(i = j) /\ InPuts(<< >>, j) = 0
          BY <1>InPutsFacts
        <5> QED
          BY SMTT(20), <5>1, <5>2, <3>6, Apart DEF EndsOwning, Own, One, RefTypes
      <4> QED
        BY <4>2, <4>3 DEF Accounts
    <3> QED
      BY <3>6, <2>s
  <2>r. RefTypes'
    BY <2>s, <1>SameEnts
  <2> QED
    BY <2>l, <2>b, <2>r DEF Good
<1>Walk. Walk(t) => Good(t) /\ WalkEnd(t)
  <2> HAVE Walk(t)
  <2> USE Zenon
  <2>n. path[t] # << >> /\ ip[t] \in Inum
    BY Has DEF Walk, IpPlace
  <2> ip[t] \in Inum /\ dp[t] = NoInode /\ puts[t] = << >> /\ (op[t] # "link2" => old[t] = NoInode)
    BY <2>n, HasNot DEF Walk, DpPlace, Puts
  <2>s. WalkEnd(t)
    BY SMTT(20), <2>n DEF WalkEnd, Walk, NotFound, Return, PutThen, dirlookup, callVars, Go, Set, ThreadTypes, At, AtEnd
  <2>h. Tail(path[t]) \in Seq(Elem) /\ Head(path[t]) \in Elem
    BY Has DEF Walk
  <2>p. ents[ip[t]][Head(path[t])] \in Pointer
    BY <2>h DEF RefTypes
  <2>l. Local(t)
    <3>4. PICK l \in After : l = IF Len(path[t]) = 1 THEN "found" ELSE "walk"
      BY DEF After
    <3> "undo" \in After /\ "parent" \in DpPlace \cup IpPlace \cup Puts
      BY DEF After, DpPlace
    <3> PutMoves(t) /\ CallMoves(t)
      <4>1. CASE NotFound(t, ip[t])
        BY <4>1, Constants, <1>ReturnMoves, <1>PutThenMoves, <1>SameCall DEF NotFound
      <4>2. CASE Go(t, "parent") /\ UNCHANGED <<ref, puts, then, callVars>>
        BY <4>2, <1>GoMoves, <1>SameCall
      <4>3. CASE PutThen(t, <<ip[t]>>, l) /\ path' = Set(path, t, Tail(path[t])) /\ UNCHANGED <<op, new, dp>>
        <5>1. PutMoves(t)
          BY <4>3, Constants, <1>PutThenMoves
        <5>2. CallMoves(t)
          BY <4>3, <2>h DEF CallMoves, Moves, ThreadTypes
        <5> QED
          BY <5>1, <5>2
      <4> QED
        BY <3>4, <4>1, <4>2, <4>3 DEF Walk
    <3> PtrMoves(t)
      BY <2>p, Constants DEF PtrMoves, Moves, ThreadTypes, Walk, NotFound, dirlookup
    <3> KeptMoves(t)
      BY DEF KeptMoves, Moves, ThreadTypes, Walk
    <3> QED
      BY DEF Local
  <2>b. (Pointers(t) /\ Calls(t))' /\ Accounts(t)
    <3> DEFINE i == ip[t]
    <3>e. PICK e \in Pointer : e = ents[i][Head(path[t])]
      BY <2>p
    <3> op[t] # "none" /\ op[t] \in Ops /\ (op[t] = "link2" => old[t] # NoInode) /\ then[t] \in After
      BY DEF Walk, Puts, ThreadTypes, Calls, Place, Pointers
    <3> /\ UNCHANGED <<cwd, fd>> /\ (new'[t] = new[t] \/ new'[t] = << >>)
        /\ op[t] = "link" => new[t] \in Paths
      BY <2>s DEF WalkEnd, Calls
    <3>g. e # NoInode => e \in Inum /\ \A j \in Inum : Got(e)[j] = ref[j] + One(e = j)
      BY <1>GotFact DEF Pointer
    <3>t. Len(path[t]) # 1 => Tail(path[t]) # << >>
      BY <2>n, TailFact DEF ThreadTypes
    <3> cwd[t] \in Inum /\ fd[t] \in Pointer /\ fd \in [Thread -> Pointer] /\ cwd \in [Thread -> Inum]
      BY DEF ThreadTypes
    <3>10. CASE /\ At(t, "put", "link2", path[t], NoInode, NoInode, old[t], <<i>>, "undo")
               /\ op[t] = "link2" /\ ref' = ref
      <4>2. (Pointers(t) /\ Calls(t))'
        <5>1. At(t, "put", "link2", path[t], NoInode, NoInode, old[t], <<i>>, "undo")
          BY <3>10
        <5>4. Fit("undo", "link2", NoInode, NoInode, old[t])
          BY <3>10, Apart DEF Fit, IpPlace, DpPlace
        <5>2. Pointers(t)' /\ Place(t)' = "undo"
          BY <5>1, <5>4, <1>PutsAt, <1>Lengths DEF After
        <5>5. Suits("undo", "link2", path[t], new'[t], fd'[t])
          BY <3>10 DEF Suits, Calls, NameiParent, Ops
        <5>3. Calls(t)'
          BY <5>1, <5>2, <5>5, <1>CallsAt
        <5> QED
          BY <5>2, <5>3
      <4>3. ASSUME NEW j \in Inum PROVE ref'[j] = ref[j] + Own(t, j)' - Own(t, j)
        <5>2. InPuts(<<i>>, j) = One(i = j) /\ InPuts(<< >>, j) = 0
          BY <1>InPutsFacts
        <5>3. OwnThen(t, j, NoInode, NoInode, old[t], <<i>>)
          BY <3>10, <1>OwnAt
        <5>4. ref[j] \in Int
          BY DEF RefTypes
        <5>5. ref'[j] = ref[j]
          BY <3>10
        <5> QED
          BY SMTT(20), <5>2, <5>3, <5>4, <5>5, Apart DEF Own, OwnThen, One
      <4> QED
        BY <4>2, <4>3 DEF Accounts
    <3>11. CASE AtEnd(t, <<i>>) /\ op[t] # "link2" /\ ref' = ref
      <4>1. AtEnd(t, <<i>>) /\ <<i>> \in Seq(Inum) /\ Len(<<i>>) <= 2
        BY <3>11, <1>Lengths
      <4>2. (Pointers(t) /\ Calls(t))'
        BY <4>1, <1>EndControl
      <4>3. ASSUME NEW j \in Inum PROVE ref'[j] = ref[j] + Own(t, j)' - Own(t, j)
        <5>1. EndsOwning(t, <<i>>, j)
          BY <4>1, <1>EndOwn
        <5>2. InPuts(<<i>>, j) = One(i = j) /\ InPuts(<< >>, j) = 0
          BY <1>InPutsFacts
        <5> QED
          BY SMTT(20), <5>1, <5>2, <3>11, Apart DEF EndsOwning, Own, One, RefTypes
      <4> QED
        BY <4>2, <4>3 DEF Accounts
    <3>12. CASE /\ At(t, "parent", op[t], path[t], NoInode, i, old[t], << >>, then[t])
               /\ NameiParent(t) /\ ref' = ref
      <4>2. (Pointers(t) /\ Calls(t))'
        <5>1. At(t, "parent", op[t], path[t], NoInode, i, old[t], << >>, then[t])
          BY <3>12
        <5>4. Fit("parent", op[t], NoInode, i, old[t])
          BY <3>12, Apart DEF Fit, IpPlace, DpPlace
        <5>2. Pointers(t)' /\ Place(t)' = "parent"
          BY <5>1, <5>4, <1>GoesAt DEF Puts
        <5>5. Suits("parent", op[t], path[t], new'[t], fd'[t])
          BY <3>12, <2>n DEF Suits, Calls, NameiParent, Ops
        <5>3. Calls(t)'
          BY <5>1, <5>2, <5>5, <1>CallsAt
        <5> QED
          BY <5>2, <5>3
      <4>3. ASSUME NEW j \in Inum PROVE ref'[j] = ref[j] + Own(t, j)' - Own(t, j)
        <5>2. InPuts(<< >>, j) = 0
          BY <1>InPutsFacts
        <5>3. OwnThen(t, j, NoInode, i, old[t], << >>)
          BY <3>12, <1>OwnAt
        <5>4. ref[j] \in Int
          BY DEF RefTypes
        <5>5. ref'[j] = ref[j]
          BY <3>12
        <5> QED
          BY SMTT(20), <5>2, <5>3, <5>4, <5>5, Apart DEF Own, OwnThen, One
      <4> QED
        BY <4>2, <4>3 DEF Accounts
    <3>13. CASE /\ At(t, "put", op[t], Tail(path[t]), e, NoInode, old[t], <<i>>,
                     IF Len(path[t]) = 1 THEN "found" ELSE "walk")
               /\ ~(NameiParent(t) /\ Len(path[t]) = 1) /\ e # NoInode /\ ref' = Got(e) /\ new'[t] = new[t]
      <4>2. (Pointers(t) /\ Calls(t))'
        <5>1. CASE Len(path[t]) = 1
          <6>1. At(t, "put", op[t], Tail(path[t]), e, NoInode, old[t], <<i>>, "found")
                /\ e # NoInode /\ ~NameiParent(t) /\ new'[t] = new[t]
            BY <3>13, <5>1
          <6> QED
            <7>1. At(t, "put", op[t], Tail(path[t]), e, NoInode, old[t], <<i>>, "found")
              BY <6>1
            <7>4. Fit("found", op[t], e, NoInode, old[t])
              BY <6>1, Apart DEF Fit, IpPlace, DpPlace
            <7>2. Pointers(t)' /\ Place(t)' = "found"
              BY <7>1, <7>4, <1>PutsAt, <1>Lengths DEF After
            <7>5. Suits("found", op[t], Tail(path[t]), new'[t], fd'[t])
              BY <6>1 DEF Suits, Calls, NameiParent, Ops
            <7>3. Calls(t)'
              BY <7>1, <7>2, <7>5, <1>CallsAt
            <7> QED
              BY <7>2, <7>3
        <5>2. CASE Len(path[t]) # 1
          <6>1. At(t, "put", op[t], Tail(path[t]), e, NoInode, old[t], <<i>>, "walk")
                /\ e # NoInode /\ new'[t] = new[t] /\ Tail(path[t]) # << >>
            BY <3>13, <5>2, <3>t
          <6> QED
            <7>1. At(t, "put", op[t], Tail(path[t]), e, NoInode, old[t], <<i>>, "walk")
              BY <6>1
            <7>4. Fit("walk", op[t], e, NoInode, old[t])
              BY <6>1, Apart DEF Fit, IpPlace, DpPlace
            <7>2. Pointers(t)' /\ Place(t)' = "walk"
              BY <7>1, <7>4, <1>PutsAt, <1>Lengths DEF After
            <7>5. Suits("walk", op[t], Tail(path[t]), new'[t], fd'[t])
              BY <6>1 DEF Suits, Calls, NameiParent, Ops
            <7>3. Calls(t)'
              BY <7>1, <7>2, <7>5, <1>CallsAt
            <7> QED
              BY <7>2, <7>3
        <5> QED
          BY <5>1, <5>2
      <4>3. ASSUME NEW j \in Inum PROVE ref'[j] = ref[j] + Own(t, j)' - Own(t, j)
        <5>2. InPuts(<<i>>, j) = One(i = j) /\ InPuts(<< >>, j) = 0
          BY <1>InPutsFacts
        <5>3. /\ ip'[t] = e /\ dp'[t] = NoInode /\ old'[t] = old[t] /\ puts'[t] = <<i>>
              /\ e \in Inum /\ ref'[j] = ref[j] + One(e = j)
          BY <3>13, <3>g DEF At
        <5> QED
          BY SMTT(20), <5>2, <5>3, Apart DEF Own, One, RefTypes
      <4> QED
        BY <4>2, <4>3 DEF Accounts
    <3> QED
      BY <3>e, <3>10, <3>11, <3>12, <3>13, <2>s DEF WalkEnd
  <2>r. RefTypes'
    <3>1. UNCHANGED ents /\ (UNCHANGED ref \/ \E i \in Inum : ref' = Got(i))
      BY <2>s, <2>p DEF WalkEnd, Pointer
    <3> QED
      BY <3>1, <1>SameEnts
  <2> QED
    BY <2>s, <2>l, <2>b, <2>r DEF Good
<1>Open. Open(t) => Good(t)
  <2> HAVE Open(t)
  <2> USE Zenon
  <2> ip[t] \in Inum
    BY Has DEF Open, IpPlace
  <2> dp[t] = NoInode /\ puts[t] = << >> /\ old[t] = NoInode
    BY HasNot DEF Open, DpPlace, Puts
  <2>l. Local(t)
    <3> CallMoves(t) /\ PutMoves(t) /\ Moves(ip, ip', Pointer, t) /\ Moves(fd, fd', Pointer, t)
      BY <1>OpenFileMoves DEF Open
    <3> PtrMoves(t) /\ KeptMoves(t)
      BY DEF Open, PtrMoves, KeptMoves, Moves, ThreadTypes
    <3> QED
      BY DEF Local
  <2>s. LET i == ip[t]
        IN
        /\ \/ AtEnd(t, << >>) /\ fd' = Set(fd, t, i)
           \/ AtEnd(t, <<i>>) /\ UNCHANGED fd
        /\ op[t] = "open" /\ new'[t] = << >>
        /\ copy' = Set(copy, i, Loaded(i)) /\ UNCHANGED <<disk, ents, ref, lk, cwd>>
    BY SMTT(20) DEF Open, OpenFile, Return, Go, Set, ThreadTypes, At, AtEnd
  <2>b. (Pointers(t) /\ Calls(t))' /\ Accounts(t)
    <3> cwd[t] \in Inum /\ fd[t] \in Pointer /\ fd \in [Thread -> Pointer] /\ cwd \in [Thread -> Inum]
      BY DEF ThreadTypes
    <3> dp[t] = NoInode /\ puts[t] = << >> /\ old[t] = NoInode /\ op[t] \in {"open", "create", "mkdir"}
      BY HasNot DEF Open, DpPlace, Calls, Place, Puts
    <3> UNCHANGED <<ref, cwd>>
      BY <2>s
    <3> Set(fd, t, ip[t])[t] = ip[t]
      BY SMT DEF Set
    <3> op[t] \in {"open", "create"} => fd[t] = NoInode
      BY DEF Calls
    <3>7. CASE AtEnd(t, << >>) /\ op[t] \in {"open", "create"} /\ fd' = Set(fd, t, ip[t])
      <4>1. AtEnd(t, << >>) /\ << >> \in Seq(Inum) /\ Len(<< >>) <= 2
        BY <3>7, <1>Lengths
      <4>2. (Pointers(t) /\ Calls(t))'
        BY <4>1, <1>EndControl
      <4>3. ASSUME NEW j \in Inum PROVE ref'[j] = ref[j] + Own(t, j)' - Own(t, j)
        <5>1. EndsOwning(t, << >>, j)
          BY <4>1, <1>EndOwn
        <5>2. InPuts(<< >>, j) = 0
          BY <1>InPutsFacts
        <5> QED
          BY SMTT(20), <5>1, <5>2, <3>7, Apart DEF EndsOwning, Own, One, RefTypes
      <4> QED
        BY <4>2, <4>3 DEF Accounts
    <3>8. CASE AtEnd(t, <<ip[t]>>) /\ UNCHANGED fd
      <4>1. AtEnd(t, <<ip[t]>>) /\ <<ip[t]>> \in Seq(Inum) /\ Len(<<ip[t]>>) <= 2
        BY <3>8, <1>Lengths
      <4>2. (Pointers(t) /\ Calls(t))'
        BY <4>1, <1>EndControl
      <4>3. ASSUME NEW j \in Inum PROVE ref'[j] = ref[j] + Own(t, j)' - Own(t, j)
        <5>1. EndsOwning(t, <<ip[t]>>, j)
          BY <4>1, <1>EndOwn
        <5>2. InPuts(<<ip[t]>>, j) = One(ip[t] = j) /\ InPuts(<< >>, j) = 0
          BY <1>InPutsFacts
        <5> QED
          BY SMTT(20), <5>1, <5>2, <3>8, Apart DEF EndsOwning, Own, One, RefTypes
      <4> QED
        BY <4>2, <4>3 DEF Accounts
    <3> QED
      BY <3>7, <3>8, <2>s
  <2>r. RefTypes'
    BY <2>s, <1>SameEnts
  <2> QED
    BY <2>l, <2>b, <2>r DEF Good
<1>Chdir. Chdir(t) => Good(t)
  <2> HAVE Chdir(t)
  <2> USE Zenon
  <2> ip[t] \in Inum
    BY Has DEF Chdir, IpPlace
  <2> dp[t] = NoInode /\ puts[t] = << >> /\ old[t] = NoInode
    BY HasNot DEF Chdir, DpPlace, Puts
  <2>l. Local(t)
    <3> cwd[t] \in Inum
      BY DEF ThreadTypes
    <3> CallMoves(t) /\ PutMoves(t)
      BY Constants, <1>ReturnMoves DEF Chdir
    <3> PtrMoves(t)
      BY Constants DEF Chdir, PtrMoves, Moves, ThreadTypes
    <3> KeptMoves(t)
      BY DEF Chdir, KeptMoves, Moves, ThreadTypes
    <3> QED
      BY DEF Local
  <2>s. LET i == ip[t]
        IN
        /\ \/ AtEnd(t, <<cwd[t]>>) /\ Loaded(i).type = "dir" /\ cwd' = Set(cwd, t, i)
           \/ AtEnd(t, <<i>>) /\ UNCHANGED cwd
        /\ new'[t] = << >>
        /\ copy' = Set(copy, i, Loaded(i)) /\ UNCHANGED <<disk, ents, ref, lk, fd>>
    BY SMTT(20) DEF Chdir, Return, Go, Set, ThreadTypes, At, AtEnd
  <2>b. (Pointers(t) /\ Calls(t))' /\ Accounts(t)
    <3> cwd[t] \in Inum /\ fd[t] \in Pointer /\ fd \in [Thread -> Pointer] /\ cwd \in [Thread -> Inum]
      BY DEF ThreadTypes
    <3> ip[t] \in Inum /\ cwd[t] \in Inum
      BY DEF ThreadTypes
    <3> dp[t] = NoInode /\ puts[t] = << >> /\ old[t] = NoInode
      BY HasNot DEF Chdir, DpPlace, Calls, Place, Puts
    <3> UNCHANGED <<ref, fd>>
      BY <2>s
    <3> Set(cwd, t, ip[t])[t] = ip[t]
      BY SMT DEF Set
    <3>6. CASE AtEnd(t, <<cwd[t]>>) /\ cwd' = Set(cwd, t, ip[t])
      <4>1. AtEnd(t, <<cwd[t]>>) /\ <<cwd[t]>> \in Seq(Inum) /\ Len(<<cwd[t]>>) <= 2
        BY <3>6, <1>Lengths
      <4>2. (Pointers(t) /\ Calls(t))'
        BY <4>1, <1>EndControl
      <4>3. ASSUME NEW j \in Inum PROVE ref'[j] = ref[j] + Own(t, j)' - Own(t, j)
        <5>1. EndsOwning(t, <<cwd[t]>>, j)
          BY <4>1, <1>EndOwn
        <5>2. InPuts(<<cwd[t]>>, j) = One(cwd[t] = j) /\ InPuts(<< >>, j) = 0
          BY <1>InPutsFacts
        <5> QED
          BY SMTT(20), <5>1, <5>2, <3>6, Apart DEF EndsOwning, Own, One, RefTypes
      <4> QED
        BY <4>2, <4>3 DEF Accounts
    <3>7. CASE AtEnd(t, <<ip[t]>>) /\ UNCHANGED cwd
      <4>1. AtEnd(t, <<ip[t]>>) /\ <<ip[t]>> \in Seq(Inum) /\ Len(<<ip[t]>>) <= 2
        BY <3>7, <1>Lengths
      <4>2. (Pointers(t) /\ Calls(t))'
        BY <4>1, <1>EndControl
      <4>3. ASSUME NEW j \in Inum PROVE ref'[j] = ref[j] + Own(t, j)' - Own(t, j)
        <5>1. EndsOwning(t, <<ip[t]>>, j)
          BY <4>1, <1>EndOwn
        <5>2. InPuts(<<ip[t]>>, j) = One(ip[t] = j) /\ InPuts(<< >>, j) = 0
          BY <1>InPutsFacts
        <5> QED
          BY SMTT(20), <5>1, <5>2, <3>7, Apart DEF EndsOwning, Own, One, RefTypes
      <4> QED
        BY <4>2, <4>3 DEF Accounts
    <3> QED
      BY <3>6, <3>7, <2>s
  <2>r. RefTypes'
    BY <2>s, <1>SameEnts
  <2> QED
    BY <2>l, <2>b, <2>r DEF Good
<1>Link. Link(t) => Good(t)
  <2> HAVE Link(t)
  <2> USE Zenon
  <2> ip[t] \in Inum
    BY Has DEF Link, IpPlace
  <2> "walk" \in DpPlace \cup IpPlace \cup Puts /\ new[t] \in Paths
    BY DEF IpPlace, Link, Calls
  <2> dp[t] = NoInode /\ puts[t] = << >> /\ old[t] = NoInode
    BY HasNot DEF Link, DpPlace, Puts
  <2>l. Local(t)
    <3> Elements(new[t]) \in Seq(Elem)
      BY PathAssumption DEF Elem
    <3> CallMoves(t) /\ PutMoves(t)
      <4>1. CASE Return(t, <<ip[t]>>)
        BY <4>1, Constants, <1>ReturnMoves
      <4>2. CASE op' = Set(op, t, "link2") /\ Start(t, new[t]) /\ UNCHANGED <<new, puts, then>>
        <5>1. PutMoves(t)
          BY <4>2, <1>GoMoves DEF Start
        <5>2. CallMoves(t)
          BY <4>2, Constants DEF Start, CallMoves, Moves, ThreadTypes
        <5> QED
          BY <5>1, <5>2
      <4> QED
        BY <4>1, <4>2 DEF Link
    <3> PtrMoves(t)
      <4>1. (IF Absolute(new[t]) THEN ROOTINO ELSE cwd[t]) \in Pointer
        BY Constants DEF ThreadTypes
      <4> QED
        BY <4>1, Constants DEF Link, Start, PtrMoves, Moves, ThreadTypes
    <3> KeptMoves(t)
      BY DEF Link, KeptMoves, Moves, ThreadTypes
    <3> QED
      BY DEF Local
  <2>s. LET i == ip[t]
            r == IF Absolute(new[t]) THEN ROOTINO ELSE cwd[t]
        IN
        /\ \/ /\ AtEnd(t, <<i>>) /\ new'[t] = << >>
              /\ copy' = Set(copy, i, Loaded(i)) /\ UNCHANGED <<disk, ref>>
           \/ /\ At(t, "walk", "link2", Elements(new[t]), r, NoInode, i, << >>, then[t])
              /\ Loaded(i).type # "dir" /\ new'[t] = new[t] /\ CountLink(i) /\ ref' = Got(r)
        /\ UNCHANGED <<ents, lk, cwd, fd>>
    BY SMTT(20) DEF Link, Start, Return, Go, Set, ThreadTypes, At, AtEnd
  <2>b. (Pointers(t) /\ Calls(t))' /\ Accounts(t)
    <3> DEFINE i == ip[t]
    <3>r. PICK r \in Inum : r = IF Absolute(new[t]) THEN ROOTINO ELSE cwd[t]
      BY Constants DEF ThreadTypes
    <3> dp[t] = NoInode /\ puts[t] = << >> /\ old[t] = NoInode
      BY HasNot DEF Link, DpPlace, Calls, Place, Puts
    <3> UNCHANGED <<cwd, fd>>
      BY <2>s
    <3> Elements(new[t]) # << >> /\ then[t] \in After
      BY PathAssumption DEF Pointers
    <3> \A j \in Inum : Got(r)[j] = ref[j] + One(r = j)
      BY <1>GotFact
    <3> cwd[t] \in Inum /\ fd[t] \in Pointer /\ fd \in [Thread -> Pointer] /\ cwd \in [Thread -> Inum]
      BY DEF ThreadTypes
    <3>8. CASE AtEnd(t, <<i>>) /\ UNCHANGED ref
      <4>1. AtEnd(t, <<i>>) /\ <<i>> \in Seq(Inum) /\ Len(<<i>>) <= 2
        BY <3>8, <1>Lengths
      <4>2. (Pointers(t) /\ Calls(t))'
        BY <4>1, <1>EndControl
      <4>3. ASSUME NEW j \in Inum PROVE ref'[j] = ref[j] + Own(t, j)' - Own(t, j)
        <5>1. EndsOwning(t, <<i>>, j)
          BY <4>1, <1>EndOwn
        <5>2. InPuts(<<i>>, j) = One(i = j) /\ InPuts(<< >>, j) = 0
          BY <1>InPutsFacts
        <5> QED
          BY SMTT(20), <5>1, <5>2, <3>8, Apart DEF EndsOwning, Own, One, RefTypes
      <4> QED
        BY <4>2, <4>3 DEF Accounts
    <3>9. CASE /\ At(t, "walk", "link2", Elements(new[t]), r, NoInode, i, << >>, then[t])
               /\ ref' = Got(r)
      <4>2. (Pointers(t) /\ Calls(t))'
        <5>1. At(t, "walk", "link2", Elements(new[t]), r, NoInode, i, << >>, then[t])
          BY <3>9
        <5>4. Fit("walk", "link2", r, NoInode, i)
          BY <3>9, Apart DEF Fit, IpPlace, DpPlace
        <5>2. Pointers(t)' /\ Place(t)' = "walk"
          BY <5>1, <5>4, <1>GoesAt DEF Puts
        <5>5. Suits("walk", "link2", Elements(new[t]), new'[t], fd'[t])
          BY <3>9 DEF Suits, Calls, NameiParent, Ops
        <5>3. Calls(t)'
          BY <5>1, <5>2, <5>5, <1>CallsAt
        <5> QED
          BY <5>2, <5>3
      <4>3. ASSUME NEW j \in Inum PROVE ref'[j] = ref[j] + Own(t, j)' - Own(t, j)
        <5>2. InPuts(<< >>, j) = 0
          BY <1>InPutsFacts
        <5>3. OwnThen(t, j, r, NoInode, i, << >>)
          BY <3>9, <1>OwnAt
        <5>4. ref[j] \in Int
          BY DEF RefTypes
        <5>5. ref'[j] = ref[j] + One(r = j)
          BY <3>9
        <5> QED
          BY SMTT(20), <5>2, <5>3, <5>4, <5>5, Apart DEF Own, OwnThen, One
      <4> QED
        BY <4>2, <4>3 DEF Accounts
    <3> QED
      BY <3>r, <3>8, <3>9, <2>s
  <2>r. RefTypes'
    <3>1. (IF Absolute(new[t]) THEN ROOTINO ELSE cwd[t]) \in Inum
      BY Constants DEF ThreadTypes
    <3> QED
      BY <2>s, <3>1, <1>SameEnts
  <2> QED
    BY <2>l, <2>b, <2>r DEF Good
<1>Link2. Link2(t) => Good(t) /\ Link2End(t)
  <2> HAVE Link2(t)
  <2> USE Zenon
  <2> dp[t] \in Inum /\ old[t] \in Inum
    BY Has DEF Link2, DpPlace
  <2> ip[t] = NoInode /\ puts[t] = << >>
    BY HasNot DEF Link2, IpPlace, Puts
  <2>h. Head(path[t]) \in Elem
    BY Has DEF Link2
  <2>p. ents[dp[t]][Head(path[t])] \in Pointer
    BY <2>h DEF RefTypes
  <2>l. Local(t)
    <3> LinkPuts(t) \in Seq(Inum) /\ <<dp[t]>> \in Seq(Inum) /\ "undo" \in After /\ "bad" \in After
      BY Constants DEF LinkPuts, After
    <3>p. ents[dp[t]][Head(path[t])] # NoInode => <<ents[dp[t]][Head(path[t])]>> \in Seq(Inum)
      BY <2>p, Constants DEF Pointer
    <3> CallMoves(t) /\ PutMoves(t)
      <4>1. CASE PutThen(t, <<dp[t]>>, "undo") /\ UNCHANGED callVars
        BY <4>1, <1>PutThenMoves, <1>SameCall
      <4>2. CASE Return(t, LinkPuts(t))
        BY <4>2, <1>ReturnMoves
      <4>3. CASE /\ ents[dp[t]][Head(path[t])] # NoInode /\ UNCHANGED callVars
                 /\ PutThen(t, <<ents[dp[t]][Head(path[t])]>>, "bad")
        BY <4>3, <3>p, <1>PutThenMoves, <1>SameCall
      <4> QED
        BY <4>1, <4>2, <4>3 DEF Link2, dirlookup
    <3> PtrMoves(t)
      BY Constants DEF Link2, PtrMoves, Moves, ThreadTypes
    <3> KeptMoves(t)
      BY DEF Link2, KeptMoves, Moves, ThreadTypes
    <3> QED
      BY DEF Local
  <2>s. Link2End(t)
    BY Link2Ends
  <2>b. (Pointers(t) /\ Calls(t))' /\ Accounts(t)
    <3> DEFINE d == dp[t]
    <3> ip[t] = NoInode /\ puts[t] = << >> /\ op[t] = "link2"
      BY HasNot DEF Link2, IpPlace, Calls, Place, Puts
    <3>e. PICK e \in Pointer : e = ents[d][Head(path[t])]
      BY <2>p
    <3> UNCHANGED <<cwd, fd>>
      BY <2>s DEF Link2End
    <3>g. e # NoInode => e \in Inum /\ \A j \in Inum : Got(e)[j] = ref[j] + One(e = j)
      BY <1>GotFact DEF Pointer
    <3> cwd[t] \in Inum /\ fd[t] \in Pointer /\ fd \in [Thread -> Pointer] /\ cwd \in [Thread -> Inum]
      BY DEF ThreadTypes
    <3>4. CASE /\ At(t, "put", "link2", path[t], NoInode, d, old[t], <<e>>, "bad")
               /\ e # NoInode /\ ref' = Got(e)
      <4>1. e \in Inum
        BY <3>4, <3>g
      <4>2. (Pointers(t) /\ Calls(t))'
        <5>1. At(t, "put", "link2", path[t], NoInode, d, old[t], <<e>>, "bad")
          BY <3>4
        <5>4. Fit("bad", "link2", NoInode, d, old[t])
          BY Apart DEF Fit, IpPlace, DpPlace
        <5>2. Pointers(t)' /\ Place(t)' = "bad"
          BY <4>1, <5>1, <5>4, <1>PutsAt, <1>Lengths DEF After
        <5>5. Suits("bad", "link2", path[t], new'[t], fd'[t])
          BY DEF Suits, Calls, NameiParent, Ops
        <5>3. Calls(t)'
          BY <5>1, <5>2, <5>5, <1>CallsAt
        <5> QED
          BY <5>2, <5>3
      <4>3. ASSUME NEW j \in Inum PROVE ref'[j] = ref[j] + Own(t, j)' - Own(t, j)
        <5>2. InPuts(<<e>>, j) = One(e = j) /\ InPuts(<< >>, j) = 0
          BY <4>1, <1>InPutsFacts
        <5>3. OwnThen(t, j, NoInode, d, old[t], <<e>>)
          BY <3>4, <1>OwnAt
        <5>4. ref[j] \in Int
          BY DEF RefTypes
        <5>5. ref'[j] = ref[j] + One(e = j)
          BY <3>4, <3>g
        <5> QED
          BY SMTT(20), <5>2, <5>3, <5>4, <5>5, Apart DEF Own, OwnThen, One
      <4> QED
        BY <4>2, <4>3 DEF Accounts
    <3>5. CASE At(t, "put", "link2", path[t], NoInode, NoInode, old[t], <<d>>, "undo") /\ UNCHANGED ref
      <4>2. (Pointers(t) /\ Calls(t))'
        <5>1. At(t, "put", "link2", path[t], NoInode, NoInode, old[t], <<d>>, "undo")
          BY <3>5
        <5>4. Fit("undo", "link2", NoInode, NoInode, old[t])
          BY <3>5, Apart DEF Fit, IpPlace, DpPlace
        <5>2. Pointers(t)' /\ Place(t)' = "undo"
          BY <5>1, <5>4, <1>PutsAt, <1>Lengths DEF After
        <5>5. Suits("undo", "link2", path[t], new'[t], fd'[t])
          BY <3>5 DEF Suits, Calls, NameiParent, Ops
        <5>3. Calls(t)'
          BY <5>1, <5>2, <5>5, <1>CallsAt
        <5> QED
          BY <5>2, <5>3
      <4>3. ASSUME NEW j \in Inum PROVE ref'[j] = ref[j] + Own(t, j)' - Own(t, j)
        <5>2. InPuts(<<d>>, j) = One(d = j) /\ InPuts(<< >>, j) = 0
          BY <1>InPutsFacts
        <5>3. OwnThen(t, j, NoInode, NoInode, old[t], <<d>>)
          BY <3>5, <1>OwnAt
        <5>4. ref[j] \in Int
          BY DEF RefTypes
        <5>5. ref'[j] = ref[j]
          BY <3>5
        <5> QED
          BY SMTT(20), <5>2, <5>3, <5>4, <5>5, Apart DEF Own, OwnThen, One
      <4> QED
        BY <4>2, <4>3 DEF Accounts
    <3>6. CASE AtEnd(t, <<d, old[t]>>) /\ UNCHANGED ref
      <4>1. AtEnd(t, <<d, old[t]>>) /\ <<d, old[t]>> \in Seq(Inum) /\ Len(<<d, old[t]>>) <= 2
        BY <3>6, <1>Lengths
      <4>2. (Pointers(t) /\ Calls(t))'
        BY <4>1, <1>EndControl
      <4>3. ASSUME NEW j \in Inum PROVE ref'[j] = ref[j] + Own(t, j)' - Own(t, j)
        <5>1. EndsOwning(t, <<d, old[t]>>, j)
          BY <4>1, <1>EndOwn
        <5>2. InPuts(<<d, old[t]>>, j) = One(d = j) + One(old[t] = j) /\ InPuts(<< >>, j) = 0
          BY SMT DEF InPuts, One
        <5> QED
          BY SMTT(20), <5>1, <5>2, <3>6, Apart DEF EndsOwning, Own, One, RefTypes
      <4> QED
        BY <4>2, <4>3 DEF Accounts
    <3> QED
      BY <3>e, <3>4, <3>5, <3>6, <2>s DEF Link2End
  <2>r. RefTypes'
    <3>1. Head(path[t]) \in Elem /\ old[t] \in Pointer
      BY Has, Constants DEF Link2
    <3>2. dirlink(dp[t], Head(path[t]), old[t]) \in [Inum -> [Elem -> Pointer]]
      BY <3>1, <1>EntsTypes
    <3>5. ref' = ref \/ \E e \in Inum : ref' = Got(e)
      <4>1. ents[dp[t]][Head(path[t])] # NoInode => ents[dp[t]][Head(path[t])] \in Inum
        BY <2>p DEF Pointer
      <4> QED
        BY <2>s, <4>1 DEF Link2End
    <3>6. ref \in [Inum -> Int] /\ \A e \in Inum : Got(e) \in [Inum -> Int]
      BY <1>GotFact DEF RefTypes
    <3>3. ref' \in [Inum -> Int]
      BY <3>5, <3>6
    <3>4. ents' = ents \/ ents' = dirlink(dp[t], Head(path[t]), old[t])
      BY <2>s DEF Link2End
    <3> QED
      BY <3>2, <3>3, <3>4 DEF RefTypes
  <2> QED
    BY <2>s, <2>l, <2>b, <2>r DEF Good
<1>UndoLink. UndoLink(t) => Good(t)
  <2> HAVE UndoLink(t)
  <2> USE Zenon
  <2> old[t] \in Inum /\ op[t] = "link2"
    BY Has DEF UndoLink
  <2> ip[t] = NoInode /\ dp[t] = NoInode /\ puts[t] = << >>
    BY HasNot DEF UndoLink, IpPlace, DpPlace, Puts
  <2>l. Local(t)
    <3> CallMoves(t) /\ PutMoves(t)
      BY Constants, <1>ReturnMoves DEF UndoLink
    <3> PtrMoves(t)
      BY Constants DEF UndoLink, PtrMoves, Moves, ThreadTypes
    <3> KeptMoves(t)
      BY DEF UndoLink, KeptMoves, Moves, ThreadTypes
    <3> QED
      BY DEF Local
  <2>s. LET i == old[t]
        IN
        /\ AtEnd(t, <<i>>) /\ new'[t] = << >>
        /\ Iupdate(i, Links(Loaded(i), -1)) /\ UNCHANGED <<ents, ref, lk, cwd, fd>>
    BY SMTT(20) DEF UndoLink, Return, Go, Set, ThreadTypes, At, AtEnd
  <2>b. (Pointers(t) /\ Calls(t))' /\ Accounts(t)
    <3> DEFINE i == old[t]
    <3> ip[t] = NoInode /\ dp[t] = NoInode /\ puts[t] = << >>
      BY HasNot DEF UndoLink, IpPlace, DpPlace, Calls, Place, Puts
    <3> UNCHANGED <<ref, cwd, fd>>
      BY <2>s
    <3> cwd[t] \in Inum /\ fd[t] \in Pointer /\ fd \in [Thread -> Pointer] /\ cwd \in [Thread -> Inum]
      BY DEF ThreadTypes
    <3>5. CASE AtEnd(t, <<i>>)
      <4>1. AtEnd(t, <<i>>) /\ <<i>> \in Seq(Inum) /\ Len(<<i>>) <= 2
        BY <3>5, <1>Lengths
      <4>2. (Pointers(t) /\ Calls(t))'
        BY <4>1, <1>EndControl
      <4>3. ASSUME NEW j \in Inum PROVE ref'[j] = ref[j] + Own(t, j)' - Own(t, j)
        <5>1. EndsOwning(t, <<i>>, j)
          BY <4>1, <1>EndOwn
        <5>2. InPuts(<<i>>, j) = One(i = j) /\ InPuts(<< >>, j) = 0
          BY <1>InPutsFacts
        <5> QED
          BY SMTT(20), <5>1, <5>2, <3>5, Apart DEF EndsOwning, Own, One, RefTypes
      <4> QED
        BY <4>2, <4>3 DEF Accounts
    <3> QED
      BY <3>5, <2>s
  <2>r. RefTypes'
    BY <2>s, <1>SameEnts
  <2> QED
    BY <2>l, <2>b, <2>r DEF Good
<1>Ialloc. Ialloc(t) => Good(t) /\ IallocEnd(t)
  <2> HAVE Ialloc(t)
  <2> USE Zenon
  <2> dp[t] \in Inum
    BY Has DEF Ialloc, DpPlace
  <2> ip[t] = NoInode /\ old[t] = NoInode /\ puts[t] = << >>
    BY HasNot DEF Ialloc, IpPlace, Puts
  <2>s. IallocEnd(t)
    BY IallocEnds
  <2>h. Head(path[t]) \in Elem
    BY Has DEF Ialloc
  <2>p. ents[dp[t]][Head(path[t])] \in Pointer
    BY <2>h DEF RefTypes
  <2>l. Local(t)
    <3> <<dp[t]>> \in Seq(Inum) /\ "exists" \in After /\ "create" \in DpPlace \cup IpPlace \cup Puts
      BY Constants DEF After, DpPlace
    <3> CallMoves(t) /\ PutMoves(t)
      <4>1. CASE PutThen(t, <<dp[t]>>, "exists") /\ UNCHANGED callVars
        BY <4>1, <1>PutThenMoves, <1>SameCall
      <4>2. CASE Return(t, <<dp[t]>>)
        BY <4>2, <1>ReturnMoves
      <4>3. CASE Go(t, "create") /\ UNCHANGED <<puts, then>> /\ UNCHANGED callVars
        BY <4>3, <1>GoMoves, <1>SameCall
      <4> QED
        BY <4>1, <4>2, <4>3 DEF Ialloc
    <3> FreeInodes \subseteq Pointer
      BY Constants DEF FreeInodes
    <3>1. \/ ip' = ip
          \/ ip' = Set(ip, t, ents[dp[t]][Head(path[t])])
          \/ \E i \in FreeInodes : ip' = Set(ip, t, i)
      BY DEF Ialloc, dirlookup
    <3>2. (dp' = dp \/ dp' = Set(dp, t, NoInode)) /\ old' = old
      BY DEF Ialloc
    <3>3. NoInode \in Pointer
      BY Constants DEF Pointer
    <3> PtrMoves(t)
      BY <2>p, <3>1, <3>2, <3>3 DEF PtrMoves, Moves, ThreadTypes
    <3> KeptMoves(t)
      BY DEF Ialloc, KeptMoves, Moves, ThreadTypes
    <3> QED
      BY DEF Local
  <2>b. (Pointers(t) /\ Calls(t))' /\ Accounts(t)
    <3> DEFINE d == dp[t]
    <3>e. PICK e \in Pointer : e = ents[d][Head(path[t])]
      BY <2>p
    <3> ip[t] = NoInode /\ puts[t] = << >> /\ old[t] = NoInode /\ op[t] \in {"create", "mkdir"} /\ then[t] \in After /\ path[t] # << >>
      BY Has, HasNot DEF Ialloc, IpPlace, Pointers, Puts
    <3> UNCHANGED <<cwd, fd>>
      BY <2>s DEF IallocEnd
    <3>g. e # NoInode => e \in Inum /\ \A j \in Inum : Got(e)[j] = ref[j] + One(e = j)
      BY <1>GotFact DEF Pointer
    <3>f. \A i \in FreeInodes : i \in Inum /\ \A j \in Inum : Got(i)[j] = ref[j] + One(i = j)
      BY <1>GotFact DEF FreeInodes
    <3> cwd[t] \in Inum /\ fd[t] \in Pointer /\ fd \in [Thread -> Pointer] /\ cwd \in [Thread -> Inum]
      BY DEF ThreadTypes
    <3>8. CASE /\ At(t, "put", op[t], path[t], e, NoInode, NoInode, <<d>>, "exists")
               /\ e # NoInode /\ ref' = Got(e)
      <4>2. (Pointers(t) /\ Calls(t))'
        <5>1. At(t, "put", op[t], path[t], e, NoInode, NoInode, <<d>>, "exists")
          BY <3>8
        <5>4. Fit("exists", op[t], e, NoInode, NoInode)
          BY <3>8, Apart DEF Fit, IpPlace, DpPlace
        <5>2. Pointers(t)' /\ Place(t)' = "exists"
          BY <5>1, <5>4, <1>PutsAt, <1>Lengths DEF After
        <5>5. Suits("exists", op[t], path[t], new'[t], fd'[t])
          BY <3>8 DEF Suits, Calls, NameiParent, Ops
        <5>3. Calls(t)'
          BY <5>1, <5>2, <5>5, <1>CallsAt
        <5> QED
          BY <5>2, <5>3
      <4>3. ASSUME NEW j \in Inum PROVE ref'[j] = ref[j] + Own(t, j)' - Own(t, j)
        <5>2. InPuts(<<d>>, j) = One(d = j) /\ InPuts(<< >>, j) = 0
          BY <1>InPutsFacts
        <5>3. OwnThen(t, j, e, NoInode, NoInode, <<d>>)
          BY <3>8, <1>OwnAt
        <5>4. ref[j] \in Int
          BY DEF RefTypes
        <5>5. ref'[j] = ref[j] + One(e = j)
          BY <3>8, <3>g
        <5>6. InPuts(puts[t], j) = 0
          BY <5>2
        <5> QED
          BY <5>2, <5>3, <5>4, <5>5, <5>6, OwnTakes
      <4> QED
        BY <4>2, <4>3 DEF Accounts
    <3>9. CASE AtEnd(t, <<d>>) /\ UNCHANGED ref
      <4>1. AtEnd(t, <<d>>) /\ <<d>> \in Seq(Inum) /\ Len(<<d>>) <= 2
        BY <3>9, <1>Lengths
      <4>2. (Pointers(t) /\ Calls(t))'
        BY <4>1, <1>EndControl
      <4>3. ASSUME NEW j \in Inum PROVE ref'[j] = ref[j] + Own(t, j)' - Own(t, j)
        <5>1. EndsOwning(t, <<d>>, j)
          BY <4>1, <1>EndOwn
        <5>2. InPuts(<<d>>, j) = One(d = j) /\ InPuts(<< >>, j) = 0
          BY <1>InPutsFacts
        <5> QED
          BY SMTT(20), <5>1, <5>2, <3>9, Apart DEF EndsOwning, Own, One, RefTypes
      <4> QED
        BY <4>2, <4>3 DEF Accounts
    <3>10. CASE \E i \in FreeInodes :
                   At(t, "create", op[t], path[t], i, d, NoInode, << >>, then[t]) /\ ref' = Got(i)
      <4>1. PICK i \in FreeInodes :
                 At(t, "create", op[t], path[t], i, d, NoInode, << >>, then[t]) /\ ref' = Got(i)
        BY <3>10
      <4>4. i \in Inum /\ \A j \in Inum : Got(i)[j] = ref[j] + One(i = j)
        BY <3>f
      <4>2. (Pointers(t) /\ Calls(t))'
        <5>1. At(t, "create", op[t], path[t], i, d, NoInode, << >>, then[t])
          BY <4>1, <4>4
        <5>4. Fit("create", op[t], i, d, NoInode)
          BY <4>1, <4>4, Apart DEF Fit, IpPlace, DpPlace
        <5>2. Pointers(t)' /\ Place(t)' = "create"
          BY <5>1, <5>4, <1>GoesAt DEF Puts
        <5>5. Suits("create", op[t], path[t], new'[t], fd'[t])
          BY <4>1, <4>4 DEF Suits, Calls, NameiParent, Ops
        <5>3. Calls(t)'
          BY <5>1, <5>2, <5>5, <1>CallsAt
        <5> QED
          BY <5>2, <5>3
      <4>3. ASSUME NEW j \in Inum PROVE ref'[j] = ref[j] + Own(t, j)' - Own(t, j)
        <5>2. InPuts(<< >>, j) = 0
          BY <1>InPutsFacts
        <5>3. OwnThen(t, j, i, d, NoInode, << >>)
          BY <4>1, <1>OwnAt
        <5>4. ref[j] \in Int
          BY DEF RefTypes
        <5>5. ref'[j] = ref[j] + One(i = j)
          BY <4>1, <4>4
        <5>6. InPuts(puts[t], j) = 0
          BY <5>2
        <5> QED
          BY <5>2, <5>3, <5>4, <5>5, <5>6, OwnTakes
      <4> QED
        BY <4>2, <4>3 DEF Accounts
    <3>s. \/ At(t, "put", op[t], path[t], ents[dp[t]][Head(path[t])], NoInode, NoInode, <<dp[t]>>, "exists")
            /\ ents[dp[t]][Head(path[t])] # NoInode /\ ref' = Got(ents[dp[t]][Head(path[t])])
          \/ AtEnd(t, <<dp[t]>>) /\ UNCHANGED ref
          \/ \E i \in FreeInodes :
                At(t, "create", op[t], path[t], i, dp[t], NoInode, << >>, then[t]) /\ ref' = Got(i)
      BY <2>s DEF IallocEnd
    <3> QED
      BY <3>e, <3>8, <3>9, <3>10, <3>s
  <2>r. RefTypes'
    <3>1. UNCHANGED ents /\ (UNCHANGED ref \/ \E i \in Inum : ref' = Got(i))
      BY <2>s, <2>p DEF IallocEnd, Pointer, FreeInodes
    <3> QED
      BY <3>1, <1>SameEnts
  <2> QED
    BY <2>s, <2>l, <2>b, <2>r DEF Good
<1>Exists. Exists(t) => Good(t)
  <2> HAVE Exists(t)
  <2> USE Zenon
  <2> ip[t] \in Inum
    BY Has DEF Exists, IpPlace
  <2> dp[t] = NoInode /\ puts[t] = << >> /\ old[t] = NoInode
    BY HasNot DEF Exists, Calls, Place, DpPlace, Puts
  <2>l. Local(t)
    <3>2. CASE OpenFile(t, ip[t])
      <4>1. CallMoves(t) /\ PutMoves(t) /\ Moves(ip, ip', Pointer, t) /\ Moves(fd, fd', Pointer, t)
        BY <3>2, <1>OpenFileMoves
      <4>2. PtrMoves(t) /\ KeptMoves(t)
        BY <4>1 DEF Exists, PtrMoves, KeptMoves, Moves, ThreadTypes
      <4> QED
        BY <4>1, <4>2 DEF Local
    <3>3. CASE ip' = Set(ip, t, NoInode) /\ Return(t, <<ip[t]>>) /\ UNCHANGED fd
      <4>1. CallMoves(t) /\ PutMoves(t)
        BY <3>3, Constants, <1>ReturnMoves
      <4>2. PtrMoves(t) /\ KeptMoves(t)
        BY <3>3, Constants DEF Exists, PtrMoves, KeptMoves, Moves, ThreadTypes
      <4> QED
        BY <4>1, <4>2 DEF Local
    <3> QED
      BY <3>2, <3>3 DEF Exists
  <2>s. LET i == ip[t]
        IN
        /\ \/ AtEnd(t, << >>) /\ fd' = Set(fd, t, i) /\ op[t] = "create"
           \/ AtEnd(t, <<i>>) /\ UNCHANGED fd
        /\ new'[t] = << >>
        /\ copy' = Set(copy, i, Loaded(i)) /\ UNCHANGED <<disk, ents, ref, lk, cwd>>
    BY SMTT(20) DEF Exists, OpenFile, Return, Go, Set, ThreadTypes, At, AtEnd
  <2>b. (Pointers(t) /\ Calls(t))' /\ Accounts(t)
    <3> cwd[t] \in Inum /\ fd[t] \in Pointer /\ fd \in [Thread -> Pointer] /\ cwd \in [Thread -> Inum]
      BY DEF ThreadTypes
    <3> dp[t] = NoInode /\ puts[t] = << >> /\ old[t] = NoInode /\ op[t] \in {"open", "create", "mkdir"}
      BY HasNot DEF Exists, DpPlace, Calls, Place, Puts
    <3> UNCHANGED <<ref, cwd>>
      BY <2>s
    <3> Set(fd, t, ip[t])[t] = ip[t]
      BY SMT DEF Set
    <3> op[t] \in {"open", "create"} => fd[t] = NoInode
      BY DEF Calls
    <3>7. CASE AtEnd(t, << >>) /\ op[t] \in {"open", "create"} /\ fd' = Set(fd, t, ip[t])
      <4>1. AtEnd(t, << >>) /\ << >> \in Seq(Inum) /\ Len(<< >>) <= 2
        BY <3>7, <1>Lengths
      <4>2. (Pointers(t) /\ Calls(t))'
        BY <4>1, <1>EndControl
      <4>3. ASSUME NEW j \in Inum PROVE ref'[j] = ref[j] + Own(t, j)' - Own(t, j)
        <5>1. EndsOwning(t, << >>, j)
          BY <4>1, <1>EndOwn
        <5>2. InPuts(<< >>, j) = 0
          BY <1>InPutsFacts
        <5> QED
          BY SMTT(20), <5>1, <5>2, <3>7, Apart DEF EndsOwning, Own, One, RefTypes
      <4> QED
        BY <4>2, <4>3 DEF Accounts
    <3>8. CASE AtEnd(t, <<ip[t]>>) /\ UNCHANGED fd
      <4>1. AtEnd(t, <<ip[t]>>) /\ <<ip[t]>> \in Seq(Inum) /\ Len(<<ip[t]>>) <= 2
        BY <3>8, <1>Lengths
      <4>2. (Pointers(t) /\ Calls(t))'
        BY <4>1, <1>EndControl
      <4>3. ASSUME NEW j \in Inum PROVE ref'[j] = ref[j] + Own(t, j)' - Own(t, j)
        <5>1. EndsOwning(t, <<ip[t]>>, j)
          BY <4>1, <1>EndOwn
        <5>2. InPuts(<<ip[t]>>, j) = One(ip[t] = j) /\ InPuts(<< >>, j) = 0
          BY <1>InPutsFacts
        <5> QED
          BY SMTT(20), <5>1, <5>2, <3>8, Apart DEF EndsOwning, Own, One, RefTypes
      <4> QED
        BY <4>2, <4>3 DEF Accounts
    <3> QED
      BY <3>7, <3>8, <2>s
  <2>r. RefTypes'
    BY <2>s, <1>SameEnts
  <2> QED
    BY <2>l, <2>b, <2>r DEF Good
<1>Create. Create(t) => Good(t)
  <2> HAVE Create(t)
  <2> USE Zenon
  <2> ip[t] \in Inum /\ dp[t] \in Inum
    BY Has DEF Create, IpPlace, DpPlace
  <2>h. Head(path[t]) \in Elem
    BY Has DEF Create
  <2> old[t] = NoInode
    BY HasNot DEF Create, Calls, Place, Puts
  <2>l. Local(t)
    <3> <<ip[t]>> \in Seq(Inum) /\ <<dp[t]>> \in Seq(Inum) /\ "created" \in After /\ "bad" \in After
      BY Constants DEF After
    <3> CallMoves(t)
      BY <1>SameCall DEF Create
    <3> PutMoves(t)
      BY <1>PutThenMoves DEF Create
    <3> PtrMoves(t)
      BY Constants DEF Create, PtrMoves, Moves, ThreadTypes
    <3> KeptMoves(t)
      BY DEF Create, KeptMoves, Moves, ThreadTypes
    <3> QED
      BY DEF Local
  <2>s. LET i == ip[t]
            d == dp[t]
            up(m, k) == [m EXCEPT ![i] = [Loaded(i) EXCEPT !.nlink = k],
                                  ![d].nlink = @ + IF op[t] = "mkdir" THEN k ELSE 0]
        IN
        /\ \/ /\ At(t, "put", op[t], path[t], i, NoInode, NoInode, <<d>>, "created")
              /\ copy' = up(copy, 1) /\ disk' = up(disk, 1)
              /\ ents' = [ents EXCEPT ![i][DotDot] = IF op[t] = "mkdir" THEN d ELSE NoInode,
                                     ![d][Head(path[t])] = i]
              /\ lk' = [lk EXCEPT ![d] = NoThread, ![i] = t]
           \/ /\ At(t, "put", op[t], path[t], NoInode, d, NoInode, <<i>>, "bad")
              /\ copy' = up(copy, 0) /\ disk' = up(disk, 0)
              /\ (op[t] = "mkdir" /\ ents' = dirlink(i, DotDot, d)) \/ UNCHANGED ents
              /\ UNCHANGED lk
        /\ new'[t] = new[t] /\ UNCHANGED <<ref, cwd, fd>>
    BY DEF Create, PutThen, callVars, Go, Set, ThreadTypes, At, AtEnd
  <2>b. (Pointers(t) /\ Calls(t))' /\ Accounts(t)
    <3> DEFINE i == ip[t]
               d == dp[t]
    <3> puts[t] = << >> /\ old[t] = NoInode /\ op[t] \in {"create", "mkdir"}
      BY HasNot DEF Create, IpPlace, Calls, Place, Puts
    <3> UNCHANGED <<ref, cwd, fd>>
      BY <2>s
    <3> cwd[t] \in Inum /\ fd[t] \in Pointer /\ fd \in [Thread -> Pointer] /\ cwd \in [Thread -> Inum]
      BY DEF ThreadTypes
    <3>5. CASE At(t, "put", op[t], path[t], i, NoInode, NoInode, <<d>>, "created")
      <4>2. (Pointers(t) /\ Calls(t))'
        <5>1. At(t, "put", op[t], path[t], i, NoInode, NoInode, <<d>>, "created")
          BY <3>5
        <5>4. Fit("created", op[t], i, NoInode, NoInode)
          BY <3>5, Apart DEF Fit, IpPlace, DpPlace
        <5>2. Pointers(t)' /\ Place(t)' = "created"
          BY <5>1, <5>4, <1>PutsAt, <1>Lengths DEF After
        <5>5. Suits("created", op[t], path[t], new'[t], fd'[t])
          BY <3>5 DEF Suits, Calls, NameiParent, Ops
        <5>3. Calls(t)'
          BY <5>1, <5>2, <5>5, <1>CallsAt
        <5> QED
          BY <5>2, <5>3
      <4>3. ASSUME NEW j \in Inum PROVE ref'[j] = ref[j] + Own(t, j)' - Own(t, j)
        <5>2. InPuts(<<d>>, j) = One(d = j) /\ InPuts(<< >>, j) = 0
          BY <1>InPutsFacts
        <5>3. OwnThen(t, j, i, NoInode, NoInode, <<d>>)
          BY <3>5, <1>OwnAt
        <5>4. ref[j] \in Int
          BY DEF RefTypes
        <5>5. ref'[j] = ref[j]
          BY <3>5
        <5> QED
          BY SMTT(20), <5>2, <5>3, <5>4, <5>5, Apart DEF Own, OwnThen, One
      <4> QED
        BY <4>2, <4>3 DEF Accounts
    <3>6. CASE At(t, "put", op[t], path[t], NoInode, d, NoInode, <<i>>, "bad")
      <4>2. (Pointers(t) /\ Calls(t))'
        <5>1. At(t, "put", op[t], path[t], NoInode, d, NoInode, <<i>>, "bad")
          BY <3>6
        <5>4. Fit("bad", op[t], NoInode, d, NoInode)
          BY <3>6, Apart DEF Fit, IpPlace, DpPlace
        <5>2. Pointers(t)' /\ Place(t)' = "bad"
          BY <5>1, <5>4, <1>PutsAt, <1>Lengths DEF After
        <5>5. Suits("bad", op[t], path[t], new'[t], fd'[t])
          BY <3>6 DEF Suits, Calls, NameiParent, Ops
        <5>3. Calls(t)'
          BY <5>1, <5>2, <5>5, <1>CallsAt
        <5> QED
          BY <5>2, <5>3
      <4>3. ASSUME NEW j \in Inum PROVE ref'[j] = ref[j] + Own(t, j)' - Own(t, j)
        <5>2. InPuts(<<i>>, j) = One(i = j) /\ InPuts(<< >>, j) = 0
          BY <1>InPutsFacts
        <5>3. OwnThen(t, j, NoInode, d, NoInode, <<i>>)
          BY <3>6, <1>OwnAt
        <5>4. ref[j] \in Int
          BY DEF RefTypes
        <5>5. ref'[j] = ref[j]
          BY <3>6
        <5> QED
          BY SMTT(20), <5>2, <5>3, <5>4, <5>5, Apart DEF Own, OwnThen, One
      <4> QED
        BY <4>2, <4>3 DEF Accounts
    <3> QED
      BY <3>5, <3>6, <2>s
  <2>r. RefTypes'
    <3>1. DotDot \in Elem
      BY DEF Elem
    <3>2. PICK k \in Pointer : k = IF op[t] = "mkdir" THEN dp[t] ELSE NoInode
      BY Constants
    <3>3. [ents EXCEPT ![ip[t]][DotDot] = k, ![dp[t]][Head(path[t])] = ip[t]] \in [Inum -> [Elem -> Pointer]]
          /\ dirlink(ip[t], DotDot, dp[t]) \in [Inum -> [Elem -> Pointer]]
      BY <2>h, <3>1, <1>EntsTypes, Constants
    <3> QED
      BY <2>s, <3>2, <3>3 DEF RefTypes
  <2> QED
    BY <2>l, <2>b, <2>r DEF Good
<1>Created. Created(t) => Good(t)
  <2> HAVE Created(t)
  <2> USE Zenon
  <2> ip[t] \in Inum
    BY Has DEF Created, IpPlace
  <2> dp[t] = NoInode /\ puts[t] = << >> /\ old[t] = NoInode
    BY HasNot DEF Created, Calls, Place, DpPlace, Puts
  <2>l. Local(t)
    <3>2. CASE OpenFile(t, ip[t])
      <4>1. CallMoves(t) /\ PutMoves(t) /\ Moves(ip, ip', Pointer, t) /\ Moves(fd, fd', Pointer, t)
        BY <3>2, <1>OpenFileMoves
      <4>2. PtrMoves(t) /\ KeptMoves(t)
        BY <4>1 DEF Created, PtrMoves, KeptMoves, Moves, ThreadTypes
      <4> QED
        BY <4>1, <4>2 DEF Local
    <3>3. CASE ip' = Set(ip, t, NoInode) /\ Return(t, <<ip[t]>>) /\ UNCHANGED fd
      <4>1. CallMoves(t) /\ PutMoves(t)
        BY <3>3, Constants, <1>ReturnMoves
      <4>2. PtrMoves(t) /\ KeptMoves(t)
        BY <3>3, Constants DEF Created, PtrMoves, KeptMoves, Moves, ThreadTypes
      <4> QED
        BY <4>1, <4>2 DEF Local
    <3> QED
      BY <3>2, <3>3 DEF Created
  <2>s. LET i == ip[t]
        IN
        /\ \/ AtEnd(t, << >>) /\ fd' = Set(fd, t, i) /\ op[t] = "create"
           \/ AtEnd(t, <<i>>) /\ UNCHANGED fd
        /\ new'[t] = << >>
        /\ lk' = Set(lk, i, NoThread) /\ UNCHANGED <<disk, ents, ref, copy, cwd>>
    BY SMTT(20) DEF Created, OpenFile, Return, Go, Set, ThreadTypes, At, AtEnd
  <2>b. (Pointers(t) /\ Calls(t))' /\ Accounts(t)
    <3> cwd[t] \in Inum /\ fd[t] \in Pointer /\ fd \in [Thread -> Pointer] /\ cwd \in [Thread -> Inum]
      BY DEF ThreadTypes
    <3> dp[t] = NoInode /\ puts[t] = << >> /\ old[t] = NoInode /\ op[t] \in {"open", "create", "mkdir"}
      BY HasNot DEF Created, DpPlace, Calls, Place, Puts
    <3> UNCHANGED <<ref, cwd>>
      BY <2>s
    <3> Set(fd, t, ip[t])[t] = ip[t]
      BY SMT DEF Set
    <3> op[t] \in {"open", "create"} => fd[t] = NoInode
      BY DEF Calls
    <3>7. CASE AtEnd(t, << >>) /\ op[t] \in {"open", "create"} /\ fd' = Set(fd, t, ip[t])
      <4>1. AtEnd(t, << >>) /\ << >> \in Seq(Inum) /\ Len(<< >>) <= 2
        BY <3>7, <1>Lengths
      <4>2. (Pointers(t) /\ Calls(t))'
        BY <4>1, <1>EndControl
      <4>3. ASSUME NEW j \in Inum PROVE ref'[j] = ref[j] + Own(t, j)' - Own(t, j)
        <5>1. EndsOwning(t, << >>, j)
          BY <4>1, <1>EndOwn
        <5>2. InPuts(<< >>, j) = 0
          BY <1>InPutsFacts
        <5> QED
          BY SMTT(20), <5>1, <5>2, <3>7, Apart DEF EndsOwning, Own, One, RefTypes
      <4> QED
        BY <4>2, <4>3 DEF Accounts
    <3>8. CASE AtEnd(t, <<ip[t]>>) /\ UNCHANGED fd
      <4>1. AtEnd(t, <<ip[t]>>) /\ <<ip[t]>> \in Seq(Inum) /\ Len(<<ip[t]>>) <= 2
        BY <3>8, <1>Lengths
      <4>2. (Pointers(t) /\ Calls(t))'
        BY <4>1, <1>EndControl
      <4>3. ASSUME NEW j \in Inum PROVE ref'[j] = ref[j] + Own(t, j)' - Own(t, j)
        <5>1. EndsOwning(t, <<ip[t]>>, j)
          BY <4>1, <1>EndOwn
        <5>2. InPuts(<<ip[t]>>, j) = One(ip[t] = j) /\ InPuts(<< >>, j) = 0
          BY <1>InPutsFacts
        <5> QED
          BY SMTT(20), <5>1, <5>2, <3>8, Apart DEF EndsOwning, Own, One, RefTypes
      <4> QED
        BY <4>2, <4>3 DEF Accounts
    <3> QED
      BY <3>7, <3>8, <2>s
  <2>r. RefTypes'
    BY <2>s, <1>SameEnts
  <2> QED
    BY <2>l, <2>b, <2>r DEF Good
<1>Bad. Bad(t) => Good(t)
  <2> HAVE Bad(t)
  <2> USE Zenon
  <2> dp[t] \in Inum
    BY Has DEF Bad, DpPlace
  <2> ip[t] = NoInode /\ puts[t] = << >> /\ (op[t] # "link2" => old[t] = NoInode)
    BY HasNot DEF Bad, Calls, Place, IpPlace, Puts
  <2>l. Local(t)
    <3> CallMoves(t) /\ PutMoves(t)
      <4> <<dp[t]>> \in Seq(Inum) /\ "undo" \in After
        BY Constants DEF After
      <4> QED
        BY <1>ReturnMoves, <1>PutThenMoves, <1>SameCall DEF Bad, PutParent
    <3> PtrMoves(t)
      BY Constants DEF Bad, PutParent, PtrMoves, Moves, ThreadTypes
    <3> KeptMoves(t)
      BY DEF Bad, KeptMoves, Moves, ThreadTypes
    <3> QED
      BY DEF Local
  <2>s. LET d == dp[t]
        IN
        /\ \/ AtEnd(t, <<d>>) /\ old[t] = NoInode /\ new'[t] = << >>
           \/ /\ At(t, "put", "link2", path[t], NoInode, NoInode, old[t], <<d>>, "undo")
              /\ op[t] = "link2" /\ new'[t] = new[t]
        /\ lk' = Set(lk, d, NoThread) /\ UNCHANGED <<disk, ents, ref, copy, cwd, fd>>
    BY SMTT(20) DEF Bad, PutParent, PutThen, Return, callVars, Go, Set, ThreadTypes, At, AtEnd
  <2>b. (Pointers(t) /\ Calls(t))' /\ Accounts(t)
    <3> DEFINE d == dp[t]
    <3> UNCHANGED <<ref, cwd, fd>>
      BY <2>s
    <3> cwd[t] \in Inum /\ fd[t] \in Pointer /\ fd \in [Thread -> Pointer] /\ cwd \in [Thread -> Inum]
      BY DEF ThreadTypes
    <3>5. CASE AtEnd(t, <<d>>) /\ old[t] = NoInode
      <4>1. AtEnd(t, <<d>>) /\ <<d>> \in Seq(Inum) /\ Len(<<d>>) <= 2
        BY <3>5, <1>Lengths
      <4>2. (Pointers(t) /\ Calls(t))'
        BY <4>1, <1>EndControl
      <4>3. ASSUME NEW j \in Inum PROVE ref'[j] = ref[j] + Own(t, j)' - Own(t, j)
        <5>1. EndsOwning(t, <<d>>, j)
          BY <4>1, <1>EndOwn
        <5>2. InPuts(<<d>>, j) = One(d = j) /\ InPuts(<< >>, j) = 0
          BY <1>InPutsFacts
        <5> QED
          BY SMTT(20), <5>1, <5>2, <3>5, Apart DEF EndsOwning, Own, One, RefTypes
      <4> QED
        BY <4>2, <4>3 DEF Accounts
    <3>6. CASE At(t, "put", "link2", path[t], NoInode, NoInode, old[t], <<d>>, "undo") /\ op[t] = "link2"
      <4>2. (Pointers(t) /\ Calls(t))'
        <5>1. At(t, "put", "link2", path[t], NoInode, NoInode, old[t], <<d>>, "undo")
          BY <3>6
        <5>6. old[t] \in Inum
          BY <3>6, Has
        <5>4. Fit("undo", "link2", NoInode, NoInode, old[t])
          BY <5>6, Apart DEF Fit, IpPlace, DpPlace
        <5>2. Pointers(t)' /\ Place(t)' = "undo"
          BY <5>1, <5>4, <1>PutsAt, <1>Lengths DEF After
        <5>5. Suits("undo", "link2", path[t], new'[t], fd'[t])
          BY <3>6 DEF Suits, Calls, NameiParent, Ops
        <5>3. Calls(t)'
          BY <5>1, <5>2, <5>5, <1>CallsAt
        <5> QED
          BY <5>2, <5>3
      <4>3. ASSUME NEW j \in Inum PROVE ref'[j] = ref[j] + Own(t, j)' - Own(t, j)
        <5>2. InPuts(<<d>>, j) = One(d = j) /\ InPuts(<< >>, j) = 0
          BY <1>InPutsFacts
        <5>3. OwnThen(t, j, NoInode, NoInode, old[t], <<d>>)
          BY <3>6, <1>OwnAt
        <5>4. ref[j] \in Int
          BY DEF RefTypes
        <5>5. ref'[j] = ref[j]
          BY <3>6
        <5> QED
          BY SMTT(20), <5>2, <5>3, <5>4, <5>5, Apart DEF Own, OwnThen, One
      <4> QED
        BY <4>2, <4>3 DEF Accounts
    <3> QED
      BY <3>5, <3>6, <2>s
  <2>r. RefTypes'
    BY <2>s, <1>SameEnts
  <2> QED
    BY <2>l, <2>b, <2>r DEF Good
<1>Unlink. Unlink(t) => Good(t) /\ UnlinkEnd(t)
  <2> HAVE Unlink(t)
  <2> USE Zenon
  <2> dp[t] \in Inum
    BY Has DEF Unlink, DpPlace
  <2> ip[t] = NoInode /\ old[t] = NoInode /\ puts[t] = << >>
    BY HasNot DEF Unlink, IpPlace, Puts
  <2>s. UnlinkEnd(t)
    BY UnlinkEnds
  <2>h. Head(path[t]) \in Elem
    BY Has DEF Unlink
  <2>p. ents[dp[t]][Head(path[t])] \in Pointer
    BY <2>h DEF RefTypes
  <2>l. Local(t)
    <3> <<dp[t]>> \in Seq(Inum) /\ "unlink" \in DpPlace \cup IpPlace \cup Puts
      BY Constants DEF DpPlace
    <3> CallMoves(t) /\ PutMoves(t)
      <4>2. CASE Return(t, <<dp[t]>>)
        BY <4>2, <1>ReturnMoves
      <4>3. CASE Go(t, "unlink") /\ UNCHANGED <<puts, then>> /\ UNCHANGED callVars
        BY <4>3, <1>GoMoves, <1>SameCall
      <4> QED
        BY <4>2, <4>3 DEF Unlink
    <3> PtrMoves(t)
      BY <2>p, Constants DEF Unlink, dirlookup, PtrMoves, Moves, ThreadTypes
    <3> KeptMoves(t)
      BY DEF Unlink, KeptMoves, Moves, ThreadTypes
    <3> QED
      BY DEF Local
  <2>b. (Pointers(t) /\ Calls(t))' /\ Accounts(t)
    <3> DEFINE d == dp[t]
    <3>e. PICK e \in Pointer : e = ents[d][Head(path[t])]
      BY <2>p
    <3> ip[t] = NoInode /\ puts[t] = << >> /\ old[t] = NoInode /\ op[t] = "unlink" /\ then[t] \in After /\ path[t] # << >>
      BY Has, HasNot DEF Unlink, IpPlace, Pointers, Puts
    <3> UNCHANGED <<cwd, fd>>
      BY <2>s DEF UnlinkEnd
    <3>g. e # NoInode => e \in Inum /\ \A j \in Inum : Got(e)[j] = ref[j] + One(e = j)
      BY <1>GotFact DEF Pointer
    <3> cwd[t] \in Inum /\ fd[t] \in Pointer /\ fd \in [Thread -> Pointer] /\ cwd \in [Thread -> Inum]
      BY DEF ThreadTypes
    <3>7. CASE AtEnd(t, <<d>>) /\ UNCHANGED ref
      <4>1. AtEnd(t, <<d>>) /\ <<d>> \in Seq(Inum) /\ Len(<<d>>) <= 2
        BY <3>7, <1>Lengths
      <4>2. (Pointers(t) /\ Calls(t))'
        BY <4>1, <1>EndControl
      <4>3. ASSUME NEW j \in Inum PROVE ref'[j] = ref[j] + Own(t, j)' - Own(t, j)
        <5>1. EndsOwning(t, <<d>>, j)
          BY <4>1, <1>EndOwn
        <5>2. InPuts(<<d>>, j) = One(d = j) /\ InPuts(<< >>, j) = 0
          BY <1>InPutsFacts
        <5> QED
          BY SMTT(20), <5>1, <5>2, <3>7, Apart DEF EndsOwning, Own, One, RefTypes
      <4> QED
        BY <4>2, <4>3 DEF Accounts
    <3>8. CASE /\ At(t, "unlink", op[t], path[t], e, d, NoInode, << >>, then[t])
               /\ e # NoInode /\ ref' = Got(e)
      <4>2. (Pointers(t) /\ Calls(t))'
        <5>1. At(t, "unlink", op[t], path[t], e, d, NoInode, << >>, then[t])
          BY <3>8
        <5>4. Fit("unlink", op[t], e, d, NoInode)
          BY <3>8, Apart DEF Fit, IpPlace, DpPlace
        <5>2. Pointers(t)' /\ Place(t)' = "unlink"
          BY <5>1, <5>4, <1>GoesAt DEF Puts
        <5>5. Suits("unlink", op[t], path[t], new'[t], fd'[t])
          BY <3>8 DEF Suits, Calls, NameiParent, Ops
        <5>3. Calls(t)'
          BY <5>1, <5>2, <5>5, <1>CallsAt
        <5> QED
          BY <5>2, <5>3
      <4>3. ASSUME NEW j \in Inum PROVE ref'[j] = ref[j] + Own(t, j)' - Own(t, j)
        <5>2. InPuts(<< >>, j) = 0
          BY <1>InPutsFacts
        <5>3. OwnThen(t, j, e, d, NoInode, << >>)
          BY <3>8, <1>OwnAt
        <5>4. ref[j] \in Int
          BY DEF RefTypes
        <5>5. ref'[j] = ref[j] + One(e = j)
          BY <3>8, <3>g
        <5>6. InPuts(puts[t], j) = 0
          BY <5>2
        <5> QED
          BY <5>2, <5>3, <5>4, <5>5, <5>6, OwnTakes
      <4> QED
        BY <4>2, <4>3 DEF Accounts
    <3> QED
      BY <3>e, <3>7, <3>8, <2>s DEF UnlinkEnd
  <2>r. RefTypes'
    <3>1. UNCHANGED ents /\ (UNCHANGED ref \/ \E i \in Inum : ref' = Got(i))
      BY <2>s, <2>p DEF UnlinkEnd, Pointer
    <3> QED
      BY <3>1, <1>SameEnts
  <2> QED
    BY <2>s, <2>l, <2>b, <2>r DEF Good
<1>Unlink1. Unlink1(t) => Good(t)
  <2> HAVE Unlink1(t)
  <2> USE Zenon
  <2> ip[t] \in Inum /\ dp[t] \in Inum
    BY Has DEF Unlink1, IpPlace, DpPlace
  <2>h. Head(path[t]) \in Elem
    BY Has DEF Unlink1
  <2> old[t] = NoInode
    BY HasNot DEF Unlink1, Calls, Place, Puts
  <2>l. Local(t)
    <3> <<ip[t]>> \in Seq(Inum) /\ <<dp[t]>> \in Seq(Inum) /\ "unlink2" \in After /\ "bad" \in After
      BY Constants DEF After
    <3> CallMoves(t)
      BY <1>SameCall DEF Unlink1
    <3> PutMoves(t)
      BY <1>PutThenMoves DEF Unlink1
    <3> PtrMoves(t)
      BY Constants DEF Unlink1, PtrMoves, Moves, ThreadTypes
    <3> KeptMoves(t)
      BY DEF Unlink1, KeptMoves, Moves, ThreadTypes
    <3> QED
      BY DEF Local
  <2>s. LET i == ip[t]
            d == dp[t]
            k == IF Loaded(i).type = "dir" THEN -1 ELSE 0
        IN
        /\ \/ /\ At(t, "put", op[t], path[t], NoInode, d, NoInode, <<i>>, "bad")
              /\ copy' = Set(copy, i, Loaded(i)) /\ UNCHANGED <<disk, ents, lk>>
           \/ /\ At(t, "put", op[t], path[t], i, NoInode, NoInode, <<d>>, "unlink2")
              /\ Loaded(i).type = "dir" => isdirempty(i)
              /\ ents' = dirlink(d, Head(path[t]), NoInode)
              /\ copy' = [copy EXCEPT ![i] = Loaded(i), ![d] = Links(@, k)]
              /\ disk' = [disk EXCEPT ![d] = Links(@, k)]
              /\ lk' = [lk EXCEPT ![d] = NoThread, ![i] = t]
        /\ new'[t] = new[t] /\ UNCHANGED <<ref, cwd, fd>>
    BY SMTT(20) DEF Unlink1, PutThen, callVars, Go, Set, ThreadTypes, At, AtEnd
  <2>b. (Pointers(t) /\ Calls(t))' /\ Accounts(t)
    <3> DEFINE i == ip[t]
               d == dp[t]
    <3> puts[t] = << >> /\ old[t] = NoInode /\ op[t] = "unlink"
      BY HasNot DEF Unlink1, IpPlace, Calls, Place, Puts
    <3> UNCHANGED <<ref, cwd, fd>>
      BY <2>s
    <3> cwd[t] \in Inum /\ fd[t] \in Pointer /\ fd \in [Thread -> Pointer] /\ cwd \in [Thread -> Inum]
      BY DEF ThreadTypes
    <3>5. CASE At(t, "put", op[t], path[t], NoInode, d, NoInode, <<i>>, "bad")
      <4>2. (Pointers(t) /\ Calls(t))'
        <5>1. At(t, "put", op[t], path[t], NoInode, d, NoInode, <<i>>, "bad")
          BY <3>5
        <5>4. Fit("bad", op[t], NoInode, d, NoInode)
          BY <3>5, Apart DEF Fit, IpPlace, DpPlace
        <5>2. Pointers(t)' /\ Place(t)' = "bad"
          BY <5>1, <5>4, <1>PutsAt, <1>Lengths DEF After
        <5>5. Suits("bad", op[t], path[t], new'[t], fd'[t])
          BY <3>5 DEF Suits, Calls, NameiParent, Ops
        <5>3. Calls(t)'
          BY <5>1, <5>2, <5>5, <1>CallsAt
        <5> QED
          BY <5>2, <5>3
      <4>3. ASSUME NEW j \in Inum PROVE ref'[j] = ref[j] + Own(t, j)' - Own(t, j)
        <5>2. InPuts(<<i>>, j) = One(i = j) /\ InPuts(<< >>, j) = 0
          BY <1>InPutsFacts
        <5>3. OwnThen(t, j, NoInode, d, NoInode, <<i>>)
          BY <3>5, <1>OwnAt
        <5>4. ref[j] \in Int
          BY DEF RefTypes
        <5>5. ref'[j] = ref[j]
          BY <3>5
        <5> QED
          BY SMTT(20), <5>2, <5>3, <5>4, <5>5, Apart DEF Own, OwnThen, One
      <4> QED
        BY <4>2, <4>3 DEF Accounts
    <3>6. CASE At(t, "put", op[t], path[t], i, NoInode, NoInode, <<d>>, "unlink2")
      <4>2. (Pointers(t) /\ Calls(t))'
        <5>1. At(t, "put", op[t], path[t], i, NoInode, NoInode, <<d>>, "unlink2")
          BY <3>6
        <5>4. Fit("unlink2", op[t], i, NoInode, NoInode)
          BY <3>6, Apart DEF Fit, IpPlace, DpPlace
        <5>2. Pointers(t)' /\ Place(t)' = "unlink2"
          BY <5>1, <5>4, <1>PutsAt, <1>Lengths DEF After
        <5>5. Suits("unlink2", op[t], path[t], new'[t], fd'[t])
          BY <3>6 DEF Suits, Calls, NameiParent, Ops
        <5>3. Calls(t)'
          BY <5>1, <5>2, <5>5, <1>CallsAt
        <5> QED
          BY <5>2, <5>3
      <4>3. ASSUME NEW j \in Inum PROVE ref'[j] = ref[j] + Own(t, j)' - Own(t, j)
        <5>2. InPuts(<<d>>, j) = One(d = j) /\ InPuts(<< >>, j) = 0
          BY <1>InPutsFacts
        <5>3. OwnThen(t, j, i, NoInode, NoInode, <<d>>)
          BY <3>6, <1>OwnAt
        <5>4. ref[j] \in Int
          BY DEF RefTypes
        <5>5. ref'[j] = ref[j]
          BY <3>6
        <5> QED
          BY SMTT(20), <5>2, <5>3, <5>4, <5>5, Apart DEF Own, OwnThen, One
      <4> QED
        BY <4>2, <4>3 DEF Accounts
    <3> QED
      BY <3>5, <3>6, <2>s
  <2>r. RefTypes'
    <3>1. dirlink(dp[t], Head(path[t]), NoInode) \in [Inum -> [Elem -> Pointer]]
      BY <2>h, <1>EntsTypes, Constants
    <3> QED
      BY <2>s, <3>1 DEF RefTypes
  <2> QED
    BY <2>l, <2>b, <2>r DEF Good
<1>Unlink2. Unlink2(t) => Good(t)
  <2> HAVE Unlink2(t)
  <2> USE Zenon
  <2> ip[t] \in Inum
    BY Has DEF Unlink2, IpPlace
  <2> dp[t] = NoInode /\ puts[t] = << >> /\ old[t] = NoInode
    BY HasNot DEF Unlink2, Calls, Place, DpPlace, Puts
  <2>l. Local(t)
    <3> CallMoves(t) /\ PutMoves(t)
      BY Constants, <1>ReturnMoves DEF Unlink2
    <3> PtrMoves(t)
      BY Constants DEF Unlink2, PtrMoves, Moves, ThreadTypes
    <3> KeptMoves(t)
      BY DEF Unlink2, KeptMoves, Moves, ThreadTypes
    <3> QED
      BY DEF Local
  <2>s. LET i == ip[t]
        IN
        /\ AtEnd(t, <<i>>) /\ new'[t] = << >>
        /\ Iupdate(i, Links(copy[i], -1)) /\ lk' = Set(lk, i, NoThread)
        /\ UNCHANGED <<ents, ref, cwd, fd>>
    BY SMTT(20) DEF Unlink2, Return, Go, Set, ThreadTypes, At, AtEnd
  <2>b. (Pointers(t) /\ Calls(t))' /\ Accounts(t)
    <3> DEFINE i == ip[t]
    <3> dp[t] = NoInode /\ puts[t] = << >> /\ old[t] = NoInode
      BY HasNot DEF Unlink2, DpPlace, Calls, Place, Puts
    <3> UNCHANGED <<ref, cwd, fd>>
      BY <2>s
    <3> cwd[t] \in Inum /\ fd[t] \in Pointer /\ fd \in [Thread -> Pointer] /\ cwd \in [Thread -> Inum]
      BY DEF ThreadTypes
    <3>5. CASE AtEnd(t, <<i>>)
      <4>1. AtEnd(t, <<i>>) /\ <<i>> \in Seq(Inum) /\ Len(<<i>>) <= 2
        BY <3>5, <1>Lengths
      <4>2. (Pointers(t) /\ Calls(t))'
        BY <4>1, <1>EndControl
      <4>3. ASSUME NEW j \in Inum PROVE ref'[j] = ref[j] + Own(t, j)' - Own(t, j)
        <5>1. EndsOwning(t, <<i>>, j)
          BY <4>1, <1>EndOwn
        <5>2. InPuts(<<i>>, j) = One(i = j) /\ InPuts(<< >>, j) = 0
          BY <1>InPutsFacts
        <5>3. InPuts(puts[t], j) = 0 /\ ref[j] \in Int
          BY <5>2 DEF RefTypes
        <5> QED
          BY <5>1, <5>2, <5>3, OwnEnds
      <4> QED
        BY <4>2, <4>3 DEF Accounts
    <3> QED
      BY <3>5, <2>s
  <2>r. RefTypes'
    BY <2>s, <1>SameEnts
  <2> QED
    BY <2>l, <2>b, <2>r DEF Good
<1>Iput. Iput(t) => Good(t)
  <2> HAVE Iput(t)
  <2> USE Zenon
  <2> puts[t] # << >> /\ Head(puts[t]) \in Inum /\ Tail(puts[t]) \in Seq(Inum)
    BY Has DEF Iput, Puts
  <2>l. Local(t)
    <3> CallMoves(t)
      BY <1>SameCall DEF Iput
    <3> PutMoves(t)
      <4>1. CASE Go(t, "free") /\ UNCHANGED <<puts, then>>
        <5>1. "free" \in DpPlace \cup IpPlace \cup Puts
          BY DEF Puts
        <5> QED
          BY <4>1, <5>1, <1>GoMoves
      <4>2. CASE ~(Go(t, "free") /\ UNCHANGED <<puts, then>>)
        BY <4>2, <1>PutNextMoves DEF Iput
      <4> QED
        BY <4>1, <4>2
    <3> PtrMoves(t)
      BY Constants DEF Iput, PtrMoves, Moves, ThreadTypes
    <3> KeptMoves(t)
      BY DEF Iput, KeptMoves, Moves, ThreadTypes
    <3> QED
      BY DEF Local
  <2>s. LET i == Head(puts[t])
        IN
        /\ \/ /\ At(t, "free", op[t], path[t], ip[t], dp[t], old[t], puts[t], then[t])
              /\ Frees(i) /\ lk[i] = NoThread /\ lk' = Set(lk, i, t) /\ UNCHANGED <<ref, copy>>
           \/ /\ At(t, IF Len(puts[t]) = 1 THEN then[t] ELSE "put", op[t], path[t], ip[t], dp[t], old[t], Tail(puts[t]), then[t])
              /\ Drop(i) /\ UNCHANGED lk
        /\ new'[t] = new[t] /\ UNCHANGED <<disk, ents, cwd, fd>>
    BY SMTT(20) DEF Iput, callVars, Go, Set, ThreadTypes, At, AtEnd
  <2>b. (Pointers(t) /\ Calls(t))' /\ Accounts(t)
    <3> pc[t] \in Puts /\ puts[t] # << >> /\ Len(puts[t]) <= 2
      BY DEF Iput, Puts, Pointers
    <3>2. CASE At(t, "free", op[t], path[t], ip[t], dp[t], old[t], puts[t], then[t]) /\ UNCHANGED ref
      <4>1. (Pointers(t) /\ Calls(t))'
        <5>1. pc'[t] \in Puts /\ puts'[t] = puts[t] /\ new'[t] = new[t] /\ UNCHANGED <<cwd, fd>>
              /\ At(t, pc'[t], op[t], path[t], ip[t], dp[t], old[t], puts'[t], then[t])
          BY <3>2, <2>s DEF At, Puts
        <5> QED
          BY <5>1, <1>PutControl
      <4>2. ASSUME NEW j \in Inum PROVE ref'[j] = ref[j] + Own(t, j)' - Own(t, j)
        <5>1. Own(t, j)' = Own(t, j) /\ ref'[j] = ref[j]
          BY <3>2, <2>s DEF At, Own
        <5>2. Own(t, j) \in Int /\ ref[j] \in Int
          BY OwnInt DEF RefTypes
        <5> QED
          BY SMT, <5>1, <5>2
      <4> QED
        BY <4>1, <4>2 DEF Accounts
    <3>3. CASE At(t, IF Len(puts[t]) = 1 THEN then[t] ELSE "put", op[t], path[t], ip[t], dp[t], old[t], Tail(puts[t]), then[t]) /\ Drop(Head(puts[t]))
      BY <3>3, <2>s, <1>PutNextBase
    <3> QED
      BY <3>2, <3>3, <2>s
  <2>r. RefTypes'
    BY <2>s, <1>SameEnts
  <2> QED
    BY <2>l, <2>b, <2>r DEF Good
<1>IputFree. IputFree(t) => Good(t)
  <2> HAVE IputFree(t)
  <2> USE Zenon
  <2> puts[t] # << >> /\ Head(puts[t]) \in Inum /\ Tail(puts[t]) \in Seq(Inum)
    BY Has DEF IputFree, Puts
  <2>l. Local(t)
    <3> CallMoves(t)
      BY <1>SameCall DEF IputFree
    <3> "drop" \in DpPlace \cup IpPlace \cup Puts
      BY DEF Puts
    <3> PutMoves(t)
      BY <1>GoMoves DEF IputFree
    <3> PtrMoves(t)
      BY Constants DEF IputFree, PtrMoves, Moves, ThreadTypes
    <3> KeptMoves(t)
      BY DEF IputFree, KeptMoves, Moves, ThreadTypes
    <3> QED
      BY DEF Local
  <2>s. LET i == Head(puts[t])
        IN
        /\ At(t, "drop", op[t], path[t], ip[t], dp[t], old[t], puts[t], then[t])
        /\ disk' = Set(disk, i, [type |-> "free", nlink |-> 0]) /\ ents' = Set(ents, i, NoEnts)
        /\ copy' = Set(copy, i, NoCopy) /\ lk' = Set(lk, i, NoThread)
        /\ new'[t] = new[t] /\ UNCHANGED <<ref, cwd, fd>>
    BY SMTT(20) DEF IputFree, callVars, Go, Set, ThreadTypes, At, AtEnd
  <2>b. (Pointers(t) /\ Calls(t))' /\ Accounts(t)
    <3> pc[t] \in Puts /\ puts[t] # << >> /\ Len(puts[t]) <= 2
      BY DEF IputFree, Puts, Pointers
    <3>2. CASE At(t, "drop", op[t], path[t], ip[t], dp[t], old[t], puts[t], then[t]) /\ UNCHANGED ref
      <4>1. (Pointers(t) /\ Calls(t))'
        <5>1. pc'[t] \in Puts /\ puts'[t] = puts[t] /\ new'[t] = new[t] /\ UNCHANGED <<cwd, fd>>
              /\ At(t, pc'[t], op[t], path[t], ip[t], dp[t], old[t], puts'[t], then[t])
          BY <3>2, <2>s DEF At, Puts
        <5> QED
          BY <5>1, <1>PutControl
      <4>2. ASSUME NEW j \in Inum PROVE ref'[j] = ref[j] + Own(t, j)' - Own(t, j)
        <5>1. Own(t, j)' = Own(t, j) /\ ref'[j] = ref[j]
          BY <3>2, <2>s DEF At, Own
        <5>2. Own(t, j) \in Int /\ ref[j] \in Int
          BY OwnInt DEF RefTypes
        <5> QED
          BY SMT, <5>1, <5>2
      <4> QED
        BY <4>1, <4>2 DEF Accounts
    <3> QED
      BY <3>2, <2>s
  <2>r. RefTypes'
    <3>1. Set(ents, Head(puts[t]), NoEnts) \in [Inum -> [Elem -> Pointer]]
      BY <1>EntsTypes
    <3> QED
      BY <2>s, <3>1 DEF RefTypes
  <2> QED
    BY <2>l, <2>b, <2>r DEF Good
<1>IputDrop. IputDrop(t) => Good(t)
  <2> HAVE IputDrop(t)
  <2> USE Zenon
  <2> puts[t] # << >> /\ Head(puts[t]) \in Inum /\ Tail(puts[t]) \in Seq(Inum)
    BY Has DEF IputDrop, Puts
  <2>l. Local(t)
    <3> CallMoves(t)
      BY <1>SameCall DEF IputDrop
    <3> PutMoves(t)
      BY <1>PutNextMoves DEF IputDrop
    <3> PtrMoves(t)
      BY Constants DEF IputDrop, PtrMoves, Moves, ThreadTypes
    <3> KeptMoves(t)
      BY DEF IputDrop, KeptMoves, Moves, ThreadTypes
    <3> QED
      BY DEF Local
  <2>s. LET i == Head(puts[t])
        IN
        /\ At(t, IF Len(puts[t]) = 1 THEN then[t] ELSE "put", op[t], path[t], ip[t], dp[t], old[t], Tail(puts[t]), then[t])
        /\ Drop(i) /\ new'[t] = new[t] /\ UNCHANGED <<disk, ents, lk, cwd, fd>>
    BY SMTT(20) DEF IputDrop, callVars, Go, Set, ThreadTypes, At, AtEnd
  <2>b. (Pointers(t) /\ Calls(t))' /\ Accounts(t)
    <3> pc[t] \in Puts /\ puts[t] # << >> /\ Len(puts[t]) <= 2
      BY DEF IputDrop, Puts, Pointers
    <3> QED
      BY <2>s, <1>PutNextBase
  <2>r. RefTypes'
    BY <2>s, <1>SameEnts
  <2> QED
    BY <2>l, <2>b, <2>r DEF Good
<1>Call. ASSUME NEW o \in Ops, NEW p \in Paths, NEW q \in Paths \cup {<< >>},
            o \notin {"none", "link2"}, o = "link" => q \in Paths, Call(t, o, p, q)
      PROVE  Good(t)
  <2> USE Zenon, <1>Call
  <2> op[t] = "none" /\ pc[t] = "idle"
    BY DEF Calls, Place, Call, Puts
  <2> ip[t] = NoInode /\ dp[t] = NoInode /\ puts[t] = << >> /\ old[t] = NoInode
    BY HasNot DEF IpPlace, DpPlace, Puts
  <2>l. Local(t)
    <3>1. PICK i \in Inum : path' = Set(path, t, Elements(p)) /\ ip' = Set(ip, t, i) /\ Go(t, "walk")
      <4>1. cwd[t] \in Inum
        BY DEF ThreadTypes
      <4> QED
        BY <4>1, Constants DEF Call, Start
    <3> Elements(p) \in Seq(Elem) /\ i \in Pointer
      BY PathAssumption, Constants DEF Elem
    <3> CallMoves(t)
      BY <3>1 DEF CallMoves, Moves, ThreadTypes, Call
    <3> PutMoves(t)
      <4>1. "walk" \in DpPlace \cup IpPlace \cup Puts
        BY DEF IpPlace
      <4> QED
        BY <3>1, <4>1, <1>GoMoves DEF Call
    <3> PtrMoves(t) /\ KeptMoves(t)
      BY <3>1 DEF PtrMoves, KeptMoves, Moves, ThreadTypes, Call
    <3> QED
      BY DEF Local
  <2>s. LET i == IF Absolute(p) THEN ROOTINO ELSE cwd[t] IN
        /\ At(t, "walk", o, Elements(p), i, NoInode, NoInode, << >>, then[t])
        /\ new'[t] = q /\ (o \in {"open", "create"} => fd[t] = NoInode)
        /\ ref' = Got(i) /\ UNCHANGED <<disk, ents, copy, lk, cwd, fd>>
    BY SMTT(20) DEF Call, Start, Go, Set, ThreadTypes, At
  <2>b. (Pointers(t) /\ Calls(t))' /\ Accounts(t)
    <3>i. PICK i \in Inum : i = IF Absolute(p) THEN ROOTINO ELSE cwd[t]
      BY Constants DEF ThreadTypes
    <3> ip[t] = NoInode /\ op[t] = "none"
      BY HasNot DEF Call, IpPlace, Puts, Calls, Place
    <3> dp[t] = NoInode /\ puts[t] = << >> /\ old[t] = NoInode
      BY HasNot DEF Call, DpPlace, Puts
    <3> Elements(p) # << >> /\ then[t] \in After
      BY PathAssumption DEF Pointers
    <3> \A j \in Inum : Got(i)[j] = ref[j] + One(i = j)
      BY <1>GotFact
    <3> cwd[t] \in Inum /\ fd[t] \in Pointer /\ fd \in [Thread -> Pointer] /\ cwd \in [Thread -> Inum]
      BY DEF ThreadTypes
    <3>7. CASE /\ At(t, "walk", o, Elements(p), i, NoInode, NoInode, << >>, then[t])
               /\ new'[t] = q /\ (o \in {"open", "create"} => fd[t] = NoInode)
               /\ ref' = Got(i) /\ UNCHANGED <<cwd, fd>>
      <4>2. (Pointers(t) /\ Calls(t))'
        <5>1. At(t, "walk", o, Elements(p), i, NoInode, NoInode, << >>, then[t])
          BY <3>7
        <5>4. Fit("walk", o, i, NoInode, NoInode)
          BY <3>7, Apart DEF Fit, IpPlace, DpPlace
        <5>2. Pointers(t)' /\ Place(t)' = "walk"
          BY <5>1, <5>4, <1>GoesAt DEF Puts
        <5>5. Suits("walk", o, Elements(p), new'[t], fd'[t])
          BY <3>7 DEF Suits, Calls, NameiParent, Ops
        <5>3. Calls(t)'
          BY <5>1, <5>2, <5>5, <1>CallsAt
        <5> QED
          BY <5>2, <5>3
      <4>3. ASSUME NEW j \in Inum PROVE ref'[j] = ref[j] + Own(t, j)' - Own(t, j)
        <5>2. InPuts(<< >>, j) = 0
          BY <1>InPutsFacts
        <5>3. OwnThen(t, j, i, NoInode, NoInode, << >>)
          BY <3>7, <1>OwnAt
        <5>4. ref[j] \in Int
          BY DEF RefTypes
        <5>5. ref'[j] = ref[j] + One(i = j)
          BY <3>7
        <5>6. Empty(t, j)
          BY <5>2 DEF Empty
        <5>7. Takes(i, j)
          BY <5>4, <5>5 DEF Takes
        <5> QED
          BY ZenonT(30), <5>2, <5>3, <5>6, <5>7, OwnStarts
      <4> QED
        BY <4>2, <4>3 DEF Accounts
    <3> QED
      BY <3>i, <3>7, <2>s
  <2>r. RefTypes'
    <3>1. PICK i \in Inum : ref' = Got(i) /\ UNCHANGED ents
      BY <2>s, Constants DEF ThreadTypes
    <3> QED
      BY <3>1, <1>SameEnts
  <2> QED
    BY <2>l, <2>b, <2>r DEF Good
<1>LocalFrame. ASSUME Local(t)
      PROVE  ThreadTypes' /\ Others(t)
  <2> USE Zenon, <1>LocalFrame
  <2>1. /\ Kept(pc, pc', Label, t)
        /\ Kept(op, op', Ops, t)
        /\ Kept(path, path', Seq(Elem), t)
        /\ Kept(new, new', Paths \cup {<< >>}, t)
        /\ Kept(ip, ip', Pointer, t)
        /\ Kept(dp, dp', Pointer, t)
        /\ Kept(old, old', Pointer, t)
        /\ Kept(puts, puts', Seq(Inum), t)
        /\ Kept(then, then', Label, t)
        /\ Kept(cwd, cwd', Inum, t)
        /\ Kept(fd, fd', Pointer, t)
    BY <1>MovesFrame DEF Local, CallMoves, PutMoves, PtrMoves, KeptMoves
  <2>2. ThreadTypes'
    BY <2>1 DEF ThreadTypes, Kept
  <2>3. Others(t)
    BY <2>1 DEF Others, Kept
  <2> QED
    BY <2>2, <2>3
<1>ControlFrame. ASSUME Others(t), (Pointers(t) /\ Calls(t))'
      PROVE  ControlInv'
  <2> USE Zenon, <1>ControlFrame
  <2> SUFFICES ASSUME NEW u \in Thread, u # t
               PROVE  (Pointers(u) /\ Calls(u))'
    BY DEF ControlInv
  <2>1. Pointers(u) /\ Calls(u)
    BY DEF ControlInv
  <2>2. /\ pc'[u] = pc[u] /\ op'[u] = op[u] /\ path'[u] = path[u] /\ new'[u] = new[u]
        /\ ip'[u] = ip[u] /\ dp'[u] = dp[u] /\ old'[u] = old[u]
        /\ puts'[u] = puts[u] /\ then'[u] = then[u] /\ cwd'[u] = cwd[u] /\ fd'[u] = fd[u]
    BY DEF Others
  <2>3. Place(u)' = Place(u)
    BY <2>2 DEF Place
  <2>4. Pointers(u)'
    BY <2>1, <2>2, <2>3 DEF Pointers
  <2>5. Calls(u)'
    BY <2>1, <2>2, <2>3 DEF Calls
  <2> QED
    BY <2>4, <2>5
<1>Steps. Step(t) => Good(t)
  BY Zenon, <1>Walk, <1>Open, <1>Chdir, <1>Link, <1>Link2, <1>UndoLink, <1>Ialloc, <1>Exists, <1>Create, <1>Created, <1>Bad, <1>Unlink, <1>Unlink1, <1>Unlink2, <1>Iput, <1>IputFree, <1>IputDrop
  DEF Step
<1>Ends. Ends(t)
  BY Zenon, <1>Walk, <1>Link2, <1>Ialloc, <1>Unlink DEF Ends
<1> QED
  BY Zenon, <1>Call, <1>Close, <1>Steps, <1>Ends, <1>LocalFrame, <1>ControlFrame DEF Good, CallStep

-----------------------------------------------------------------------------
(* The table and the locks.  nlink is only shown to be an integer here.    *)
Dinodes == [type : {"free", "file", "dir"}, nlink : Int]

TableTypes ==
    /\ disk \in [Inum -> Dinodes] /\ copy \in [Inum -> Dinodes \cup {NoCopy}]
    /\ lk \in [Inum -> Thread \cup {NoThread}]

(* Which thread has an inode locked.                                       *)
Owns(t, i) ==
    \/ Place(t) \in {"create", "unlink", "bad"} /\ dp[t] = i
    \/ Place(t) \in {"created", "unlink2"} /\ ip[t] = i
    \/ pc[t] = "free" /\ Head(puts[t]) = i

LockInv == \A i \in Inum, t \in Thread : lk[i] = t <=> Owns(t, i)

(* A valid copy is what is on disk, and a locked inode has one.            *)
CopyOK(i) ==
    /\ copy[i] # NoCopy => copy[i] = disk[i] /\ disk[i].type # "free"
    /\ lk[i] # NoThread => copy[i] # NoCopy

CopyInv == \A i \in Inum : CopyOK(i)

(* While iput() frees an inode, only walks may still come to point to it.  *)
Window(u) ==
    pc[u] = "free" =>
        /\ ip[u] # Head(puts[u])
        /\ \A v \in Thread : dp[v] # Head(puts[u]) /\ old[v] # Head(puts[u])

WindowInv == \A u \in Thread : Window(u)

Table == TableTypes /\ LockInv /\ CopyInv /\ WindowInv

(* A thread with no lock.                                                  *)
Quiet(t) == pc[t] # "free" /\ \A j \in Inum : ~Owns(t, j)

UpBoth(i, d) ==
    \E k \in Int, z \in Int :
        /\ copy' = [copy EXCEPT ![i] = [Loaded(i) EXCEPT !.nlink = k], ![d].nlink = @ + z]
        /\ disk' = [disk EXCEPT ![i] = [Loaded(i) EXCEPT !.nlink = k], ![d].nlink = @ + z]

(* Directories.  The parent directory of a call and the inode that         *)
(* sys_link() links are what namex() found them to be, and only a          *)
(* directory has entries.                                                  *)
DirOf(t) ==
    /\ dp[t] # NoInode => disk[dp[t]].type = "dir"
    /\ old[t] # NoInode => disk[old[t]].type = "file"

Bare(i) == disk[i].type # "dir" => \A n \in Name : ents[i][n] = NoInode

DirInv == (\A t \in Thread : DirOf(t)) /\ (\A i \in Inum : Bare(i))

(* What create() and sys_unlink() found in the locked parent still holds.  *)
Named(t) ==
    /\ pc[t] = "unlink" => Head(path[t]) \in Name /\ ents[dp[t]][Head(path[t])] = ip[t]
    /\ pc[t] = "create" => ents[dp[t]][Head(path[t])] = NoInode

NameInv == \A t \in Thread : Named(t)

(* The tree of directories, with the entry that create() is about to make: *)
(* every set of inodes has one without an edge into the set.               *)
Edge(d, e) ==
    \/ \E n \in Name : ents[d][n] = e
    \/ \E t \in Thread : pc[t] = "create" /\ dp[t] = d /\ ip[t] = e

Acyclic == \A D \in SUBSET Inum : D # {} => \E d \in D : \A e \in D : ~Edge(d, e)

Tree == DirInv /\ NameInv /\ Acyclic

(* What a step of t adds to the edges.                                     *)
NewEdge(t, d, e) ==
    \/ \E n \in Name : ents'[d][n] = e /\ ents[d][n] # e
    \/ pc'[t] = "create" /\ dp'[t] = d /\ ip'[t] = e

Framed(t) ==
    /\ \A j \in Inum : \/ disk'[j].type = disk[j].type
                       \/ \A u \in Thread \ {t} : dp[u] # j /\ old[u] # j
    /\ \A j \in Inum : ents'[j] = ents[j] \/ lk[j] \in {t, NoThread}

(* A step that only removes entries and that does not get to create().     *)
Shrunk == \A j \in Inum, n \in Name : ents'[j][n] \in {ents[j][n], NoInode}

TypesKept == \A j \in Inum : disk'[j].type = disk[j].type

(* The disk and the directories after a step.                              *)
Relinked(i, k) ==
    \A j \in Inum : /\ disk'[j].type = disk[j].type
                    /\ disk'[j].nlink = disk[j].nlink + IF j = i THEN k ELSE 0

Linked(d, n, i) ==
    \A j \in Inum, m \in Name : ents'[j][m] = IF j = d /\ m = n THEN i ELSE ents[j][m]

EntsLocked(t) == \A j \in Inum : ents'[j] = ents[j] \/ lk[j] \in {t, NoThread}

UpTo(i, d, k, z) ==
    \A j \in Inum : /\ disk'[j].type = disk[j].type
                    /\ disk'[j].nlink = IF j = i THEN k ELSE disk[j].nlink + IF j = d THEN z ELSE 0

(* The two ends of create(): the entry is made, or nothing is left of it.  *)
Makes(t) ==
    /\ At(t, "put", op[t], path[t], ip[t], NoInode, NoInode, <<dp[t]>>, "created")
    /\ UpTo(ip[t], dp[t], 1, IF op[t] = "mkdir" THEN 1 ELSE 0)
    /\ Linked(dp[t], Head(path[t]), ip[t])

Fails(t) ==
    /\ At(t, "put", op[t], path[t], NoInode, dp[t], NoInode, <<ip[t]>>, "bad")
    /\ UpTo(ip[t], dp[t], 0, 0)
    /\ \A j \in Inum, m \in Name : ents'[j][m] = ents[j][m]

Removes(t) ==
    /\ At(t, "put", op[t], path[t], ip[t], NoInode, NoInode, <<dp[t]>>, "unlink2")
    /\ Relinked(dp[t], IF disk[ip[t]].type = "dir" THEN -1 ELSE 0)
    /\ Linked(dp[t], Head(path[t]), NoInode)
    /\ disk[ip[t]].type = "dir" => isdirempty(ip[t])

Leaves(t) ==
    /\ At(t, "put", op[t], path[t], NoInode, dp[t], NoInode, <<ip[t]>>, "bad")
    /\ UNCHANGED <<disk, ents>>

LEMMA OwnsNow ==
    ASSUME NEW t \in Thread, NEW i
    PROVE  /\ pc[t] \in {"idle", "walk", "found", "parent", "exists", "undo"} => ~Owns(t, i)
           /\ pc[t] \in {"create", "unlink", "bad"} => (Owns(t, i) <=> dp[t] = i)
           /\ pc[t] \in {"created", "unlink2"} => (Owns(t, i) <=> ip[t] = i)
  BY DEF Owns, Place, Puts

LEMMA AcyclicLess ==
    ASSUME Acyclic, \A d, e \in Inum : Edge(d, e)' => Edge(d, e)
    PROVE  Acyclic'
<1> SUFFICES ASSUME NEW D \in SUBSET Inum, D # {} PROVE \E d \in D : \A e \in D : ~Edge(d, e)'
  BY Zenon DEF Acyclic
<1>1. PICK d \in D : \A e \in D : ~Edge(d, e)
  BY Zenon DEF Acyclic
<1> QED
  BY Zenon, <1>1

(* The only reference to the inode that t puts is the one that is put.     *)
Alone(t) ==
    \A i \in Inum : pc[t] \in Puts /\ Head(puts[t]) = i /\ ref[i] <= 1 =>
        /\ ref[i] = 1
        /\ \A u \in Thread : ip[u] # i /\ dp[u] # i /\ old[u] # i /\ cwd[u] # i /\ fd[u] # i
        /\ \A u \in Thread : u # t /\ pc[u] \in Puts => Head(puts[u]) # i
        /\ Tail(puts[t]) # << >> => Head(Tail(puts[t])) # i

(* iput() of the only reference to an inode: nobody else has it locked.    *)
LEMMA PutUnlocked ==
    ASSUME Base, TableTypes, LockInv, NEW t \in Thread, Alone(t), pc[t] \in {"put", "drop"}, NEW i \in Inum,
           Head(puts[t]) = i, ref[i] <= 1
    PROVE  lk[i] = NoThread
<1> USE Zenon
<1>1. lk[i] \in Thread \cup {NoThread}
  BY DEF TableTypes
<1>2. ASSUME NEW u \in Thread, lk[i] = u PROVE FALSE
  <2>1. Owns(u, i)
    BY <1>2 DEF LockInv
  <2>2. pc[t] \in Puts
    BY DEF Puts
  <2>3. pc[u] = "free" /\ Head(puts[u]) = i
    BY <2>1, <2>2 DEF Owns, Alone
  <2>4. u # t /\ pc[u] \in Puts
    BY <2>3 DEF Puts
  <2> QED
    BY <2>2, <2>3, <2>4 DEF Alone
<1> QED
  BY <1>1, <1>2

(* A step of thread t keeps the table, the locks and the tree.             *)
LEMMA StepSafe ==
    ASSUME Base, Table, Tree, NEW t \in Thread, Others(t), Alone(t), Ends(t)
    PROVE  CallStep(t) \/ Close(t) \/ Step(t) => Table' /\ Tree'
<1> ThreadTypes /\ RefTypes /\ Pointers(t) /\ Calls(t)
  BY Zenon DEF Base, ControlInv
<1> TableTypes /\ LockInv /\ CopyInv /\ WindowInv
  BY Zenon DEF Table
<1> DirInv /\ NameInv /\ Acyclic /\ NoThread \notin Thread
  BY Zenon, PathAssumption DEF Tree
<1>Ints. 0 \in Int /\ 1 \in Int /\ -1 \in Int /\ \A x : x = 1 => x <= 1
    OBVIOUS
<1>DinodeFacts. /\ NoCopy \notin Dinodes
                /\ \A c \in Dinodes : c.type # "none" /\ c.nlink \in Int
                /\ [type |-> "free", nlink |-> 0] \in Dinodes
    BY DEF NoCopy, Dinodes
<1>LinksFact. ASSUME NEW c \in Dinodes, NEW k \in Int
      PROVE  Links(c, k) \in Dinodes /\ Links(c, k).type = c.type /\ Links(c, k).nlink = c.nlink + k
  BY <1>LinksFact DEF Dinodes, Links
<1>NewFact. ASSUME NEW i
      PROVE  NewDinode(t, i) \in Dinodes /\ NewDinode(t, i).type # "free" /\ NewDinode(t, i).nlink = 0
  BY <1>NewFact DEF Dinodes, NewDinode
<1>LoadedIs. ASSUME NEW i \in Inum
      PROVE  /\ Loaded(i) = disk[i] /\ disk[i] \in Dinodes /\ disk[i] # NoCopy
             /\ ~NoType(i) => disk[i].type # "free"
  <2> USE <1>LoadedIs
  <2>1. disk[i] \in Dinodes /\ disk[i] # NoCopy
    BY Zenon, <1>DinodeFacts DEF TableTypes
  <2>2. CopyOK(i)
    BY Zenon DEF CopyInv
  <2> QED
    BY Zenon, <2>1, <2>2 DEF Loaded, NoType, CopyOK
<1>LockFrame. ASSUME \A i \in Inum : lk'[i] = t <=> Owns(t, i)',
            \A i \in Inum : \A u \in Thread \ {t} : lk'[i] = u <=> lk[i] = u
      PROVE  LockInv'
  <2> USE Zenon, <1>LockFrame
  <2> SUFFICES ASSUME NEW i \in Inum, NEW u \in Thread, u # t PROVE lk'[i] = u <=> Owns(u, i)'
    BY DEF LockInv
  <2>1. pc'[u] = pc[u] /\ then'[u] = then[u] /\ dp'[u] = dp[u] /\ ip'[u] = ip[u] /\ puts'[u] = puts[u]
    BY DEF Others
  <2>2. Owns(u, i)' <=> Owns(u, i)
    BY <2>1 DEF Owns, Place
  <2> QED
    BY <2>2 DEF LockInv
<1>WindowFrame. ASSUME Window(t)', dp'[t] \in {dp[t], NoInode} \/ lk[dp'[t]] = NoThread,
            old'[t] \in {old[t], NoInode} \/ lk[old'[t]] = NoThread
      PROVE  WindowInv'
  <2> USE Zenon, <1>WindowFrame
  <2> SUFFICES ASSUME NEW u \in Thread, u # t, pc'[u] = "free" PROVE Window(u)'
    BY DEF WindowInv, Window
  <2>1. pc'[u] = pc[u] /\ ip'[u] = ip[u] /\ puts'[u] = puts[u] /\ pc[u] = "free"
    BY DEF Others
  <2>2. Window(u) /\ Head(puts[u]) \in Inum
    BY <2>1, Has DEF WindowInv, Base, ControlInv, Puts
  <2>3. lk[Head(puts[u])] = u
    BY <2>1, <2>2 DEF LockInv, Owns
  <2>4. dp'[t] # Head(puts[u]) /\ old'[t] # Head(puts[u])
    BY <2>1, <2>2, <2>3, Apart DEF Window
  <2>5. \A v \in Thread \ {t} : dp'[v] = dp[v] /\ old'[v] = old[v]
    BY DEF Others
  <2> QED
    BY <2>1, <2>2, <2>4, <2>5 DEF Window
(* The copy and the disk after an ilock().                                 *)
<1>LoadTable. ASSUME NEW i \in Inum, ~NoType(i), copy' = Set(copy, i, Loaded(i)),
            UNCHANGED <<disk, lk>>
      PROVE  TableTypes' /\ CopyInv'
  <2> USE Zenon, <1>LoadTable
  <2>1. Loaded(i) = disk[i] /\ disk[i] \in Dinodes /\ disk[i] # NoCopy /\ disk[i].type # "free"
    BY <1>LoadedIs
  <2>2. TableTypes'
    BY <2>1 DEF TableTypes, Set
  <2>3. ASSUME NEW j \in Inum PROVE CopyOK(j)'
    <3>1. copy'[j] = IF j = i THEN disk[i] ELSE copy[j]
      BY <2>1 DEF Set, TableTypes
    <3>2. CopyOK(j)
      BY DEF CopyInv
    <3> QED
      BY <2>1, <3>1, <3>2 DEF CopyOK
  <2> QED
    BY <2>2, <2>3 DEF CopyInv
<1>IupdateTable. ASSUME NEW i \in Inum, NEW c \in Dinodes, c.type # "free", Iupdate(i, c),
            lk' = lk \/ lk' = Set(lk, i, NoThread)
      PROVE  TableTypes' /\ CopyInv'
  <2> USE Zenon, <1>IupdateTable
  <2>1. c # NoCopy
    BY <1>DinodeFacts
  <2>2. TableTypes'
    BY <2>1 DEF TableTypes, Set, Iupdate
  <2>3. ASSUME NEW j \in Inum PROVE CopyOK(j)'
    <3>1. copy'[j] = (IF j = i THEN c ELSE copy[j]) /\ disk'[j] = (IF j = i THEN c ELSE disk[j])
      BY DEF Set, TableTypes, Iupdate
    <3>2. CopyOK(j) /\ (j # i => lk'[j] = lk[j])
      BY DEF CopyInv, Set, TableTypes
    <3> QED
      BY <2>1, <3>1, <3>2 DEF CopyOK
  <2> QED
    BY <2>2, <2>3 DEF CopyInv
<1>UnlockTable. ASSUME NEW i \in Inum, UNCHANGED <<disk, copy>>, lk' = Set(lk, i, NoThread)
      PROVE  TableTypes' /\ CopyInv'
  <2> USE <1>UnlockTable
  <2>1. TableTypes'
    BY Zenon DEF TableTypes, Set
  <2>2. ASSUME NEW j \in Inum PROVE CopyOK(j)'
    BY Zenon DEF CopyOK, CopyInv, TableTypes, Set
  <2> QED
    BY Zenon, <2>1, <2>2 DEF CopyInv
<1>DropTable. ASSUME NEW i \in Inum, UNCHANGED <<disk, lk>>, Drop(i), ref[i] = 1 => lk[i] = NoThread
      PROVE  TableTypes' /\ CopyInv'
  <2> USE Zenon, <1>DropTable
  <2>1. (copy' = [copy EXCEPT ![i] = NoCopy] /\ lk[i] = NoThread) \/ copy' = copy
    BY DEF Drop
  <2>2. TableTypes'
    BY <2>1 DEF TableTypes
  <2>3. ASSUME NEW j \in Inum PROVE CopyOK(j)'
    <3>1. CopyOK(j) /\ (copy'[j] = copy[j] \/ (copy'[j] = NoCopy /\ lk[j] = NoThread))
      BY <2>1 DEF CopyInv, TableTypes
    <3> QED
      BY <3>1 DEF CopyOK
  <2> QED
    BY <2>2, <2>3 DEF CopyInv
(* How a thread keeps, takes, gives back or passes on a lock.              *)
<1>KeepLock. ASSUME UNCHANGED lk, \A j \in Inum : Owns(t, j)' <=> Owns(t, j)
      PROVE  LockInv'
  <2> USE <1>KeepLock
  <2>1. \A j \in Inum : lk'[j] = t <=> Owns(t, j)'
    BY Zenon DEF LockInv
  <2> QED
    BY Zenon, <2>1, <1>LockFrame
<1>TakeLock. ASSUME NEW d \in Inum, lk[d] = NoThread, lk' = Set(lk, d, t),
            \A j \in Inum : Owns(t, j)' <=> Owns(t, j) \/ j = d
      PROVE  LockInv'
  <2> USE Zenon, <1>TakeLock
  <2>1. \A j \in Inum : lk'[j] = IF j = d THEN t ELSE lk[j]
    BY DEF Set, TableTypes
  <2>2. \A j \in Inum : lk'[j] = t <=> Owns(t, j)'
    BY <2>1 DEF LockInv
  <2>3. \A j \in Inum : \A u \in Thread \ {t} : lk'[j] = u <=> lk[j] = u
    BY <2>1, PathAssumption
  <2> QED
    BY <2>2, <2>3, <1>LockFrame
<1>GiveLock. ASSUME NEW d \in Inum, lk[d] = t, lk' = Set(lk, d, NoThread),
            \A j \in Inum : Owns(t, j)' <=> Owns(t, j) /\ j # d
      PROVE  LockInv'
  <2> USE Zenon, <1>GiveLock
  <2>1. \A j \in Inum : lk'[j] = IF j = d THEN NoThread ELSE lk[j]
    BY DEF Set, TableTypes
  <2>2. \A j \in Inum : lk'[j] = t <=> Owns(t, j)'
    BY <2>1, PathAssumption DEF LockInv
  <2>3. \A j \in Inum : \A u \in Thread \ {t} : lk'[j] = u <=> lk[j] = u
    BY <2>1, PathAssumption
  <2> QED
    BY <2>2, <2>3, <1>LockFrame
<1>PassLock. ASSUME NEW d \in Inum, NEW i \in Inum, lk[d] = t, lk[i] = NoThread,
            lk' = [lk EXCEPT ![d] = NoThread, ![i] = t],
            \A j \in Inum : (Owns(t, j) <=> j = d) /\ (Owns(t, j)' <=> j = i)
      PROVE  LockInv'
  <2> USE <1>PassLock
  <2>1. \A j \in Inum : lk'[j] = IF j = i THEN t ELSE IF j = d THEN NoThread ELSE lk[j]
    BY DEF TableTypes
  <2>2. \A j \in Inum : lk'[j] = t <=> Owns(t, j)'
    BY Zenon, <2>1, PathAssumption DEF LockInv
  <2>3. \A j \in Inum : \A u \in Thread \ {t} : lk'[j] = u <=> lk[j] = u
    BY Zenon, <2>1, PathAssumption
  <2> QED
    BY Zenon, <2>2, <2>3, <1>LockFrame
<1>EndQuiet. ASSUME NEW s, AtEnd(t, s)
      PROVE  Quiet(t)' /\ dp'[t] = NoInode /\ old'[t] = NoInode
  BY <1>EndQuiet DEF AtEnd, Quiet, Owns, Place, Puts
<1>NowQuiet. ASSUME pc[t] \in {"idle", "walk", "found", "parent", "exists", "undo"}
      PROVE  Quiet(t)
  BY Zenon, <1>NowQuiet, OwnsNow DEF Quiet
<1>QuietWindow. ASSUME Quiet(t)'
      PROVE  Window(t)'
  BY Zenon, <1>QuietWindow DEF Quiet, Window
<1>QuietTable. ASSUME Quiet(t), Quiet(t)', UNCHANGED lk, TableTypes', CopyInv',
            dp'[t] \in {dp[t], NoInode} \/ lk[dp'[t]] = NoThread,
            old'[t] \in {old[t], NoInode} \/ lk[old'[t]] = NoThread
      PROVE  Table'
  <2> USE <1>QuietTable
  <2>1. LockInv'
    BY Zenon, <1>KeepLock DEF Table, Quiet
  <2>2. WindowInv'
    BY Zenon, PathAssumption, <1>QuietWindow, <1>WindowFrame DEF Table
  <2> QED
    BY Zenon, <2>1, <2>2 DEF Table
<1>LoadStep. ASSUME Quiet(t), Quiet(t)', NEW i \in Inum, Ilock(i), copy' = Set(copy, i, Loaded(i)),
            UNCHANGED <<disk, lk>>, dp'[t] \in {dp[t], NoInode, i}, old'[t] \in {old[t], NoInode, i}
      PROVE  Table'
  <2> USE Zenon, <1>LoadStep
  <2>1. TableTypes' /\ CopyInv'
    BY <1>LoadTable DEF Table, Ilock
  <2>2. lk[i] = NoThread /\ UNCHANGED lk
    BY DEF Ilock
  <2>3. /\ dp'[t] \in {dp[t], NoInode} \/ lk[dp'[t]] = NoThread
        /\ old'[t] \in {old[t], NoInode} \/ lk[old'[t]] = NoThread
    BY <2>2
  <2> QED
    BY <2>1, <2>2, <2>3, <1>QuietTable
(* Of what a thread does after a step that ends in a place without locks.  *)
<1>AtQuiet. ASSUME pc'[t] # "free", Place(t)' \notin {"create", "unlink", "bad", "created", "unlink2"}
      PROVE  Quiet(t)'
  BY Zenon, <1>AtQuiet DEF Quiet, Owns
<1>PlaceAfter. /\ pc'[t] \in Puts => Place(t)' = then'[t]
               /\ pc'[t] \notin Puts => Place(t)' = pc'[t]
    BY Zenon DEF Place
<1>OwnsThen. ASSUME NEW j
      PROVE  /\ pc'[t] \in {"create", "unlink"} \/ (pc'[t] = "put" /\ then'[t] = "bad") =>
                  (Owns(t, j)' <=> dp'[t] = j)
             /\ pc'[t] = "put" /\ then'[t] \in {"created", "unlink2"} => (Owns(t, j)' <=> ip'[t] = j)
  BY <1>OwnsThen DEF Owns, Place, Puts
<1>HolderValid. ASSUME NEW i \in Inum, lk[i] # NoThread
      PROVE  copy[i] = disk[i] /\ disk[i] \in Dinodes /\ disk[i].type # "free"
  BY Zenon, <1>HolderValid DEF TableTypes, CopyInv, CopyOK
<1>TakeTable. ASSUME NEW d \in Inum, Ilock(d), copy' = Set(copy, d, Loaded(d)), lk' = Set(lk, d, t),
            disk' = disk \/ \E i \in FreeInodes : disk' = Set(disk, i, NewDinode(t, i))
      PROVE  TableTypes' /\ CopyInv'
  <2> USE Zenon, <1>TakeTable
  <2>1. Loaded(d) = disk[d] /\ disk[d] \in Dinodes /\ disk[d] # NoCopy /\ disk[d].type # "free"
    BY <1>LoadedIs DEF Ilock
  <2>2. disk' \in [Inum -> Dinodes] /\ \A j \in Inum : disk[j].type = "free" \/ disk'[j] = disk[j]
    <3>1. CASE disk' = disk
      BY <3>1 DEF TableTypes
    <3>2. ASSUME NEW i \in FreeInodes, disk' = Set(disk, i, NewDinode(t, i))
          PROVE  disk' \in [Inum -> Dinodes] /\ \A j \in Inum : disk[j].type = "free" \/ disk'[j] = disk[j]
      <4>1. PICK c \in Dinodes : disk' = Set(disk, i, c)
        BY <3>2, <1>NewFact
      <4>2. i \in Inum /\ disk[i].type = "free"
        BY DEF FreeInodes
      <4> QED
        BY <4>1, <4>2 DEF TableTypes, Set
    <3> QED
      BY <3>1, <3>2
  <2>3. TableTypes'
    BY <2>1, <2>2 DEF TableTypes, Set
  <2>4. ASSUME NEW j \in Inum PROVE CopyOK(j)'
    <3>1. copy'[j] = (IF j = d THEN disk[d] ELSE copy[j]) /\ lk'[j] = (IF j = d THEN t ELSE lk[j])
      BY <2>1 DEF Set, TableTypes
    <3>2. CopyOK(j)
      BY DEF CopyInv
    <3> QED
      BY <2>1, <2>2, <3>1, <3>2 DEF CopyOK
  <2> QED
    BY <2>3, <2>4 DEF CopyInv
<1>UpTable. ASSUME NEW i \in Inum, NEW d \in Inum, i # d, lk[d] # NoThread, ~NoType(i), UpBoth(i, d),
            lk' \in [Inum -> Thread \cup {NoThread}],
            \A j \in Inum : lk'[j] # NoThread => lk[j] # NoThread \/ j = i
      PROVE  TableTypes' /\ CopyInv'
  <2> USE Zenon, <1>UpTable
  <2>k. PICK k \in Int, z \in Int :
          /\ copy' = [copy EXCEPT ![i] = [Loaded(i) EXCEPT !.nlink = k], ![d].nlink = @ + z]
          /\ disk' = [disk EXCEPT ![i] = [Loaded(i) EXCEPT !.nlink = k], ![d].nlink = @ + z]
    BY DEF UpBoth
  <2>1. Loaded(i) = disk[i] /\ disk[i] \in Dinodes /\ disk[i].type # "free"
    BY <1>LoadedIs
  <2>2. copy[d] = disk[d] /\ disk[d] \in Dinodes /\ disk[d].type # "free"
    BY <1>HolderValid
  <2>3. PICK c : c = [disk[i] EXCEPT !.nlink = k]
    OBVIOUS
  <2>4. PICK b : b = [disk[d] EXCEPT !.nlink = disk[d].nlink + z]
    OBVIOUS
  <2>5. c \in Dinodes /\ c.type # "free" /\ c # NoCopy
    BY SMT, <2>1, <2>3 DEF Dinodes, NoCopy
  <2>6. b \in Dinodes /\ b.type # "free" /\ b # NoCopy
    <3>1. disk[d].nlink + z \in Int
      BY SMT, <2>2, <1>DinodeFacts
    <3> QED
      BY SMT, <2>2, <2>4, <3>1 DEF Dinodes, NoCopy
  <2>7. ASSUME NEW j \in Inum
        PROVE  /\ copy'[j] = IF j = i THEN c ELSE IF j = d THEN b ELSE copy[j]
               /\ disk'[j] = IF j = i THEN c ELSE IF j = d THEN b ELSE disk[j]
    BY SMT, <2>k, <2>1, <2>2, <2>3, <2>4 DEF TableTypes
  <2>8. copy' \in [Inum -> Dinodes \cup {NoCopy}] /\ disk' \in [Inum -> Dinodes]
    <3>1. copy' = [j \in Inum |-> copy'[j]] /\ disk' = [j \in Inum |-> disk'[j]]
      BY <2>k DEF TableTypes
    <3>2. \A j \in Inum : copy'[j] \in Dinodes \cup {NoCopy} /\ disk'[j] \in Dinodes
      BY <2>5, <2>6, <2>7 DEF TableTypes
    <3> QED
      BY <3>1, <3>2
  <2>9. ASSUME NEW j \in Inum PROVE CopyOK(j)'
    <3>1. CopyOK(j)
      BY DEF CopyInv
    <3> QED
      BY <2>5, <2>6, <2>7, <3>1 DEF CopyOK
  <2> QED
    BY <2>8, <2>9 DEF TableTypes, CopyInv
<1>RemoveTable. ASSUME NEW i \in Inum, NEW d \in Inum, i # d, lk[d] # NoThread, ~NoType(i),
            NEW k \in Int, copy' = [copy EXCEPT ![i] = Loaded(i), ![d] = Links(@, k)],
            disk' = [disk EXCEPT ![d] = Links(@, k)], lk' \in [Inum -> Thread \cup {NoThread}],
            \A j \in Inum : lk'[j] # NoThread => lk[j] # NoThread \/ j = i
      PROVE  TableTypes' /\ CopyInv'
  <2> USE Zenon, <1>RemoveTable
  <2>1. Loaded(i) = disk[i] /\ disk[i] \in Dinodes /\ disk[i].type # "free" /\ disk[i] # NoCopy
    BY <1>LoadedIs, <1>DinodeFacts
  <2>2. copy[d] = disk[d] /\ disk[d] \in Dinodes /\ disk[d].type # "free"
    BY <1>HolderValid
  <2>4. PICK b : b = Links(disk[d], k)
    OBVIOUS
  <2>6. b \in Dinodes /\ b.type # "free" /\ b # NoCopy
    BY SMT, <2>2, <2>4 DEF Links, Dinodes, NoCopy
  <2>7. ASSUME NEW j \in Inum
        PROVE  /\ copy'[j] = IF j = i THEN disk[i] ELSE IF j = d THEN b ELSE copy[j]
               /\ disk'[j] = IF j = d THEN b ELSE disk[j]
    BY SMT, <2>1, <2>2, <2>4 DEF TableTypes
  <2>8. copy' \in [Inum -> Dinodes \cup {NoCopy}] /\ disk' \in [Inum -> Dinodes]
    <3>1. copy' = [j \in Inum |-> copy'[j]] /\ disk' = [j \in Inum |-> disk'[j]]
      BY DEF TableTypes
    <3>2. \A j \in Inum : copy'[j] \in Dinodes \cup {NoCopy} /\ disk'[j] \in Dinodes
      BY <2>1, <2>6, <2>7 DEF TableTypes
    <3> QED
      BY <3>1, <3>2
  <2>9. ASSUME NEW j \in Inum PROVE CopyOK(j)'
    <3>1. CopyOK(j)
      BY DEF CopyInv
    <3> QED
      BY <2>1, <2>6, <2>7, <3>1 DEF CopyOK
  <2> QED
    BY <2>8, <2>9 DEF TableTypes, CopyInv
(* The thread goes on with its next iput(), or with its call.              *)
<1>NextPut. ASSUME pc[t] \in {"put", "drop"}, pc'[t] = IF Len(puts[t]) = 1 THEN then[t] ELSE "put",
            then'[t] = then[t]
      PROVE  pc'[t] # "free" /\ Place(t)' = Place(t)
  BY <1>NextPut DEF Pointers, After, Place, Puts
<1>AcyclicLeaf. ASSUME NEW i, \A d, e \in Inum : Edge(d, e)' => Edge(d, e) \/ e = i,
            \A e \in Inum : ~Edge(i, e)'
      PROVE  Acyclic'
  <2> USE Zenon, <1>AcyclicLeaf
  <2> SUFFICES ASSUME NEW D \in SUBSET Inum, D # {} PROVE \E d \in D : \A e \in D : ~Edge(d, e)'
    BY DEF Acyclic
  <2>1. PICK d \in D : \A e \in D : ~Edge(d, e)
    BY DEF Acyclic
  <2>2. CASE i \in D
    BY <2>2
  <2>3. CASE i \notin D
    BY <2>1, <2>3
  <2> QED
    BY <2>2, <2>3
<1>EdgeStep. \A d, e \in Inum : Edge(d, e)' => Edge(d, e) \/ NewEdge(t, d, e)
  <2> USE Zenon
  <2> SUFFICES ASSUME NEW d \in Inum, NEW e \in Inum, Edge(d, e)', ~Edge(d, e) PROVE NewEdge(t, d, e)
    OBVIOUS
  <2>1. CASE \E n \in Name : ents'[d][n] = e
    BY <2>1 DEF Edge, NewEdge
  <2>2. CASE \E u \in Thread : pc'[u] = "create" /\ dp'[u] = d /\ ip'[u] = e
    BY <2>2 DEF Edge, NewEdge, Others
  <2> QED
    BY <2>1, <2>2 DEF Edge
<1>Barren. ASSUME NEW i \in Inum, disk[i].type # "dir", NEW e \in Inum
      PROVE  ~Edge(i, e)
  <2> USE <1>Barren
  <2>1. \A n \in Name : ents[i][n] # e
    BY Zenon, Apart DEF DirInv, Bare
  <2>2. \A u \in Thread : dp[u] # i
    BY Zenon, Apart DEF DirInv, DirOf
  <2> QED
    BY Zenon, <2>1, <2>2 DEF Edge
<1>TreeFrame. ASSUME Framed(t), DirOf(t)', Named(t)', \A j \in Inum : Bare(j)', Acyclic'
      PROVE  Tree'
  <2> USE Zenon, <1>TreeFrame
  <2>1. ASSUME NEW u \in Thread, u # t PROVE DirOf(u)'
    <3>1. dp'[u] = dp[u] /\ old'[u] = old[u] /\ dp[u] \in Pointer /\ old[u] \in Pointer
      BY <2>1 DEF Others, Base, ThreadTypes
    <3>2. dp[u] # NoInode => dp[u] \in Inum /\ disk'[dp[u]].type = disk[dp[u]].type
      BY <2>1, <3>1 DEF Framed, Pointer
    <3>3. old[u] # NoInode => old[u] \in Inum /\ disk'[old[u]].type = disk[old[u]].type
      BY <2>1, <3>1 DEF Framed, Pointer
    <3> QED
      BY <3>1, <3>2, <3>3 DEF Tree, DirInv, DirOf
  <2>2. ASSUME NEW u \in Thread, u # t PROVE Named(u)'
    <3>1. dp'[u] = dp[u] /\ ip'[u] = ip[u] /\ pc'[u] = pc[u] /\ path'[u] = path[u]
      BY <2>2 DEF Others
    <3>2. ASSUME pc[u] \in {"create", "unlink"} PROVE ents'[dp[u]] = ents[dp[u]]
      <4>1. dp[u] \in Inum
        BY <3>2, Has DEF Base, ControlInv, DpPlace
      <4>2. lk[dp[u]] = u
        BY <3>2, <4>1, OwnsNow DEF Table, LockInv
      <4> QED
        BY <2>2, <4>1, <4>2, PathAssumption DEF Framed
    <3>3. pc[u] = "create" \/ pc[u] = "unlink" => ents'[dp[u]] = ents[dp[u]]
      BY <3>2
    <3> QED
      BY <3>1, <3>3 DEF Tree, NameInv, Named
  <2> QED
    BY <2>1, <2>2 DEF Tree, DirInv, NameInv
<1>ShrunkTree. ASSUME TypesKept, Shrunk, \A j \in Inum : ents'[j] = ents[j] \/ lk[j] \in {t, NoThread},
            DirOf(t)', Named(t)', pc'[t] # "create"
      PROVE  Tree'
  <2> USE Zenon, <1>ShrunkTree
  <2>1. Framed(t)
    BY DEF Framed, TypesKept
  <2>2. \A j \in Inum : Bare(j)'
    BY DEF Shrunk, TypesKept, Bare, Tree, DirInv
  <2>3. ASSUME NEW d \in Inum, NEW e \in Inum, Edge(d, e)' PROVE Edge(d, e)
    <3>1. \A n \in Name : ents'[d][n] = e => ents[d][n] = e
      BY Apart DEF Shrunk
    <3>2. ~NewEdge(t, d, e)
      BY <3>1 DEF NewEdge
    <3> QED
      BY <2>3, <3>2, <1>EdgeStep
  <2> QED
    BY <2>1, <2>2, <2>3, AcyclicLess, <1>TreeFrame DEF Tree
<1>CalmTree. ASSUME TypesKept, UNCHANGED ents, pc'[t] \notin {"create", "unlink"},
            dp'[t] \in {dp[t], NoInode} \/ (disk[dp'[t]].type = "dir" /\ dp'[t] \in Inum),
            old'[t] \in {old[t], NoInode} \/ (disk[old'[t]].type = "file" /\ old'[t] \in Inum)
      PROVE  Tree'
  <2> USE Zenon, <1>CalmTree
  <2>1. Shrunk /\ \A j \in Inum : ents'[j] = ents[j] \/ lk[j] \in {t, NoThread}
    BY DEF Shrunk
  <2>2. Named(t)' /\ pc'[t] # "create"
    BY DEF Named
  <2>3. dp[t] \in Pointer /\ old[t] \in Pointer
    BY DEF Base, ThreadTypes
  <2>4. dp'[t] # NoInode => disk'[dp'[t]].type = "dir"
    BY <2>3 DEF TypesKept, Pointer, Tree, DirInv, DirOf
  <2>5. old'[t] # NoInode => disk'[old'[t]].type = "file"
    BY <2>3 DEF TypesKept, Pointer, Tree, DirInv, DirOf
  <2> QED
    BY <2>1, <2>2, <2>4, <2>5, <1>ShrunkTree DEF DirOf
<1>SameTypes. ASSUME UNCHANGED disk
      PROVE  TypesKept
  BY Zenon, <1>SameTypes DEF TypesKept
<1>RelinkedTypes. ASSUME NEW i, NEW k, Relinked(i, k)
      PROVE  TypesKept
  BY Zenon, <1>RelinkedTypes DEF TypesKept, Relinked
<1>LinksDisk. ASSUME NEW i \in Inum, NEW k \in Int, disk' = [disk EXCEPT ![i] = Links(disk[i], k)]
      PROVE  Relinked(i, k)
  <2> USE <1>LinksDisk
  <2>1. Links(disk[i], k).type = disk[i].type /\ Links(disk[i], k).nlink = disk[i].nlink + k
    BY DEF Links, TableTypes, Dinodes
  <2>2. ASSUME NEW j \in Inum PROVE disk'[j] = IF j = i THEN Links(disk[i], k) ELSE disk[j]
    BY Zenon DEF TableTypes
  <2>3. ASSUME NEW j \in Inum PROVE disk[j].nlink \in Int
    BY DEF TableTypes, Dinodes
  <2> QED
    BY <2>1, <2>2, <2>3 DEF Relinked
<1>IupdateDisk. ASSUME NEW i \in Inum, NEW k \in Int, NEW c, c = disk[i], Iupdate(i, Links(c, k))
      PROVE  Relinked(i, k)
  <2> USE <1>IupdateDisk
  <2>1. disk' = [disk EXCEPT ![i] = Links(disk[i], k)]
    BY Zenon DEF Iupdate, Set
  <2> QED
    BY Zenon, <2>1, <1>LinksDisk
<1>UpDisk. ASSUME NEW i \in Inum, NEW d \in Inum, i # d, Loaded(i) = disk[i], NEW k \in Int,
            NEW z \in Int,
            disk' = [disk EXCEPT ![i] = [Loaded(i) EXCEPT !.nlink = k], ![d].nlink = @ + z]
      PROVE  UpTo(i, d, k, z)
  <2> USE Zenon, <1>UpDisk
  <2>1. ASSUME NEW j \in Inum
        PROVE  disk'[j] = IF j = i THEN [disk[i] EXCEPT !.nlink = k]
                          ELSE IF j = d THEN [disk[d] EXCEPT !.nlink = @ + z] ELSE disk[j]
    BY SMT DEF TableTypes
  <2>3. ASSUME NEW j \in Inum PROVE disk[j] \in Dinodes
    BY DEF TableTypes
  <2>4. ASSUME NEW j \in Inum
        PROVE  /\ disk'[j].type = disk[j].type
               /\ disk'[j].nlink = IF j = i THEN k ELSE disk[j].nlink + IF j = d THEN z ELSE 0
    <3>1. disk[j] \in Dinodes /\ disk[j].nlink \in Int
      BY <2>3, <1>DinodeFacts
    <3>2. CASE j = i
      <4>1. disk'[j] = [disk[j] EXCEPT !.nlink = k]
        BY <2>1, <3>2
      <4> QED
        BY SMT, <3>1, <3>2, <4>1 DEF Dinodes
    <3>3. CASE j # i /\ j = d
      <4>1. disk'[j] = [disk[j] EXCEPT !.nlink = @ + z]
        BY <2>1, <3>3
      <4> QED
        BY SMT, <3>1, <3>3, <4>1 DEF Dinodes
    <3>4. CASE j # i /\ j # d
      <4>1. disk'[j] = disk[j]
        BY <2>1, <3>4
      <4> QED
        BY SMT, <3>1, <3>4, <4>1
    <3> QED
      BY <3>2, <3>3, <3>4
  <2> QED
    BY <2>4 DEF UpTo
<1>UpTypes. ASSUME NEW i, NEW d, NEW k, NEW z, UpTo(i, d, k, z)
      PROVE  TypesKept
  BY Zenon, <1>UpTypes DEF TypesKept, UpTo
<1>DirlinkFact. ASSUME NEW d \in Inum, NEW n \in Elem, NEW i, ents' = dirlink(d, n, i)
      PROVE  Linked(d, n, i) /\ \A j \in Inum \ {d} : ents'[j] = ents[j]
  BY <1>DirlinkFact DEF RefTypes, dirlink, Linked, Elem
<1>TwoEnts. ASSUME NEW i \in Inum, NEW d \in Inum, i # d, NEW n \in Elem, NEW y,
            ents' = [ents EXCEPT ![i][DotDot] = y, ![d][n] = i]
      PROVE  Linked(d, n, i) /\ \A j \in Inum \ {i, d} : ents'[j] = ents[j]
  BY <1>TwoEnts, PathAssumption DEF RefTypes, Elem, Linked
<1>TwoLocks. ASSUME NEW i \in Inum, NEW d \in Inum, lk' = [lk EXCEPT ![d] = NoThread, ![i] = t]
      PROVE  /\ lk' \in [Inum -> Thread \cup {NoThread}]
             /\ \A j \in Inum : lk'[j] # NoThread => lk[j] # NoThread \/ j = i
  BY <1>TwoLocks DEF TableTypes
<1>EndTree. ASSUME NEW s, AtEnd(t, s), TypesKept, UNCHANGED ents
      PROVE  Tree'
  <2> USE <1>EndTree
  <2>1. pc'[t] \notin {"create", "unlink"} /\ dp'[t] = NoInode /\ old'[t] = NoInode
    BY DEF AtEnd
  <2> QED
    BY Zenon, <2>1, <1>CalmTree
(* create() and sys_unlink() with the parent and the inode locked.         *)
<1>HeldPair. ASSUME pc[t] \in {"create", "unlink"}, Ilock(ip[t])
      PROVE  /\ ip[t] \in Inum /\ dp[t] \in Inum /\ ip[t] # dp[t] /\ lk[dp[t]] = t /\ lk[ip[t]] = NoThread
             /\ Loaded(ip[t]) = disk[ip[t]] /\ disk[ip[t]].type # "free" /\ disk[ip[t]] \in Dinodes
             /\ copy[dp[t]] = disk[dp[t]] /\ disk[dp[t]].type # "free" /\ disk[dp[t]] \in Dinodes
             /\ Head(path[t]) \in Elem
  <2> USE Zenon, <1>HeldPair
  <2>1. ip[t] \in Inum /\ dp[t] \in Inum /\ Head(path[t]) \in Elem
    BY Has DEF Base, ControlInv, IpPlace, DpPlace
  <2>2. lk[dp[t]] = t
    BY <2>1, OwnsNow DEF Table, LockInv
  <2>3. lk[ip[t]] = NoThread /\ ip[t] # dp[t] /\ lk[dp[t]] # NoThread
    BY <2>2, PathAssumption DEF Ilock
  <2>4. Loaded(ip[t]) = disk[ip[t]] /\ disk[ip[t]].type # "free" /\ disk[ip[t]] \in Dinodes
    BY <2>1, <1>LoadedIs DEF Ilock, Table
  <2>5. copy[dp[t]] = disk[dp[t]] /\ disk[dp[t]].type # "free" /\ disk[dp[t]] \in Dinodes
    BY <2>1, <2>3, <1>HolderValid DEF Table
  <2> QED
    BY <2>1, <2>2, <2>3, <2>4, <2>5
<1>LinkedTree. ASSUME TypesKept, EntsLocked(t), Acyclic', DirOf(t)', Named(t)', NEW d \in Inum, NEW n,
            NEW i, Linked(d, n, i), disk[d].type = "dir"
      PROVE  Tree'
  <2> USE <1>LinkedTree
  <2>1. Framed(t)
    BY Zenon DEF Framed, TypesKept, EntsLocked
  <2>2. \A j \in Inum : Bare(j)'
    BY Zenon DEF Linked, TypesKept, Bare, Tree, DirInv
  <2> QED
    BY Zenon, <2>1, <2>2, <1>TreeFrame
<1>DropStep. ASSUME pc[t] \in {"put", "drop"}, NEW i \in Inum, Head(puts[t]) = i, Drop(i),
            UNCHANGED <<disk, lk>>, pc'[t] = IF Len(puts[t]) = 1 THEN then[t] ELSE "put",
            then'[t] = then[t], ip'[t] = ip[t], dp'[t] = dp[t], old'[t] = old[t]
      PROVE  Table'
  <2> USE Zenon, <1>DropStep
  <2>1. pc'[t] # "free" /\ Place(t)' = Place(t) /\ pc[t] # "free"
    BY <1>NextPut DEF Base, ControlInv
  <2>2. ref[i] = 1 => ref[i] <= 1
    BY <1>Ints
  <2>3. TableTypes' /\ CopyInv'
    BY <2>2, PutUnlocked, <1>DropTable DEF Table
  <2>4. \A j \in Inum : Owns(t, j)' <=> Owns(t, j)
    BY <2>1 DEF Owns
  <2>5. LockInv'
    BY <2>4, <1>KeepLock DEF Table
  <2>6. WindowInv'
    BY <2>1, PathAssumption, <1>WindowFrame DEF Table, Window
  <2> QED
    BY <2>3, <2>5, <2>6 DEF Table
(* Every action keeps the table, the locks and the tree.                   *)
<1>Close. Close(t) => Table' /\ Tree'
  <2> HAVE Close(t)
  <2> USE Zenon
  <2> fd[t] \in Inum
    BY DEF Close, ThreadTypes, Pointer
  <2> ip[t] = NoInode /\ dp[t] = NoInode /\ old[t] = NoInode /\ puts[t] = << >>
    BY HasNot DEF Close, Calls, Place, IpPlace, DpPlace, Puts
  <2>s. LET i == fd[t]
        IN
        /\ AtEnd(t, <<i>>) /\ new'[t] = << >> /\ fd' = Set(fd, t, NoInode)
        /\ UNCHANGED <<disk, ents, ref, copy, lk, cwd>>
    BY SMTT(20) DEF Close, Return, Go, Set, ThreadTypes, At, AtEnd
  <2>t. Table'
    <3> UNCHANGED <<disk, copy, lk>> /\ AtEnd(t, <<fd[t]>>)
      BY <2>s
    <3> Quiet(t) /\ Quiet(t)' /\ dp'[t] = NoInode /\ old'[t] = NoInode
      BY <1>NowQuiet, <1>EndQuiet DEF Close
    <3> TableTypes' /\ CopyInv'
      BY DEF Table, TableTypes, CopyInv, CopyOK
    <3> QED
      BY <1>QuietTable
  <2>e. Tree'
    <3> TypesKept
      BY <2>s, <1>SameTypes
    <3> QED
      BY <2>s, <1>EndTree
  <2> QED
    BY <2>t, <2>e
<1>Walk. Walk(t) => Table' /\ Tree'
  <2> HAVE Walk(t)
  <2> USE Zenon
  <2> ip[t] \in Inum /\ path[t] # << >>
    BY Has DEF Walk, IpPlace
  <2> ip[t] \in Inum /\ dp[t] = NoInode /\ puts[t] = << >> /\ (op[t] # "link2" => old[t] = NoInode)
    BY HasNot DEF Walk, DpPlace, Puts
  <2>s. WalkEnd(t)
    BY DEF Ends
  <2> Tail(path[t]) \in Seq(Elem) /\ Head(path[t]) \in Elem
    BY Has DEF Walk
  <2> ents[ip[t]][Head(path[t])] \in Pointer
    BY DEF RefTypes
  <2>t. Table'
    <3> ip[t] \in Inum /\ Ilock(ip[t])
      BY DEF Walk
    <3> Quiet(t)
      BY <1>NowQuiet DEF Walk
    <3> /\ copy' = Set(copy, ip[t], Loaded(ip[t])) /\ UNCHANGED <<disk, lk>>
      BY <2>s DEF WalkEnd
    <3> Quiet(t)' /\ dp'[t] \in {dp[t], NoInode, ip[t]} /\ old'[t] \in {old[t], NoInode, ip[t]}
      <4>1. CASE pc'[t] = "put" /\ then'[t] \in {"undo", "found", "walk"} /\ dp'[t] = NoInode /\ old'[t] = old[t]
        BY <4>1, <1>AtQuiet, <1>PlaceAfter DEF Puts
      <4>2. CASE pc'[t] = "parent" /\ dp'[t] = ip[t] /\ old'[t] = old[t]
        BY <4>2, <1>AtQuiet, <1>PlaceAfter DEF Puts
      <4>3. CASE AtEnd(t, <<ip[t]>>)
        BY <4>3, <1>EndQuiet
      <4> QED
        BY <4>1, <4>2, <4>3, <2>s DEF WalkEnd, At
    <3> QED
      BY <1>LoadStep
  <2>e. Tree'
    <3> TypesKept /\ UNCHANGED ents
      BY <2>s, <1>SameTypes DEF WalkEnd
    <3>2. CASE \E s : AtEnd(t, s)
      BY <3>2, <1>EndTree
    <3>3. CASE pc'[t] = "put" /\ dp'[t] = NoInode /\ old'[t] = old[t]
      <4>1. pc'[t] \notin {"create", "unlink"}
        BY <3>3
      <4> QED
        BY <3>3, <4>1, <1>CalmTree
    <3>4. CASE pc'[t] = "parent" /\ dp'[t] = ip[t] /\ old'[t] = old[t] /\ Loaded(ip[t]).type = "dir"
      <4>1. pc'[t] \notin {"create", "unlink"}
        BY <3>4
      <4>2. ip[t] \in Inum /\ disk[ip[t]].type = "dir"
        BY <3>4, <1>LoadedIs DEF Walk, Ilock
      <4> QED
        BY <3>4, <4>1, <4>2, <1>CalmTree
    <3> QED
      BY <3>2, <3>3, <3>4, <2>s DEF WalkEnd, At
  <2> QED
    BY <2>t, <2>e
<1>Open. Open(t) => Table' /\ Tree'
  <2> HAVE Open(t)
  <2> USE Zenon
  <2> ip[t] \in Inum
    BY Has DEF Open, IpPlace
  <2> dp[t] = NoInode /\ puts[t] = << >> /\ old[t] = NoInode
    BY HasNot DEF Open, DpPlace, Puts
  <2>s. LET i == ip[t]
        IN
        /\ \/ AtEnd(t, << >>) /\ fd' = Set(fd, t, i)
           \/ AtEnd(t, <<i>>) /\ UNCHANGED fd
        /\ op[t] = "open" /\ new'[t] = << >>
        /\ copy' = Set(copy, i, Loaded(i)) /\ UNCHANGED <<disk, ents, ref, lk, cwd>>
    BY SMTT(20) DEF Open, OpenFile, Return, Go, Set, ThreadTypes, At, AtEnd
  <2>t. Table'
    <3> ip[t] \in Inum /\ Ilock(ip[t])
      BY DEF Open
    <3> Quiet(t)
      BY <1>NowQuiet DEF Open
    <3> /\ copy' = Set(copy, ip[t], Loaded(ip[t])) /\ UNCHANGED <<disk, lk>>
      BY <2>s
    <3> Quiet(t)' /\ dp'[t] \in {dp[t], NoInode, ip[t]} /\ old'[t] \in {old[t], NoInode, ip[t]}
      BY <2>s, <1>EndQuiet
    <3> QED
      BY <1>LoadStep
  <2>e. Tree'
    <3> TypesKept
      BY <2>s, <1>SameTypes
    <3> QED
      BY <2>s, <1>EndTree
  <2> QED
    BY <2>t, <2>e
<1>Chdir. Chdir(t) => Table' /\ Tree'
  <2> HAVE Chdir(t)
  <2> USE Zenon
  <2> ip[t] \in Inum
    BY Has DEF Chdir, IpPlace
  <2> dp[t] = NoInode /\ puts[t] = << >> /\ old[t] = NoInode
    BY HasNot DEF Chdir, DpPlace, Puts
  <2>s. LET i == ip[t]
        IN
        /\ \/ AtEnd(t, <<cwd[t]>>) /\ Loaded(i).type = "dir" /\ cwd' = Set(cwd, t, i)
           \/ AtEnd(t, <<i>>) /\ UNCHANGED cwd
        /\ new'[t] = << >>
        /\ copy' = Set(copy, i, Loaded(i)) /\ UNCHANGED <<disk, ents, ref, lk, fd>>
    BY SMTT(20) DEF Chdir, Return, Go, Set, ThreadTypes, At, AtEnd
  <2>t. Table'
    <3> ip[t] \in Inum /\ Ilock(ip[t])
      BY DEF Chdir
    <3> Quiet(t)
      BY <1>NowQuiet DEF Chdir
    <3> /\ copy' = Set(copy, ip[t], Loaded(ip[t])) /\ UNCHANGED <<disk, lk>>
      BY <2>s
    <3> Quiet(t)' /\ dp'[t] \in {dp[t], NoInode, ip[t]} /\ old'[t] \in {old[t], NoInode, ip[t]}
      BY <2>s, <1>EndQuiet
    <3> QED
      BY <1>LoadStep
  <2>e. Tree'
    <3> TypesKept
      BY <2>s, <1>SameTypes
    <3> QED
      BY <2>s, <1>EndTree
  <2> QED
    BY <2>t, <2>e
<1>Link. Link(t) => Table' /\ Tree'
  <2> HAVE Link(t)
  <2> USE Zenon
  <2> ip[t] \in Inum
    BY Has DEF Link, IpPlace
  <2> "walk" \in DpPlace \cup IpPlace \cup Puts /\ new[t] \in Paths
    BY DEF IpPlace, Link, Calls
  <2> dp[t] = NoInode /\ puts[t] = << >> /\ old[t] = NoInode
    BY HasNot DEF Link, DpPlace, Puts
  <2>s. LET i == ip[t]
            r == IF Absolute(new[t]) THEN ROOTINO ELSE cwd[t]
        IN
        /\ \/ /\ AtEnd(t, <<i>>) /\ new'[t] = << >>
              /\ copy' = Set(copy, i, Loaded(i)) /\ UNCHANGED <<disk, ref>>
           \/ /\ At(t, "walk", "link2", Elements(new[t]), r, NoInode, i, << >>, then[t])
              /\ Loaded(i).type # "dir" /\ new'[t] = new[t] /\ CountLink(i) /\ ref' = Got(r)
        /\ UNCHANGED <<ents, lk, cwd, fd>>
    BY SMTT(20) DEF Link, Start, Return, Go, Set, ThreadTypes, At, AtEnd
  <2>t. Table'
    <3> ip[t] \in Inum /\ Ilock(ip[t])
      BY DEF Link
    <3> Quiet(t)
      BY <1>NowQuiet DEF Link
    <3> UNCHANGED lk
      BY <2>s
    <3>4. CASE AtEnd(t, <<ip[t]>>) /\ copy' = Set(copy, ip[t], Loaded(ip[t])) /\ UNCHANGED disk
      <4>1. Quiet(t)' /\ dp'[t] = NoInode /\ old'[t] = NoInode
        BY <3>4, <1>EndQuiet
      <4> QED
        BY <3>4, <4>1, <1>LoadStep
    <3>5. CASE pc'[t] = "walk" /\ dp'[t] = NoInode /\ old'[t] = ip[t] /\ CountLink(ip[t])
      <4>1. Quiet(t)'
        BY <3>5, <1>AtQuiet, <1>PlaceAfter DEF Puts
      <4>2. disk[ip[t]] \in Dinodes /\ disk[ip[t]].type # "free" /\ Loaded(ip[t]) = disk[ip[t]]
        BY <1>LoadedIs DEF Table, Ilock
      <4>3. Links(disk[ip[t]], 1) \in Dinodes /\ Links(disk[ip[t]], 1).type # "free"
        BY SMT, <4>2, <1>LinksFact
      <4>4. TableTypes' /\ CopyInv'
        BY <3>5, <4>2, <4>3, <1>IupdateTable DEF Table, CountLink
      <4>5. lk[old'[t]] = NoThread
        BY <3>5 DEF Ilock
      <4> QED
        BY <3>5, <4>1, <4>4, <4>5, <1>QuietTable
    <3> QED
      BY <3>4, <3>5, <2>s DEF At
  <2>e. Tree'
    <3>1. CASE (\E s : AtEnd(t, s)) /\ UNCHANGED <<disk, ents>>
      BY <3>1, <1>SameTypes, <1>EndTree
    <3>2. CASE /\ pc'[t] = "walk" /\ dp'[t] = NoInode /\ old'[t] = ip[t] /\ UNCHANGED ents
               /\ Loaded(ip[t]).type # "dir" /\ CountLink(ip[t])
      <4>1. pc'[t] \notin {"create", "unlink"}
        BY SMT, <3>2
      <4>2. ip[t] \in Inum /\ Loaded(ip[t]) = disk[ip[t]] /\ disk[ip[t]] \in Dinodes /\ disk[ip[t]].type # "free"
        BY <1>LoadedIs DEF Link, Ilock
      <4>3. disk[ip[t]].type = "file"
        BY SMT, <3>2, <4>2 DEF Dinodes
      <4>4. 1 \in Int
        BY SMT
      <4>5. TypesKept
        BY <3>2, <4>2, <4>4, <1>IupdateDisk, <1>RelinkedTypes DEF CountLink
      <4> QED
        BY <3>2, <4>1, <4>2, <4>3, <4>5, <1>CalmTree
    <3> QED
      BY <3>1, <3>2, <2>s DEF At
  <2> QED
    BY <2>t, <2>e
<1>Link2. Link2(t) => Table' /\ Tree'
  <2> HAVE Link2(t)
  <2> USE Zenon
  <2> dp[t] \in Inum /\ old[t] \in Inum
    BY Has DEF Link2, DpPlace
  <2> ip[t] = NoInode /\ puts[t] = << >>
    BY HasNot DEF Link2, IpPlace, Puts
  <2>s. Link2End(t)
    BY DEF Ends
  <2>t. Table'
    <3> dp[t] \in Inum /\ Ilock(dp[t])
      BY DEF Link2
    <3> Quiet(t)
      BY <1>NowQuiet DEF Link2
    <3> copy' = Set(copy, dp[t], Loaded(dp[t])) /\ UNCHANGED disk
      BY <2>s DEF Link2End
    <3>1. CASE At(t, "put", "link2", path[t], NoInode, NoInode, old[t], <<dp[t]>>, "undo") /\ UNCHANGED lk
      <4>1. Quiet(t)' /\ dp'[t] = NoInode /\ old'[t] = old[t]
        BY <3>1, <1>AtQuiet, <1>PlaceAfter DEF Puts, At
      <4> QED
        BY <3>1, <4>1, <1>LoadStep
    <3>3. CASE AtEnd(t, <<dp[t], old[t]>>) /\ UNCHANGED lk
      <4>1. Quiet(t)' /\ dp'[t] = NoInode /\ old'[t] = NoInode
        BY <3>3, <1>EndQuiet
      <4> QED
        BY <3>3, <4>1, <1>LoadStep
    <3>5. CASE /\ pc'[t] = "put" /\ then'[t] = "bad" /\ dp'[t] = dp[t] /\ old'[t] = old[t]
               /\ lk' = Set(lk, dp[t], t)
      <4>1. TableTypes' /\ CopyInv'
        BY <3>5, <1>TakeTable DEF Table
      <4>2. \A j \in Inum : Owns(t, j)' <=> Owns(t, j) \/ j = dp[t]
        BY <3>5, <1>OwnsThen DEF Quiet
      <4>3. LockInv'
        BY <3>5, <4>2, <1>TakeLock DEF Table, Ilock
      <4>4. WindowInv'
        BY <3>5, PathAssumption, <1>WindowFrame DEF Table, Window
      <4> QED
        BY <4>1, <4>3, <4>4 DEF Table
    <3> QED
      BY <3>1, <3>3, <3>5, <2>s DEF Link2End, At
  <2>e. Tree'
    <3> TypesKept
      BY <2>s, <1>SameTypes DEF Link2End
    <3>2. CASE pc'[t] = "put" /\ dp'[t] \in {dp[t], NoInode} /\ old'[t] = old[t] /\ UNCHANGED ents
      <4>1. pc'[t] \notin {"create", "unlink"}
        BY <3>2
      <4> QED
        BY <3>2, <4>1, <1>CalmTree
    <3>3. CASE AtEnd(t, <<dp[t], old[t]>>) /\ ents' = dirlink(dp[t], Head(path[t]), old[t])
      <4>1. dp[t] \in Inum /\ old[t] \in Inum /\ Head(path[t]) \in Elem
        BY Has DEF Link2, DpPlace
      <4>2. disk[dp[t]].type = "dir" /\ disk[old[t]].type = "file"
        BY <4>1, Apart DEF Tree, DirInv, DirOf
      <4>3. disk[old[t]].type # "dir" /\ old[t] # dp[t]
        BY SMT, <4>2
      <4>4. pc'[t] \notin {"create", "unlink"} /\ dp'[t] = NoInode /\ old'[t] = NoInode
        BY SMT, <3>3 DEF AtEnd
      <4>5. Named(t)' /\ DirOf(t)' /\ pc'[t] # "create"
        BY <4>4 DEF Named, DirOf
      <4>6. Linked(dp[t], Head(path[t]), old[t]) /\ \A j \in Inum \ {dp[t]} : ents'[j] = ents[j]
        BY <3>3, <4>1, <1>DirlinkFact
      <4>7. EntsLocked(t)
        BY <4>6 DEF EntsLocked, Link2, Ilock
      <4>8. ASSUME NEW a \in Inum, NEW e \in Inum PROVE NewEdge(t, a, e) => a = dp[t] /\ e = old[t]
        BY <4>5, <4>6 DEF NewEdge, Linked
      <4>12. PICK i \in Inum : i = old[t]
        BY <4>1
      <4>9. ASSUME NEW a \in Inum, NEW e \in Inum PROVE Edge(a, e)' => Edge(a, e) \/ e = i
        <5>1. NewEdge(t, a, e) => e = i
          BY <4>8, <4>12
        <5> QED
          BY <5>1, <1>EdgeStep
      <4>10. ASSUME NEW e \in Inum PROVE ~Edge(i, e)'
        <5>1. ~NewEdge(t, i, e)
          BY <4>3, <4>8, <4>12
        <5>2. ~Edge(i, e)
          BY <4>3, <4>12, <1>Barren
        <5> QED
          BY <5>1, <5>2, <1>EdgeStep
      <4>11. Acyclic'
        BY <4>9, <4>10, <1>AcyclicLeaf
      <4> QED
        BY <4>1, <4>2, <4>5, <4>6, <4>7, <4>11, <1>LinkedTree
    <3> QED
      BY <3>2, <3>3, <2>s DEF Link2End, At
  <2> QED
    BY <2>t, <2>e
<1>UndoLink. UndoLink(t) => Table' /\ Tree'
  <2> HAVE UndoLink(t)
  <2> USE Zenon
  <2> old[t] \in Inum /\ op[t] = "link2"
    BY Has DEF UndoLink
  <2> ip[t] = NoInode /\ dp[t] = NoInode /\ puts[t] = << >>
    BY HasNot DEF UndoLink, IpPlace, DpPlace, Puts
  <2>s. LET i == old[t]
        IN
        /\ AtEnd(t, <<i>>) /\ new'[t] = << >>
        /\ Iupdate(i, Links(Loaded(i), -1)) /\ UNCHANGED <<ents, ref, lk, cwd, fd>>
    BY SMTT(20) DEF UndoLink, Return, Go, Set, ThreadTypes, At, AtEnd
  <2>t. Table'
    <3> old[t] \in Inum /\ Ilock(old[t])
      BY DEF UndoLink
    <3> UNCHANGED lk /\ AtEnd(t, <<old[t]>>) /\ Iupdate(old[t], Links(Loaded(old[t]), -1))
      BY <2>s
    <3> Quiet(t) /\ Quiet(t)' /\ dp'[t] = NoInode /\ old'[t] = NoInode
      BY <1>NowQuiet, <1>EndQuiet DEF UndoLink
    <3> disk[old[t]] \in Dinodes /\ disk[old[t]].type # "free" /\ Loaded(old[t]) = disk[old[t]]
      BY <1>LoadedIs DEF Table, Ilock
    <3> Links(disk[old[t]], -1) \in Dinodes /\ Links(disk[old[t]], -1).type # "free"
      BY <1>LinksFact, <1>Ints
    <3> TableTypes' /\ CopyInv'
      BY <1>IupdateTable DEF Table
    <3> QED
      BY <1>QuietTable
  <2>e. Tree'
    <3> old[t] \in Inum /\ Loaded(old[t]) = disk[old[t]]
      BY <1>LoadedIs DEF UndoLink, Ilock
    <3> -1 \in Int
      BY <1>Ints
    <3> TypesKept
      BY <2>s, <1>IupdateDisk, <1>RelinkedTypes
    <3> QED
      BY <2>s, <1>EndTree
  <2> QED
    BY <2>t, <2>e
<1>Ialloc. Ialloc(t) => Table' /\ Tree'
  <2> HAVE Ialloc(t)
  <2> USE Zenon
  <2> dp[t] \in Inum
    BY Has DEF Ialloc, DpPlace
  <2> ip[t] = NoInode /\ old[t] = NoInode /\ puts[t] = << >>
    BY HasNot DEF Ialloc, IpPlace, Puts
  <2>s. IallocEnd(t)
    BY DEF Ends
  <2> Head(path[t]) \in Elem
    BY Has DEF Ialloc
  <2> ents[dp[t]][Head(path[t])] \in Pointer
    BY DEF RefTypes
  <2>t. Table'
    <3> dp[t] \in Inum /\ Ilock(dp[t]) /\ copy' = Set(copy, dp[t], Loaded(dp[t]))
      BY <2>s DEF IallocEnd, Ialloc
    <3> Quiet(t)
      BY <1>NowQuiet DEF Ialloc
    <3>3. CASE pc'[t] = "put" /\ then'[t] = "exists" /\ dp'[t] = NoInode /\ old'[t] = NoInode /\ UNCHANGED <<disk, lk>>
      <4>1. Quiet(t)'
        BY <3>3, <1>AtQuiet, <1>PlaceAfter DEF Puts
      <4> QED
        BY <3>3, <4>1, <1>LoadStep
    <3>4. CASE AtEnd(t, <<dp[t]>>) /\ UNCHANGED <<disk, lk>>
      <4>1. Quiet(t)' /\ dp'[t] = NoInode /\ old'[t] = NoInode
        BY <3>4, <1>EndQuiet
      <4> QED
        BY <3>4, <4>1, <1>LoadStep
    <3>5. CASE /\ pc'[t] = "create" /\ dp'[t] = dp[t] /\ old'[t] = NoInode /\ lk' = Set(lk, dp[t], t)
               /\ \E i \in FreeInodes : disk' = Set(disk, i, NewDinode(t, i))
      <4>1. TableTypes' /\ CopyInv'
        BY <3>5, <1>TakeTable DEF Table
      <4>2. \A j \in Inum : Owns(t, j)' <=> Owns(t, j) \/ j = dp[t]
        BY <3>5, <1>OwnsThen DEF Quiet
      <4>3. LockInv'
        BY <3>5, <4>2, <1>TakeLock DEF Table, Ilock
      <4>4. WindowInv'
        BY <3>5, PathAssumption, <1>WindowFrame DEF Table, Window
      <4> QED
        BY <4>1, <4>3, <4>4 DEF Table
    <3> QED
      BY <3>3, <3>4, <3>5, <2>s DEF IallocEnd, At
  <2>e. Tree'
    <3>1. CASE (\E s : AtEnd(t, s)) /\ UNCHANGED <<disk, ents>>
      BY <3>1, <1>SameTypes, <1>EndTree
    <3>2. CASE pc'[t] = "put" /\ dp'[t] = NoInode /\ old'[t] = NoInode /\ UNCHANGED <<disk, ents>>
      <4>1. pc'[t] \notin {"create", "unlink"}
        BY <3>2
      <4> QED
        BY <3>2, <4>1, <1>SameTypes, <1>CalmTree
    <3>3. ASSUME NEW i \in FreeInodes,
                 At(t, "create", op[t], path[t], i, dp[t], NoInode, << >>, then[t]),
                 ents[dp[t]][Head(path[t])] = NoInode, disk' = Set(disk, i, NewDinode(t, i)), UNCHANGED ents
          PROVE  Tree'
      <4>1. i \in Inum /\ disk[i].type = "free" /\ dp[t] \in Inum /\ disk[dp[t]].type = "dir"
        BY Apart DEF FreeInodes, Tree, DirInv, DirOf
      <4>2. i # dp[t] /\ disk[i].type \notin {"dir", "file"}
        BY SMT, <4>1
      <4>3. \A j \in Inum \ {i} : disk'[j] = disk[j]
        BY <3>3 DEF Set, TableTypes
      <4>4. \A u \in Thread : dp[u] # i /\ old[u] # i
        BY <4>1, <4>2, Apart DEF Tree, DirInv, DirOf
      <4>5. Framed(t)
        BY <3>3, <4>3, <4>4 DEF Framed
      <4>6. \A j \in Inum : Bare(j)'
        BY <3>3, <4>2, <4>3 DEF Bare, Tree, DirInv
      <4>7. DirOf(t)'
        BY <3>3, <4>1, <4>2, <4>3 DEF DirOf, At
      <4>8. Named(t)'
        <5>1. pc'[t] # "unlink"
          BY SMT, <3>3 DEF At
        <5> QED
          BY <3>3, <5>1 DEF Named, At
      <4>9. ASSUME NEW a \in Inum, NEW e \in Inum, NewEdge(t, a, e) PROVE a = dp[t] /\ e = i
        BY <3>3, <4>9 DEF NewEdge, At
      <4>10. \A a, e \in Inum : Edge(a, e)' => Edge(a, e) \/ e = i
        BY <4>9, <1>EdgeStep
      <4>11. \A e \in Inum : ~Edge(i, e)'
        BY <4>1, <4>2, <4>9, <1>EdgeStep, <1>Barren DEF Tree
      <4>12. Acyclic'
        BY <4>10, <4>11, <1>AcyclicLeaf DEF Tree
      <4> QED
        BY <4>5, <4>6, <4>7, <4>8, <4>12, <1>TreeFrame
    <3> QED
      BY <3>1, <3>2, <3>3, <2>s DEF IallocEnd, At
  <2> QED
    BY <2>t, <2>e
<1>Exists. Exists(t) => Table' /\ Tree'
  <2> HAVE Exists(t)
  <2> USE Zenon
  <2> ip[t] \in Inum
    BY Has DEF Exists, IpPlace
  <2> dp[t] = NoInode /\ puts[t] = << >> /\ old[t] = NoInode
    BY HasNot DEF Exists, Calls, Place, DpPlace, Puts
  <2>s. LET i == ip[t]
        IN
        /\ \/ AtEnd(t, << >>) /\ fd' = Set(fd, t, i) /\ op[t] = "create"
           \/ AtEnd(t, <<i>>) /\ UNCHANGED fd
        /\ new'[t] = << >>
        /\ copy' = Set(copy, i, Loaded(i)) /\ UNCHANGED <<disk, ents, ref, lk, cwd>>
    BY SMTT(20) DEF Exists, OpenFile, Return, Go, Set, ThreadTypes, At, AtEnd
  <2>t. Table'
    <3> ip[t] \in Inum /\ Ilock(ip[t])
      BY DEF Exists
    <3> Quiet(t)
      BY <1>NowQuiet DEF Exists
    <3> /\ copy' = Set(copy, ip[t], Loaded(ip[t])) /\ UNCHANGED <<disk, lk>>
      BY <2>s
    <3> Quiet(t)' /\ dp'[t] \in {dp[t], NoInode, ip[t]} /\ old'[t] \in {old[t], NoInode, ip[t]}
      BY <2>s, <1>EndQuiet
    <3> QED
      BY <1>LoadStep
  <2>e. Tree'
    <3> TypesKept
      BY <2>s, <1>SameTypes
    <3> QED
      BY <2>s, <1>EndTree
  <2> QED
    BY <2>t, <2>e
<1>Create. Create(t) => Table' /\ Tree'
  <2> HAVE Create(t)
  <2> USE Zenon
  <2> ip[t] \in Inum /\ dp[t] \in Inum
    BY Has DEF Create, IpPlace, DpPlace
  <2> Head(path[t]) \in Elem
    BY Has DEF Create
  <2> old[t] = NoInode
    BY HasNot DEF Create, Calls, Place, Puts
  <2>s. LET i == ip[t]
            d == dp[t]
            up(m, k) == [m EXCEPT ![i] = [Loaded(i) EXCEPT !.nlink = k],
                                  ![d].nlink = @ + IF op[t] = "mkdir" THEN k ELSE 0]
        IN
        /\ \/ /\ At(t, "put", op[t], path[t], i, NoInode, NoInode, <<d>>, "created")
              /\ copy' = up(copy, 1) /\ disk' = up(disk, 1)
              /\ ents' = [ents EXCEPT ![i][DotDot] = IF op[t] = "mkdir" THEN d ELSE NoInode,
                                     ![d][Head(path[t])] = i]
              /\ lk' = [lk EXCEPT ![d] = NoThread, ![i] = t]
           \/ /\ At(t, "put", op[t], path[t], NoInode, d, NoInode, <<i>>, "bad")
              /\ copy' = up(copy, 0) /\ disk' = up(disk, 0)
              /\ (op[t] = "mkdir" /\ ents' = dirlink(i, DotDot, d)) \/ UNCHANGED ents
              /\ UNCHANGED lk
        /\ new'[t] = new[t] /\ UNCHANGED <<ref, cwd, fd>>
    BY DEF Create, PutThen, callVars, Go, Set, ThreadTypes, At, AtEnd
  <2>n. (Makes(t) \/ Fails(t)) /\ EntsLocked(t) /\ UNCHANGED <<ref, cwd, fd>>
    <3> Ilock(ip[t]) /\ pc[t] \in {"create", "unlink"}
      BY DEF Create
    <3>2. PICK i \in Inum, d \in Inum, n \in Elem :
            i = ip[t] /\ d = dp[t] /\ n = Head(path[t]) /\ i # d /\ lk[d] = t /\ lk[i] = NoThread /\ Loaded(i) = disk[i]
      BY <1>HeldPair
    <3> DotDot \notin Name /\ n \in Name \cup {DotDot} /\ ents \in [Inum -> [Name \cup {DotDot} -> Pointer]]
      BY PathAssumption DEF Elem, RefTypes
    <3> UNCHANGED <<ref, cwd, fd>>
      BY <2>s
    <3>4. CASE /\ At(t, "put", op[t], path[t], ip[t], NoInode, NoInode, <<dp[t]>>, "created")
               /\ disk' = [disk EXCEPT ![ip[t]] = [Loaded(ip[t]) EXCEPT !.nlink = 1],
                                       ![dp[t]].nlink = @ + IF op[t] = "mkdir" THEN 1 ELSE 0]
               /\ ents' = [ents EXCEPT ![ip[t]][DotDot] = IF op[t] = "mkdir" THEN dp[t] ELSE NoInode,
                                       ![dp[t]][Head(path[t])] = ip[t]]
      <4>1. PICK z : z = IF op[t] = "mkdir" THEN 1 ELSE 0
        OBVIOUS
      <4>2. z \in Int /\ 1 \in Int
        BY <4>1, <1>Ints
      <4>3. UpTo(i, d, 1, z)
        BY <3>2, <3>4, <4>1, <4>2, <1>UpDisk
      <4>4. PICK y : ents' = [ents EXCEPT ![i][DotDot] = y, ![d][n] = i]
        BY <3>2, <3>4
      <4>5. Linked(d, n, i) /\ \A j \in Inum \ {i, d} : ents'[j] = ents[j]
        BY <3>2, <4>4, <1>TwoEnts
      <4>6. ASSUME NEW j \in Inum PROVE ents'[j] = ents[j] \/ lk[j] \in {t, NoThread}
        BY <3>2, <4>5
      <4>7. Makes(t)
        <5>1. UpTo(ip[t], dp[t], 1, IF op[t] = "mkdir" THEN 1 ELSE 0)
          BY <3>2, <4>1, <4>3
        <5>3. Linked(dp[t], Head(path[t]), ip[t])
          BY <3>2, <4>5
        <5> QED
          BY <3>4, <5>1, <5>3 DEF Makes
      <4> QED
        BY <4>6, <4>7 DEF EntsLocked
    <3>5. CASE /\ At(t, "put", op[t], path[t], NoInode, dp[t], NoInode, <<ip[t]>>, "bad")
               /\ disk' = [disk EXCEPT ![ip[t]] = [Loaded(ip[t]) EXCEPT !.nlink = 0],
                                       ![dp[t]].nlink = @ + IF op[t] = "mkdir" THEN 0 ELSE 0]
               /\ ents' = dirlink(ip[t], DotDot, dp[t]) \/ UNCHANGED ents
      <4>1. (IF op[t] = "mkdir" THEN 0 ELSE 0) = 0 /\ 0 \in Int
        BY <1>Ints
      <4>3. UpTo(i, d, 0, 0)
        BY <3>2, <3>5, <4>1, <1>UpDisk
      <4>4. ASSUME NEW j \in Inum PROVE (\A m \in Name : ents'[j][m] = ents[j][m]) /\ (j # i => ents'[j] = ents[j])
        <5>1. ents' = [ents EXCEPT ![i][DotDot] = d] \/ ents' = ents
          BY <3>2, <3>5 DEF dirlink
        <5> QED
          BY SMT, <3>2, <5>1
      <4>5. Fails(t)
        BY <3>2, <3>5, <4>3, <4>4 DEF Fails
      <4> QED
        BY <3>2, <4>4, <4>5 DEF EntsLocked
    <3> QED
      BY <3>4, <3>5, <2>s
  <2>t. Table'
    <3> DEFINE i == ip[t]
               d == dp[t]
    <3> i \in Inum /\ d \in Inum /\ Ilock(i) /\ pc[t] = "create"
      BY DEF Create
    <3> \A j \in Inum : Owns(t, j) <=> j = d
      BY OwnsNow
    <3> lk[d] = t /\ lk[i] = NoThread /\ i # d /\ lk[d] # NoThread
      BY PathAssumption DEF Table, LockInv, Ilock
    <3>9. UpBoth(i, d)
      <4>1. 0 \in Int /\ 1 \in Int
        BY <1>Ints
      <4>2. (IF op[t] = "mkdir" THEN 1 ELSE 0) \in Int /\ (IF op[t] = "mkdir" THEN 0 ELSE 0) \in Int
        BY <1>Ints
      <4>3. \/ /\ copy' = [copy EXCEPT ![i] = [Loaded(i) EXCEPT !.nlink = 1], ![d].nlink = @ + IF op[t] = "mkdir" THEN 1 ELSE 0]
               /\ disk' = [disk EXCEPT ![i] = [Loaded(i) EXCEPT !.nlink = 1], ![d].nlink = @ + IF op[t] = "mkdir" THEN 1 ELSE 0]
            \/ /\ copy' = [copy EXCEPT ![i] = [Loaded(i) EXCEPT !.nlink = 0], ![d].nlink = @ + IF op[t] = "mkdir" THEN 0 ELSE 0]
               /\ disk' = [disk EXCEPT ![i] = [Loaded(i) EXCEPT !.nlink = 0], ![d].nlink = @ + IF op[t] = "mkdir" THEN 0 ELSE 0]
        BY <2>s
      <4> QED
        BY <4>1, <4>2, <4>3 DEF UpBoth
    <3> lk \in [Inum -> Thread \cup {NoThread}]
      BY DEF Table, TableTypes
    <3>6. CASE /\ At(t, "put", op[t], path[t], i, NoInode, NoInode, <<d>>, "created")
               /\ lk' = [lk EXCEPT ![d] = NoThread, ![i] = t]
      <4>1. lk' \in [Inum -> Thread \cup {NoThread}] /\ \A j \in Inum : lk'[j] # NoThread => lk[j] # NoThread \/ j = i
        BY <3>6, <1>TwoLocks
      <4>2. TableTypes' /\ CopyInv'
        BY <3>9, <4>1, <1>UpTable DEF Table, Ilock
      <4>3. \A j \in Inum : Owns(t, j)' <=> j = i
        BY <3>6, <1>OwnsThen DEF At
      <4>4. LockInv'
        BY <3>6, <4>3, <1>PassLock DEF Table
      <4>5. WindowInv'
        BY <3>6, PathAssumption, <1>WindowFrame DEF Table, Window, At
      <4> QED
        BY <4>2, <4>4, <4>5 DEF Table
    <3>7. CASE At(t, "put", op[t], path[t], NoInode, d, NoInode, <<i>>, "bad") /\ UNCHANGED lk
      <4>2. TableTypes' /\ CopyInv'
        BY <3>9, <3>7, <1>UpTable DEF Table, Ilock
      <4>3. \A j \in Inum : Owns(t, j)' <=> Owns(t, j)
        BY <3>7, <1>OwnsThen DEF At
      <4>4. LockInv'
        BY <3>7, <4>3, <1>KeepLock DEF Table
      <4>5. WindowInv'
        BY <3>7, PathAssumption, <1>WindowFrame DEF Table, Window, At
      <4> QED
        BY <4>2, <4>4, <4>5 DEF Table
    <3> QED
      BY <3>6, <3>7, <2>s
  <2>e. Tree'
    <3> DEFINE i == ip[t]
               d == dp[t]
    <3> (Makes(t) \/ Fails(t)) /\ EntsLocked(t)
      BY <2>n
    <3> i \in Inum /\ d \in Inum /\ Edge(d, i) /\ disk[d].type = "dir"
      BY Apart DEF Create, Edge, Tree, DirInv, DirOf
    <3> TypesKept
      BY <1>UpTypes DEF Makes, Fails
    <3> pc'[t] \notin {"create", "unlink"}
      BY DEF Makes, Fails, At
    <3> Named(t)' /\ pc'[t] # "create"
      BY DEF Named
    <3> DirOf(t)'
      BY DEF DirOf, Makes, Fails, At, TypesKept
    <3>7. CASE Makes(t)
      <4>1. ASSUME NEW a \in Inum, NEW e \in Inum, Edge(a, e)' PROVE Edge(a, e)
        <5>1. NewEdge(t, a, e) => a = d /\ e = i
          BY <3>7 DEF NewEdge, Makes, Linked
        <5> QED
          BY <4>1, <5>1, <1>EdgeStep
      <4>2. Acyclic'
        BY <4>1, AcyclicLess DEF Tree
      <4> QED
        BY <3>7, <4>2, <1>LinkedTree DEF Makes
    <3>8. CASE Fails(t)
      <4>1. Shrunk
        BY <3>8 DEF Shrunk, Fails
      <4> QED
        BY <4>1, <1>ShrunkTree DEF EntsLocked
    <3> QED
      BY <3>7, <3>8
  <2> QED
    BY <2>t, <2>e
<1>Created. Created(t) => Table' /\ Tree'
  <2> HAVE Created(t)
  <2> USE Zenon
  <2> ip[t] \in Inum
    BY Has DEF Created, IpPlace
  <2> dp[t] = NoInode /\ puts[t] = << >> /\ old[t] = NoInode
    BY HasNot DEF Created, Calls, Place, DpPlace, Puts
  <2>s. LET i == ip[t]
        IN
        /\ \/ AtEnd(t, << >>) /\ fd' = Set(fd, t, i) /\ op[t] = "create"
           \/ AtEnd(t, <<i>>) /\ UNCHANGED fd
        /\ new'[t] = << >>
        /\ lk' = Set(lk, i, NoThread) /\ UNCHANGED <<disk, ents, ref, copy, cwd>>
    BY SMTT(20) DEF Created, OpenFile, Return, Go, Set, ThreadTypes, At, AtEnd
  <2>t. Table'
    <3> DEFINE j == ip[t]
    <3> j \in Inum /\ pc[t] = "created"
      BY DEF Created
    <3> \A i \in Inum : Owns(t, i) <=> i = j
      BY OwnsNow
    <3> lk[j] = t /\ lk[j] # NoThread
      BY PathAssumption DEF Table, LockInv
    <3> Quiet(t)' /\ dp'[t] = NoInode /\ old'[t] = NoInode /\ lk' = Set(lk, j, NoThread)
      BY <2>s, <1>EndQuiet
    <3> UNCHANGED <<disk, copy>>
      BY <2>s
    <3> TableTypes' /\ CopyInv'
      BY <1>UnlockTable DEF Table
    <3> LockInv'
      BY <1>GiveLock DEF Table, Quiet
    <3> WindowInv'
      BY PathAssumption, <1>QuietWindow, <1>WindowFrame DEF Table
    <3> QED
      BY DEF Table
  <2>e. Tree'
    <3> TypesKept
      BY <2>s, <1>SameTypes
    <3> QED
      BY <2>s, <1>EndTree
  <2> QED
    BY <2>t, <2>e
<1>Bad. Bad(t) => Table' /\ Tree'
  <2> HAVE Bad(t)
  <2> USE Zenon
  <2> dp[t] \in Inum
    BY Has DEF Bad, DpPlace
  <2> ip[t] = NoInode /\ puts[t] = << >> /\ (op[t] # "link2" => old[t] = NoInode)
    BY HasNot DEF Bad, Calls, Place, IpPlace, Puts
  <2>s. LET d == dp[t]
        IN
        /\ \/ AtEnd(t, <<d>>) /\ new'[t] = << >>
           \/ /\ At(t, "put", "link2", path[t], NoInode, NoInode, old[t], <<d>>, "undo")
              /\ op[t] = "link2" /\ new'[t] = new[t]
        /\ lk' = Set(lk, d, NoThread) /\ UNCHANGED <<disk, ents, ref, copy, cwd, fd>>
    BY SMTT(20) DEF Bad, PutParent, PutThen, Return, callVars, Go, Set, ThreadTypes, At, AtEnd
  <2>t. Table'
    <3> DEFINE j == dp[t]
    <3> j \in Inum /\ pc[t] = "bad"
      BY DEF Bad
    <3> \A i \in Inum : Owns(t, i) <=> i = j
      BY OwnsNow
    <3> lk[j] = t /\ lk[j] # NoThread
      BY PathAssumption DEF Table, LockInv
    <3> Quiet(t)' /\ dp'[t] = NoInode /\ old'[t] \in {old[t], NoInode} /\ lk' = Set(lk, j, NoThread)
      <4>1. CASE At(t, "put", "link2", path[t], NoInode, NoInode, old[t], <<j>>, "undo")
        BY <2>s, <4>1, <1>AtQuiet, <1>PlaceAfter DEF Puts, At
      <4>2. CASE AtEnd(t, <<j>>)
        BY <2>s, <4>2, <1>EndQuiet
      <4> QED
        BY <4>1, <4>2, <2>s
    <3> UNCHANGED <<disk, copy>>
      BY <2>s
    <3> TableTypes' /\ CopyInv'
      BY <1>UnlockTable DEF Table
    <3> LockInv'
      BY <1>GiveLock DEF Table, Quiet
    <3> WindowInv'
      BY PathAssumption, <1>QuietWindow, <1>WindowFrame DEF Table
    <3> QED
      BY DEF Table
  <2>e. Tree'
    <3> TypesKept
      BY <2>s, <1>SameTypes
    <3>1. CASE \E s : AtEnd(t, s)
      BY <2>s, <3>1, <1>EndTree
    <3>2. CASE pc'[t] = "put" /\ dp'[t] = NoInode /\ old'[t] = old[t]
      <4>1. pc'[t] \notin {"create", "unlink"}
        BY <3>2
      <4> QED
        BY <2>s, <3>2, <4>1, <1>CalmTree
    <3> QED
      BY <3>1, <3>2, <2>s DEF At
  <2> QED
    BY <2>t, <2>e
<1>Unlink. Unlink(t) => Table' /\ Tree'
  <2> HAVE Unlink(t)
  <2> USE Zenon
  <2> dp[t] \in Inum
    BY Has DEF Unlink, DpPlace
  <2> ip[t] = NoInode /\ old[t] = NoInode /\ puts[t] = << >>
    BY HasNot DEF Unlink, IpPlace, Puts
  <2>s. UnlinkEnd(t)
    BY DEF Ends
  <2> Head(path[t]) \in Elem
    BY Has DEF Unlink
  <2> ents[dp[t]][Head(path[t])] \in Pointer
    BY DEF RefTypes
  <2>t. Table'
    <3> dp[t] \in Inum /\ Ilock(dp[t]) /\ copy' = Set(copy, dp[t], Loaded(dp[t])) /\ UNCHANGED disk
      BY <2>s DEF UnlinkEnd, Unlink
    <3> Quiet(t)
      BY <1>NowQuiet DEF Unlink
    <3>4. CASE AtEnd(t, <<dp[t]>>) /\ UNCHANGED lk
      <4>1. Quiet(t)' /\ dp'[t] = NoInode /\ old'[t] = NoInode
        BY <3>4, <1>EndQuiet
      <4> QED
        BY <3>4, <4>1, <1>LoadStep
    <3>5. CASE pc'[t] = "unlink" /\ dp'[t] = dp[t] /\ old'[t] = NoInode /\ lk' = Set(lk, dp[t], t)
      <4>1. TableTypes' /\ CopyInv'
        BY <3>5, <1>TakeTable DEF Table
      <4>2. \A j \in Inum : Owns(t, j)' <=> Owns(t, j) \/ j = dp[t]
        BY <3>5, <1>OwnsThen DEF Quiet
      <4>3. LockInv'
        BY <3>5, <4>2, <1>TakeLock DEF Table, Ilock
      <4>4. WindowInv'
        BY <3>5, PathAssumption, <1>WindowFrame DEF Table, Window
      <4> QED
        BY <4>1, <4>3, <4>4 DEF Table
    <3> QED
      BY <3>4, <3>5, <2>s DEF UnlinkEnd, At
  <2>e. Tree'
    <3> TypesKept /\ UNCHANGED ents
      BY <2>s, <1>SameTypes DEF UnlinkEnd
    <3>2. CASE \E s : AtEnd(t, s)
      BY <3>2, <1>EndTree
    <3>3. CASE /\ At(t, "unlink", op[t], path[t], ents[dp[t]][Head(path[t])], dp[t], NoInode, << >>, then[t])
               /\ Head(path[t]) # DotDot
      <4>1. Head(path[t]) \in Name
        BY <3>3, Has DEF Unlink, Elem
      <4>2. Named(t)' /\ pc'[t] # "create"
        <5>1. pc'[t] # "create"
          BY <3>3 DEF At
        <5> QED
          BY <3>3, <4>1, <5>1 DEF Named, At
      <4>3. DirOf(t)'
        <5>1. dp[t] \in Inum /\ disk'[dp[t]].type = disk[dp[t]].type
          BY DEF TypesKept
        <5> QED
          BY <3>3, <5>1 DEF DirOf, At, Tree, DirInv
      <4>4. Shrunk /\ \A j \in Inum : ents'[j] = ents[j] \/ lk[j] \in {t, NoThread}
        BY DEF Shrunk
      <4> QED
        BY <4>2, <4>3, <4>4, <1>ShrunkTree
    <3> QED
      BY <3>2, <3>3, <2>s DEF UnlinkEnd
  <2> QED
    BY <2>t, <2>e
<1>Unlink1. Unlink1(t) => Table' /\ Tree'
  <2> HAVE Unlink1(t)
  <2> USE Zenon
  <2> ip[t] \in Inum /\ dp[t] \in Inum
    BY Has DEF Unlink1, IpPlace, DpPlace
  <2> Head(path[t]) \in Elem
    BY Has DEF Unlink1
  <2> old[t] = NoInode
    BY HasNot DEF Unlink1, Calls, Place, Puts
  <2>s. LET i == ip[t]
            d == dp[t]
            k == IF Loaded(i).type = "dir" THEN -1 ELSE 0
        IN
        /\ \/ /\ At(t, "put", op[t], path[t], NoInode, d, NoInode, <<i>>, "bad")
              /\ copy' = Set(copy, i, Loaded(i)) /\ UNCHANGED <<disk, ents, lk>>
           \/ /\ At(t, "put", op[t], path[t], i, NoInode, NoInode, <<d>>, "unlink2")
              /\ Loaded(i).type = "dir" => isdirempty(i)
              /\ ents' = dirlink(d, Head(path[t]), NoInode)
              /\ copy' = [copy EXCEPT ![i] = Loaded(i), ![d] = Links(@, k)]
              /\ disk' = [disk EXCEPT ![d] = Links(@, k)]
              /\ lk' = [lk EXCEPT ![d] = NoThread, ![i] = t]
        /\ new'[t] = new[t] /\ UNCHANGED <<ref, cwd, fd>>
    BY SMTT(20) DEF Unlink1, PutThen, callVars, Go, Set, ThreadTypes, At, AtEnd
  <2>n. (Removes(t) \/ Leaves(t)) /\ EntsLocked(t) /\ UNCHANGED <<ref, cwd, fd>>
    <3> Ilock(ip[t]) /\ pc[t] \in {"create", "unlink"}
      BY DEF Unlink1
    <3> dp[t] \in Inum /\ Head(path[t]) \in Elem /\ lk[dp[t]] = t /\ Loaded(ip[t]) = disk[ip[t]]
      BY <1>HeldPair
    <3> UNCHANGED <<ref, cwd, fd>>
      BY <2>s
    <3>4. CASE Leaves(t)
      BY <3>4 DEF Leaves, EntsLocked
    <3>5. CASE /\ At(t, "put", op[t], path[t], ip[t], NoInode, NoInode, <<dp[t]>>, "unlink2")
               /\ Loaded(ip[t]).type = "dir" => isdirempty(ip[t])
               /\ ents' = dirlink(dp[t], Head(path[t]), NoInode)
               /\ disk' = [disk EXCEPT ![dp[t]] = Links(@, IF Loaded(ip[t]).type = "dir" THEN -1 ELSE 0)]
      <4>1. PICK k : k = IF disk[ip[t]].type = "dir" THEN -1 ELSE 0
        OBVIOUS
      <4>2. k \in Int
        BY <4>1, <1>Ints
      <4>3. disk' = [disk EXCEPT ![dp[t]] = Links(disk[dp[t]], k)]
        BY <3>5, <4>1
      <4>4. Relinked(dp[t], k)
        BY <4>2, <4>3, <1>LinksDisk
      <4>5. Linked(dp[t], Head(path[t]), NoInode) /\ \A j \in Inum \ {dp[t]} : ents'[j] = ents[j]
        BY <3>5, <1>DirlinkFact
      <4>6. EntsLocked(t)
        BY <4>5 DEF EntsLocked
      <4>7. Removes(t)
        BY <3>5, <4>1, <4>4, <4>5 DEF Removes
      <4> QED
        BY <4>6, <4>7
    <3> QED
      BY <3>4, <3>5, <2>s DEF Leaves
  <2>t. Table'
    <3> DEFINE i == ip[t]
               d == dp[t]
    <3> i \in Inum /\ d \in Inum /\ Ilock(i) /\ pc[t] = "unlink"
      BY DEF Unlink1
    <3> \A j \in Inum : Owns(t, j) <=> j = d
      BY OwnsNow
    <3> lk[d] = t /\ lk[i] = NoThread /\ i # d /\ lk[d] # NoThread
      BY PathAssumption DEF Table, LockInv, Ilock
    <3> lk \in [Inum -> Thread \cup {NoThread}]
      BY DEF Table, TableTypes
    <3>6. CASE /\ At(t, "put", op[t], path[t], i, NoInode, NoInode, <<d>>, "unlink2")
               /\ copy' = [copy EXCEPT ![i] = Loaded(i), ![d] = Links(@, IF Loaded(i).type = "dir" THEN -1 ELSE 0)]
               /\ disk' = [disk EXCEPT ![d] = Links(@, IF Loaded(i).type = "dir" THEN -1 ELSE 0)]
               /\ lk' = [lk EXCEPT ![d] = NoThread, ![i] = t]
      <4>1. lk' \in [Inum -> Thread \cup {NoThread}] /\ \A j \in Inum : lk'[j] # NoThread => lk[j] # NoThread \/ j = i
        BY <3>6, <1>TwoLocks
      <4>6. PICK k : k = IF Loaded(i).type = "dir" THEN -1 ELSE 0
        OBVIOUS
      <4>7. k \in Int
        BY <4>6, <1>Ints
      <4>2. TableTypes' /\ CopyInv'
        BY <3>6, <4>1, <4>6, <4>7, <1>RemoveTable DEF Table, Ilock
      <4>3. \A j \in Inum : Owns(t, j)' <=> j = i
        BY <3>6, <1>OwnsThen DEF At
      <4>4. LockInv'
        BY <3>6, <4>3, <1>PassLock DEF Table
      <4>5. WindowInv'
        BY <3>6, PathAssumption, <1>WindowFrame DEF Table, Window, At
      <4> QED
        BY <4>2, <4>4, <4>5 DEF Table
    <3>7. CASE /\ At(t, "put", op[t], path[t], NoInode, d, NoInode, <<i>>, "bad")
               /\ copy' = Set(copy, i, Loaded(i)) /\ UNCHANGED <<disk, lk>>
      <4>2. TableTypes' /\ CopyInv'
        BY <3>7, <1>LoadTable DEF Table, Ilock
      <4>3. \A j \in Inum : Owns(t, j)' <=> Owns(t, j)
        BY <3>7, <1>OwnsThen DEF At
      <4>4. LockInv'
        BY <3>7, <4>3, <1>KeepLock DEF Table
      <4>5. WindowInv'
        BY <3>7, PathAssumption, <1>WindowFrame DEF Table, Window, At
      <4> QED
        BY <4>2, <4>4, <4>5 DEF Table
    <3> QED
      BY <3>6, <3>7, <2>s
  <2>e. Tree'
    <3> (Removes(t) \/ Leaves(t)) /\ EntsLocked(t)
      BY <2>n
    <3> TypesKept
      BY <1>RelinkedTypes, <1>SameTypes DEF Removes, Leaves
    <3> Shrunk
      BY DEF Shrunk, Removes, Leaves, Linked
    <3> pc'[t] \notin {"create", "unlink"}
      BY DEF Removes, Leaves, At
    <3> Named(t)' /\ pc'[t] # "create"
      BY DEF Named
    <3> DirOf(t)'
      <4>1. dp[t] \in Inum /\ disk[dp[t]].type = "dir"
        BY Apart DEF Tree, DirInv, DirOf
      <4> QED
        BY <4>1 DEF DirOf, Removes, Leaves, At, TypesKept
    <3> QED
      BY <1>ShrunkTree DEF EntsLocked
  <2> QED
    BY <2>t, <2>e
<1>Unlink2. Unlink2(t) => Table' /\ Tree'
  <2> HAVE Unlink2(t)
  <2> USE Zenon
  <2> ip[t] \in Inum
    BY Has DEF Unlink2, IpPlace
  <2> dp[t] = NoInode /\ puts[t] = << >> /\ old[t] = NoInode
    BY HasNot DEF Unlink2, Calls, Place, DpPlace, Puts
  <2>s. LET i == ip[t]
        IN
        /\ AtEnd(t, <<i>>) /\ new'[t] = << >>
        /\ Iupdate(i, Links(copy[i], -1)) /\ lk' = Set(lk, i, NoThread)
        /\ UNCHANGED <<ents, ref, cwd, fd>>
    BY SMTT(20) DEF Unlink2, Return, Go, Set, ThreadTypes, At, AtEnd
  <2>t. Table'
    <3> DEFINE j == ip[t]
    <3> j \in Inum /\ pc[t] = "unlink2"
      BY DEF Unlink2
    <3> \A i \in Inum : Owns(t, i) <=> i = j
      BY OwnsNow
    <3> lk[j] = t /\ lk[j] # NoThread
      BY PathAssumption DEF Table, LockInv
    <3> Quiet(t)' /\ dp'[t] = NoInode /\ old'[t] = NoInode /\ lk' = Set(lk, j, NoThread)
      BY <2>s, <1>EndQuiet
    <3> copy[j] = disk[j] /\ disk[j] \in Dinodes /\ disk[j].type # "free"
      BY <1>HolderValid DEF Table
    <3>9. PICK c : c = Links(disk[j], -1)
      OBVIOUS
    <3> c \in Dinodes /\ c.type # "free"
      BY SMT, <3>9 DEF Links, Dinodes
    <3> Iupdate(j, c)
      BY <3>9, <2>s
    <3> TableTypes' /\ CopyInv'
      BY <1>IupdateTable DEF Table
    <3> LockInv'
      BY <1>GiveLock DEF Table, Quiet
    <3> WindowInv'
      BY PathAssumption, <1>QuietWindow, <1>WindowFrame DEF Table
    <3> QED
      BY DEF Table
  <2>e. Tree'
    <3> ip[t] \in Inum /\ copy[ip[t]] = disk[ip[t]]
      <4>1. ip[t] \in Inum /\ Owns(t, ip[t])
        BY OwnsNow DEF Unlink2
      <4>2. lk[ip[t]] = t
        BY <4>1 DEF LockInv
      <4> QED
        BY <4>1, <4>2, PathAssumption, <1>HolderValid
    <3> -1 \in Int
      BY <1>Ints
    <3> TypesKept
      BY <2>s, <1>IupdateDisk, <1>RelinkedTypes
    <3> QED
      BY <2>s, <1>EndTree
  <2> QED
    BY <2>t, <2>e
<1>Iput. Iput(t) => Table' /\ Tree'
  <2> HAVE Iput(t)
  <2> USE Zenon
  <2> puts[t] # << >> /\ Head(puts[t]) \in Inum /\ Tail(puts[t]) \in Seq(Inum)
    BY Has DEF Iput, Puts
  <2>s. LET i == Head(puts[t])
        IN
        /\ \/ /\ At(t, "free", op[t], path[t], ip[t], dp[t], old[t], puts[t], then[t])
              /\ Frees(i) /\ lk[i] = NoThread /\ lk' = Set(lk, i, t) /\ UNCHANGED <<ref, copy>>
           \/ /\ At(t, IF Len(puts[t]) = 1 THEN then[t] ELSE "put", op[t], path[t], ip[t], dp[t], old[t], Tail(puts[t]), then[t])
              /\ Drop(i) /\ UNCHANGED lk
        /\ new'[t] = new[t] /\ UNCHANGED <<disk, ents, cwd, fd>>
    BY SMTT(20) DEF Iput, callVars, Go, Set, ThreadTypes, At, AtEnd
  <2>t. Table'
    <3> DEFINE i == Head(puts[t])
    <3> i \in Inum /\ pc[t] = "put" /\ pc[t] \in Puts
      BY DEF Iput, Puts
    <3>2. CASE /\ At(t, "free", op[t], path[t], ip[t], dp[t], old[t], puts[t], then[t])
               /\ Frees(i) /\ lk[i] = NoThread /\ lk' = Set(lk, i, t) /\ UNCHANGED <<disk, copy>>
      <4>1. TableTypes'
        BY <3>2 DEF Table, TableTypes, Set
      <4>2. ASSUME NEW j \in Inum PROVE CopyOK(j)'
        BY <3>2 DEF Table, CopyInv, CopyOK, Frees, TableTypes, Set
      <4>3. \A j \in Inum : Owns(t, j)' <=> Owns(t, j) \/ j = i
        BY <3>2 DEF Owns, Place, Puts, At
      <4>4. LockInv'
        BY <3>2, <4>3, <1>TakeLock DEF Table
      <4>5. Window(t)'
        <5>1. ref[i] <= 1
          BY <3>2, <1>Ints DEF Frees
        <5>2. \A u \in Thread : ip[u] # i /\ dp[u] # i /\ old[u] # i
          BY <5>1 DEF Alone
        <5>3. ASSUME NEW u \in Thread PROVE ip'[u] # i /\ dp'[u] # i /\ old'[u] # i
          <6>1. ip'[u] = ip[u] /\ dp'[u] = dp[u] /\ old'[u] = old[u]
            <7>1. CASE u = t
              BY <7>1, <3>2 DEF At
            <7>2. CASE u # t
              BY <7>2 DEF Others
            <7> QED
              BY <7>1, <7>2
          <6> QED
            BY <6>1, <5>2
        <5>4. Head(puts'[t]) = i
          BY <3>2 DEF At
        <5> QED
          BY <5>3, <5>4 DEF Window
      <4>6. WindowInv'
        BY <3>2, <4>5, PathAssumption, <1>WindowFrame DEF Table, At
      <4> QED
        BY <4>1, <4>2, <4>4, <4>6 DEF Table, CopyInv
    <3>3. CASE /\ At(t, IF Len(puts[t]) = 1 THEN then[t] ELSE "put", op[t], path[t], ip[t], dp[t], old[t], Tail(puts[t]), then[t])
               /\ Drop(i) /\ UNCHANGED <<disk, lk>>
      <4>1. pc[t] \in {"put", "drop"}
        OBVIOUS
      <4> QED
        BY <3>3, <4>1, <1>DropStep DEF At
    <3> QED
      BY <3>2, <3>3, <2>s
  <2>e. Tree'
    <3> TypesKept /\ UNCHANGED ents /\ dp'[t] = dp[t] /\ old'[t] = old[t]
      BY <2>s, <1>SameTypes DEF At
    <3> pc'[t] \in {"free", "put", then[t]} /\ then[t] \in After
      BY <2>s DEF At, Pointers
    <3> pc'[t] \notin {"create", "unlink"}
      BY DEF After
    <3> QED
      BY <1>CalmTree
  <2> QED
    BY <2>t, <2>e
<1>IputFree. IputFree(t) => Table' /\ Tree'
  <2> HAVE IputFree(t)
  <2> USE Zenon
  <2> puts[t] # << >> /\ Head(puts[t]) \in Inum /\ Tail(puts[t]) \in Seq(Inum)
    BY Has DEF IputFree, Puts
  <2>s. LET i == Head(puts[t])
        IN
        /\ At(t, "drop", op[t], path[t], ip[t], dp[t], old[t], puts[t], then[t])
        /\ disk' = Set(disk, i, [type |-> "free", nlink |-> 0]) /\ ents' = Set(ents, i, NoEnts)
        /\ copy' = Set(copy, i, NoCopy) /\ lk' = Set(lk, i, NoThread)
        /\ new'[t] = new[t] /\ UNCHANGED <<ref, cwd, fd>>
    BY SMTT(20) DEF IputFree, callVars, Go, Set, ThreadTypes, At, AtEnd
  <2>t. Table'
    <3> DEFINE i == Head(puts[t])
    <3> i \in Inum /\ pc[t] = "free"
      BY DEF IputFree
    <3> lk[i] = t
      <4>1. Owns(t, i)
        BY DEF Owns
      <4> QED
        BY <4>1 DEF Table, LockInv
    <3> /\ At(t, "drop", op[t], path[t], ip[t], dp[t], old[t], puts[t], then[t])
        /\ copy' = Set(copy, i, NoCopy) /\ lk' = Set(lk, i, NoThread)
      BY <2>s
    <3>4. PICK c \in Dinodes : disk' = Set(disk, i, c)
      BY <2>s, <1>DinodeFacts
    <3> TableTypes'
      BY <3>4 DEF Table, TableTypes, Set
    <3>6. ASSUME NEW j \in Inum PROVE CopyOK(j)'
      BY <3>4 DEF Table, CopyInv, CopyOK, TableTypes, Set
    <3> ip[t] # i /\ dp[t] # i
      BY DEF Table, WindowInv, Window
    <3> \A j \in Inum : Owns(t, j)' <=> Owns(t, j) /\ j # i
      BY DEF Owns, Place, Puts, At
    <3> LockInv'
      BY <1>GiveLock DEF Table
    <3> WindowInv'
      BY PathAssumption, <1>WindowFrame DEF Table, Window, At
    <3> QED
      BY <3>6 DEF Table, CopyInv
  <2>e. Tree'
    <3> DEFINE i == Head(puts[t])
    <3> i \in Inum /\ pc[t] = "free"
      BY DEF IputFree
    <3> lk[i] = t
      <4>1. Owns(t, i)
        BY DEF Owns
      <4> QED
        BY <4>1 DEF Table, LockInv
    <3> \A u \in Thread : dp[u] # i /\ old[u] # i
      BY DEF Table, WindowInv, Window
    <3> /\ At(t, "drop", op[t], path[t], ip[t], dp[t], old[t], puts[t], then[t])
        /\ disk' = Set(disk, i, [type |-> "free", nlink |-> 0]) /\ ents' = Set(ents, i, NoEnts)
      BY <2>s
    <3> /\ \A j \in Inum \ {i} : disk'[j] = disk[j] /\ ents'[j] = ents[j]
        /\ \A n \in Name : ents'[i][n] = NoInode
      BY DEF Set, TableTypes, RefTypes, NoEnts
    <3> Framed(t)
      BY DEF Framed
    <3>7. ASSUME NEW j \in Inum PROVE Bare(j)'
      <4>1. CASE j = i
        BY <4>1 DEF Bare
      <4>2. CASE j # i
        <5>1. disk'[j] = disk[j] /\ ents'[j] = ents[j]
          BY <4>2
        <5>2. Bare(j)
          BY DEF Tree, DirInv
        <5> QED
          BY <5>1, <5>2 DEF Bare
      <4> QED
        BY <4>1, <4>2
    <3> pc'[t] \notin {"create", "unlink"}
      BY DEF At
    <3> Named(t)' /\ pc'[t] # "create"
      BY DEF Named
    <3> DirOf(t)'
      <4>1. dp[t] \in Pointer /\ old[t] \in Pointer /\ DirOf(t)
        BY DEF ThreadTypes, Tree, DirInv
      <4>2. dp'[t] = dp[t] /\ old'[t] = old[t] /\ dp[t] # i /\ old[t] # i
        BY DEF At
      <4>3. (dp[t] # NoInode => disk'[dp[t]] = disk[dp[t]]) /\ (old[t] # NoInode => disk'[old[t]] = disk[old[t]])
        BY <4>1, <4>2 DEF Pointer
      <4> QED
        BY <4>1, <4>2, <4>3 DEF DirOf
    <3>11. ASSUME NEW a \in Inum, NEW e \in Inum PROVE ~NewEdge(t, a, e)
      BY Apart DEF NewEdge
    <3> Acyclic'
      BY <3>11, <1>EdgeStep, AcyclicLess DEF Tree
    <3> QED
      BY <3>7, <1>TreeFrame
  <2> QED
    BY <2>t, <2>e
<1>IputDrop. IputDrop(t) => Table' /\ Tree'
  <2> HAVE IputDrop(t)
  <2> USE Zenon
  <2> puts[t] # << >> /\ Head(puts[t]) \in Inum /\ Tail(puts[t]) \in Seq(Inum)
    BY Has DEF IputDrop, Puts
  <2>s. LET i == Head(puts[t])
        IN
        /\ At(t, IF Len(puts[t]) = 1 THEN then[t] ELSE "put", op[t], path[t], ip[t], dp[t], old[t], Tail(puts[t]), then[t])
        /\ Drop(i) /\ new'[t] = new[t] /\ UNCHANGED <<disk, ents, lk, cwd, fd>>
    BY SMTT(20) DEF IputDrop, callVars, Go, Set, ThreadTypes, At, AtEnd
  <2>t. Table'
    <3> Head(puts[t]) \in Inum /\ pc[t] \in {"put", "drop"}
      BY DEF IputDrop
    <3> QED
      BY <2>s, <1>DropStep DEF At
  <2>e. Tree'
    <3> TypesKept /\ UNCHANGED ents /\ dp'[t] = dp[t] /\ old'[t] = old[t]
      BY <2>s, <1>SameTypes DEF At
    <3> pc'[t] \in {"free", "put", then[t]} /\ then[t] \in After
      BY <2>s DEF At, Pointers
    <3> pc'[t] \notin {"create", "unlink"}
      BY DEF After
    <3> QED
      BY <1>CalmTree
  <2> QED
    BY <2>t, <2>e
<1>Call. CallStep(t) => Table' /\ Tree'
  <2> HAVE CallStep(t)
  <2> USE Zenon
  <2> ThreadTypes /\ RefTypes /\ Pointers(t) /\ Calls(t)
    BY DEF Base, ControlInv
  <2>1. PICK o, p, q : Call(t, o, p, q)
    BY DEF CallStep
  <2>2. op[t] = "none" /\ pc[t] = "idle"
    BY <2>1 DEF Calls, Place, Call, Puts
  <2>3. dp[t] = NoInode /\ old[t] = NoInode
    BY <2>2, HasNot DEF DpPlace, Puts
  <2> UNCHANGED <<disk, ents, copy, lk>> /\ pc'[t] = "walk" /\ dp'[t] = NoInode /\ old'[t] = NoInode
    BY <2>1, <2>3 DEF Call, Start, Go, Set, ThreadTypes
  <2>t. Table'
    <3> Quiet(t) /\ Quiet(t)'
      BY <2>2, <1>NowQuiet, <1>AtQuiet, <1>PlaceAfter DEF Puts
    <3> TableTypes' /\ CopyInv'
      BY DEF Table, TableTypes, CopyInv, CopyOK
    <3> QED
      BY <1>QuietTable
  <2>e. Tree'
    <3> pc'[t] \notin {"create", "unlink"}
      BY SMT
    <3> QED
      BY <1>SameTypes, <1>CalmTree
  <2> QED
    BY <2>t, <2>e
<1>Steps. Step(t) => Table' /\ Tree'
  BY Zenon, <1>Walk, <1>Open, <1>Chdir, <1>Link, <1>Link2, <1>UndoLink, <1>Ialloc, <1>Exists, <1>Create, <1>Created, <1>Bad, <1>Unlink, <1>Unlink1, <1>Unlink2, <1>Iput, <1>IputFree, <1>IputDrop
  DEF Step
<1> QED
  BY Zenon, <1>Call, <1>Close, <1>Steps
-----------------------------------------------------------------------------
LEMMA NextSteps ==
    ASSUME Next
    PROVE  \E t \in Thread : CallStep(t) \/ Close(t) \/ Step(t)
<1>1. {"open", "chdir", "create", "mkdir", "unlink", "link"} \subseteq Ops \ {"none", "link2"}
  BY DEF Ops
<1>2. "link" \notin {"open", "chdir", "create", "mkdir", "unlink"}
  OBVIOUS
<1> QED
  BY Zenon, <1>1, <1>2 DEF Next, CallStep

LEMMA TableInit == ASSUME Init PROVE Table
<1> USE Zenon
<1>1. TableTypes
  <2>1. [type |-> "dir", nlink |-> 1] \in Dinodes /\ [type |-> "free", nlink |-> 0] \in Dinodes
    BY SMT DEF Dinodes
  <2> QED
    BY <2>1 DEF Init, TableTypes
<1>2. CopyInv
  BY DEF Init, CopyInv, CopyOK
<1>3. ASSUME NEW i \in Inum, NEW t \in Thread PROVE lk[i] # t /\ ~Owns(t, i)
  <2>1. pc[t] = "idle" /\ lk[i] = NoThread
    BY DEF Init
  <2> QED
    BY <2>1, OwnsNow, PathAssumption
<1>4. LockInv
  BY <1>3 DEF LockInv
<1>5. WindowInv
  BY DEF Init, WindowInv, Window
<1> QED
  BY <1>1, <1>2, <1>4, <1>5 DEF Table

LEMMA TreeInit == ASSUME Init PROVE Tree
<1> USE Zenon
<1>1. ASSUME NEW i \in Inum, NEW n \in Name PROVE ents[i][n] = NoInode
  BY SMT, PathAssumption DEF Init, NoEnts
<1>2. DirInv
  BY <1>1 DEF Init, DirInv, DirOf, Bare
<1>3. \A t \in Thread : pc[t] # "unlink" /\ pc[t] # "create"
  BY SMT DEF Init
<1>4. NameInv
  BY <1>3 DEF NameInv, Named
<1>5. \A d, e \in Inum : ~Edge(d, e)
  BY <1>1, <1>3, Apart DEF Edge
<1>6. Acyclic
  BY <1>5 DEF Acyclic
<1> QED
  BY <1>2, <1>4, <1>6 DEF Tree

LEMMA InitBase == ASSUME Init PROVE ThreadTypes /\ ControlInv /\ \A i : Putters(i) = {}
<1>1. ThreadTypes
  BY Constants DEF Init, ThreadTypes
<1>2. ControlInv
  BY DEF Init, ControlInv, Pointers, Calls, Place, Puts, IpPlace, DpPlace, After
<1>3. ASSUME NEW i PROVE Putters(i) = {}
  <2> SUFFICES ASSUME NEW x \in Putters(i) PROVE FALSE
    OBVIOUS
  <2>1. x[1] \in Thread /\ x[2] \in 1 .. 2 /\ x[2] <= Len(puts[x[1]])
    BY DEF Putters
  <2>2. Len(puts[x[1]]) = 0
    BY <2>1 DEF Init
  <2> QED
    BY <2>1, <2>2
<1> QED
  BY Zenon, <1>1, <1>2, <1>3

LEMMA BaseSame == ASSUME Base, UNCHANGED vars PROVE Base'
<1> USE Zenon
<1>1. ThreadTypes' /\ RefTypes'
  BY DEF vars, threadVars, Base, ThreadTypes, RefTypes
<1>2. ASSUME NEW u \in Thread PROVE Place(u)' = Place(u)
  BY DEF vars, threadVars, Place
<1>3. ASSUME NEW u \in Thread PROVE Pointers(u)'
  BY <1>2 DEF vars, threadVars, Base, ControlInv, Pointers
<1>4. ASSUME NEW u \in Thread PROVE Calls(u)'
  BY <1>2 DEF vars, threadVars, Base, ControlInv, Calls
<1>5. RefCounts'
  BY DEF vars, threadVars, Base, RefCounts, Putters
<1> QED
  BY <1>1, <1>3, <1>4, <1>5 DEF Base, ControlInv

LEMMA SafeSame == ASSUME Table, Tree, UNCHANGED vars PROVE Table' /\ Tree'
<1> USE Zenon
<1>1. TableTypes' /\ CopyInv'
  BY DEF vars, threadVars, Table, TableTypes, CopyInv, CopyOK
<1>2. \A t \in Thread : Place(t)' = Place(t)
  BY DEF vars, threadVars, Place
<1>3. LockInv'
  <2>1. ASSUME NEW t \in Thread, NEW i \in Inum PROVE Owns(t, i)' <=> Owns(t, i)
    BY <1>2 DEF vars, threadVars, Owns
  <2>2. lk' = lk
    BY DEF vars
  <2> QED
    BY <2>1, <2>2 DEF Table, LockInv
<1>4. WindowInv'
  BY DEF vars, threadVars, Table, WindowInv, Window
<1>5. DirInv'
  BY DEF vars, threadVars, Tree, DirInv, DirOf, Bare
<1>6. NameInv'
  BY DEF vars, threadVars, Tree, NameInv, Named
<1>7. \A d, e \in Inum : Edge(d, e)' => Edge(d, e)
  BY DEF vars, threadVars, Edge
<1> QED
  BY <1>1, <1>3, <1>4, <1>5, <1>6, <1>7, AcyclicLess DEF Table, Tree

LEMMA PutPlaces ==
    ASSUME Base, NEW u \in Thread, pc[u] \in Puts, NEW i
    PROVE  /\ Head(puts[u]) = i => <<u, 1>> \in Putters(i)
           /\ Tail(puts[u]) # << >> /\ Head(Tail(puts[u])) = i => <<u, 2>> \in Putters(i)
<1>1. puts[u] \in Seq(Inum) /\ puts[u] # << >>
  BY Zenon DEF Base, ThreadTypes, ControlInv, Pointers
<1>2. Head(puts[u]) = puts[u][1] /\ 1 <= Len(puts[u])
      /\ (Tail(puts[u]) # << >> => 2 <= Len(puts[u]) /\ Head(Tail(puts[u])) = puts[u][2])
  BY <1>1
<1> QED
  BY <1>2 DEF Putters

(* iput() of the last reference to an inode never finds it locked.         *)
LEMMA NeverBlocks == ASSUME Base, Table, \A t \in Thread : Alone(t) PROVE PutNeverBlocks
<1> SUFFICES ASSUME NEW t \in Thread, pc[t] = "put", Frees(Head(puts[t]))
             PROVE  lk[Head(puts[t])] = NoThread
  BY Zenon DEF PutNeverBlocks
<1>1. Head(puts[t]) \in Inum
  BY Zenon, Has DEF Base, ControlInv, Puts
<1>2. ref[Head(puts[t])] <= 1
  BY DEF Frees
<1>3. pc[t] \in {"put", "drop"}
  BY Zenon
<1> QED
  BY Zenon, <1>1, <1>2, <1>3, PutUnlocked DEF Table

(* A thread that waits for an inode while it holds another one is in       *)
(* create() or in sys_unlink(), and waits for an inode in the directory    *)
(* that it holds.                                                          *)
LEMMA Holder ==
    ASSUME Base, Table, NEW t \in Thread, pc[t] \in Locking, NEW i \in Inum, lk[i] = t
    PROVE  pc[t] \in {"create", "unlink"} /\ dp[t] = i
<1>1. Owns(t, i)
  BY Zenon DEF Table, LockInv
<1> QED
  BY <1>1 DEF Owns, Place, Puts, Locking

LEMMA TargetIs ==
    ASSUME Base, NEW t \in Thread, pc[t] \in Locking
    PROVE  /\ Target(t) \in Inum
           /\ pc[t] \in {"create", "unlink"} => Target(t) = ip[t]
<1>1. Pointers(t) /\ Calls(t) /\ ThreadTypes
  BY Zenon DEF Base, ControlInv
<1>2. CASE pc[t] = "parent"
  BY <1>1, <1>2, Has DEF Target, DpPlace
<1>3. CASE pc[t] = "undo"
  BY <1>1, <1>3, Has DEF Target
<1>4. CASE pc[t] \notin {"parent", "undo"}
  <2>1. Target(t) = ip[t]
    BY <1>4 DEF Target
  <2>2. pc[t] \in IpPlace
    BY <1>4 DEF Locking, IpPlace
  <2> QED
    BY Zenon, <1>1, <2>1, <2>2, Has
<1> QED
  BY <1>2, <1>3, <1>4

(* No set of threads wait for each other's inode locks: what each of them  *)
(* holds is a directory, and the edges from these directories to the       *)
(* inodes that are waited for would close a cycle in the tree.             *)
LEMMA NoCycle == ASSUME Base, Table, Tree PROVE NoWaitCycle
<1> SUFFICES ASSUME NEW S \in SUBSET Thread, S # {},
                    \A t \in S : pc[t] \in Locking /\ lk[Target(t)] \in S
             PROVE  FALSE
  BY Zenon DEF NoWaitCycle
<1>1. PICK D : D = {i \in Inum : \E h \in S : pc[h] \in {"create", "unlink"} /\ dp[h] = i}
  BY Zenon
<1>2. ASSUME NEW t \in S PROVE Target(t) \in D
  <2>1. t \in Thread /\ Target(t) \in Inum /\ lk[Target(t)] \in S /\ lk[Target(t)] \in Thread
    BY Zenon, TargetIs
  <2>2. pc[lk[Target(t)]] \in Locking
    BY Zenon, <2>1
  <2>3. pc[lk[Target(t)]] \in {"create", "unlink"} /\ dp[lk[Target(t)]] = Target(t)
    BY Zenon, <2>1, <2>2, Holder
  <2> QED
    BY Zenon, <1>1, <2>1, <2>3
<1>3. D \in SUBSET Inum /\ D # {}
  BY Zenon, <1>1, <1>2
<1>4. PICK d \in D : \A e \in D : ~Edge(d, e)
  BY Zenon, <1>3 DEF Tree, Acyclic
<1>5. PICK h \in S : pc[h] \in {"create", "unlink"} /\ dp[h] = d
  BY Zenon, <1>1
<1>6. h \in Thread /\ ip[h] \in D
  BY Zenon, <1>2, <1>5, TargetIs
<1>7. Edge(d, ip[h])
  BY Zenon, <1>5, <1>6 DEF Edge, Tree, NameInv, Named
<1> QED
  BY Zenon, <1>4, <1>6, <1>7

-----------------------------------------------------------------------------
(* Counting.  Size and Finite are Cardinality and IsFiniteSet of module    *)
(* FileSystem.  What the proofs need of them is Counting, which follows    *)
(* from the library's theorems; those are instantiated at the end of the   *)
(* module, to be in the context of as few proofs as possible.              *)
Size(S) == Cardinality(S)
Finite(S) == IsFiniteSet(S)
Counting ==
    /\ Size({}) = 0
    /\ \A S : Finite(S) => Size(S) \in Nat /\ (Size(S) = 0 => S = {})
    /\ \A S : \A T \in SUBSET S : Finite(S) => Finite(T)
    /\ \A S, x : Finite(S) => Finite(S \ {x}) /\ Size(S) = Size(S \ {x}) + One(x \in S)
    /\ Finite(Thread \X (1 .. 2))

LEMMA Ones == (\A c : One(c) \in Int) /\ (\A s, i : InPuts(s, i) \in Int)
  BY DEF One, InPuts

Splits(x, m, a, b, p) == x = m + a + b /\ a + b = p
Moved(x, y, p, q) == y = x - p + q
LEMMA Shift ==
    \A m, a, b, c, d \in Int : \A x, y, p, q : Splits(x, m, a, b, p) /\ Splits(y, m, c, d, q) => Moved(x, y, p, q)
  BY DEF Splits, Moved

LEMMA SizeIs ==
    ASSUME NEW S
    PROVE  Size(S) = LET CS[T \in SUBSET S] == IF T = {} THEN 0 ELSE 1 + CS[T \ {CHOOSE x : x \in T}]
                     IN  CS[S]
  BY Zenon DEF Size, Cardinality

LEMMA FiniteIs ==
    ASSUME NEW S
    PROVE  Finite(S) <=> \E seq \in Seq(S) : \A s \in S : \E n \in 1 .. Len(seq) : seq[n] = s
  BY Zenon DEF Finite, IsFiniteSet

LEMMA Finites == Finite(Thread)
  BY Zenon, PathAssumption DEF Finite

LEMMA CountIs == ASSUME NEW f, NEW i PROVE Count(f, i) = Size({t \in Thread : f[t] = i})
  BY Zenon DEF Count, Size

Refers(i) == Count(ip, i) + Count(dp, i) + Count(old, i) + Count(cwd, i) + Count(fd, i) + Size(Putters(i))
LEMMA RefCountsIs == RefCounts <=> \A i \in Inum : ref[i] = Refers(i)
  BY Zenon DEF RefCounts, Refers, Count, Size

LEMMA RefCountsThen == RefCounts' <=> \A i \in Inum : ref'[i] = Refers(i)'
  BY Zenon DEF RefCounts, Refers, Count, Size

LEMMA SizeFacts ==
    ASSUME Counting
    PROVE  /\ Size({}) = 0
           /\ \A S : Finite(S) => Size(S) \in Nat /\ (Size(S) = 0 => S = {})
           /\ \A S : \A T \in SUBSET S : Finite(S) => Finite(T)
  BY Zenon DEF Counting

LEMMA CountRemove ==
    ASSUME Counting, NEW S, Finite(S), NEW x
    PROVE  /\ Size(S) \in Nat /\ Size(S \ {x}) \in Nat /\ Finite(S \ {x})
           /\ Size(S) = Size(S \ {x}) + One(x \in S)
<1>1. Finite(S \ {x}) /\ Size(S) = Size(S \ {x}) + One(x \in S)
  BY Zenon DEF Counting
<1> QED
  BY Zenon, <1>1 DEF Counting

LEMMA CountChange ==
    ASSUME Counting, NEW f, NEW g, NEW t \in Thread, \A u \in Thread \ {t} : g[u] = f[u], NEW i
    PROVE  Counted(f, g, t, i)
<1> USE Zenon
<1> DEFINE F == {u \in Thread : f[u] = i}
           G == {u \in Thread : g[u] = i}
<1>1. Finite(F) /\ Finite(G)
  BY Finites, SizeFacts
<1>2. F \ {t} = G \ {t} /\ (t \in F <=> f[t] = i) /\ (t \in G <=> g[t] = i)
  OBVIOUS
<1>3. /\ Size(F) \in Nat /\ Size(F \ {t}) \in Nat
      /\ Size(F) = Size(F \ {t}) + One(t \in F)
  BY <1>1, CountRemove
<1>4. Size(G) = Size(G \ {t}) + One(t \in G)
  BY <1>1, CountRemove
<1>6. PICK c \in Nat : c = Size(F \ {t}) /\ c = Size(G \ {t})
  BY <1>2, <1>3
<1> HIDE DEF F, G
<1>5. Size(G) = Size(F) - One(f[t] = i) + One(g[t] = i)
  BY SMT, <1>2, <1>3, <1>4, <1>6 DEF One
<1> QED
  BY <1>3, <1>5, CountIs DEF Counted, F, G

LEMMA PuttersFinite == ASSUME Counting, NEW i PROVE Finite(Putters(i)) /\ Finite(Putters(i)')
<1>1. Putters(i) \in SUBSET (Thread \X (1 .. 2)) /\ Putters(i)' \in SUBSET (Thread \X (1 .. 2))
  BY Zenon DEF Putters
<1> QED
  BY Zenon, <1>1 DEF Counting

Without(S, t) == (S \ {<<t, 1>>}) \ {<<t, 2>>}
PutsCounted(t, i) ==
    /\ Size(Putters(i)) \in Nat
    /\ Size(Putters(i)') = Size(Putters(i)) - InPuts(puts[t], i) + InPuts(puts'[t], i)
LEMMA PuttersChange ==
    ASSUME Counting, NEW t \in Thread, \A u \in Thread \ {t} : puts'[u] = puts[u],
           puts \in [Thread -> Seq(Inum)], puts' \in [Thread -> Seq(Inum)], NEW i
    PROVE  PutsCounted(t, i)
<1> USE Zenon
<1>1. PICK P, Q : P = Putters(i) /\ Q = Putters(i)'
  OBVIOUS
<1>2. Without(P, t) = Without(Q, t)
  <2>1. ASSUME NEW x PROVE x \in Without(P, t) <=> x \in Without(Q, t)
    <3>1. CASE x \in Thread \X (1 .. 2)
      <4>1. PICK u \in Thread, k \in 1 .. 2 : x = <<u, k>>
        BY SMT, <3>1
      <4>2. CASE u = t
        <5>1. k = 1 \/ k = 2
          BY SMT
        <5> QED
          BY SMT, <4>1, <4>2, <5>1 DEF Without
      <4>3. CASE u # t
        <5>1. <<u, k>> \in P <=> k <= Len(puts[u]) /\ puts[u][k] = i
          BY <1>1 DEF Putters
        <5>2. <<u, k>> \in Q <=> k <= Len(puts'[u]) /\ puts'[u][k] = i
          BY <1>1 DEF Putters
        <5>3. puts'[u] = puts[u]
          BY <4>3
        <5>4. <<u, k>> \notin {<<t, 1>>} /\ <<u, k>> \notin {<<t, 2>>}
          BY <4>3
        <5> QED
          BY <4>1, <5>1, <5>2, <5>3, <5>4 DEF Without
      <4> QED
        BY <4>2, <4>3
    <3>2. CASE x \notin Thread \X (1 .. 2)
      BY <1>1, <3>2 DEF Putters, Without
    <3> QED
      BY <3>1, <3>2
  <2> QED
    BY <2>1 DEF Without
<1>3. Finite(P) /\ Finite(Q)
  BY <1>1, PuttersFinite
<1>4. ASSUME NEW S, Finite(S)
      PROVE  /\ Size(S) \in Nat /\ Size(Without(S, t)) \in Nat
             /\ Size(S) = Size(Without(S, t))
                                   + One(<<t, 1>> \in S) + One(<<t, 2>> \in S)
  <2>1. /\ Size(S) \in Nat /\ Size(S \ {<<t, 1>>}) \in Nat /\ Finite(S \ {<<t, 1>>})
        /\ Size(S) = Size(S \ {<<t, 1>>}) + One(<<t, 1>> \in S)
    BY <1>4, CountRemove
  <2>2. PICK R : R = S \ {<<t, 1>>}
    OBVIOUS
  <2>4. Size(R \ {<<t, 2>>}) \in Nat
        /\ Size(R) = Size(R \ {<<t, 2>>}) + One(<<t, 2>> \in R)
    BY <2>1, <2>2, CountRemove
  <2>5. Without(S, t) = R \ {<<t, 2>>}
    BY <2>2 DEF Without
  <2>3. <<t, 2>> \in R <=> <<t, 2>> \in S
    BY SMT, <2>2
  <2> QED
    BY SMT, <2>1, <2>2, <2>3, <2>4, <2>5 DEF One
<1>5. Len(puts[t]) \in Nat /\ Len(puts'[t]) \in Nat
  BY SMT
<1>6. /\ <<t, 1>> \in P <=> Len(puts[t]) >= 1 /\ puts[t][1] = i
      /\ <<t, 2>> \in P <=> Len(puts[t]) >= 2 /\ puts[t][2] = i
  BY SMT, <1>1, <1>5 DEF Putters
<1>7. /\ <<t, 1>> \in Q <=> Len(puts'[t]) >= 1 /\ puts'[t][1] = i
      /\ <<t, 2>> \in Q <=> Len(puts'[t]) >= 2 /\ puts'[t][2] = i
  BY SMT, <1>1, <1>5 DEF Putters
<1>8. One(<<t, 1>> \in P) + One(<<t, 2>> \in P) = InPuts(puts[t], i)
  BY SMT, <1>6 DEF One, InPuts
<1>9. One(<<t, 1>> \in Q) + One(<<t, 2>> \in Q) = InPuts(puts'[t], i)
  BY SMT, <1>7 DEF One, InPuts
<1>10. PICK m \in Nat : m = Size(Without(P, t))
  BY <1>3, <1>4
<1>11. Size(P) = m + One(<<t, 1>> \in P) + One(<<t, 2>> \in P) /\ Size(P) \in Nat
  BY <1>3, <1>4, <1>10
<1>12. Size(Q) = m + One(<<t, 1>> \in Q) + One(<<t, 2>> \in Q)
  BY <1>2, <1>3, <1>4, <1>10
<1>13. Size(Q) = Size(P) - InPuts(puts[t], i) + InPuts(puts'[t], i)
  <2>1. /\ One(<<t, 1>> \in P) \in Int /\ One(<<t, 2>> \in P) \in Int
        /\ One(<<t, 1>> \in Q) \in Int /\ One(<<t, 2>> \in Q) \in Int
    BY Ones
  <2>2. m \in Int
    BY SMT
  <2>3. Splits(Size(P), m, One(<<t, 1>> \in P), One(<<t, 2>> \in P), InPuts(puts[t], i))
    BY <1>8, <1>11 DEF Splits
  <2>4. Splits(Size(Q), m, One(<<t, 1>> \in Q), One(<<t, 2>> \in Q), InPuts(puts'[t], i))
    BY <1>9, <1>12 DEF Splits
  <2>5. Moved(Size(P), Size(Q), InPuts(puts[t], i), InPuts(puts'[t], i))
    BY <2>1, <2>2, <2>3, <2>4, Shift
  <2> QED
    BY <2>5 DEF Moved
<1> QED
  BY <1>1, <1>11, <1>13 DEF PutsCounted

Fits(a, b, c, d, x, y, n) == a = x /\ b = y /\ c = n /\ d = n - x + y
LEMMA FitsIs ==
    /\ \A f, g, t, i : Counted(f, g, t, i) =>
         \E x \in Int, y \in Int, n \in Nat : Fits(One(f[t] = i), One(g[t] = i), Count(f, i), Count(g, i), x, y, n)
    /\ \A t, i : PutsCounted(t, i) =>
         \E x \in Int, y \in Int, n \in Nat :
           Fits(InPuts(puts[t], i), InPuts(puts'[t], i), Size(Putters(i)), Size(Putters(i)'), x, y, n)
<1>1. ASSUME NEW a \in Int, NEW b \in Int, NEW c \in Nat, NEW d, d = c - a + b
      PROVE  \E x \in Int, y \in Int, n \in Nat : Fits(a, b, c, d, x, y, n)
  BY Zenon, <1>1 DEF Fits
<1>2. ASSUME NEW f, NEW g, NEW t, NEW i, Counted(f, g, t, i)
      PROVE  \E x \in Int, y \in Int, n \in Nat : Fits(One(f[t] = i), One(g[t] = i), Count(f, i), Count(g, i), x, y, n)
  <2>1. One(f[t] = i) \in Int /\ One(g[t] = i) \in Int
    BY Zenon, Ones
  <2>2. Count(f, i) \in Nat /\ Count(g, i) = Count(f, i) - One(f[t] = i) + One(g[t] = i)
    BY Zenon, <1>2 DEF Counted
  <2> QED
    BY Zenon, <2>1, <2>2, <1>1
<1>3. ASSUME NEW t, NEW i, PutsCounted(t, i)
      PROVE  \E x \in Int, y \in Int, n \in Nat :
               Fits(InPuts(puts[t], i), InPuts(puts'[t], i), Size(Putters(i)), Size(Putters(i)'), x, y, n)
  <2>1. InPuts(puts[t], i) \in Int /\ InPuts(puts'[t], i) \in Int
    BY Zenon, Ones
  <2>2. /\ Size(Putters(i)) \in Nat
        /\ Size(Putters(i)') = Size(Putters(i)) - InPuts(puts[t], i) + InPuts(puts'[t], i)
    BY Zenon, <1>3 DEF PutsCounted
  <2> QED
    BY Zenon, <2>1, <2>2, <1>1
<1> QED
  BY Zenon, <1>2, <1>3

LEMMA RefSum ==
    ASSUME NEW t \in Thread, NEW i \in Inum
    PROVE  /\ ref[i] = Refers(i) /\ ref'[i] = ref[i] + Own(t, i)' - Own(t, i)
           /\ Counted(ip, ip', t, i) /\ Counted(dp, dp', t, i) /\ Counted(old, old', t, i)
           /\ Counted(cwd, cwd', t, i) /\ Counted(fd, fd', t, i) /\ PutsCounted(t, i)
           => ref'[i] = Refers(i)'
<1> USE Zenon
<1>1. ASSUME ref[i] = Refers(i), ref'[i] = ref[i] + Own(t, i)' - Own(t, i),
             Counted(ip, ip', t, i), Counted(dp, dp', t, i), Counted(old, old', t, i),
             Counted(cwd, cwd', t, i), Counted(fd, fd', t, i), PutsCounted(t, i)
      PROVE  ref'[i] = Refers(i)'
  <2>an. PICK a0 \in Int, a1 \in Int, an \in Nat :
          Fits(One(ip[t] = i), One(ip'[t] = i), Count(ip, i), Count(ip', i), a0, a1, an)
    BY <1>1, FitsIs
  <2>bn. PICK b0 \in Int, b1 \in Int, bn \in Nat :
          Fits(One(dp[t] = i), One(dp'[t] = i), Count(dp, i), Count(dp', i), b0, b1, bn)
    BY <1>1, FitsIs
  <2>cn. PICK c0 \in Int, c1 \in Int, cn \in Nat :
          Fits(One(old[t] = i), One(old'[t] = i), Count(old, i), Count(old', i), c0, c1, cn)
    BY <1>1, FitsIs
  <2>dn. PICK d0 \in Int, d1 \in Int, dn \in Nat :
          Fits(One(cwd[t] = i), One(cwd'[t] = i), Count(cwd, i), Count(cwd', i), d0, d1, dn)
    BY <1>1, FitsIs
  <2>en. PICK e0 \in Int, e1 \in Int, en \in Nat :
          Fits(One(fd[t] = i), One(fd'[t] = i), Count(fd, i), Count(fd', i), e0, e1, en)
    BY <1>1, FitsIs
  <2>fn. PICK f0 \in Int, f1 \in Int, fn \in Nat :
          Fits(InPuts(puts[t], i), InPuts(puts'[t], i), Size(Putters(i)), Size(Putters(i)'), f0, f1, fn)
    BY <1>1, FitsIs
  <2>r. /\ ref[i] = an + bn + cn + dn + en + fn
        /\ Own(t, i) = a0 + b0 + c0 + d0 + e0 + f0
        /\ Own(t, i)' = a1 + b1 + c1 + d1 + e1 + f1
    BY <1>1, <2>an, <2>bn, <2>cn, <2>dn, <2>en, <2>fn DEF Own, Refers, Fits
  <2>s. Refers(i)' = an - a0 + a1 + (bn - b0 + b1) + (cn - c0 + c1) + (dn - d0 + d1) + (en - e0 + e1) + (fn - f0 + f1)
    BY <2>an, <2>bn, <2>cn, <2>dn, <2>en, <2>fn DEF Refers, Fits
  <2> QED
    BY SMT, <1>1, <2>r, <2>s
<1> QED
  BY <1>1

(* A step that only changes thread t's pointers keeps ref right if it      *)
(* changes ref by what t has gained.                                       *)
LEMMA RefFrame ==
    ASSUME Counting, ThreadTypes, ThreadTypes', RefCounts, NEW t \in Thread, Others(t), Accounts(t)
    PROVE  RefCounts'
<1> USE Zenon
<1> SUFFICES ASSUME NEW i \in Inum PROVE ref'[i] = Refers(i)'
  BY RefCountsThen
<1>1. ref[i] = Refers(i) /\ ref'[i] = ref[i] + Own(t, i)' - Own(t, i)
  BY RefCountsIs DEF Accounts
<1>2. /\ \A u \in Thread \ {t} : ip'[u] = ip[u]
      /\ \A u \in Thread \ {t} : dp'[u] = dp[u]
      /\ \A u \in Thread \ {t} : old'[u] = old[u]
      /\ \A u \in Thread \ {t} : cwd'[u] = cwd[u]
      /\ \A u \in Thread \ {t} : fd'[u] = fd[u]
      /\ \A u \in Thread \ {t} : puts'[u] = puts[u]
  BY DEF Others
<1>3. /\ Counted(ip, ip', t, i)
      /\ Counted(dp, dp', t, i)
      /\ Counted(old, old', t, i)
      /\ Counted(cwd, cwd', t, i)
      /\ Counted(fd, fd', t, i)
  BY <1>2, CountChange
<1>4. puts \in [Thread -> Seq(Inum)] /\ puts' \in [Thread -> Seq(Inum)]
  BY DEF ThreadTypes
<1>5. PutsCounted(t, i)
  BY <1>2, <1>4, PuttersChange
<1> QED
  BY <1>1, <1>3, <1>5, RefSum

LEMMA Uncounted ==
    ASSUME Counting, NEW f, NEW i
    PROVE  Count(f, i) \in Nat /\ (Count(f, i) = 0 => \A u \in Thread : f[u] # i)
<1>1. Finite({u \in Thread : f[u] = i})
  BY Zenon, Finites, SizeFacts
<1>2. Count(f, i) = 0 => {u \in Thread : f[u] = i} = {}
  BY Zenon, <1>1, SizeFacts, CountIs
<1> QED
  BY Zenon, <1>1, <1>2, SizeFacts, CountIs

LEMMA BaseInit == ASSUME Counting, Init PROVE Base
<1> USE Zenon
<1>1. ThreadTypes /\ ControlInv /\ \A i : Putters(i) = {}
  BY InitBase
<1>2. Size(Thread) \in Nat
  BY Finites, SizeFacts
<1>3. RefTypes
  <2>1. NoEnts \in [Elem -> Pointer] /\ [NoEnts EXCEPT ![DotDot] = ROOTINO] \in [Elem -> Pointer]
    BY SMT, Constants DEF NoEnts, Elem
  <2> QED
    BY SMT, <1>2, <2>1 DEF Init, RefTypes, Size
<1>5. RefCounts
  <2> SUFFICES ASSUME NEW i \in Inum
               PROVE  ref[i] = Count(ip, i) + Count(dp, i) + Count(old, i) + Count(cwd, i)
                                 + Count(fd, i) + Size(Putters(i))
    BY RefCountsIs DEF Refers
  <2>1. Size({}) = 0
    BY SizeFacts
  <2>2. {u \in Thread : ip[u] = i} = {} /\ {u \in Thread : dp[u] = i} = {} /\ {u \in Thread : old[u] = i} = {}
        /\ {u \in Thread : fd[u] = i} = {}
    BY Apart DEF Init
  <2>3. {u \in Thread : cwd[u] = i} = IF i = ROOTINO THEN Thread ELSE {}
    BY DEF Init
  <2>4. Putters(i) = {}
    BY <1>1
  <2>5. ref[i] = IF i = ROOTINO THEN Size(Thread) ELSE 0
    BY DEF Init, Size
  <2>6. Count(ip, i) = 0 /\ Count(dp, i) = 0 /\ Count(old, i) = 0 /\ Count(fd, i) = 0
        /\ Size(Putters(i)) = 0
    BY <2>1, <2>2, <2>4 DEF Count, Size
  <2>7. Count(cwd, i) = IF i = ROOTINO THEN Size(Thread) ELSE 0
    BY <2>1, <2>3 DEF Count, Size
  <2> QED
    BY SMT, <1>2, <2>5, <2>6, <2>7
<1> QED
  BY <1>1, <1>3, <1>5 DEF Base

(* The only reference is the one that is put.                              *)
LEMMA LastIsAlone == ASSUME Counting, Base, NEW t \in Thread PROVE Alone(t)
<1> USE Zenon
<1> SUFFICES ASSUME pc[t] \in Puts, NEW i \in Inum, Head(puts[t]) = i, ref[i] <= 1
             PROVE  /\ ref[i] = 1
                    /\ \A u \in Thread : ip[u] # i /\ dp[u] # i /\ old[u] # i /\ cwd[u] # i /\ fd[u] # i
                    /\ \A u \in Thread : u # t /\ pc[u] \in Puts => Head(puts[u]) # i
                    /\ Tail(puts[t]) # << >> => Head(Tail(puts[t])) # i
  BY DEF Alone
<1>1. Finite(Putters(i)) /\ <<t, 1>> \in Putters(i)
  BY PuttersFinite, PutPlaces
<1>2. /\ Size(Putters(i)) \in Nat /\ Size(Putters(i) \ {<<t, 1>>}) \in Nat
      /\ Finite(Putters(i) \ {<<t, 1>>})
      /\ Size(Putters(i)) = Size(Putters(i) \ {<<t, 1>>}) + One(<<t, 1>> \in Putters(i))
  BY <1>1, CountRemove
<1>3. Count(ip, i) \in Nat /\ Count(dp, i) \in Nat /\ Count(old, i) \in Nat /\ Count(cwd, i) \in Nat
      /\ Count(fd, i) \in Nat
  BY Uncounted
<1>4. ref[i] = Count(ip, i) + Count(dp, i) + Count(old, i) + Count(cwd, i)
                 + Count(fd, i) + Size(Putters(i))
  BY RefCountsIs DEF Base, Refers
<1>5. Size(Putters(i)) = Size(Putters(i) \ {<<t, 1>>}) + 1
  BY <1>1, <1>2 DEF One
<1>6. /\ Count(ip, i) = 0 /\ Count(dp, i) = 0 /\ Count(old, i) = 0 /\ Count(cwd, i) = 0 /\ Count(fd, i) = 0
      /\ Size(Putters(i) \ {<<t, 1>>}) = 0 /\ ref[i] = 1
  BY SMT, <1>2, <1>3, <1>4, <1>5
<1>7. Putters(i) \ {<<t, 1>>} = {}
  BY <1>2, <1>6, SizeFacts
<1>8. \A u \in Thread : ip[u] # i /\ dp[u] # i /\ old[u] # i /\ cwd[u] # i /\ fd[u] # i
  BY <1>6, Uncounted
<1>9. ASSUME NEW u \in Thread, u # t, pc[u] \in Puts PROVE Head(puts[u]) # i
  <2>1. <<u, 1>> # <<t, 1>>
    BY <1>9
  <2> QED
    BY <2>1, <1>7, <1>9, PutPlaces
<1>10. Tail(puts[t]) # << >> => Head(Tail(puts[t])) # i
  <2>1. <<t, 2>> # <<t, 1>>
    BY SMT
  <2> QED
    BY <2>1, <1>7, PutPlaces
<1> QED
  BY <1>6, <1>8, <1>9, <1>10

LEMMA NextBase ==
    ASSUME Counting, Base, NEW t \in Thread, CallStep(t) \/ Close(t) \/ Step(t)
    PROVE  Base' /\ Others(t) /\ Ends(t)
<1> USE Zenon
<1>1. ThreadTypes' /\ RefTypes' /\ ControlInv' /\ Others(t) /\ Accounts(t) /\ Ends(t)
  BY StepBase DEF Base
<1>2. RefCounts'
  BY <1>1, RefFrame DEF Base
<1> QED
  BY <1>1, <1>2 DEF Base

(* The inductive invariant: who points to which inode and who counts it,   *)
(* what the table and its locks are, and that the directories are a tree.  *)
Inv == Base /\ Table /\ Tree
LEMMA Inductive == ASSUME Counting PROVE (Init => Inv) /\ (Inv /\ [Next]_vars => Inv')
<1> USE Zenon
<1>1. Init => Inv
  BY BaseInit, TableInit, TreeInit DEF Inv
<1>2. ASSUME Base, Table, Tree, Next PROVE Base' /\ Table' /\ Tree'
  <2>1. PICK t \in Thread : CallStep(t) \/ Close(t) \/ Step(t)
    BY <1>2, NextSteps
  <2>2. Base' /\ Others(t) /\ Ends(t)
    BY <1>2, <2>1, NextBase
  <2>3. Alone(t)
    BY <1>2, LastIsAlone
  <2> QED
    BY <1>2, <2>1, <2>2, <2>3, StepSafe
<1>3. Inv /\ [Next]_vars => Inv'
  BY <1>2, BaseSame, SafeSame DEF Inv
<1> QED
  BY <1>1, <1>3

LEMMA Consequences == ASSUME Counting, Inv PROVE RefCounts /\ PutNeverBlocks /\ NoWaitCycle
  BY Zenon, LastIsAlone, NeverBlocks, NoCycle DEF Inv, Base

-----------------------------------------------------------------------------
(* The instance has Cardinality and IsFiniteSet of its own, with the same  *)
(* definitions.                                                            *)
LOCAL INSTANCE FiniteSetTheorems

LEMMA Library ==
    ASSUME NEW S
    PROVE  (IsFiniteSet(S) <=> Finite(S)) /\ Cardinality(S) = Size(S)
<1>1. IsFiniteSet(S) <=> Finite(S)
  BY Zenon, FiniteIs DEF IsFiniteSet
<1>2. Cardinality(S) = Size(S)
  BY Zenon, SizeIs DEF Cardinality
<1> QED
  BY Zenon, <1>1, <1>2

LEMMA CanCount == Counting
<1> USE Zenon
<1>1. Size({}) = 0
  BY FS_EmptySet, Library
<1>2. ASSUME NEW S, Finite(S) PROVE Size(S) \in Nat /\ (Size(S) = 0 => S = {})
  <2>1. IsFiniteSet(S) /\ Cardinality(S) = Size(S)
    BY <1>2, Library
  <2> QED
    BY <2>1, FS_EmptySet, FS_CardinalityType
<1>3. ASSUME NEW S, NEW T \in SUBSET S, Finite(S) PROVE Finite(T)
  <2>1. IsFiniteSet(S)
    BY <1>3, Library
  <2>2. IsFiniteSet(T)
    BY <2>1, FS_Subset
  <2> QED
    BY <2>2, Library
<1>4. ASSUME NEW S, NEW x, Finite(S) PROVE Finite(S \ {x}) /\ Size(S) = Size(S \ {x}) + One(x \in S)
  <2>1. IsFiniteSet(S) /\ Cardinality(S) = Size(S) /\ Cardinality(S \ {x}) = Size(S \ {x})
    BY <1>4, Library
  <2>2. /\ IsFiniteSet(S \ {x})
        /\ Cardinality(S \ {x}) = IF x \in S THEN Cardinality(S) - 1 ELSE Cardinality(S)
    BY <2>1, FS_RemoveElement
  <2>3. Size(S) \in Nat /\ Finite(S \ {x})
    BY <1>2, <1>4, <2>2, Library
  <2>4. Size(S \ {x}) = IF x \in S THEN Size(S) - 1 ELSE Size(S)
    BY <2>1, <2>2
  <2> QED
    BY SMT, <2>3, <2>4 DEF One
<1>5. Finite(Thread \X (1 .. 2))
  <2>1. 1 \in Int /\ 2 \in Int
    BY SMT
  <2>2. IsFiniteSet(1 .. 2) /\ IsFiniteSet(Thread)
    BY <2>1, FS_Interval, Finites, Library
  <2> QED
    BY <2>2, FS_Product, Library
<1> QED
  BY <1>1, <1>2, <1>3, <1>4, <1>5 DEF Counting

(* The invariant holds in every reachable state.                           *)
THEOREM InvariantKept == Spec => []Inv
<1>1. (Init => Inv) /\ (Inv /\ [Next]_vars => Inv')
  BY Zenon, Inductive, CanCount
<1> QED
  BY <1>1, PTL DEF Spec

(* ip->ref is the number of pointers to the inode that the processes have: *)
(* the locals of the system calls, the working directories, the open       *)
(* files, and what iput() is about to drop.                                *)
THEOREM ReferencesCounted == Spec => []RefCounts
<1>1. Inv => RefCounts
  BY Zenon, Consequences, CanCount
<1> QED
  BY <1>1, InvariantKept, PTL

(* iput() of the last reference never waits for the lock of the inode:     *)
(* nobody else can have it locked, as the comment in iput() says.          *)
THEOREM LastPutNeverBlocks == Spec => []PutNeverBlocks
<1>1. Inv => PutNeverBlocks
  BY Zenon, Consequences, CanCount
<1> QED
  BY <1>1, InvariantKept, PTL

(* No set of processes wait in ilock() for inodes that others of the set   *)
(* have locked: the inode locks of the system calls never deadlock.        *)
THEOREM NoThreadsWaitInACycle == Spec => []NoWaitCycle
<1>1. Inv => NoWaitCycle
  BY Zenon, Consequences, CanCount
<1> QED
  BY <1>1, InvariantKept, PTL

=============================================================================
