-------------------------------- MODULE Files --------------------------------
(***************************************************************************)
(* The name space of the file system: inodes, directories and path lookup  *)
(* (kernel/fs.c), the system calls on names (sysfile.c) and the table of   *)
(* open files (file.c).  A section under one inode's sleep-lock with at    *)
(* most one section of itable.lock in it is one step; a process that keeps *)
(* an inode locked between steps appears in ilk.  The table has an entry   *)
(* for every inode (NINODE is not reached), an entry nobody references is  *)
(* read anew by the next iget, and the log is the subject of Log.          *)
(***************************************************************************)
EXTENDS Integers, Sequences, FiniteSets

CONSTANTS
  FProc,              \* processes
  Inum,               \* inode numbers 1 .. n
  Name,               \* names of directory entries other than . and ..
  File,               \* entries of ftable
  Calls,              \* system calls: [op, path, new]; a path has an element after "/"
  Nil

ROOTINO == 1

ASSUME FilesAssumption ==
  /\ ROOTINO \in Inum /\ Inum \subseteq Nat \ {0}
  /\ Nil \notin FProc /\ Nil \notin File

VARIABLES
  di,      \* the inode on disk: type, nlink
  ents,    \* its directory entries, 0 where there is none
  ic,      \* the table entry: valid, type, nlink
  iref,    \* ip->ref
  ilk,     \* the process that keeps ip->lock between steps
  file,    \* ftable: ref, ip
  ofile,   \* the one descriptor of a process
  cwd,
  k,       \* the system call a process is in
  late,    \* entries made in a directory after it was removed ...
  lost,    \* ... and, by inode, how many of them went away with their directory
  cut,     \* directories whose .. is freed
  fpanic

inodes    == <<di, ents, ic, iref, ilk>>
procs     == <<file, ofile, cwd>>
ghosts    == <<late, lost, cut>>
filesVars == <<inodes, procs, k, ghosts, fpanic>>

AllName == Name \cup {".", ".."}
NoEnts  == [n \in AllName |-> 0]
Unread  == [valid |-> FALSE, type |-> "none", nlink |-> 0]

Rest == [pc |-> "user", op |-> Nil, path |-> <<>>, new |-> <<>>, after |-> Nil, name |-> Nil,
         ip |-> 0, dp |-> 0, src |-> 0, put |-> 0, next |-> Nil]
Gone == [Rest EXCEPT !.pc = "gone"]

\* The inode table is empty but for the root, the current directory of all; the
\* disk has the root directory only.
FilesInit ==
  /\ di = [i \in Inum |-> IF i = ROOTINO THEN [type |-> "dir", nlink |-> 1]
                          ELSE [type |-> "none", nlink |-> 0]]
  /\ ents = [i \in Inum |-> IF i = ROOTINO THEN [NoEnts EXCEPT !["."] = i, ![".."] = i]
                            ELSE NoEnts]
  /\ ic = [i \in Inum |-> Unread]
  /\ iref = [i \in Inum |-> IF i = ROOTINO THEN Cardinality(FProc) ELSE 0]
  /\ ilk = [i \in Inum |-> Nil]
  /\ file = [f \in File |-> [ref |-> 0, ip |-> 0]]
  /\ ofile = [p \in FProc |-> Nil]
  /\ cwd = [p \in FProc |-> ROOTINO]
  /\ k = [p \in FProc |-> Rest]
  /\ late = {} /\ lost = [i \in Inum |-> 0] /\ cut = {}
  /\ fpanic = "no"

-----------------------------------------------------------------------------
(* Inodes.                                                                   *)

Unlocked(i) == ilk[i] = Nil

\* ilock: the inode, read from the disk unless the entry is valid.
Inode(i) ==
  IF ic[i].valid THEN ic[i]
  ELSE [valid |-> TRUE, type |-> di[i].type, nlink |-> di[i].nlink]

Check(i) == fpanic' = IF Inode(i).type = "none" THEN "ilock: no type" ELSE fpanic

\* The table entry and the disk, after iupdate.
Core(f, i, v) == [f EXCEPT ![i] = v]
Disk(f, i, v) == [f EXCEPT ![i] = [type |-> v.type, nlink |-> v.nlink]]
Links(v, n) == [v EXCEPT !.nlink = @ + n]

\* iget and idup: one more reference to i.
Iget(i) == iref' = [iref EXCEPT ![i] = @ + 1]

Within(p, l) == l \in {k[p].pc, k[p].next}

Go(p, l) == k' = [k EXCEPT ![p].pc = l]

\* The call gives up the reference it has in f and goes on at l.
PutThen(p, f, l) == [k[p] EXCEPT !.pc = "put", !.put = k[p][f], !.next = l, ![f] = 0]

Putting(p, i, l) == [k[p] EXCEPT !.pc = "put", !.put = i, !.next = l]

\* The end of a step that goes on at l.
At(r, l) ==
  CASE l = "user" -> Rest
    [] l = "gone" -> Gone
    [] OTHER -> [r EXCEPT !.pc = l, !.put = 0, !.next = Nil]

\* Mutation: iput forgets that others may use the inode.
NoLinks(i) == ic[i].valid /\ ic[i].nlink = 0

LastUse(i) == iref[i] = 1 /\ ic[i].valid /\ ic[i].nlink = 0

Dropped(i) == [iref EXCEPT ![i] = @ - 1]
Forgotten(i) == IF iref[i] = 1 THEN [ic EXCEPT ![i] = Unread] ELSE ic

\* iput, while others may use the inode.
Iput(p) ==
  LET i == k[p].put IN
  /\ k[p].pc = "put" /\ ~LastUse(i)
  /\ iref' = Dropped(i) /\ ic' = Forgotten(i)
  /\ k' = [k EXCEPT ![p] = At(k[p], k[p].next)]
  /\ UNCHANGED <<di, ents, ilk, procs, ghosts, fpanic>>

\* iput of the last reference to an inode without links: lock it, holding
\* itable.lock, ...
IputLast(p) ==
  LET i == k[p].put IN
  /\ k[p].pc = "put" /\ LastUse(i)
  /\ fpanic' = IF Unlocked(i) THEN fpanic ELSE "iput sleeps with itable.lock"
  /\ ilk' = [ilk EXCEPT ![i] = p]
  /\ Go(p, "free")
  /\ cut' = (cut \cup {d \in Inum : ents[d][".."] = i}) \ {i}
  /\ UNCHANGED <<di, ents, ic, iref, procs, late, lost>>

\* ... truncate it, free it on the disk, unlock it ...
IputFree(p) ==
  LET i == k[p].put IN
  /\ k[p].pc = "free"
  /\ lost' = [j \in Inum |-> lost[j] + Cardinality({e \in late : e[1] = i /\ ents[i][e[2]] = j})]
  /\ late' = {e \in late : e[1] # i}
  /\ ents' = [ents EXCEPT ![i] = NoEnts]
  /\ di' = [di EXCEPT ![i].type = "none"]
  /\ ic' = [ic EXCEPT ![i].type = "none", ![i].valid = FALSE]
  /\ ilk' = [ilk EXCEPT ![i] = Nil]
  /\ Go(p, "drop")
  /\ UNCHANGED <<iref, procs, cut, fpanic>>

\* ... and drop the reference.
IputDrop(p) ==
  LET i == k[p].put IN
  /\ k[p].pc = "drop"
  /\ iref' = Dropped(i) /\ ic' = Forgotten(i)
  /\ k' = [k EXCEPT ![p] = At(k[p], k[p].next)]
  /\ UNCHANGED <<di, ents, ilk, procs, ghosts, fpanic>>

-----------------------------------------------------------------------------
(* Path lookup.                                                              *)

\* Where namex starts, and what is left to look up.
Start(p, path) == IF Head(path) = "/" THEN ROOTINO ELSE cwd[p]
Elems(path) == IF Head(path) = "/" THEN Tail(path) ELSE path

\* nameiparent stops one level early.
Parent(r) == r.after \in {"c_dir", "u_dir", "l_dir"}

\* Where a failed lookup goes on: sys_link has a link to take back.
Failed(r) == IF r.after = "l_dir" THEN "l_bad" ELSE "user"

\* A system call begins; after: the label its lookup returns to.
Begin(p) ==
  /\ k[p].pc = "user"
  /\ \E c \in Calls :
       LET after == CASE c.op \in {"creat", "mkdir", "mknod"} -> "c_dir"
                      [] c.op = "unlink" -> "u_dir"
                      [] c.op = "link" -> "l_src"
                      [] c.op = "chdir" -> "cd"
                      [] OTHER -> "open"
       IN  /\ k' = [k EXCEPT ![p] = [Rest EXCEPT !.pc = "namex", !.op = c.op, !.new = c.new,
                                       !.after = after, !.path = Elems(c.path),
                                       !.ip = Start(p, c.path)]]
           /\ Iget(Start(p, c.path))
  /\ UNCHANGED <<di, ents, ic, ilk, procs, ghosts, fpanic>>

\* One turn of namex's loop.  The model ends where a .. leads nowhere: the code goes
\* on with the number of an inode that was freed, and panics in ilock unless it has
\* been allocated anew.
Namex(p) ==
  LET r == k[p]  i == r.ip  n == Head(r.path)  nx == ents[i][n]
      dir == Inode(i).type = "dir"
      early == Parent(r) /\ Len(r.path) = 1
      miss == ~dir \/ (~early /\ nx = 0)
      hit == dir /\ ~early /\ nx # 0
  IN
  /\ r.pc = "namex" /\ Unlocked(i)
  /\ fpanic' = CASE Inode(i).type = "none" -> "ilock: no type"
                 [] hit /\ n = ".." /\ i \in cut -> "freed .."
                 [] OTHER -> fpanic
  /\ ic' = Core(ic, i, Inode(i))
  /\ \/ miss /\ UNCHANGED iref /\ k' = [k EXCEPT ![p] = PutThen(p, "ip", Failed(r))]
     \/ dir /\ early /\ UNCHANGED iref
        /\ k' = [k EXCEPT ![p] = [r EXCEPT !.pc = r.after, !.dp = i, !.name = n, !.ip = 0, !.path = <<>>]]
     \/ hit /\ Iget(nx)
        /\ k' = [k EXCEPT ![p] =
             [PutThen(p, "ip", IF Len(r.path) = 1 THEN r.after ELSE "namex") EXCEPT
                !.ip = nx, !.path = Tail(r.path)]]
  /\ UNCHANGED <<di, ents, ilk, procs, ghosts>>

-----------------------------------------------------------------------------
(* create, for open with O_CREATE, mkdir and mknod.                          *)

TypeOf(op) == CASE op = "mkdir" -> "dir" [] op = "mknod" -> "dev" [] OTHER -> "file"

\* Look the name up in the locked parent ...
CreateFound(p) ==
  LET r == k[p]  i == ents[r.dp][r.name] IN
  /\ r.pc = "c_dir" /\ Unlocked(r.dp) /\ Check(r.dp) /\ i # 0
  /\ Iget(i) /\ ic' = Core(ic, r.dp, Inode(r.dp))
  /\ k' = [k EXCEPT ![p] = [PutThen(p, "dp", "c_old") EXCEPT !.ip = i]]
  /\ UNCHANGED <<di, ents, ilk, procs, ghosts>>

\* ... or ialloc finds no inode: its scan reads one at a time, so that one freed by
\* another call behind its back is missed ...
CreateNone(p) ==
  LET r == k[p] IN
  /\ r.pc = "c_dir" /\ Unlocked(r.dp) /\ Check(r.dp) /\ ents[r.dp][r.name] = 0
  /\ (\A i \in Inum : di[i].type # "none") \/ \E q \in FProc \ {p} : k[q].pc \notin {"user", "gone"}
  /\ ic' = Core(ic, r.dp, Inode(r.dp))
  /\ k' = [k EXCEPT ![p] = PutThen(p, "dp", "user")]
  /\ UNCHANGED <<di, ents, iref, ilk, procs, ghosts>>

ParentLocked(d, p) == [ilk EXCEPT ![d] = p]

\* ... or allocates one, any for the same reason, keeping the parent locked.
CreateAlloc(p) ==
  LET r == k[p] IN
  /\ r.pc = "c_dir" /\ Unlocked(r.dp) /\ Check(r.dp) /\ ents[r.dp][r.name] = 0
  /\ \E i \in Inum :
       /\ di[i].type = "none"
       /\ di' = [di EXCEPT ![i] = [type |-> TypeOf(r.op), nlink |-> 0]]
       /\ Iget(i)
       /\ k' = [k EXCEPT ![p].pc = "c_new", ![p].ip = i]
  /\ ic' = Core(ic, r.dp, Inode(r.dp))
  /\ ilk' = ParentLocked(r.dp, p)
  /\ UNCHANGED <<ents, procs, ghosts>>

Late(r) == late' = IF Inode(r.dp).nlink = 0 THEN late \cup {<<r.dp, r.name>>} ELSE late

\* The new inode is filled and named; it stays locked.
CreateNew(p) ==
  LET r == k[p]
      dir == r.op = "mkdir"
      d == Links(Inode(r.dp), IF dir THEN 1 ELSE 0)
      i == [Inode(r.ip) EXCEPT !.nlink = 1]
  IN
  /\ r.pc = "c_new" /\ Unlocked(r.ip) /\ Check(r.ip)
  /\ ents' = [ents EXCEPT ![r.dp][r.name] = r.ip,
                          ![r.ip] = IF dir THEN [@ EXCEPT !["."] = r.ip, ![".."] = r.dp] ELSE @]
  /\ ic' = Core(Core(ic, r.dp, d), r.ip, i) /\ di' = Disk(Disk(di, r.dp, d), r.ip, i)
  /\ ilk' = [ilk EXCEPT ![r.ip] = p, ![r.dp] = Nil]
  /\ Late(r)
  /\ k' = [k EXCEPT ![p] = PutThen(p, "dp", IF r.op = "creat" THEN "o_file" ELSE "c_end")]
  /\ UNCHANGED <<iref, procs, lost, cut>>

\* A dirlink fails, as when the disk is full: the inode is given back.
CreateFail(p) ==
  LET r == k[p]  i == [Inode(r.ip) EXCEPT !.nlink = 0] IN
  /\ r.pc = "c_new" /\ Unlocked(r.ip) /\ Check(r.ip)
  /\ ic' = Core(ic, r.ip, i) /\ di' = Disk(di, r.ip, i)
  /\ k' = [k EXCEPT ![p] = PutThen(p, "ip", "undir")]
  /\ UNCHANGED <<ents, iref, ilk, procs, ghosts>>

\* iunlockput(dp), and return -1; sys_link has a link to take back.
Undir(p) ==
  /\ k[p].pc = "undir"
  /\ ilk' = [ilk EXCEPT ![k[p].dp] = Nil]
  /\ k' = [k EXCEPT ![p] = PutThen(p, "dp", IF k[p].op = "link" THEN "l_bad" ELSE "user")]
  /\ UNCHANGED <<di, ents, ic, iref, procs, ghosts, fpanic>>

\* mkdir and mknod: iunlockput(ip).
CreateEnd(p) ==
  /\ k[p].pc = "c_end"
  /\ ilk' = [ilk EXCEPT ![k[p].ip] = Nil]
  /\ k' = [k EXCEPT ![p] = PutThen(p, "ip", "user")]
  /\ UNCHANGED <<di, ents, ic, iref, procs, ghosts, fpanic>>

\* The name existed: only open takes it, and only a file or a device.
CreateOld(p) ==
  LET r == k[p]  i == r.ip
      take == r.op = "creat" /\ Inode(i).type # "dir"
  IN
  /\ r.pc = "c_old" /\ Unlocked(i) /\ Check(i)
  /\ ic' = Core(ic, i, Inode(i))
  /\ \/ take /\ Go(p, "o_file") /\ ilk' = [ilk EXCEPT ![i] = p]
     \/ ~take /\ k' = [k EXCEPT ![p] = PutThen(p, "ip", "user")] /\ UNCHANGED ilk
  /\ UNCHANGED <<di, ents, iref, procs, ghosts>>

-----------------------------------------------------------------------------
(* open, exec and chdir of an existing name.                                 *)

\* open for writing refuses directories; exec only reads the inode.
OpenLock(p) ==
  LET r == k[p]  i == r.ip
      keep == r.op # "exec" /\ ~(r.op = "openw" /\ Inode(i).type = "dir")
  IN
  /\ r.pc = "open" /\ Unlocked(i) /\ Check(i)
  /\ ic' = Core(ic, i, Inode(i))
  /\ \/ keep /\ Go(p, "o_file") /\ ilk' = [ilk EXCEPT ![i] = p]
     \/ ~keep /\ k' = [k EXCEPT ![p] = PutThen(p, "ip", "user")] /\ UNCHANGED ilk
  /\ UNCHANGED <<di, ents, iref, procs, ghosts>>

\* filealloc and fdalloc; the file takes the reference.  Before them, a device is
\* refused if its major number is out of range.
OpenFile(p) ==
  LET i == k[p].ip IN
  /\ k[p].pc = "o_file"
  /\ ilk' = [ilk EXCEPT ![i] = Nil]
  /\ \/ \E f \in File :
          /\ file[f].ref = 0 /\ ofile[p] = Nil
          /\ file' = [file EXCEPT ![f] = [ref |-> 1, ip |-> i]]
          /\ ofile' = [ofile EXCEPT ![p] = f]
          /\ k' = [k EXCEPT ![p] = Rest]
     \/ /\ ofile[p] # Nil \/ (\A f \in File : file[f].ref > 0) \/ ic[i].type = "dev"
        /\ k' = [k EXCEPT ![p] = PutThen(p, "ip", "user")]
        /\ UNCHANGED <<file, ofile>>
  /\ UNCHANGED <<di, ents, ic, iref, cwd, ghosts, fpanic>>

ChdirLock(p) ==
  LET r == k[p]  i == r.ip  dir == Inode(i).type = "dir" IN
  /\ r.pc = "cd" /\ Unlocked(i) /\ Check(i)
  /\ ic' = Core(ic, i, Inode(i))
  /\ k' = [k EXCEPT ![p] = IF dir THEN Putting(p, cwd[p], "cd_set") ELSE PutThen(p, "ip", "user")]
  /\ UNCHANGED <<di, ents, iref, ilk, procs, ghosts>>

ChdirSet(p) ==
  /\ k[p].pc = "cd_set"
  /\ cwd' = [cwd EXCEPT ![p] = k[p].ip]
  /\ k' = [k EXCEPT ![p] = Rest]
  /\ UNCHANGED <<inodes, file, ofile, ghosts, fpanic>>

-----------------------------------------------------------------------------
(* unlink and link.                                                          *)

\* Mutation: . and .. are names like the others.
AnyName(n) == TRUE

Removable(n) == n \notin {".", ".."}

\* The name in the locked parent; . and .. cannot be unlinked.
UnlinkDir(p) ==
  LET r == k[p]  i == ents[r.dp][r.name]  ok == Removable(r.name) /\ i # 0 IN
  /\ r.pc = "u_dir" /\ Unlocked(r.dp) /\ Check(r.dp)
  /\ ic' = Core(ic, r.dp, Inode(r.dp))
  /\ \/ /\ ok /\ Iget(i) /\ ilk' = [ilk EXCEPT ![r.dp] = p]
        /\ k' = [k EXCEPT ![p].pc = "u_ip", ![p].ip = i]
     \/ ~ok /\ k' = [k EXCEPT ![p] = PutThen(p, "dp", "user")] /\ UNCHANGED <<iref, ilk>>
  /\ UNCHANGED <<di, ents, procs, ghosts>>

IsDirEmpty(i) == \A n \in Name : ents[i][n] = 0

\* The inode is locked too, the entry erased and the parent unlocked.
UnlinkErase(p) ==
  LET r == k[p]  i == Inode(r.ip)
      dir == i.type = "dir"
      d == Links(Inode(r.dp), IF dir THEN -1 ELSE 0)
  IN
  /\ r.pc = "u_ip" /\ Unlocked(r.ip) /\ ~(dir /\ ~IsDirEmpty(r.ip))
  /\ fpanic' = IF i.type = "none" THEN "ilock: no type"
               ELSE IF i.nlink < 1 THEN "unlink: nlink < 1" ELSE fpanic
  /\ ents' = [ents EXCEPT ![r.dp][r.name] = 0]
  /\ ic' = Core(Core(ic, r.ip, i), r.dp, d) /\ di' = Disk(di, r.dp, d)
  /\ ilk' = [ilk EXCEPT ![r.ip] = p, ![r.dp] = Nil]
  /\ late' = late \ {<<r.dp, r.name>>}
  /\ k' = [k EXCEPT ![p] = PutThen(p, "dp", "u_end")]
  /\ UNCHANGED <<iref, procs, lost, cut>>

\* A directory with entries stays.
UnlinkFull(p) ==
  LET r == k[p]  i == Inode(r.ip) IN
  /\ r.pc = "u_ip" /\ Unlocked(r.ip) /\ i.type = "dir" /\ ~IsDirEmpty(r.ip)
  /\ fpanic' = IF i.nlink < 1 THEN "unlink: nlink < 1" ELSE fpanic
  /\ ic' = Core(ic, r.ip, i)
  /\ k' = [k EXCEPT ![p] = PutThen(p, "ip", "undir")]
  /\ UNCHANGED <<di, ents, iref, ilk, procs, ghosts>>

\* The link count goes down, while only the inode is locked.
UnlinkEnd(p) ==
  LET r == k[p]  i == Links(Inode(r.ip), -1) IN
  /\ r.pc = "u_end"
  /\ ic' = Core(ic, r.ip, i) /\ di' = Disk(di, r.ip, i)
  /\ ilk' = [ilk EXCEPT ![r.ip] = Nil]
  /\ k' = [k EXCEPT ![p] = PutThen(p, "ip", "user")]
  /\ UNCHANGED <<ents, iref, procs, ghosts, fpanic>>

Counted(v) == Links(v, 1)

\* link counts the new name before there is one ...
LinkCount(p) ==
  LET r == k[p]  i == Inode(r.ip)  dir == i.type = "dir"  n == IF dir THEN i ELSE Counted(i) IN
  /\ r.pc = "l_src" /\ Unlocked(r.ip) /\ Check(r.ip)
  /\ ic' = Core(ic, r.ip, n) /\ di' = Disk(di, r.ip, n)
  /\ k' = [k EXCEPT ![p] = IF dir THEN PutThen(p, "ip", "user")
                           ELSE [r EXCEPT !.pc = "l_new", !.src = r.ip, !.ip = 0]]
  /\ UNCHANGED <<ents, iref, ilk, procs, ghosts>>

\* ... and looks up the directory to put it in.
LinkNew(p) ==
  LET i == Start(p, k[p].new) IN
  /\ k[p].pc = "l_new"
  /\ Iget(i)
  /\ k' = [k EXCEPT ![p] = [@ EXCEPT !.pc = "namex", !.after = "l_dir", !.path = Elems(k[p].new),
                                     !.new = <<>>, !.ip = i]]
  /\ UNCHANGED <<di, ents, ic, ilk, procs, ghosts, fpanic>>

\* dirlink: the entry is made, unless the disk is full.
LinkDir(p) ==
  LET r == k[p] IN
  /\ r.pc = "l_dir" /\ Unlocked(r.dp) /\ Check(r.dp) /\ ents[r.dp][r.name] = 0
  /\ ic' = Core(ic, r.dp, Inode(r.dp))
  /\ \/ /\ ents' = [ents EXCEPT ![r.dp][r.name] = r.src]
        /\ Late(r)
        /\ k' = [k EXCEPT ![p] = PutThen(p, "dp", "l_end")]
     \/ k' = [k EXCEPT ![p] = PutThen(p, "dp", "l_bad")] /\ UNCHANGED <<ents, late>>
  /\ UNCHANGED <<di, iref, ilk, procs, lost, cut>>

\* dirlink finds the name: it puts the inode that has it, with the directory locked.
LinkFound(p) ==
  LET r == k[p]  i == ents[r.dp][r.name] IN
  /\ r.pc = "l_dir" /\ Unlocked(r.dp) /\ Check(r.dp) /\ i # 0
  /\ Iget(i) /\ ic' = Core(ic, r.dp, Inode(r.dp))
  /\ ilk' = [ilk EXCEPT ![r.dp] = p]
  /\ k' = [k EXCEPT ![p] = Putting(p, i, "undir")]
  /\ UNCHANGED <<di, ents, procs, ghosts>>

LinkEnd(p) ==
  /\ k[p].pc = "l_end"
  /\ k' = [k EXCEPT ![p] = PutThen(p, "src", "user")]
  /\ UNCHANGED <<inodes, procs, ghosts, fpanic>>

\* The link count is taken back.
LinkBad(p) ==
  LET r == k[p]  i == Links(Inode(r.src), -1) IN
  /\ r.pc = "l_bad" /\ Unlocked(r.src) /\ Check(r.src)
  /\ ic' = Core(ic, r.src, i) /\ di' = Disk(di, r.src, i)
  /\ k' = [k EXCEPT ![p] = PutThen(p, "src", "user")]
  /\ UNCHANGED <<ents, iref, ilk, procs, ghosts>>

-----------------------------------------------------------------------------
(* Open files, and processes.                                                *)

\* fileclose of p's descriptor; the process goes on at l.
Fileclose(p, l) ==
  LET f == ofile[p] IN
  /\ ofile' = [ofile EXCEPT ![p] = Nil]
  /\ file' = [file EXCEPT ![f] = IF @.ref = 1 THEN [ref |-> 0, ip |-> 0] ELSE [@ EXCEPT !.ref = @ - 1]]
  /\ k' = [k EXCEPT ![p] = IF file[f].ref = 1 THEN Putting(p, file[f].ip, l) ELSE At(k[p], l)]

Close(p) ==
  /\ k[p].pc = "user" /\ ofile[p] # Nil
  /\ Fileclose(p, "user")
  /\ UNCHANGED <<inodes, cwd, ghosts, fpanic>>

\* fork: filedup and idup.
ForkFiles(p, q) ==
  /\ k[p].pc = "user" /\ k[q].pc = "gone"
  /\ ofile' = [ofile EXCEPT ![q] = ofile[p]]
  /\ file' = IF ofile[p] = Nil THEN file ELSE [file EXCEPT ![ofile[p]].ref = @ + 1]
  /\ Iget(cwd[p]) /\ cwd' = [cwd EXCEPT ![q] = cwd[p]]
  /\ k' = [k EXCEPT ![q] = Rest]
  /\ UNCHANGED <<di, ents, ic, ilk, ghosts, fpanic>>

\* exit closes the files and puts the directory; one process, init, never does.
ExitFiles(p) ==
  /\ k[p].pc = "user" /\ \E q \in FProc \ {p} : ~Within(q, "exit") /\ ~Within(q, "gone")
  /\ \/ ofile[p] # Nil /\ Fileclose(p, "exit")
     \/ ofile[p] = Nil /\ Go(p, "exit") /\ UNCHANGED <<file, ofile>>
  /\ UNCHANGED <<inodes, cwd, ghosts, fpanic>>

ExitCwd(p) ==
  /\ k[p].pc = "exit"
  /\ k' = [k EXCEPT ![p] = Putting(p, cwd[p], "gone")]
  /\ cwd' = [cwd EXCEPT ![p] = 0]
  /\ UNCHANGED <<inodes, file, ofile, ghosts, fpanic>>

FilesStep(p) ==
  \/ Iput(p) \/ IputLast(p) \/ IputFree(p) \/ IputDrop(p)
  \/ Namex(p)
  \/ CreateFound(p) \/ CreateNone(p) \/ CreateAlloc(p) \/ CreateNew(p) \/ CreateFail(p)
  \/ Undir(p) \/ CreateEnd(p) \/ CreateOld(p)
  \/ OpenLock(p) \/ OpenFile(p) \/ ChdirLock(p) \/ ChdirSet(p)
  \/ UnlinkDir(p) \/ UnlinkErase(p) \/ UnlinkFull(p) \/ UnlinkEnd(p)
  \/ LinkCount(p) \/ LinkNew(p) \/ LinkDir(p) \/ LinkFound(p) \/ LinkEnd(p) \/ LinkBad(p)
  \/ ExitCwd(p)

FilesNext ==
  /\ fpanic = "no"
  /\ \E p \in FProc :
       \/ Begin(p) \/ FilesStep(p) \/ Close(p) \/ ExitFiles(p)
       \/ \E q \in FProc : ForkFiles(p, q)

-----------------------------------------------------------------------------
Labels ==
  {"user", "gone", "put", "free", "drop", "namex", "c_dir", "c_old", "c_new", "c_end", "undir",
   "open", "o_file", "cd", "cd_set", "u_dir", "u_ip", "u_end", "l_src", "l_new", "l_dir", "l_end",
   "l_bad", "exit"}

FilesTypeOK ==
  /\ \A i \in Inum :
       /\ di[i].type \in {"none", "file", "dir", "dev"} /\ di[i].nlink \in Nat
       /\ \A n \in AllName : ents[i][n] \in Inum \cup {0}
       /\ iref[i] \in Nat /\ ilk[i] \in FProc \cup {Nil}
       /\ ic[i].valid => ic[i].type = di[i].type /\ ic[i].nlink = di[i].nlink
  /\ \A p \in FProc : k[p].pc \in Labels /\ ofile[p] \in File \cup {Nil}

Count(S) == Cardinality(S)

\* ip->ref is the number of pointers to the entry: current directories, open
\* files, and the references of the calls under way.  f->ref is the number of
\* descriptors.
ReferencesExact ==
  /\ \A i \in Inum :
       iref[i] = Count({p \in FProc : cwd[p] = i /\ ~Within(p, "cd_set")})
               + Count({f \in File : file[f].ref > 0 /\ file[f].ip = i})
               + Count({<<p, f>> \in FProc \X {"ip", "dp", "src", "put"} : k[p][f] = i})
  /\ \A f \in File : file[f].ref = Count({p \in FProc : ofile[p] = f})

Names(i) == {<<d, n>> \in Inum \X Name : ents[d][n] = i}
Subdirs(i) == {n \in Name : ents[i][n] # 0 /\ di[ents[i][n]].type = "dir"}

\* Links counted for which a call has no entry any more, or not yet one.
Due(i) ==
  Count({p \in FProc : k[p].ip = i /\ Within(p, "u_end")})
  + Count({p \in FProc : k[p].src = i /\ ~Within(p, "l_end")})

\* nlink counts the names of an inode and, for a directory, its subdirectories;
\* it is off only by the links of calls under way and by entries that were made
\* in a directory after it was removed, which disappear with it.
LinksExact ==
  \A i \in Inum :
    di[i].type # "none" /\ (\A p \in FProc : ~(k[p].pc = "c_new" /\ k[p].ip = i)) =>
      Inode(i).nlink = Count(Names(i)) + Due(i) + lost[i]
                       + (IF i = ROOTINO THEN 1 ELSE 0)
                       + (IF Inode(i).type = "dir" THEN Count(Subdirs(i)) ELSE 0)

\* Every entry, every open file and every current directory is an allocated inode,
\* whatever unlinks, closes and exits race with it; only the .. of a directory that
\* is removed may lead nowhere.
NamesAllocated ==
  /\ \A d \in Inum :
       ents[d][".."] # 0 /\ di[d].nlink > 0 /\ (\A p \in FProc : ~(k[p].ip = d /\ Within(p, "u_end")))
         => di[ents[d][".."]].type = "dir"
  /\ \A d \in Inum, n \in Name \cup {"."} : ents[d][n] # 0 => di[ents[d][n]].type # "none"
  /\ \A f \in File : file[f].ref > 0 => di[file[f].ip].type # "none"
  /\ \A p \in FProc : cwd[p] # 0 /\ ~Within(p, "cd_set") => di[cwd[p]].type # "none"

\* The inode a process waits to lock.
Wants(p) ==
  CASE k[p].pc \in {"namex", "c_old", "c_new", "open", "cd", "u_ip", "l_src"} -> k[p].ip
    [] k[p].pc \in {"c_dir", "u_dir", "l_dir"} -> k[p].dp
    [] k[p].pc = "l_bad" -> k[p].src
    [] OTHER -> 0

\* Two locks are held only of a directory and of an entry of it, never of .., though
\* paths lead down and up the tree, one lock at a time: no processes wait for each
\* other, and nobody returns to user mode, or waits for an inode, with it locked.
NoLockCycle ==
  /\ \A S \in SUBSET FProc :
       S # {} => \E p \in S : Wants(p) = 0 \/ ilk[Wants(p)] \notin S
  /\ \A i \in Inum : ilk[i] # Nil => k[ilk[i]].pc \notin {"user", "gone"}

\* ilock finds an allocated inode, unlink a link to take away, and the last iput
\* an unlocked inode ("this acquiresleep() won't block", fs.c), unless a process in
\* a removed directory has looked up .., whose inode has been freed.
FsNeverPanics == fpanic \in {"no", "freed .."}

\* The inode table, the link counts and the names agree while calls race with
\* unlinks, closes and exits, and none of fs.c's panics is reached but by a .. that
\* leads nowhere.
InodesExact ==
  FilesTypeOK /\ ReferencesExact /\ LinksExact /\ NamesAllocated /\ FsNeverPanics
=============================================================================
