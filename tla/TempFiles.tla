----------------------------- MODULE TempFiles -----------------------------
(***************************************************************************)
(* The temporary files of several runs of pxe-kexec in one $TMPDIR, at the *)
(* same time or one after the other (downloadStuff(), execute(),           *)
(* deleteKernels() and the destructor in src/src/pxekexec.cc): how a run   *)
(* finds a free name, what it writes, what kexec -l reads under that name, *)
(* and which names it deletes.                                             *)
(*                                                                         *)
(* A name is <<kind, n>>: pxe-kexec-kernel or pxe-kexec-initrd with n      *)
(* underscores behind it.  An inode is <<creator, kind, n>>: who created   *)
(* it under which name, which nobody does twice.                           *)
(***************************************************************************)
EXTENDS Naturals

CONSTANTS
    Runs,        \* the runs of the program
    WithInitrd,  \* those that boot an entry with an initrd
    NoDelete,    \* those with --nodelete
    Foreign,     \* the names of files of somebody else
    Other,       \* that somebody
    Earlier,     \* those that are over when the other ones start
    Faults,      \* what may go wrong
    Nothing      \* no handle yet, nothing loaded yet, no such file

Kinds == {"kernel", "initrd"}

Names == Kinds \X Nat

\* A file is written in two blocks; the second one is flushed by the close.
Blocks == {1, 2}

ASSUME TempFilesAssumption ==
    /\ WithInitrd \subseteq Runs /\ NoDelete \subseteq Runs
    /\ Other \notin Runs /\ Nothing \notin Runs
    /\ Foreign \subseteq Names
    /\ Earlier \subseteq Runs
    /\ Faults \subseteq {"download",   \* a download fails
                         "kexec",      \* kexec -l fails
                         "kill"}       \* a signal ends a run

VARIABLES
    pc,          \* where each run is
    cur,         \* the kind of file it is at
    dir,         \* the directory: from the names in it to inodes
    data,        \* what an inode holds: a set of <<writer, block>>
    name,        \* the local variables kernel and initrd of each run
    handle,      \* the inode its stream writes to
    downloaded,  \* the kinds whose m_downloaded... member is set
    loaded,      \* for each kind, what kexec -l read
    met          \* the runs that were under way beside another one

vars == <<pc, cur, dir, data, name, handle, downloaded, loaded, met>>

Ended == {"done", "dead"}

Content(writer) == {writer} \X Blocks

ForeignInode(f) == <<Other, f[1], f[2]>>

\* All inodes there can be.
Inodes == (Runs \union {Other}) \X Kinds \X Nat

\* The names downloadStuff() tries first.
FirstNames == [k \in Kinds |-> <<k, 0>>]

Init ==
    /\ pc = [r \in Runs |-> "start"]
    /\ cur = [r \in Runs |-> "kernel"]
    /\ dir = [f \in Foreign |-> ForeignInode(f)]
    /\ data = [o \in {ForeignInode(f) : f \in Foreign} |-> Content(Other)]
    /\ name = [r \in Runs |-> FirstNames]
    /\ handle = [r \in Runs |-> Nothing]
    /\ downloaded = [r \in Runs |-> {}]
    /\ loaded = [r \in Runs |-> Nothing]
    /\ met = {}

-----------------------------------------------------------------------------
(* The file system                                                         *)

\* f with the value v at x, which may be new to its domain.
Update(f, x, v) == [y \in DOMAIN f \union {x} |-> IF y = x THEN v ELSE f[y]]

Without(f, x) == [y \in DOMAIN f \ {x} |-> f[y]]

\* Opening for writing: a new empty file, or what is there cut to nothing.
Create(r, f) ==
    LET inode == IF f \in DOMAIN dir THEN dir[f] ELSE <<r, f[1], f[2]>> IN
    /\ dir' = Update(dir, f, inode)
    /\ data' = Update(data, inode, {})
    /\ handle' = [handle EXCEPT ![r] = inode]

\* What is read under a name.
Read(f) == IF f \in DOMAIN dir THEN data[dir[f]] ELSE Nothing

-----------------------------------------------------------------------------
(* One run                                                                 *)

UnderWay == {r \in Runs : pc[r] \notin Ended \union {"start"}}

Start(r) ==
    /\ pc[r] = "start"
    /\ \A q \in Earlier \ {r} : pc[q] \in IF r \in Earlier THEN Ended \union {"start"} ELSE Ended
    /\ met' = IF UnderWay = {} THEN met ELSE met \union UnderWay \union {r}
    /\ pc' = [pc EXCEPT ![r] = "stat"]
    /\ UNCHANGED <<cur, dir, data, name, handle, downloaded, loaded>>

\* Mutated form: a name that is taken is not made longer.
StatTakenSame(r) ==
    /\ pc[r] = "stat" /\ name[r][cur[r]] \in DOMAIN dir
    /\ UNCHANGED <<pc, cur, dir, data, name, handle, downloaded, loaded, met>>

\* Mutated form: the initrd's name is taken as it is.
StatTakenKernelOnly(r) ==
    /\ pc[r] = "stat" /\ name[r][cur[r]] \in DOMAIN dir
    /\ IF cur[r] = "kernel"
       THEN name' = [name EXCEPT ![r]["kernel"] = <<"kernel", @[2] + 1>>] /\ pc' = pc
       ELSE name' = name /\ pc' = [pc EXCEPT ![r] = "open"]
    /\ cur' = [cur EXCEPT ![r] = "kernel"]
    /\ UNCHANGED <<dir, data, handle, downloaded, loaded, met>>

\* Mutated form: the second loop builds on the kernel's name.
StatTakenCopied(r) ==
    /\ pc[r] = "stat" /\ name[r][cur[r]] \in DOMAIN dir
    /\ name' = [name EXCEPT ![r][cur[r]] = <<"kernel", @[2] + 1>>]
    /\ UNCHANGED <<pc, cur, dir, data, handle, downloaded, loaded, met>>

\* stat() finds a file: one more underscore.
StatTaken(r) ==
    /\ pc[r] = "stat" /\ name[r][cur[r]] \in DOMAIN dir
    /\ name' = [name EXCEPT ![r][cur[r]] = <<cur[r], @[2] + 1>>]
    /\ UNCHANGED <<pc, cur, dir, data, handle, downloaded, loaded, met>>

\* stat() finds none: the name is kept.  Both names are chosen before either
\* file is opened.
StatFree(r) ==
    /\ pc[r] = "stat" /\ name[r][cur[r]] \notin DOMAIN dir
    /\ IF cur[r] = "kernel"
       THEN cur' = [cur EXCEPT ![r] = "initrd"] /\ pc' = pc
       ELSE cur' = [cur EXCEPT ![r] = "kernel"] /\ pc' = [pc EXCEPT ![r] = "open"]
    /\ UNCHANGED <<dir, data, name, handle, downloaded, loaded, met>>

Open(r) ==
    /\ pc[r] = "open"
    /\ Create(r, name[r][cur[r]])
    /\ pc' = [pc EXCEPT ![r] = "write"]
    /\ UNCHANGED <<cur, name, downloaded, loaded, met>>

\* The download writes to the inode, whatever its name has become.
Write(r) ==
    /\ pc[r] = "write"
    /\ data' = [data EXCEPT ![handle[r]] = @ \union {<<r, 1>>}]
    /\ pc' = [pc EXCEPT ![r] = "close"]
    /\ UNCHANGED <<cur, dir, name, handle, downloaded, loaded, met>>

\* Mutated form: the stream is not closed before its file is used.
CloseLater(r) ==
    /\ pc[r] = "close"
    /\ data' = data
    /\ downloaded' = [downloaded EXCEPT ![r] = @ \union {cur[r]}]
    /\ IF cur[r] = "kernel" /\ r \in WithInitrd
       THEN cur' = [cur EXCEPT ![r] = "initrd"] /\ pc' = [pc EXCEPT ![r] = "open"]
       ELSE cur' = cur /\ pc' = [pc EXCEPT ![r] = "load"]
    /\ UNCHANGED <<dir, name, handle, loaded, met>>

\* The rest is flushed, and the member set; the initrd follows if there is one.
Close(r) ==
    /\ pc[r] = "close"
    /\ data' = [data EXCEPT ![handle[r]] = @ \union {<<r, 2>>}]
    /\ handle' = [handle EXCEPT ![r] = Nothing]
    /\ downloaded' = [downloaded EXCEPT ![r] = @ \union {cur[r]}]
    /\ IF cur[r] = "kernel" /\ r \in WithInitrd
       THEN cur' = [cur EXCEPT ![r] = "initrd"] /\ pc' = [pc EXCEPT ![r] = "open"]
       ELSE cur' = cur /\ pc' = [pc EXCEPT ![r] = "load"]
    /\ UNCHANGED <<dir, name, loaded, met>>

\* A failed download: what is written stays, the member is not set.
DownloadThrows(r) ==
    /\ "download" \in Faults
    /\ pc[r] \in {"write", "close"}
    /\ pc' = [pc EXCEPT ![r] = "destructor"]
    /\ cur' = [cur EXCEPT ![r] = "kernel"]
    /\ handle' = [handle EXCEPT ![r] = Nothing]
    /\ UNCHANGED <<dir, data, name, downloaded, loaded, met>>

\* kexec -l opens the files by their names and reads them, or fails.
Load(r) ==
    /\ pc[r] = "load"
    /\ LET read == [k \in downloaded[r] |-> Read(name[r][k])] IN
       \/ /\ \A k \in downloaded[r] : read[k] # Nothing
          /\ loaded' = [loaded EXCEPT ![r] = read]
       \/ /\ \/ "kexec" \in Faults
             \/ \E k \in downloaded[r] : read[k] = Nothing
          /\ loaded' = loaded
    /\ pc' = [pc EXCEPT ![r] = "delete"]
    /\ cur' = [cur EXCEPT ![r] = "kernel"]
    /\ UNCHANGED <<dir, data, name, handle, downloaded, met>>

\* Mutated form: the names are the ones downloadStuff() starts with.
RemoveFirstName(r) ==
    /\ dir' = IF r \notin NoDelete /\ "initrd" \in downloaded[r]
              THEN Without(dir, <<cur[r], 0>>) ELSE dir
    /\ UNCHANGED <<data, name, handle, downloaded, loaded, met>>

\* Mutated form: only the initrd is removed.
RemoveInitrd(r) ==
    /\ dir' = IF r \notin NoDelete /\ "initrd" \in downloaded[r] /\ cur[r] = "initrd"
              THEN Without(dir, name[r][cur[r]]) ELSE dir
    /\ UNCHANGED <<data, name, handle, downloaded, loaded, met>>

\* One remove() of deleteKernels(): of what is called so by now.  Both depend
\* on the initrd, and the names stay set.
Remove(r) ==
    /\ dir' = IF r \notin NoDelete /\ "initrd" \in downloaded[r]
              THEN Without(dir, name[r][cur[r]]) ELSE dir
    /\ UNCHANGED <<data, name, handle, downloaded, loaded, met>>

\* deleteKernels() as execute() calls it after the load, and the destructor:
\* first the kernel, then the initrd.
DeleteKernels(r) ==
    /\ pc[r] \in {"delete", "destructor"}
    /\ Remove(r)
    /\ IF cur[r] = "kernel"
       THEN cur' = [cur EXCEPT ![r] = "initrd"] /\ pc' = pc
       ELSE /\ cur' = [cur EXCEPT ![r] = "kernel"]
            /\ pc' = [pc EXCEPT ![r] = IF @ = "delete" THEN "destructor" ELSE "done"]

\* A signal ends the run, and its memory is gone.
Kill(r) ==
    /\ "kill" \in Faults
    /\ r \in UnderWay
    /\ pc' = [pc EXCEPT ![r] = "dead"]
    /\ cur' = [cur EXCEPT ![r] = "kernel"]
    /\ name' = [name EXCEPT ![r] = FirstNames]
    /\ handle' = [handle EXCEPT ![r] = Nothing]
    /\ downloaded' = [downloaded EXCEPT ![r] = {}]
    /\ loaded' = [loaded EXCEPT ![r] = Nothing]
    /\ UNCHANGED <<dir, data, met>>

Step(r) == \/ Start(r) \/ StatTaken(r) \/ StatFree(r) \/ Open(r) \/ Write(r)
           \/ Close(r) \/ DownloadThrows(r) \/ Load(r) \/ DeleteKernels(r)

AllEnded == (\A r \in Runs : pc[r] \in Ended) /\ UNCHANGED vars

Next == (\E r \in Runs : Step(r) \/ Kill(r)) \/ AllEnded

Spec == Init /\ [][Next]_vars

\* Every run gets its turn.
FairSpec == Spec /\ \A r \in Runs : WF_vars(Step(r))

-----------------------------------------------------------------------------
(* Properties                                                              *)

\* Every variable has its type.
TypeOK ==
    /\ pc \in [Runs -> {"start", "stat", "open", "write", "close", "load",
                        "delete", "destructor"} \union Ended]
    /\ cur \in [Runs -> Kinds]
    /\ name \in [Runs -> [Kinds -> Names]]
    /\ \A r \in Runs, k \in Kinds : name[r][k][1] = k
    /\ DOMAIN dir \subseteq Names
    /\ \A f \in DOMAIN dir : dir[f] \in DOMAIN data
    /\ DOMAIN data \subseteq Inodes
    /\ \A o \in DOMAIN data : data[o] \subseteq (Runs \union {Other}) \X Blocks
    /\ handle \in [Runs -> DOMAIN data \union {Nothing}]
    /\ downloaded \in [Runs -> SUBSET Kinds]
    /\ \A r \in Runs : loaded[r] # Nothing => DOMAIN loaded[r] \subseteq Kinds
    /\ met \subseteq Runs

\* A file of somebody else that was there before is never overwritten, cut or
\* deleted, however the runs interleave, fail and die (the stat() loops; the
\* names deleteKernels() uses).
ForeignFilesUntouched ==
    \A f \in Foreign : /\ f \in DOMAIN dir
                       /\ dir[f] = ForeignInode(f)
                       /\ data[dir[f]] = Content(Other)

\* A run that met no other loads what it downloaded, all of it, whatever
\* earlier runs left (the names downloadStuff() finds, the close of each
\* stream before kexec -l).
LoadsItsOwn ==
    \A r \in Runs \ met : loaded[r] # Nothing =>
        /\ \A k \in DOMAIN loaded[r] : loaded[r][k] = Content(r)
        /\ "kernel" \in DOMAIN loaded[r]
        /\ r \in WithInitrd => "initrd" \in DOMAIN loaded[r]

\* A file is deleted by the run that made it, while it is deleting, or else by
\* one that was under way beside another (the names deleteKernels() uses).
DeletesOnlyItsOwn ==
    [][\A f \in DOMAIN dir : f \notin DOMAIN dir' =>
           \E r \in Runs : /\ r \in met \/ dir[f][1] = r
                           /\ pc[r] \in {"delete", "destructor"}]_vars

\* A run that downloaded an initrd and ended on its own leaves no file of its
\* making, even when others ran at the same time.
OwnFilesRemoved ==
    \A r \in Runs \ NoDelete :
        pc[r] = "done" /\ "initrd" \in downloaded[r]
            => \A f \in DOMAIN dir : dir[f][1] # r

\* Every run ends: it finds free names, whoever takes some at the same time.
Termination == \A r \in Runs : <>(pc[r] \in Ended)
=============================================================================
