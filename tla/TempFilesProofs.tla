-------------------------- MODULE TempFilesProofs --------------------------
(***************************************************************************)
(* Proofs about TempFiles for every set of runs, whichever of them boot an *)
(* initrd, keep their files or come first, and every set of files of       *)
(* somebody else.                                                          *)
(***************************************************************************)
EXTENDS TempFiles, TLAPS

-----------------------------------------------------------------------------
(* The inductive invariants.                                               *)

Places == {"start", "stat", "open", "write", "close", "load",
           "delete", "destructor"} \union Ended

\* The places behind the search for free names; both names are kept.
Named == {"open", "write", "close", "load", "delete", "destructor"}

Contents == SUBSET ((Runs \union {Other}) \X Blocks)

Loads == UNION {[K -> Contents \union {Nothing}] : K \in SUBSET Kinds}

\* A run starts with the kernel.  The tables are functions, and a name leads to
\* an inode that was made for it: no two names lead to the same one.
TypeInv ==
    /\ TypeOK
    /\ dir \in [DOMAIN dir -> DOMAIN data]
    /\ data \in [DOMAIN data -> Contents]
    /\ loaded \in [Runs -> Loads \union {Nothing}]
    /\ \A f \in DOMAIN dir : dir[f] = <<dir[f][1], f[1], f[2]>>
    /\ \A r \in Runs : pc[r] \in {"write", "close"} => handle[r] \in DOMAIN data
    /\ \A r \in Runs : pc[r] = "start" => cur[r] = "kernel"

\* The names a run has decided on are not those of somebody else.
NamesAreFree ==
    \A r \in Runs :
        /\ pc[r] \in Named => \A k \in Kinds : name[r][k] \notin Foreign
        /\ pc[r] = "stat" /\ cur[r] = "initrd" => name[r]["kernel"] \notin Foreign

\* ... and neither are the files its streams write to.
HandlesAreNotForeign ==
    \A r \in Runs, f \in Foreign :
        pc[r] \in {"write", "close"} => handle[r] # ForeignInode(f)

ForeignInv == NamesAreFree /\ HandlesAreNotForeign /\ ForeignFilesUntouched

\* What a run has made, and somebody may have opened since, it finds under one
\* of its names, until it has deleted it.
OwnOf(r) ==
    /\ "initrd" \in downloaded[r] => pc[r] \in {"load", "delete", "destructor", "done"}
    /\ \A f \in DOMAIN dir : dir[f][1] = r =>
           /\ pc[r] \notin {"start", "stat"}
           /\ pc[r] # "dead" => f \in {name[r][k] : k \in Kinds}
           /\ r \notin NoDelete /\ "initrd" \in downloaded[r] =>
                  /\ pc[r] = "destructor" /\ cur[r] = "initrd"
                         => f # name[r]["kernel"]
                  /\ pc[r] # "done"

OwnInv == \A r \in Runs : OwnOf(r)

\* A run that met no other is the only one under way.
Alone ==
    \A r \in Runs \ met : r \in UnderWay =>
        \A q \in Runs \ {r} : q \notin UnderWay

Fetched(r, k) ==
    /\ name[r][k] \in DOMAIN dir
    /\ data[dir[name[r][k]]] = Content(r)

\* So nobody takes a name between its stat() and its open, and nobody touches
\* the file before kexec -l.
AloneOf(r) ==
    /\ pc[r] \in {"start", "stat"} => downloaded[r] = {}
    /\ pc[r] = "stat" /\ cur[r] = "initrd" => name[r]["kernel"] \notin DOMAIN dir
    /\ pc[r] \in Named => \A k \in Kinds :
           name[r][k] \in DOMAIN dir => dir[name[r][k]][1] = r
    /\ pc[r] \in {"open", "write", "close"} =>
           /\ downloaded[r] = IF cur[r] = "kernel" THEN {} ELSE {"kernel"}
           /\ cur[r] = "initrd" => r \in WithInitrd
    /\ pc[r] \in {"write", "close"} =>
           /\ name[r][cur[r]] \in DOMAIN dir
           /\ handle[r] = dir[name[r][cur[r]]]
           /\ data[handle[r]] = IF pc[r] = "write" THEN {} ELSE {<<r, 1>>}
    /\ pc[r] \in {"open", "write", "close", "load"} =>
           \A k \in downloaded[r] : Fetched(r, k)
    /\ pc[r] = "load" =>
           downloaded[r] = IF r \in WithInitrd THEN Kinds ELSE {"kernel"}

AloneInv == \A r \in Runs \ met : AloneOf(r)

MetInv == Alone /\ AloneInv /\ LoadsItsOwn

-----------------------------------------------------------------------------
(* The file system.                                                        *)

IsTable(f) == f = [x \in DOMAIN f |-> f[x]]

\* A table whose values are in a set is a function to that set.
LEMMA TableType ==
    ASSUME NEW f, NEW S, IsTable(f), \A x \in DOMAIN f : f[x] \in S
    PROVE  f \in [DOMAIN f -> S]
BY DEF IsTable

\* The name a run is at, and the inode it opens under it.
NameOf(r) == name[r][cur[r]]

InodeOf(r) == IF NameOf(r) \in DOMAIN dir
              THEN dir[NameOf(r)]
              ELSE <<r, NameOf(r)[1], NameOf(r)[2]>>

\* What an open for writing does: the name leads to an inode that is empty,
\* everything else is as it was.
Opens(r) ==
    /\ NameOf(r) \in Names
    /\ InodeOf(r) \in Inodes
    /\ InodeOf(r) = <<InodeOf(r)[1], NameOf(r)[1], NameOf(r)[2]>>
    /\ NameOf(r) \notin DOMAIN dir => InodeOf(r)[1] = r
    /\ NameOf(r) \in DOMAIN dir => InodeOf(r) = dir[NameOf(r)]
    /\ DOMAIN dir' = DOMAIN dir \union {NameOf(r)}
    /\ dir'[NameOf(r)] = InodeOf(r)
    /\ \A f \in DOMAIN dir \ {NameOf(r)} : dir'[f] = dir[f]
    /\ IsTable(dir')
    /\ DOMAIN data' = DOMAIN data \union {InodeOf(r)}
    /\ data'[InodeOf(r)] = {}
    /\ \A o \in DOMAIN data \ {InodeOf(r)} : data'[o] = data[o]
    /\ IsTable(data')
    /\ handle' = [handle EXCEPT ![r] = InodeOf(r)]

\* Opening a file does that, whether it was there or not.
LEMMA OpenSteps ==
    ASSUME TypeInv, NEW r \in Runs, Open(r)
    PROVE  Opens(r)
<1>1. NameOf(r) \in Names
  BY DEF TypeInv, TypeOK, NameOf
<1>2. NameOf(r)[1] \in Kinds /\ NameOf(r)[2] \in Nat
  BY <1>1 DEF Names
<1>3. /\ dir' = Update(dir, NameOf(r), InodeOf(r))
      /\ data' = Update(data, InodeOf(r), {})
      /\ handle' = [handle EXCEPT ![r] = InodeOf(r)]
  BY DEF Open, Create, InodeOf, NameOf
<1>4. /\ InodeOf(r) \in Inodes
      /\ InodeOf(r) = <<InodeOf(r)[1], NameOf(r)[1], NameOf(r)[2]>>
      /\ NameOf(r) \notin DOMAIN dir => InodeOf(r)[1] = r
      /\ NameOf(r) \in DOMAIN dir => InodeOf(r) = dir[NameOf(r)]
  <2>1. CASE NameOf(r) \in DOMAIN dir
    BY <2>1 DEF InodeOf, TypeInv, TypeOK
  <2>2. CASE NameOf(r) \notin DOMAIN dir
    BY <1>2, <2>2 DEF InodeOf, Inodes
  <2> QED
    BY <2>1, <2>2
<1>5. /\ DOMAIN dir' = DOMAIN dir \union {NameOf(r)}
      /\ dir'[NameOf(r)] = InodeOf(r)
      /\ \A f \in DOMAIN dir \ {NameOf(r)} : dir'[f] = dir[f]
      /\ IsTable(dir')
  BY <1>3 DEF Update, IsTable
<1>6. /\ DOMAIN data' = DOMAIN data \union {InodeOf(r)}
      /\ data'[InodeOf(r)] = {}
      /\ \A o \in DOMAIN data \ {InodeOf(r)} : data'[o] = data[o]
      /\ IsTable(data')
  BY <1>3 DEF Update, IsTable
<1> QED
  BY <1>1, <1>3, <1>4, <1>5, <1>6 DEF Opens

\* What one remove() of deleteKernels() does.
Removes(r) ==
    /\ DOMAIN dir' \subseteq DOMAIN dir
    /\ DOMAIN dir \subseteq DOMAIN dir' \union {NameOf(r)}
    /\ r \notin NoDelete /\ "initrd" \in downloaded[r] => NameOf(r) \notin DOMAIN dir'
    /\ ~(r \notin NoDelete /\ "initrd" \in downloaded[r]) => dir' = dir
    /\ \A f \in DOMAIN dir' : dir'[f] = dir[f]
    /\ IsTable(dir')

\* deleteKernels() does that.
LEMMA RemoveSteps ==
    ASSUME TypeInv, NEW r \in Runs, DeleteKernels(r)
    PROVE  Removes(r)
<1>1. CASE r \notin NoDelete /\ "initrd" \in downloaded[r]
  <2>1. dir' = Without(dir, NameOf(r))
    BY <1>1 DEF DeleteKernels, Remove, NameOf
  <2> QED
    BY <1>1, <2>1 DEF Without, IsTable, Removes
<1>2. CASE ~(r \notin NoDelete /\ "initrd" \in downloaded[r])
  <2>1. dir' = dir
    BY <1>2 DEF DeleteKernels, Remove
  <2> QED
    BY <1>2, <2>1 DEF TypeInv, IsTable, Removes
<1> QED
  BY <1>1, <1>2

-----------------------------------------------------------------------------
(* Type correctness.                                                       *)

\* A new inode is one, and its name leads to it.
LEMMA OpenType ==
    ASSUME TypeInv, NEW r \in Runs, Open(r)
    PROVE  TypeInv'
<1>0. Opens(r)
  BY OpenSteps
<1>1. \A f \in DOMAIN dir : dir[f] \in DOMAIN data /\ f \in Names
  BY DEF TypeInv, TypeOK
<1>2. dir' \in [DOMAIN dir' -> DOMAIN data']
  <2>1. \A f \in DOMAIN dir' : dir'[f] \in DOMAIN data'
    BY <1>0, <1>1 DEF Opens
  <2> QED
    BY <1>0, <2>1, TableType DEF Opens
<1>3. data' \in [DOMAIN data' -> Contents]
  <2>1. \A o \in DOMAIN data' : data'[o] \in Contents
    BY <1>0 DEF Opens, TypeInv, Contents
  <2> QED
    BY <1>0, <2>1, TableType DEF Opens
<1>4. DOMAIN dir' \subseteq Names
  BY <1>0, <1>1 DEF Opens
<1>5. DOMAIN data' \subseteq Inodes
  BY <1>0 DEF Opens, TypeInv, TypeOK
<1>6. \A f \in DOMAIN dir' : dir'[f] = <<dir'[f][1], f[1], f[2]>>
  BY <1>0 DEF Opens, TypeInv
<1>7. /\ handle' \in [Runs -> DOMAIN data' \union {Nothing}]
      /\ handle'[r] \in DOMAIN data'
  BY <1>0 DEF Opens, TypeInv, TypeOK
<1>8. \A q \in Runs : pc'[q] \in {"write", "close"} => handle'[q] \in DOMAIN data'
  BY <1>0, <1>7 DEF Opens, Open, TypeInv, TypeOK
<1>9. pc' = [pc EXCEPT ![r] = "write"] /\ UNCHANGED <<cur, name, downloaded, loaded, met>>
  BY DEF Open
<1>10. \A q \in Runs : pc'[q] = "start" => cur'[q] = "kernel"
  BY <1>9 DEF TypeInv, TypeOK
<1> QED
  BY <1>2, <1>3, <1>4, <1>5, <1>6, <1>7, <1>8, <1>9, <1>10 DEF TypeInv, TypeOK, Contents

\* Every step keeps every variable in its type.
LEMMA NextType ==
    ASSUME TypeInv, [Next]_vars
    PROVE  TypeInv'
<1> USE TempFilesAssumption DEF TypeInv, TypeOK, Ended
<1>1. ASSUME NEW r \in Runs, Start(r)
      PROVE  TypeInv'
  BY <1>1 DEF Start, UnderWay
<1>2. ASSUME NEW r \in Runs, StatTaken(r)
      PROVE  TypeInv'
  <2>1. <<cur[r], name[r][cur[r]][2] + 1>> \in Names
    BY DEF Names
  <2>2. name' = [name EXCEPT ![r][cur[r]] = <<cur[r], name[r][cur[r]][2] + 1>>]
    BY <1>2 DEF StatTaken
  <2>3. /\ name' \in [Runs -> [Kinds -> Names]]
        /\ \A q \in Runs, k \in Kinds : name'[q][k][1] = k
    BY <2>1, <2>2
  <2> QED
    BY <1>2, <2>3 DEF StatTaken
<1>3. ASSUME NEW r \in Runs, StatFree(r)
      PROVE  TypeInv'
  <2>0. /\ pc \in [Runs -> Places] /\ pc[r] = "stat"
        /\ cur \in [Runs -> Kinds]
        /\ \A q \in Runs : pc[q] = "start" => cur[q] = "kernel"
        /\ cur' = [cur EXCEPT ![r] = "initrd"] \/ cur' = [cur EXCEPT ![r] = "kernel"]
    BY <1>3 DEF StatFree, Places
  <2>2. pc' = pc \/ pc' = [pc EXCEPT ![r] = "open"]
    BY <1>3 DEF StatFree
  <2>1. /\ cur' \in [Runs -> Kinds]
        /\ \A q \in Runs : pc'[q] = "start" => cur'[q] = "kernel"
    BY ONLY <2>0, <2>2 DEF Kinds
  <2>3. pc' \in [Runs -> {"start", "stat", "open", "write", "close", "load",
                         "delete", "destructor"} \union Ended]
    <3>1. pc \in [Runs -> Places] /\ "open" \in Places
      BY DEF Places
    <3>2. pc' \in [Runs -> Places]
      BY ONLY <2>2, <3>1
    <3> QED
      BY ONLY <3>2 DEF Places
  <2>4. UNCHANGED <<dir, data, name, handle, downloaded, loaded, met>>
    BY <1>3 DEF StatFree
  <2>5. \A q \in Runs : pc'[q] \in {"write", "close"} => pc[q] = pc'[q]
    BY <2>2
  <2> QED
    BY <2>1, <2>3, <2>4, <2>5
<1>4. ASSUME NEW r \in Runs, Open(r)
      PROVE  TypeInv'
  BY <1>4, OpenType
<1>5. ASSUME NEW r \in Runs, Write(r)
      PROVE  TypeInv'
  BY <1>5 DEF Write, Contents, Blocks
<1>6. ASSUME NEW r \in Runs, Close(r)
      PROVE  TypeInv'
  <2>1. /\ pc' = [pc EXCEPT ![r] = "open"] \/ pc' = [pc EXCEPT ![r] = "load"]
        /\ cur' = cur \/ cur' = [cur EXCEPT ![r] = "initrd"]
    BY <1>6 DEF Close
  <2>2. pc \in [Runs -> Places] /\ {"open", "load"} \subseteq Places
    BY DEF Places
  <2>3. pc' \in [Runs -> Places] /\ cur' \in [Runs -> Kinds]
    BY ONLY <2>1, <2>2, TypeInv DEF TypeInv, TypeOK, Kinds
  <2>4. \A q \in Runs : pc'[q] \in {"start", "write", "close"}
            => q # r /\ pc'[q] = pc[q] /\ cur'[q] = cur[q]
    BY ONLY <2>1, <2>2, TypeInv DEF TypeInv, TypeOK
  <2>5. /\ data' = [data EXCEPT ![handle[r]] = @ \union {<<r, 2>>}]
        /\ handle' = [handle EXCEPT ![r] = Nothing]
        /\ downloaded' = [downloaded EXCEPT ![r] = @ \union {cur[r]}]
        /\ UNCHANGED <<dir, name, loaded, met>>
    BY <1>6 DEF Close
  <2>6. /\ DOMAIN data' = DOMAIN data
        /\ data' \in [DOMAIN data -> Contents]
    <3>1. handle[r] \in DOMAIN data
      BY <1>6 DEF Close
    <3>2. data[handle[r]] \union {<<r, 2>>} \in Contents
      BY <3>1 DEF Contents, Blocks
    <3>3. data \in [DOMAIN data -> Contents]
      OBVIOUS
    <3> QED
      BY ONLY <2>5, <3>1, <3>2, <3>3
  <2>7. downloaded' \in [Runs -> SUBSET Kinds]
    BY <2>5
  <2>8. /\ handle' \in [Runs -> DOMAIN data \union {Nothing}]
        /\ \A q \in Runs : q # r => handle'[q] = handle[q]
    BY <2>5
  <2> QED
    BY <2>3, <2>4, <2>5, <2>6, <2>7, <2>8 DEF Places, Contents
<1>7. ASSUME NEW r \in Runs, DownloadThrows(r)
      PROVE  TypeInv'
  BY <1>7 DEF DownloadThrows, Kinds
<1>8. ASSUME NEW r \in Runs, Load(r)
      PROVE  TypeInv'
  <2> DEFINE read == [k \in downloaded[r] |-> Read(name[r][k])]
  <2>1. \A f : Read(f) \in Contents \union {Nothing}
    BY DEF Read
  <2>2. downloaded[r] \in SUBSET Kinds
    OBVIOUS
  <2>3. read \in [downloaded[r] -> Contents \union {Nothing}]
    BY <2>1
  <2>4. read \in Loads /\ DOMAIN read \subseteq Kinds
    BY <2>2, <2>3 DEF Loads
  <2>5. loaded' = loaded \/ loaded' = [loaded EXCEPT ![r] = read]
    BY <1>8 DEF Load
  <2> HIDE DEF read
  <2>6. /\ loaded' \in [Runs -> Loads \union {Nothing}]
        /\ \A q \in Runs : loaded'[q] # Nothing => DOMAIN loaded'[q] \subseteq Kinds
    <3>1. CASE loaded' = loaded
      BY <3>1
    <3>2. CASE loaded' = [loaded EXCEPT ![r] = read]
      BY <2>4, <3>2
    <3> QED
      BY <2>5, <3>1, <3>2
  <2>7. cur' \in [Runs -> Kinds]
    BY <1>8 DEF Load, Kinds
  <2> QED
    BY <1>8, <2>6, <2>7 DEF Load
<1>9. ASSUME NEW r \in Runs, DeleteKernels(r)
      PROVE  TypeInv'
  <2>0. Removes(r)
    BY <1>9, RemoveSteps
  <2>1. dir' \in [DOMAIN dir' -> DOMAIN data]
    BY <2>0, TableType DEF Removes
  <2>2. /\ UNCHANGED <<data, name, handle, downloaded, loaded, met>>
        /\ cur' \in [Runs -> Kinds]
    BY <1>9 DEF DeleteKernels, Remove, Kinds
  <2>3. pc' = pc \/ pc' = [pc EXCEPT ![r] = "destructor"] \/ pc' = [pc EXCEPT ![r] = "done"]
    BY <1>9 DEF DeleteKernels
  <2>4. /\ DOMAIN dir' \subseteq Names
        /\ \A f \in DOMAIN dir' : dir'[f] = <<dir'[f][1], f[1], f[2]>>
    BY <2>0 DEF Removes
  <2>5. \A q \in Runs : pc'[q] \in {"start", "write", "close"} => pc[q] = pc'[q]
    BY <2>3
  <2>6. \A f \in DOMAIN dir' : dir'[f] \in DOMAIN data'
    BY <2>1, <2>2
  <2>7. \A q \in Runs : pc'[q] = "start" => cur'[q] = cur[q]
    BY <1>9, <2>3 DEF DeleteKernels
  <2>8. pc' \in [Runs -> {"start", "stat", "open", "write", "close", "load",
                         "delete", "destructor"} \union Ended]
    <3>1. /\ pc \in [Runs -> Places] /\ "destructor" \in Places /\ "done" \in Places
      BY DEF Places
    <3>2. pc' \in [Runs -> Places]
      BY ONLY <2>3, <3>1
    <3> QED
      BY ONLY <3>2 DEF Places
  <2> QED
    BY <2>1, <2>2, <2>4, <2>5, <2>6, <2>7, <2>8
<1>10. ASSUME NEW r \in Runs, Kill(r)
      PROVE  TypeInv'
  BY <1>10 DEF Kill, Kinds, FirstNames, Names
<1>11. CASE AllEnded \/ UNCHANGED vars
  BY <1>11 DEF AllEnded, vars
<1> QED
  BY <1>1, <1>2, <1>3, <1>4, <1>5, <1>6, <1>7, <1>8, <1>9, <1>10, <1>11 DEF Next, Step

\* Every run starts with every variable in its type.
LEMMA InitType == Init => TypeInv
<1> SUFFICES ASSUME Init
             PROVE  TypeInv
  OBVIOUS
<1>1. \A f \in Foreign : /\ f \in Names /\ f[1] \in Kinds /\ f[2] \in Nat
                         /\ f = <<f[1], f[2]>>
  BY TempFilesAssumption DEF Names
<1>2. DOMAIN dir = Foreign /\ \A f \in Foreign : dir[f] = ForeignInode(f)
  BY DEF Init
<1>3. /\ DOMAIN data = {ForeignInode(f) : f \in Foreign}
      /\ \A o \in DOMAIN data : data[o] = Content(Other)
  BY DEF Init
<1>4. Content(Other) \in Contents
  BY DEF Content, Contents
<1>5. DOMAIN data \subseteq Inodes
  BY <1>1, <1>3 DEF ForeignInode, Inodes
<1>6. FirstNames \in [Kinds -> Names] /\ \A k \in Kinds : FirstNames[k][1] = k
  BY DEF FirstNames, Names
<1>7. /\ dir \in [DOMAIN dir -> DOMAIN data]
      /\ data \in [DOMAIN data -> Contents]
  BY <1>2, <1>3, <1>4 DEF Init
<1>8. \A f \in DOMAIN dir : dir[f] = <<dir[f][1], f[1], f[2]>>
  BY <1>2 DEF ForeignInode
<1>9. /\ name \in [Runs -> [Kinds -> Names]]
      /\ \A r \in Runs, k \in Kinds : name[r][k][1] = k
  BY <1>6 DEF Init
<1> QED
  BY <1>1, <1>2, <1>4, <1>5, <1>7, <1>8, <1>9
     DEF Init, TypeInv, TypeOK, Ended, Kinds, Contents

\* Every variable has its type in every state.
THEOREM TypeCorrect == Spec => []TypeOK
<1>1. Spec => []TypeInv
  BY InitType, NextType, PTL DEF Spec
<1>2. TypeInv => TypeOK
  BY DEF TypeInv
<1> QED
  BY <1>1, <1>2, PTL

-----------------------------------------------------------------------------
(* Files of somebody else.                                                 *)

\* Every step leaves the files of somebody else alone.
LEMMA NextForeign ==
    ASSUME TypeInv, ForeignInv, [Next]_vars
    PROVE  ForeignInv'
<1> USE DEF ForeignInv, NamesAreFree, HandlesAreNotForeign, ForeignFilesUntouched,
            Named, Ended
<1>1. ASSUME NEW r \in Runs, Start(r)
      PROVE  ForeignInv'
  BY <1>1 DEF Start, TypeInv, TypeOK
<1>2. ASSUME NEW r \in Runs, StatTaken(r)
      PROVE  ForeignInv'
  BY <1>2 DEF StatTaken, TypeInv, TypeOK
<1>3. ASSUME NEW r \in Runs, StatFree(r)
      PROVE  ForeignInv'
  BY <1>3 DEF StatFree, TypeInv, TypeOK, Kinds
<1>4. ASSUME NEW r \in Runs, Open(r)
      PROVE  ForeignInv'
  <2>1. Opens(r)
    BY <1>4, OpenSteps
  <2>2. NameOf(r) \notin Foreign
    BY <1>4 DEF Open, NameOf, TypeInv, TypeOK
  <2>3. \A f \in Foreign : InodeOf(r) # ForeignInode(f)
    <3> SUFFICES ASSUME NEW f \in Foreign, InodeOf(r) = ForeignInode(f)
                 PROVE  FALSE
      OBVIOUS
    <3>1. NameOf(r)[1] = f[1] /\ NameOf(r)[2] = f[2]
      BY <2>1 DEF Opens, ForeignInode
    <3>2. f \in Kinds \X Nat /\ NameOf(r) \in Kinds \X Nat
      BY <2>1, TempFilesAssumption DEF Opens, Names
    <3>3. NameOf(r) = f
      BY <3>1, <3>2
    <3> QED
      BY <2>2, <3>3
  <2>4. ForeignFilesUntouched'
    BY <2>1, <2>2, <2>3 DEF Opens, TypeInv, TypeOK
  <2>5. HandlesAreNotForeign'
    BY <1>4, <2>1, <2>3 DEF Open, Opens, TypeInv, TypeOK
  <2>6. NamesAreFree'
    BY <1>4 DEF Open, TypeInv, TypeOK
  <2> QED
    BY <2>4, <2>5, <2>6
<1>5. ASSUME NEW r \in Runs, Write(r)
      PROVE  ForeignInv'
  BY <1>5 DEF Write, TypeInv, TypeOK
<1>6. ASSUME NEW r \in Runs, Close(r)
      PROVE  ForeignInv'
  <2>1. ForeignFilesUntouched'
    BY <1>6 DEF Close, TypeInv, TypeOK
  <2>2. HandlesAreNotForeign'
    BY <1>6 DEF Close, TypeInv, TypeOK
  <2>3. NamesAreFree'
    BY <1>6 DEF Close, TypeInv, TypeOK
  <2> QED
    BY <2>1, <2>2, <2>3
<1>7. ASSUME NEW r \in Runs, DownloadThrows(r)
      PROVE  ForeignInv'
  BY <1>7 DEF DownloadThrows, TypeInv, TypeOK
<1>8. ASSUME NEW r \in Runs, Load(r)
      PROVE  ForeignInv'
  BY <1>8 DEF Load, TypeInv, TypeOK
<1>9. ASSUME NEW r \in Runs, DeleteKernels(r)
      PROVE  ForeignInv'
  <2>1. Removes(r)
    BY <1>9, RemoveSteps
  <2>2. NameOf(r) \notin Foreign
    BY <1>9 DEF DeleteKernels, NameOf, TypeInv, TypeOK
  <2>3. ForeignFilesUntouched'
    BY <1>9, <2>1, <2>2 DEF DeleteKernels, Remove, Removes
  <2>4. name' = name /\ handle' = handle
    BY <1>9 DEF DeleteKernels, Remove
  <2>5. \A q \in Runs :
            /\ pc'[q] \in Named => pc[q] \in Named
            /\ pc'[q] \in {"stat", "write", "close"} => pc[q] = pc'[q] /\ cur'[q] = cur[q]
    BY <1>9 DEF DeleteKernels, TypeInv, TypeOK
  <2> QED
    BY <2>3, <2>4, <2>5
<1>10. ASSUME NEW r \in Runs, Kill(r)
      PROVE  ForeignInv'
  BY <1>10 DEF Kill, TypeInv, TypeOK
<1>11. CASE AllEnded \/ UNCHANGED vars
  BY <1>11 DEF AllEnded, vars
<1> QED
  BY <1>1, <1>2, <1>3, <1>4, <1>5, <1>6, <1>7, <1>8, <1>9, <1>10, <1>11 DEF Next, Step

\* They are there at the start.
LEMMA InitForeign == Init => ForeignInv
BY DEF Init, ForeignInv, NamesAreFree, HandlesAreNotForeign, ForeignFilesUntouched,
       Named, Ended

\* Whatever other runs there are and wherever they fail or die, what was in the
\* directory before is never opened, cut or deleted: a name is only used after a
\* stat() that did not find it, and nobody takes one back.
THEOREM ForeignFilesAreSafe == Spec => []ForeignFilesUntouched
<1>1. Init => TypeInv /\ ForeignInv
  BY InitType, InitForeign
<1>2. TypeInv /\ ForeignInv /\ [Next]_vars => (TypeInv /\ ForeignInv)'
  BY NextType, NextForeign
<1>3. ForeignInv => ForeignFilesUntouched
  BY DEF ForeignInv
<1> QED
  BY <1>1, <1>2, <1>3, PTL DEF Spec

-----------------------------------------------------------------------------
(* What a step of one run leaves to the others.                            *)

\* What a run knows of itself, and the files it has made: there may be fewer of
\* them, and never more.
Kept(r) ==
    /\ pc'[r] = pc[r] /\ cur'[r] = cur[r] /\ name'[r] = name[r]
    /\ downloaded'[r] = downloaded[r] /\ loaded'[r] = loaded[r]
    /\ \A f \in DOMAIN dir' : dir'[f][1] = r => f \in DOMAIN dir /\ dir[f][1] = r

\* A step of a run keeps what the other ones know.
LEMMA OthersAreKept ==
    ASSUME TypeInv, NEW p \in Runs, Step(p) \/ Kill(p), NEW r \in Runs \ {p}
    PROVE  Kept(r)
<1> USE DEF TypeInv, TypeOK, Kept
<1>1. CASE Open(p)
  <2>1. Opens(p)
    BY <1>1, OpenSteps
  <2>2. \A f \in DOMAIN dir' : dir'[f][1] = r => f \in DOMAIN dir /\ dir[f][1] = r
    BY <2>1 DEF Opens
  <2> QED
    BY <1>1, <2>2 DEF Open
<1>2. CASE DeleteKernels(p)
  <2>1. Removes(p)
    BY <1>2, RemoveSteps
  <2>2. \A f \in DOMAIN dir' : dir'[f][1] = r => f \in DOMAIN dir /\ dir[f][1] = r
    BY <2>1 DEF Removes
  <2> QED
    BY <1>2, <2>2 DEF DeleteKernels, Remove
<1>3. CASE Start(p)
  BY <1>3 DEF Start
<1>4. CASE StatTaken(p)
  BY <1>4 DEF StatTaken
<1>5. CASE StatFree(p)
  BY <1>5 DEF StatFree
<1>6. CASE Write(p)
  BY <1>6 DEF Write
<1>7. CASE Close(p)
  BY <1>7 DEF Close
<1>8. CASE DownloadThrows(p)
  BY <1>8 DEF DownloadThrows
<1>9. CASE Load(p)
  BY <1>9 DEF Load
<1>10. CASE Kill(p)
  BY <1>10 DEF Kill
<1> QED
  BY <1>1, <1>2, <1>3, <1>4, <1>5, <1>6, <1>7, <1>8, <1>9, <1>10 DEF Step

-----------------------------------------------------------------------------
(* A run finds what it made.                                               *)

\* A step of a run keeps track of the files it made.
LEMMA StepOwn ==
    ASSUME TypeInv, NEW r \in Runs, OwnOf(r), Step(r) \/ Kill(r)
    PROVE  OwnOf(r)'
<1> USE DEF TypeInv, TypeOK, OwnOf
<1>1. CASE Open(r)
  <2>1. Opens(r) /\ pc[r] = "open" /\ pc'[r] = "write"
    BY <1>1, OpenSteps DEF Open
  <2>2. NameOf(r) \in {name[r][k] : k \in Kinds}
    BY DEF NameOf
  <2>3. \A f \in DOMAIN dir' : dir'[f][1] = r => f \in {name[r][k] : k \in Kinds}
    BY <2>1, <2>2 DEF Opens
  <2>4. name' = name /\ downloaded' = downloaded
    BY <1>1 DEF Open
  <2> QED
    BY <2>1, <2>3, <2>4
<1>2. CASE DeleteKernels(r)
  <2>1. Removes(r)
    BY <1>2, RemoveSteps
  <2>2. name' = name /\ downloaded' = downloaded
    BY <1>2 DEF DeleteKernels, Remove
  <2>3. /\ pc[r] \in {"delete", "destructor"}
        /\ pc'[r] \in {"delete", "destructor", "done"}
    BY <1>2 DEF DeleteKernels
  <2>4. \A f \in DOMAIN dir' : f \in DOMAIN dir /\ dir'[f] = dir[f]
    BY <2>1 DEF Removes
  <2>5. ASSUME r \notin NoDelete, "initrd" \in downloaded[r],
               NEW f \in DOMAIN dir', dir'[f][1] = r
        PROVE  /\ pc'[r] = "destructor" /\ cur'[r] = "initrd"
                      => f # name[r]["kernel"]
               /\ pc'[r] # "done"
    <3>1. f # name[r][cur[r]]
      BY <2>1, <2>5 DEF Removes, NameOf
    <3>2. f \in {name[r][k] : k \in Kinds}
      BY <2>3, <2>4, <2>5
    <3>3. pc[r] = "destructor" /\ cur[r] = "initrd" => f # name[r]["kernel"]
      BY <2>4, <2>5
    <3>4. ~(pc[r] = "destructor" /\ cur[r] = "initrd")
      BY <3>1, <3>2, <3>3 DEF Kinds
    <3>5. CASE cur[r] = "kernel"
      BY <1>2, <3>1, <3>5, <2>3 DEF DeleteKernels
    <3>6. CASE cur[r] = "initrd" /\ pc[r] = "delete"
      BY <1>2, <3>6 DEF DeleteKernels
    <3> QED
      BY <2>3, <3>4, <3>5, <3>6 DEF Kinds
  <2> QED
    BY <2>2, <2>3, <2>4, <2>5
<1>3. CASE Start(r)
  BY <1>3 DEF Start
<1>4. CASE StatTaken(r)
  BY <1>4 DEF StatTaken
<1>5. CASE StatFree(r)
  BY <1>5 DEF StatFree
<1>6. CASE Write(r)
  BY <1>6 DEF Write
<1>7. CASE Close(r)
  BY <1>7 DEF Close
<1>8. CASE DownloadThrows(r)
  BY <1>8 DEF DownloadThrows
<1>9. CASE Load(r)
  BY <1>9 DEF Load
<1>10. CASE Kill(r)
  BY <1>10 DEF Kill
<1> QED
  BY <1>1, <1>2, <1>3, <1>4, <1>5, <1>6, <1>7, <1>8, <1>9, <1>10 DEF Step

\* ... and what the others do only takes files away.
LEMMA NextOwn ==
    ASSUME TypeInv, OwnInv, [Next]_vars
    PROVE  OwnInv'
<1>1. ASSUME NEW p \in Runs, Step(p) \/ Kill(p), NEW r \in Runs
      PROVE  OwnOf(r)'
  <2>1. CASE r = p
    BY <1>1, <2>1, StepOwn DEF OwnInv
  <2>2. CASE r # p
    <3>1. Kept(r)
      BY <1>1, <2>2, OthersAreKept
    <3> QED
      BY <3>1 DEF Kept, OwnInv, OwnOf
  <2> QED
    BY <2>1, <2>2
<1>2. CASE AllEnded \/ UNCHANGED vars
  BY <1>2 DEF AllEnded, vars, OwnInv, OwnOf
<1> QED
  BY <1>1, <1>2 DEF Next, OwnInv

\* At the start there is no file of any run.
LEMMA InitOwn == Init => OwnInv
<1> SUFFICES ASSUME Init
             PROVE  OwnInv
  OBVIOUS
<1>1. \A f \in DOMAIN dir : dir[f][1] = Other
  BY DEF Init, ForeignInode
<1>2. \A r \in Runs : downloaded[r] = {}
  BY DEF Init
<1> QED
  BY <1>1, <1>2, TempFilesAssumption DEF OwnInv, OwnOf

\* A run that downloaded an initrd, keeps nothing and ends on its own leaves no
\* file of its making, whoever else is under way: the destructor deletes what
\* execute() has left, under the names the run found.
THEOREM OwnFilesAreRemoved == Spec => []OwnFilesRemoved
<1>1. Init => TypeInv /\ OwnInv
  BY InitType, InitOwn
<1>2. TypeInv /\ OwnInv /\ [Next]_vars => (TypeInv /\ OwnInv)'
  BY NextType, NextOwn
<1>3. OwnInv => OwnFilesRemoved
  BY DEF OwnInv, OwnOf, OwnFilesRemoved
<1> QED
  BY <1>1, <1>2, <1>3, PTL DEF Spec

-----------------------------------------------------------------------------
(* A run that met no other.                                                *)

\* A step of another run finds a run that met no other not started yet, or over.
LEMMA OthersAreNotUnderWay ==
    ASSUME TypeInv, Alone, NEW p \in Runs, Step(p) \/ Kill(p),
           NEW r \in (Runs \ met') \ {p}
    PROVE  r \notin UnderWay
<1>1. CASE Start(p)
  <2>1. UnderWay # {} => met' = met \union UnderWay \union {p}
    BY <1>1 DEF Start
  <2> QED
    BY <2>1
<1>2. CASE ~Start(p)
  <2>1. p \in UnderWay /\ met' = met
    BY <1>2 DEF Step, StatTaken, StatFree, Open, Write, Close, DownloadThrows, Load,
                DeleteKernels, Remove, Kill, UnderWay, Ended
  <2>2. r \in Runs \ met /\ p # r
    BY <2>1
  <2> QED
    BY <2>1, <2>2 DEF Alone
<1> QED
  BY <1>1, <1>2

\* Who is under way after a step of a run was before, or is that run.
LEMMA StepUnderWay ==
    ASSUME TypeInv, NEW p \in Runs, Step(p) \/ Kill(p)
    PROVE  /\ UnderWay' \subseteq UnderWay \union {p}
           /\ met \subseteq met'
           /\ p \in UnderWay \/ Start(p)
<1>1. \A r \in Runs \ {p} : pc'[r] = pc[r]
  BY OthersAreKept DEF Kept
<1>2. met \subseteq met' /\ (p \in UnderWay \/ Start(p))
  BY DEF Step, Start, StatTaken, StatFree, Open, Write, Close, DownloadThrows, Load,
         DeleteKernels, Remove, Kill, UnderWay, Ended
<1> QED
  BY <1>1, <1>2 DEF UnderWay

\* A run that has not started, or is over, and what it has loaded.
LEMMA NextAlone ==
    ASSUME TypeInv, Alone, NEW p \in Runs, Step(p) \/ Kill(p)
    PROVE  Alone'
<1> SUFFICES ASSUME NEW r \in Runs \ met', r \in UnderWay',
                    NEW q \in Runs \ {r}, q \in UnderWay'
             PROVE  FALSE
  BY DEF Alone
<1>1. r = p
  <2> SUFFICES ASSUME r # p
               PROVE  FALSE
    OBVIOUS
  <2>1. r \notin UnderWay
    BY OthersAreNotUnderWay
  <2> QED
    BY <2>1, StepUnderWay
<1>2. q \in UnderWay /\ r \in Runs \ met
  BY <1>1, StepUnderWay
<1>3. CASE Start(p)
  <2>1. UnderWay # {} => p \in met'
    BY <1>3 DEF Start
  <2> QED
    BY <1>1, <1>2, <2>1
<1>4. CASE p \in UnderWay
  BY <1>1, <1>2, <1>4 DEF Alone
<1> QED
  BY <1>3, <1>4, StepUnderWay

\* Two names of a run lead to two inodes.
LEMMA TwoInodes ==
    ASSUME TypeInv, NEW f \in DOMAIN dir, NEW g \in DOMAIN dir, f[1] # g[1]
    PROVE  dir[f] # dir[g]
<1>1. dir[f] = <<dir[f][1], f[1], f[2]>> /\ dir[g] = <<dir[g][1], g[1], g[2]>>
  BY DEF TypeInv
<1> QED
  BY <1>1

\* A run that is alone keeps what it knows of its files.
LEMMA StepAlone ==
    ASSUME TypeInv, NEW r \in Runs, AloneOf(r), Step(r) \/ Kill(r)
    PROVE  AloneOf(r)'
<1> USE DEF TypeInv, TypeOK, AloneOf, Named
<1>1. CASE Start(r)
  BY <1>1 DEF Start
<1>2. CASE StatTaken(r)
  BY <1>2 DEF StatTaken
<1>3. CASE StatFree(r)
  BY <1>3 DEF StatFree, Kinds
<1>4. CASE Open(r)
  <2>1. Opens(r) /\ pc[r] = "open" /\ pc'[r] = "write"
    BY <1>4, OpenSteps DEF Open
  <2>2. cur' = cur /\ name' = name /\ downloaded' = downloaded
    BY <1>4 DEF Open
  <2>3. \A k \in Kinds : name[r][k] \in DOMAIN dir' => dir'[name[r][k]][1] = r
    BY <2>1 DEF Opens, NameOf
  <2>4. /\ name[r][cur[r]] \in DOMAIN dir'
        /\ handle'[r] = dir'[name[r][cur[r]]]
        /\ data'[handle'[r]] = {}
    BY <2>1 DEF Opens, NameOf
  <2>5. ASSUME NEW k \in downloaded[r]
        PROVE  Fetched(r, k)'
    <3>1. k = "kernel" /\ cur[r] = "initrd" /\ Fetched(r, k)
      BY <2>1, <2>5 DEF Kinds
    <3>2. name[r][k] # NameOf(r) /\ dir'[name[r][k]] = dir[name[r][k]]
      BY <2>1, <3>1 DEF Opens, NameOf, Fetched, Kinds
    <3>3. dir[name[r][k]] # InodeOf(r)
      <4>1. dir[name[r][k]][2] = "kernel"
        BY <3>1 DEF Fetched, Kinds
      <4>2. InodeOf(r)[2] = "initrd"
        BY <2>1, <3>1 DEF Opens, NameOf
      <4> QED
        BY <4>1, <4>2
    <3> QED
      BY <2>1, <2>2, <3>1, <3>2, <3>3 DEF Opens, Fetched
  <2> QED
    BY <2>1, <2>2, <2>3, <2>4, <2>5
<1>5. CASE Write(r)
  <2>1. /\ pc[r] = "write" /\ pc'[r] = "close"
        /\ UNCHANGED <<cur, dir, name, handle, downloaded>>
        /\ data' = [data EXCEPT ![handle[r]] = @ \union {<<r, 1>>}]
    BY <1>5 DEF Write
  <2>2. data'[handle[r]] = {<<r, 1>>}
    BY <2>1
  <2>3. ASSUME NEW k \in downloaded[r]
        PROVE  Fetched(r, k)'
    <3>1. k = "kernel" /\ cur[r] = "initrd" /\ Fetched(r, k)
      BY <2>1, <2>3 DEF Kinds
    <3>2. dir[name[r][k]] # handle[r]
      BY <2>1, <3>1, TwoInodes DEF Fetched, Kinds
    <3> QED
      BY <2>1, <3>1, <3>2 DEF Fetched
  <2> QED
    BY <2>1, <2>2, <2>3
<1>6. CASE Close(r)
  <2>1. /\ pc[r] = "close"
        /\ UNCHANGED <<dir, name>>
        /\ data' = [data EXCEPT ![handle[r]] = @ \union {<<r, 2>>}]
        /\ downloaded'[r] = downloaded[r] \union {cur[r]}
    BY <1>6 DEF Close
  <2>2. data'[handle[r]] = Content(r)
    BY <2>1 DEF Content, Blocks
  <2>3. ASSUME NEW k \in downloaded'[r]
        PROVE  Fetched(r, k)'
    <3>1. CASE k = cur[r]
      BY <2>1, <2>2, <3>1 DEF Fetched
    <3>2. CASE k # cur[r]
      <4>1. k = "kernel" /\ cur[r] = "initrd" /\ Fetched(r, k)
        BY <2>1, <2>3, <3>2 DEF Kinds
      <4>2. dir[name[r][k]] # handle[r]
        BY <2>1, <4>1, TwoInodes DEF Fetched, Kinds
      <4> QED
        BY <2>1, <4>1, <4>2 DEF Fetched
    <3> QED
      BY <3>1, <3>2
  <2>4. CASE cur[r] = "kernel" /\ r \in WithInitrd
    <3>1. pc'[r] = "open" /\ cur'[r] = "initrd" /\ downloaded'[r] = {"kernel"}
      BY <1>6, <2>1, <2>4 DEF Close
    <3> QED
      BY <2>1, <2>3, <2>4, <3>1
  <2>5. CASE ~(cur[r] = "kernel" /\ r \in WithInitrd)
    <3>1. pc'[r] = "load" /\ cur'[r] = cur[r]
      BY <1>6, <2>5 DEF Close
    <3>2. downloaded'[r] = IF r \in WithInitrd THEN Kinds ELSE {"kernel"}
      BY <2>1, <2>5 DEF Kinds
    <3> QED
      BY <2>1, <2>3, <3>1, <3>2
  <2> QED
    BY <2>4, <2>5
<1>7. CASE DownloadThrows(r)
  BY <1>7 DEF DownloadThrows
<1>8. CASE Load(r)
  BY <1>8 DEF Load
<1>9. CASE DeleteKernels(r)
  <2>1. Removes(r)
    BY <1>9, RemoveSteps
  <2>2. name' = name /\ pc[r] \in Named /\ pc'[r] \in {"delete", "destructor", "done"}
    BY <1>9 DEF DeleteKernels, Remove
  <2>3. \A f \in DOMAIN dir' : f \in DOMAIN dir /\ dir'[f] = dir[f]
    BY <2>1 DEF Removes
  <2> QED
    BY <2>2, <2>3
<1>10. CASE Kill(r)
  BY <1>10 DEF Kill
<1> QED
  BY <1>1, <1>2, <1>3, <1>4, <1>5, <1>6, <1>7, <1>8, <1>9, <1>10 DEF Step

\* What a run has loaded is its own.
LoadedOf(r) ==
    loaded[r] # Nothing =>
        /\ \A k \in DOMAIN loaded[r] : loaded[r][k] = Content(r)
        /\ "kernel" \in DOMAIN loaded[r]
        /\ r \in WithInitrd => "initrd" \in DOMAIN loaded[r]

\* It stays so, as kexec -l reads what the run has fetched.
LEMMA StepLoaded ==
    ASSUME TypeInv, NEW r \in Runs, AloneOf(r), LoadedOf(r), Step(r) \/ Kill(r)
    PROVE  LoadedOf(r)'
<1>1. CASE Load(r)
  <2> DEFINE read == [k \in downloaded[r] |-> Read(name[r][k])]
  <2>1. CASE loaded' = loaded
    BY <2>1 DEF LoadedOf
  <2>2. CASE loaded' = [loaded EXCEPT ![r] = read]
    <3>1. downloaded[r] = IF r \in WithInitrd THEN Kinds ELSE {"kernel"}
      BY <1>1 DEF Load, AloneOf
    <3>2. \A k \in downloaded[r] : Read(name[r][k]) = Content(r)
      BY <1>1 DEF Load, AloneOf, Fetched, Read
    <3>3. loaded'[r] = read
      BY <2>2 DEF TypeInv
    <3> QED
      BY <3>1, <3>2, <3>3 DEF LoadedOf, Kinds
  <2> QED
    BY <1>1, <2>1, <2>2 DEF Load
<1>2. CASE Kill(r)
  BY <1>2 DEF Kill, LoadedOf, TypeInv
<1>3. CASE Step(r) /\ ~Load(r)
  <2>1. loaded' = loaded
    BY <1>3 DEF Step, Start, StatTaken, StatFree, Open, Write, Close, DownloadThrows,
                DeleteKernels, Remove
  <2> QED
    BY <2>1 DEF LoadedOf
<1> QED
  BY <1>1, <1>2, <1>3

\* Every step keeps the invariant of those that met no other.
LEMMA NextMet ==
    ASSUME TypeInv, MetInv, [Next]_vars
    PROVE  MetInv'
<1>1. ASSUME NEW p \in Runs, Step(p) \/ Kill(p)
      PROVE  MetInv'
  <2>1. Alone'
    BY <1>1, NextAlone DEF MetInv
  <2>2. ASSUME NEW r \in Runs \ met'
        PROVE  AloneOf(r)' /\ LoadedOf(r)'
    <3>1. AloneOf(r) /\ LoadedOf(r)
      BY <1>1, StepUnderWay DEF MetInv, AloneInv, LoadsItsOwn, LoadedOf
    <3>2. CASE r = p
      BY <1>1, <3>1, <3>2, StepAlone, StepLoaded
    <3>3. CASE r # p
      <4>1. Kept(r) /\ r \notin UnderWay
        BY <1>1, <3>3, OthersAreKept, OthersAreNotUnderWay DEF MetInv
      <4>2. pc'[r] = pc[r] /\ pc[r] \in {"start", "done", "dead"}
        BY <4>1 DEF Kept, UnderWay, Ended
      <4> QED
        BY <3>1, <4>1, <4>2 DEF Kept, AloneOf, LoadedOf, Named
    <3> QED
      BY <3>2, <3>3
  <2> QED
    BY <2>1, <2>2 DEF MetInv, AloneInv, LoadsItsOwn, LoadedOf
<1>2. CASE AllEnded \/ UNCHANGED vars
  <2>1. UNCHANGED <<pc, cur, dir, data, name, handle, downloaded, loaded, met>>
    BY <1>2 DEF AllEnded, vars
  <2>2. Alone'
    BY <2>1 DEF MetInv, Alone, UnderWay
  <2>3. AloneInv'
    BY <2>1 DEF MetInv, AloneInv, AloneOf, Fetched
  <2>4. LoadsItsOwn'
    BY <2>1 DEF MetInv, LoadsItsOwn
  <2> QED
    BY <2>2, <2>3, <2>4 DEF MetInv
<1> QED
  BY <1>1, <1>2 DEF Next

\* At the start nobody is under way.
LEMMA InitMet == Init => MetInv
BY DEF Init, MetInv, Alone, AloneInv, AloneOf, LoadsItsOwn, UnderWay, Named

\* A run that met no other loads what it downloaded and all of it, whatever runs
\* before it have left under the names it tries.
THEOREM AloneLoadsItsOwn == Spec => []LoadsItsOwn
<1>1. Init => TypeInv /\ MetInv
  BY InitType, InitMet
<1>2. TypeInv /\ MetInv /\ [Next]_vars => (TypeInv /\ MetInv)'
  BY NextType, NextMet
<1>3. MetInv => LoadsItsOwn
  BY DEF MetInv
<1> QED
  BY <1>1, <1>2, <1>3, PTL DEF Spec

\* A file disappears only by deleteKernels(): the run that calls it made that
\* file, or was under way beside another one.
THEOREM OnlyOwnFilesAreDeleted == Spec => DeletesOnlyItsOwn
<1> DEFINE Deleted ==
        \A f \in DOMAIN dir : f \notin DOMAIN dir' =>
            \E r \in Runs : /\ r \in met \/ dir[f][1] = r
                            /\ pc[r] \in {"delete", "destructor"}
<1>1. ASSUME TypeInv, MetInv, [Next]_vars
      PROVE  [Deleted]_vars
  <2>1. ASSUME NEW r \in Runs, DeleteKernels(r)
        PROVE  Deleted
    <3> SUFFICES ASSUME NEW f \in DOMAIN dir, f \notin DOMAIN dir'
                 PROVE  /\ r \in met \/ dir[f][1] = r
                        /\ pc[r] \in {"delete", "destructor"}
      BY <2>1
    <3>1. Removes(r) /\ pc[r] \in {"delete", "destructor"}
      BY <1>1, <2>1, RemoveSteps DEF DeleteKernels
    <3>2. f = name[r][cur[r]]
      BY <3>1 DEF Removes, NameOf
    <3>3. r \notin met => dir[f][1] = r
      BY <1>1, <3>1, <3>2 DEF MetInv, AloneInv, AloneOf, Named, TypeInv, TypeOK
    <3> QED
      BY <3>1, <3>3
  <2>2. ASSUME NEW r \in Runs, Open(r)
        PROVE  Deleted
    BY <1>1, <2>2, OpenSteps DEF Opens
  <2>3. ASSUME NEW r \in Runs, Step(r) \/ Kill(r), ~DeleteKernels(r), ~Open(r)
        PROVE  dir' = dir
    BY <2>3 DEF Step, Start, StatTaken, StatFree, Write, Close, DownloadThrows, Load, Kill
  <2>4. CASE AllEnded \/ UNCHANGED vars
    BY <2>4 DEF AllEnded
  <2> QED
    BY <1>1, <2>1, <2>2, <2>3, <2>4 DEF Next
<1>2. Init => TypeInv /\ MetInv
  BY InitType, InitMet
<1>3. TypeInv /\ MetInv /\ [Next]_vars => (TypeInv /\ MetInv)'
  BY NextType, NextMet
<1>4. TypeInv /\ MetInv /\ [Next]_vars => [Deleted]_vars
  BY <1>1
<1> QED
  BY <1>2, <1>3, <1>4, PTL DEF Spec, DeletesOnlyItsOwn
=============================================================================
