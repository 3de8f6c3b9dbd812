------------------------- MODULE ConfigSearchProofs -------------------------
(***************************************************************************)
(* Proofs about ConfigSearch for every number of pieces, every set of      *)
(* names a server may have and whatever goes wrong in the network.         *)
(***************************************************************************)
EXTENDS ConfigSearch, TLAPS

-----------------------------------------------------------------------------
(* The inductive invariants.                                               *)

Piece == [name : ClientNames, block : Nat]

TypeInv ==
    /\ server \subseteq ClientNames
    /\ network \subseteq Faults
    /\ quiet \in BOOLEAN
    /\ i \in 0..9
    /\ ss \in Seq(Piece)
    /\ transfer \in {"none", "running", "ok", "unknown", "connection failed"}
    /\ got \in 0..Blocks
    /\ calls \in [progressed : BOOLEAN, finished : Nat]
    /\ pc \in {"loop", "parse", "parsed", "thrown"}
    /\ pc # "loop" => transfer \in {"ok", "unknown", "connection failed"}

\* A running transfer has not been told of as finished, and with --quiet no
\* call is ever made.
CallsInv ==
    /\ transfer = "running" => calls.finished = 0
    /\ quiet => ~calls.progressed
    /\ FinishedExactlyOnce

Specific(n) == NameAt(n).digits

\* What is in the stream says more about the client than the name that is
\* asked for next, and is of the name asked for now as far as it has come.
OrderInv ==
    /\ \A j \in DOMAIN ss :
           \/ ss[j].name.digits > Specific(i)
           \/ ss[j].name = NameAt(i)
    /\ transfer = "running" => \A j \in DOMAIN ss :
           ss[j].name = NameAt(i) => ss[j].block <= got
    /\ transfer = "none" /\ pc = "loop" => \A j \in DOMAIN ss :
           ss[j].name.digits > Specific(i)
    /\ MoreSpecificFirst

\* The stream ends with the first n pieces of the file of the name asked for
\* now.
EndOfFile(n) ==
    /\ Len(ss) >= n
    /\ \A b \in 1..n : ss[Len(ss) - n + b] = [name |-> NameAt(i), block |-> b]

\* A transfer has written the beginning of its file as far as it has come.
PiecesInv ==
    /\ BeginningsOfFiles
    /\ transfer = "running" => EndOfFile(got)
    /\ transfer = "ok" => EndOfFile(Blocks)

\* The stream is the first pieces of the file of the name asked for now.
Has(n) == /\ Len(ss) = n
          /\ \A b \in 1..n : ss[b] = [name |-> NameAt(i), block |-> b]

\* In a network where nothing goes wrong, the names before this one do not
\* exist, and this one is read whole if it does.
CleanInv ==
    network = {} =>
        /\ \A n \in 0..9 : n < i => NameAt(n) \notin server
        /\ transfer = "none" /\ pc = "loop" => ss = <<>>
        /\ transfer = "running" => Has(got)
        /\ NameAt(i) \notin server => ss = <<>>
        /\ transfer = "ok" => NameAt(i) \in server
        /\ transfer = "unknown" => NameAt(i) \notin server
        /\ transfer # "connection failed"
        /\ transfer = "ok" \/ (pc # "loop" /\ NameAt(i) \in server) => Has(Blocks)
        /\ pc # "loop" => NameAt(i) \in server \/ i = 9
        /\ pc = "parsed" => ss # <<>>
        /\ pc = "thrown" => ss = <<>>

-----------------------------------------------------------------------------
(* The names of a client.                                                  *)

\* They say less and less about it.
LEMMA NamesGetShorter ==
    /\ \A n \in 0..9 : NameAt(n) \in ClientNames /\ Specific(n) \in Nat
    /\ \A m, n \in 0..9 : m < n => Specific(m) > Specific(n)
<1>1. \A n \in 0..9 : Specific(n) = IF n = 0 THEN 12 ELSE IF n < 9 THEN 9 - n ELSE 0
  BY DEF Specific, NameAt
<1>2. ASSUME NEW n \in 0..9
      PROVE  NameAt(n) \in ClientNames
  <2>1. CASE n = 0
    BY <2>1 DEF NameAt, ClientNames
  <2>2. CASE n \in 1..8
    <3>1. 8 - (n - 1) \in 1..8 /\ n # 0 /\ n < 9
      BY <2>2
    <3> QED
      BY <3>1 DEF NameAt, ClientNames
  <2>3. CASE n = 9
    BY <2>3 DEF NameAt, ClientNames
  <2> QED
    BY <2>1, <2>2, <2>3
<1> QED
  BY <1>1, <1>2

\* All of them are asked for.
LEMMA NamesAreAll ==
    ASSUME NEW name \in ClientNames
    PROVE  \E n \in 0..9 : NameAt(n) = name
<1>1. CASE name.kind = "mac"
  BY <1>1 DEF ClientNames, NameAt
<1>2. CASE name.kind = "ip"
  <2>1. PICK d \in 1..8 : name = [kind |-> "ip", digits |-> d]
    BY <1>2 DEF ClientNames
  <2>2. 9 - d \in 1..8 /\ NameAt(9 - d) = name
    BY <2>1 DEF NameAt
  <2> QED
    BY <2>2
<1>3. CASE name.kind = "default"
  BY <1>3 DEF ClientNames, NameAt
<1> QED
  BY <1>1, <1>2, <1>3 DEF ClientNames

-----------------------------------------------------------------------------
(* The end of a transfer.                                                  *)

Told ==
    /\ transfer = "running"
    /\ transfer' \in {"ok", "unknown", "connection failed"}
    /\ calls' = IF quiet THEN calls ELSE [calls EXCEPT !.finished = @ + 1]
    /\ UNCHANGED <<server, network, quiet, i, ss, got, pc>>
    /\ transfer' = "ok" => got = Blocks
    /\ network = {} => \/ transfer' = "ok" /\ NameAt(i) \in server /\ got = Blocks
                       \/ transfer' = "unknown" /\ NameAt(i) \notin server

\* However it ends, the notifier is told of it.
LEMMA TransferEndsTold == TransferEnds => Told
<1>1. CASE NameAt(i) \in server /\ got = Blocks /\ Performed("ok")
  BY <1>1 DEF Performed, Told
<1>2. CASE NameAt(i) \notin server /\ Performed("unknown")
  BY <1>2 DEF Performed, Told
<1>3. CASE "break" \in network /\ Performed("unknown")
  BY <1>3 DEF Performed, Told
<1>4. CASE "connect" \in network /\ got = 0 /\ Performed("connection failed")
  BY <1>4 DEF Performed, Told
<1> QED
  BY <1>1, <1>2, <1>3, <1>4 DEF TransferEnds

-----------------------------------------------------------------------------
(* Every variable keeps its type.                                          *)

\* What the proofs use of it.
LEMMA Typed ==
    ASSUME TypeInv
    PROVE  /\ ss \in Seq(Piece) /\ DOMAIN ss = 1..Len(ss) /\ Len(ss) \in Nat
           /\ \A j \in DOMAIN ss : ss[j].name.digits \in Nat /\ ss[j].block \in Nat
           /\ got \in Nat /\ got <= Blocks /\ Blocks \in Nat \ {0}
           /\ i \in 0..9
           /\ calls \in [progressed : BOOLEAN, finished : Nat]
           /\ calls.finished \in Nat
<1>1. ss \in Seq(Piece)
  BY DEF TypeInv
<1>2. got \in 0..Blocks
  BY DEF TypeInv
<1>3. i \in 0..9
  BY DEF TypeInv
<1>4. calls \in [progressed : BOOLEAN, finished : Nat]
  BY DEF TypeInv
<1>5. Blocks \in Nat \ {0}
  BY SearchAssumption
<1>6. got \in Nat /\ got <= Blocks
  BY <1>2, <1>5
<1>7. DOMAIN ss = 1..Len(ss) /\ Len(ss) \in Nat /\ \A j \in DOMAIN ss : ss[j] \in Piece
  BY <1>1
<1>8. \A c \in ClientNames : c.digits \in Nat
  BY DEF ClientNames
<1>9. \A j \in DOMAIN ss : ss[j].name.digits \in Nat /\ ss[j].block \in Nat
  BY <1>7, <1>8 DEF Piece
<1> QED
  BY <1>1, <1>3, <1>4, <1>5, <1>6, <1>7, <1>9

\* One more call of finished().
LEMMA OneMoreCall ==
    ASSUME NEW c \in [progressed : BOOLEAN, finished : Nat],
           NEW d, d = [c EXCEPT !.finished = @ + 1]
    PROVE  /\ d \in [progressed : BOOLEAN, finished : Nat]
           /\ d.progressed = c.progressed /\ d.finished = c.finished + 1
OBVIOUS

\* At the start.
LEMMA InitType == Init => TypeInv
BY SearchAssumption DEF Init, TypeInv, NoCalls

\* In every step.
LEMMA NextType ==
    ASSUME TypeInv, [Next]_vars
    PROVE  TypeInv'
<1>0. server' = server /\ network' = network /\ quiet' = quiet
  BY DEF Next, StartTransfer, WriteBlock, Progress, TransferEnds, Performed, RoundEnds,
         Parse, Ended, vars
<1>1. i' \in 0..9
  <2>1. i' = i \/ (i < 9 /\ i' = i + 1)
    BY DEF Next, StartTransfer, WriteBlock, Progress, TransferEnds, Performed, RoundEnds,
           Parse, Ended, vars
  <2> QED
    BY <2>1, Typed
<1>2. CASE WriteBlock
  <2>0. got' = got + 1 /\ got < Blocks
    BY <1>2 DEF WriteBlock
  <2>1. [name |-> NameAt(i), block |-> got'] \in Piece /\ got' \in 0..Blocks
    <3>1. got' \in 0..Blocks /\ got' \in Nat
      BY <2>0, Typed
    <3>2. NameAt(i) \in ClientNames
      BY Typed, NamesGetShorter
    <3> QED
      BY <3>1, <3>2 DEF Piece
  <2>2. ss' \in Seq(Piece)
    BY <1>2, <2>1, Typed DEF WriteBlock
  <2>3. UNCHANGED <<transfer, calls, pc>>
    BY <1>2 DEF WriteBlock
  <2> QED
    BY <1>0, <1>1, <2>1, <2>2, <2>3 DEF TypeInv
<1>3. ASSUME ~WriteBlock
      PROVE  ss' = ss /\ got' \in 0..Blocks
  <2>1. ss' = ss /\ (got' = got \/ got' = 0)
    BY <1>3 DEF Next, StartTransfer, Progress, TransferEnds, Performed, RoundEnds,
                Parse, Ended, vars
  <2> QED
    BY <2>1, Typed
<1>4. ASSUME ~WriteBlock,
             calls' \in [progressed : BOOLEAN, finished : Nat],
             transfer' \in {"none", "running", "ok", "unknown", "connection failed"},
             pc' \in {"loop", "parse", "parsed", "thrown"},
             pc' # "loop" => transfer' \in {"ok", "unknown", "connection failed"}
      PROVE  TypeInv'
  BY <1>0, <1>1, <1>3, <1>4 DEF TypeInv
<1>5. CASE StartTransfer
  <2>1. ~WriteBlock
    BY <1>5 DEF StartTransfer, WriteBlock
  <2> QED
    BY <1>4, <1>5, <2>1 DEF StartTransfer, NoCalls
<1>6. CASE Progress /\ ~WriteBlock
  <2>1. calls' \in [progressed : BOOLEAN, finished : Nat]
    BY <1>6, Typed DEF Progress
  <2>2. transfer' = transfer /\ pc' = pc
    BY <1>6 DEF Progress
  <2> QED
    BY <1>4, <1>6, <2>1, <2>2 DEF TypeInv
<1>7. CASE TransferEnds /\ ~WriteBlock
  <2>1. Told
    BY <1>7, TransferEndsTold
  <2>2. calls' = calls \/ calls' = [calls EXCEPT !.finished = @ + 1]
    BY <2>1 DEF Told
  <2>4. calls' \in [progressed : BOOLEAN, finished : Nat]
    BY <2>2, Typed, OneMoreCall
  <2>3. pc' = "loop"
    BY <2>1 DEF Told, TypeInv
  <2> QED
    BY <1>4, <1>7, <2>1, <2>3, <2>4 DEF Told
<1>8. CASE (RoundEnds \/ Parse) /\ ~WriteBlock
  <2>1. /\ calls' = calls /\ pc' \in {"loop", "parse", "parsed", "thrown"}
        /\ transfer' \in {"none", "ok", "unknown", "connection failed"}
        /\ pc' # "loop" => transfer' # "none"
    BY <1>8 DEF RoundEnds, Parse, TypeInv
  <2> QED
    BY <1>4, <1>8, <2>1, Typed
<1>9. CASE Ended \/ UNCHANGED vars
  <2>1. UNCHANGED vars
    BY <1>9 DEF Ended
  <2> QED
    BY <2>1 DEF vars, TypeInv
<1> QED
  BY <1>2, <1>5, <1>6, <1>7, <1>8, <1>9 DEF Next

-----------------------------------------------------------------------------
(* The notifier.                                                           *)

\* A step keeps the count of the calls right.
LEMMA NextCalls ==
    ASSUME TypeInv, CallsInv, [Next]_vars
    PROVE  CallsInv'
<1> USE DEF CallsInv, FinishedExactlyOnce
<1>1. CASE StartTransfer
  BY <1>1 DEF StartTransfer, NoCalls
<1>2. CASE WriteBlock
  BY <1>2 DEF WriteBlock
<1>3. CASE Progress
  BY <1>3, Typed DEF Progress
<1>4. CASE TransferEnds
  <2>1. Told
    BY <1>4, TransferEndsTold
  <2>2. /\ ~quiet => calls' = [calls EXCEPT !.finished = @ + 1]
        /\ quiet => calls' = calls
        /\ calls.finished = 0
    BY <2>1 DEF Told
  <2>3. ~quiet => calls'.finished = 1 /\ calls'.progressed = calls.progressed
    BY <2>2, Typed, OneMoreCall
  <2> QED
    BY <2>1, <2>2, <2>3 DEF Told
<1>5. CASE RoundEnds
  BY <1>5 DEF RoundEnds
<1>6. CASE Parse
  BY <1>6 DEF Parse, TypeInv
<1>7. CASE Ended \/ UNCHANGED vars
  BY <1>7 DEF Ended, vars
<1> QED
  BY <1>1, <1>2, <1>3, <1>4, <1>5, <1>6, <1>7 DEF Next

\* Whatever goes wrong and whenever curl reports progress, finished() is called
\* exactly once after a transfer that did.
THEOREM NotifierIsFinishedOnce == Spec => []FinishedExactlyOnce
<1>1. Init => TypeInv /\ CallsInv
  BY InitType DEF Init, CallsInv, FinishedExactlyOnce, NoCalls
<1>2. TypeInv /\ CallsInv /\ [Next]_vars => (TypeInv /\ CallsInv)'
  BY NextType, NextCalls
<1>3. CallsInv => FinishedExactlyOnce
  BY DEF CallsInv
<1> QED
  BY <1>1, <1>2, <1>3, PTL DEF Spec

-----------------------------------------------------------------------------
(* The order of the stream.                                                *)

\* A step keeps it.
LEMMA NextOrder ==
    ASSUME TypeInv, OrderInv, [Next]_vars
    PROVE  OrderInv'
<1>0. /\ ss \in Seq(Piece) /\ DOMAIN ss = 1..Len(ss) /\ Len(ss) \in Nat
      /\ \A j \in DOMAIN ss : ss[j].name.digits \in Nat /\ ss[j].block \in Nat
      /\ got \in Nat /\ i \in 0..9
  BY Typed
<1>1. CASE StartTransfer
  <2>1. \A j \in DOMAIN ss : /\ ss[j].name # NameAt(i)
                             /\ ss[j].name.digits > Specific(i)
    <3>1. \A j \in DOMAIN ss : ss[j].name.digits > Specific(i)
      BY <1>1 DEF StartTransfer, OrderInv
    <3>2. Specific(i) \in Nat /\ Specific(i) = NameAt(i).digits
      BY <1>0, NamesGetShorter DEF Specific
    <3> QED
      BY ONLY <1>0, <3>1, <3>2
  <2>2. ss' = ss /\ i' = i /\ transfer' = "running"
    BY <1>1 DEF StartTransfer
  <2> QED
    BY <2>1, <2>2 DEF OrderInv, Specific, MoreSpecificFirst
<1>2. CASE WriteBlock
  <2> DEFINE piece == [name |-> NameAt(i), block |-> got + 1]
  <2>1. /\ ss' = Append(ss, piece)
        /\ UNCHANGED <<i, transfer, pc>>
        /\ transfer = "running" /\ got' = got + 1
    BY <1>2 DEF WriteBlock
  <2>2. /\ DOMAIN ss' = 1..Len(ss) + 1
        /\ \A j \in 1..Len(ss) : ss'[j] = ss[j]
        /\ ss'[Len(ss) + 1] = piece
    BY <1>0, <2>1
  <2>3. \A j \in 1..Len(ss) :
            \/ ss[j].name.digits > piece.name.digits
            \/ ss[j].name = piece.name /\ ss[j].block < piece.block
    BY <1>0, <2>1 DEF Specific, OrderInv
  <2>4. piece.name = NameAt(i) /\ piece.block = got + 1
    OBVIOUS
  <2> HIDE DEF piece
  <2>5. MoreSpecificFirst'
    <3> SUFFICES ASSUME NEW j \in 1..Len(ss) + 1, NEW k \in 1..Len(ss) + 1, j < k
                 PROVE  \/ ss'[j].name.digits > ss'[k].name.digits
                        \/ ss'[j].name = ss'[k].name /\ ss'[j].block < ss'[k].block
      BY <2>2 DEF MoreSpecificFirst
    <3>1. j \in 1..Len(ss)
      BY <1>0
    <3>2. CASE k \in 1..Len(ss)
      BY <1>0, <2>2, <3>1, <3>2 DEF OrderInv, MoreSpecificFirst
    <3>3. CASE k = Len(ss) + 1
      BY <2>2, <2>3, <3>1, <3>3
    <3> QED
      BY <1>0, <3>2, <3>3
  <2>6. ASSUME NEW j \in DOMAIN ss'
        PROVE  /\ \/ ss'[j].name.digits > Specific(i)
                  \/ ss'[j].name = NameAt(i)
               /\ ss'[j].name = NameAt(i) => ss'[j].block <= got + 1
    <3>1. CASE j \in 1..Len(ss)
      BY <1>0, <2>1, <2>2, <3>1 DEF OrderInv
    <3>2. CASE j = Len(ss) + 1
      BY <1>0, <2>2, <2>4, <3>2
    <3> QED
      BY <1>0, <2>2, <3>1, <3>2
  <2> QED
    BY <2>1, <2>5, <2>6 DEF Specific, OrderInv
<1>3. ASSUME ss' = ss, i' = i, got' = got, transfer' = "running" => transfer = "running",
             transfer' = "none" /\ pc' = "loop" => transfer = "none" /\ pc = "loop"
      PROVE  OrderInv'
  BY <1>3 DEF OrderInv, Specific, MoreSpecificFirst
<1>4. CASE Progress
  BY <1>3, <1>4 DEF Progress
<1>5. CASE TransferEnds
  BY <1>3, <1>5, TransferEndsTold DEF Told
<1>6. CASE RoundEnds
  <2>1. CASE transfer = "unknown" /\ i < 9
    <3>1. i' = i + 1 /\ ss' = ss /\ transfer' = "none"
      BY <1>6, <2>1 DEF RoundEnds
    <3>2. Specific(i) > Specific(i + 1) /\ Specific(i) \in Nat /\ Specific(i + 1) \in Nat
      BY <1>0, <2>1, NamesGetShorter
    <3>3. \A j \in DOMAIN ss : ss[j].name.digits > Specific(i + 1)
      BY <1>0, <3>2 DEF Specific, OrderInv
    <3> QED
      BY <3>1, <3>3 DEF Specific, OrderInv, MoreSpecificFirst
  <2>2. CASE ~(transfer = "unknown" /\ i < 9)
    BY <1>3, <1>6, <2>2 DEF RoundEnds
  <2> QED
    BY <2>1, <2>2
<1>7. CASE Parse
  BY <1>3, <1>7 DEF Parse
<1>8. CASE Ended \/ UNCHANGED vars
  BY <1>3, <1>8 DEF Ended, vars
<1> QED
  BY <1>1, <1>2, <1>4, <1>5, <1>6, <1>7, <1>8 DEF Next

\* A step keeps the beginnings whole.
LEMMA NextPieces ==
    ASSUME TypeInv, PiecesInv, [Next]_vars
    PROVE  PiecesInv'
<1>0. /\ ss \in Seq(Piece) /\ DOMAIN ss = 1..Len(ss) /\ Len(ss) \in Nat
      /\ got \in Nat /\ Blocks \in Nat
  BY Typed
<1>1. server' = server
  BY DEF Next, StartTransfer, WriteBlock, Progress, TransferEnds, Performed, RoundEnds,
         Parse, Ended, vars
<1>2. CASE StartTransfer
  <2>1. ss' = ss /\ got' = 0 /\ transfer' = "running"
    BY <1>2 DEF StartTransfer
  <2> QED
    BY <1>0, <1>1, <2>1 DEF PiecesInv, BeginningsOfFiles, EndOfFile
<1>3. CASE WriteBlock
  <2> DEFINE piece == [name |-> NameAt(i), block |-> got + 1]
  <2>1. /\ ss' = Append(ss, piece)
        /\ UNCHANGED <<i, transfer, pc>>
        /\ transfer = "running" /\ got' = got + 1 /\ NameAt(i) \in server
    BY <1>3 DEF WriteBlock
  <2>2. /\ DOMAIN ss' = 1..Len(ss) + 1 /\ Len(ss') = Len(ss) + 1
        /\ \A j \in 1..Len(ss) : ss'[j] = ss[j]
        /\ ss'[Len(ss) + 1] = piece
    BY <1>0, <2>1
  <2>3. Len(ss) >= got /\ \A b \in 1..got :
            ss[Len(ss) - got + b] = [name |-> NameAt(i), block |-> b]
    BY <2>1 DEF PiecesInv, EndOfFile
  <2>4. piece.block = 1 \/ (Len(ss) >= 1 /\ ss[Len(ss)] = [piece EXCEPT !.block = @ - 1])
    <3>1. CASE got = 0
      BY <3>1
    <3>2. CASE got > 0
      <4>1. got \in 1..got /\ Len(ss) - got + got = Len(ss) /\ Len(ss) >= 1
        BY <1>0, <2>3, <3>2
      <4>2. ss[Len(ss)] = [name |-> NameAt(i), block |-> got]
        BY <2>3, <4>1
      <4>3. [piece EXCEPT !.block = @ - 1] = [name |-> NameAt(i), block |-> got]
        BY <1>0
      <4> QED
        BY <4>1, <4>2, <4>3
    <3> QED
      BY <1>0, <3>1, <3>2
  <2>5. piece.name = NameAt(i)
    OBVIOUS
  <2>6. ASSUME NEW k \in 1..Len(ss) + 1
        PROVE  /\ ss'[k].name \in server'
               /\ \/ ss'[k].block = 1
                  \/ k > 1 /\ ss'[k - 1] = [ss'[k] EXCEPT !.block = @ - 1]
    <3> HIDE DEF piece
    <3>1. CASE k \in 1..Len(ss)
      <4>1. /\ ss[k].name \in server
            /\ \/ ss[k].block = 1
               \/ k > 1 /\ ss[k - 1] = [ss[k] EXCEPT !.block = @ - 1]
        BY <1>0, <3>1 DEF PiecesInv, BeginningsOfFiles
      <4>2. k > 1 => k - 1 \in 1..Len(ss)
        BY <1>0, <3>1
      <4> QED
        BY <1>1, <2>2, <3>1, <4>1, <4>2
    <3>2. CASE k = Len(ss) + 1
      <4>1. Len(ss) >= 1 => k > 1 /\ k - 1 = Len(ss) /\ Len(ss) \in 1..Len(ss)
        BY <1>0, <3>2
      <4>2. ss'[k] = piece
        BY <2>2, <3>2
      <4>3. Len(ss) >= 1 => ss'[k - 1] = ss[Len(ss)]
        BY <2>2, <4>1
      <4> QED
        BY <1>1, <2>1, <2>4, <2>5, <4>1, <4>2, <4>3
    <3> QED
      BY <1>0, <3>1, <3>2
  <2>7. EndOfFile(got)'
    <3>1. ASSUME NEW b \in 1..got + 1
          PROVE  ss'[Len(ss) + 1 - (got + 1) + b] = [name |-> NameAt(i), block |-> b]
      <4>1. CASE b \in 1..got
        <5>1. Len(ss) - got + b \in 1..Len(ss)
          BY <1>0, <2>3, <4>1
        <5>2. Len(ss) + 1 - (got + 1) + b = Len(ss) - got + b
          BY <1>0, <4>1
        <5> QED
          BY <2>2, <2>3, <4>1, <5>1, <5>2
      <4>2. CASE b = got + 1
        <5>1. Len(ss) + 1 - (got + 1) + b = Len(ss) + 1
          BY <1>0, <4>2
        <5> QED
          BY <2>2, <4>2, <5>1
      <4> QED
        BY <1>0, <4>1, <4>2
    <3>2. Len(ss) + 1 >= got + 1
      BY <1>0, <2>3
    <3> QED
      BY <2>1, <2>2, <3>1, <3>2 DEF EndOfFile
  <2> QED
    BY <2>1, <2>2, <2>6, <2>7 DEF PiecesInv, BeginningsOfFiles
<1>4. ASSUME ss' = ss, i' = i, got' = got,
             transfer' = "running" => transfer = "running",
             transfer' = "ok" => transfer = "ok" \/ (transfer = "running" /\ got = Blocks)
      PROVE  PiecesInv'
  BY <1>1, <1>4 DEF PiecesInv, BeginningsOfFiles, EndOfFile
<1>5. CASE Progress
  BY <1>4, <1>5 DEF Progress
<1>6. CASE TransferEnds
  BY <1>4, <1>6, TransferEndsTold DEF Told
<1>7. CASE RoundEnds
  <2>1. CASE transfer = "unknown" /\ i < 9
    <3>1. ss' = ss /\ transfer' = "none"
      BY <1>7, <2>1 DEF RoundEnds
    <3> QED
      BY <1>1, <3>1 DEF PiecesInv, BeginningsOfFiles
  <2>2. CASE ~(transfer = "unknown" /\ i < 9)
    BY <1>4, <1>7, <2>2 DEF RoundEnds
  <2> QED
    BY <2>1, <2>2
<1>8. CASE Parse
  BY <1>4, <1>8 DEF Parse
<1>9. CASE Ended \/ UNCHANGED vars
  BY <1>4, <1>9 DEF Ended, vars
<1> QED
  BY <1>2, <1>3, <1>5, <1>6, <1>7, <1>8, <1>9 DEF Next

\* However many transfers break off or are refused, the stream holds beginnings
\* of the server's files, the more specific names in front and no piece twice,
\* and behind a transfer that succeeded it ends with the whole of that file.
THEOREM StreamStaysInOrder == Spec => []StreamIsInOrder
<1>1. Init => TypeInv /\ OrderInv /\ PiecesInv
  BY InitType DEF Init, OrderInv, MoreSpecificFirst, PiecesInv, BeginningsOfFiles
<1>2. TypeInv /\ OrderInv /\ PiecesInv /\ [Next]_vars => (TypeInv /\ OrderInv /\ PiecesInv)'
  BY NextType, NextOrder, NextPieces
<1>3. TypeInv /\ OrderInv /\ PiecesInv => StreamIsInOrder
  <2> SUFFICES ASSUME TypeInv, PiecesInv, transfer = "ok"
               PROVE  EndsWith(File(NameAt(i)))
    BY DEF OrderInv, PiecesInv, StreamIsInOrder
  <2>1. /\ Len(File(NameAt(i))) = Blocks /\ DOMAIN File(NameAt(i)) = 1..Blocks
        /\ \A b \in 1..Blocks : File(NameAt(i))[b] = [name |-> NameAt(i), block |-> b]
    <3>1. Blocks \in Nat
      BY Typed
    <3>2. DOMAIN File(NameAt(i)) = 1..Blocks
      BY DEF File
    <3>3. Len(File(NameAt(i))) = Blocks
      BY <3>1, <3>2 DEF File
    <3> QED
      BY <3>2, <3>3 DEF File
  <2> QED
    BY <2>1 DEF PiecesInv, EndOfFile, EndsWith
<1> QED
  BY <1>1, <1>2, <1>3, PTL DEF Spec

-----------------------------------------------------------------------------
(* A network where nothing goes wrong.                                     *)

\* Every step reads the file of the current name, or leaves it without one.
LEMMA NextClean ==
    ASSUME TypeInv, CleanInv, [Next]_vars
    PROVE  CleanInv'
<1>1. network' = network /\ server' = server
  BY DEF Next, StartTransfer, WriteBlock, Progress, TransferEnds, Performed, RoundEnds,
         Parse, Ended, vars
<1> SUFFICES ASSUME network = {}
             PROVE  CleanInv'
  BY <1>1 DEF CleanInv
<1>0. i \in 0..9
  BY DEF TypeInv
<1> USE DEF CleanInv, Has
<1>2. CASE StartTransfer
  BY <1>2 DEF StartTransfer
<1>3. CASE WriteBlock
  <2> DEFINE piece == [name |-> NameAt(i), block |-> got + 1]
  <2>1. /\ ss' = Append(ss, piece)
        /\ UNCHANGED <<i, transfer, pc>>
        /\ transfer = "running" /\ got' = got + 1 /\ NameAt(i) \in server
    BY <1>3 DEF WriteBlock
  <2>2. /\ Len(ss') = Len(ss) + 1
        /\ \A j \in 1..Len(ss) : ss'[j] = ss[j]
        /\ ss'[Len(ss) + 1] = piece
    BY <2>1
  <2>3. Has(got)'
    BY <1>1, <2>1, <2>2, Typed
  <2>4. pc = "loop"
    BY <2>1 DEF TypeInv
  <2> HIDE DEF piece, Has
  <2> QED
    BY <1>1, <2>1, <2>3, <2>4
<1>4. CASE Progress
  BY <1>4 DEF Progress
<1>5. CASE TransferEnds
  <2>1. UNCHANGED <<i, ss, got, pc>> /\ transfer = "running"
    BY <1>5, TransferEndsTold DEF Told
  <2>2. \/ transfer' = "ok" /\ NameAt(i) \in server /\ got = Blocks
        \/ transfer' = "unknown" /\ NameAt(i) \notin server
    BY <1>5, TransferEndsTold DEF Told
  <2> QED
    BY <1>1, <2>1, <2>2
<1>6. CASE RoundEnds
  <2>1. CASE transfer = "unknown" /\ i < 9
    <3>1. i' = i + 1 /\ transfer' = "none" /\ pc' = "loop" /\ ss' = ss
      BY <1>6, <2>1 DEF RoundEnds
    <3>2. ss = <<>> /\ NameAt(i) \notin server
      BY <2>1
    <3>3. \A n \in 0..9 : n < i => NameAt(n) \notin server
      OBVIOUS
    <3>4. \A n \in 0..9 : n < i + 1 => n < i \/ n = i
      BY ONLY <1>0
    <3>5. \A n \in 0..9 : n < i + 1 => NameAt(n) \notin server
      BY <3>2, <3>3, <3>4
    <3> QED
      BY <1>1, <3>1, <3>2, <3>5
  <2>2. CASE ~(transfer = "unknown" /\ i < 9)
    <3>1. i' = i /\ transfer' = transfer /\ pc' = "parse" /\ ss' = ss
      BY <1>6, <2>2 DEF RoundEnds
    <3>2. transfer = "ok" \/ (transfer = "unknown" /\ i = 9)
      <4>1. i < 9 \/ i = 9
        BY ONLY <1>0
      <4>2. transfer \in {"ok", "unknown"}
        BY <1>6 DEF RoundEnds
      <4> QED
        BY <2>2, <4>1, <4>2
    <3> QED
      BY <1>1, <3>1, <3>2
  <2> QED
    BY <2>1, <2>2
<1>7. CASE Parse
  BY <1>7, <1>1 DEF Parse
<1>8. CASE Ended \/ UNCHANGED vars
  <2>1. UNCHANGED <<server, network, i, ss, transfer, got, pc>>
    BY <1>8 DEF Ended, vars
  <2> QED
    BY <2>1
<1> QED
  BY <1>2, <1>3, <1>4, <1>5, <1>6, <1>7, <1>8 DEF Next

\* At the start nothing is read.
LEMMA InitClean == Init => CleanInv
BY DEF Init, CleanInv

\* What is parsed is the whole file of the first name that exists.
LEMMA CleanIsSpecific == TypeInv /\ CleanInv => MostSpecificIsUsed
<1> SUFFICES ASSUME TypeInv, CleanInv, network = {}
             PROVE  /\ pc = "parsed" =>
                           \E name \in server :
                               /\ ss = File(name)
                               /\ \A other \in server : other.digits <= name.digits
                    /\ pc = "thrown" => server = {}
  BY DEF MostSpecificIsUsed
<1>0. /\ i \in 0..9 /\ server \subseteq ClientNames
      /\ \A n \in 0..9 : n < i => NameAt(n) \notin server
  BY DEF TypeInv, CleanInv
<1>1. ASSUME NEW other \in server
      PROVE  /\ \E n \in 0..9 : NameAt(n) = other /\ n >= i
             /\ other.digits <= Specific(i)
  <2>1. PICK n \in 0..9 : NameAt(n) = other
    BY <1>0, NamesAreAll
  <2>2. ~(n < i)
    BY <1>0, <2>1
  <2>3. n = i \/ i < n
    BY <1>0, <2>2
  <2>4. other.digits = Specific(n) /\ Specific(n) <= Specific(i)
    BY <1>0, <2>1, <2>3, NamesGetShorter DEF Specific
  <2> QED
    BY <1>0, <2>1, <2>3, <2>4
<1>2. CASE pc = "parsed"
  <2>1. NameAt(i) \in server /\ Has(Blocks)
    BY <1>2 DEF CleanInv
  <2>2. ss \in Seq(Piece)
    BY DEF TypeInv
  <2>3. ss = [b \in 1..Len(ss) |-> ss[b]]
    BY <2>2
  <2>4. ss = File(NameAt(i))
    BY <2>1, <2>3 DEF Has, File
  <2> QED
    BY <1>1, <1>2, <2>1, <2>4 DEF Specific
<1>3. CASE pc = "thrown"
  <2>1. ss = <<>> /\ (NameAt(i) \in server => Has(Blocks))
    BY <1>3 DEF CleanInv
  <2>2. NameAt(i) \notin server
    BY <2>1, SearchAssumption DEF Has
  <2>3. i = 9
    BY <1>3, <2>2 DEF CleanInv
  <2>4. \A n \in 0..9 : n >= 9 => n = 9
    OBVIOUS
  <2> QED
    BY <1>1, <1>3, <2>2, <2>3, <2>4
<1> QED
  BY <1>2, <1>3

\* Where nothing goes wrong, pxe-kexec boots from the file of the most specific
\* name, however many pieces it comes in, and finds none only if there is none.
THEOREM MostSpecificIsFound == Spec => []MostSpecificIsUsed
<1>1. Init => TypeInv /\ CleanInv
  BY InitType, InitClean
<1>2. TypeInv /\ CleanInv /\ [Next]_vars => (TypeInv /\ CleanInv)'
  BY NextType, NextClean
<1> QED
  BY <1>1, <1>2, CleanIsSpecific, PTL DEF Spec
=============================================================================
