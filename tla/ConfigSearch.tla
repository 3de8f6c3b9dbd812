---------------------------- MODULE ConfigSearch ----------------------------
(***************************************************************************)
(* The search for the configuration file (PxeKexec::readPxeConfig,         *)
(* src/src/pxekexec.cc): the ten names a PXE client asks for, one after    *)
(* the other, each through a Downloader of its own (src/src/downloader.cc) *)
(* that writes what curl delivers to one string stream, and reports        *)
(* progress to one notifier.                                               *)
(***************************************************************************)
EXTENDS Naturals, FiniteSets, SequencesExt

CONSTANTS
    Blocks,      \* the number of pieces curl delivers a file in
    Servers,     \* the servers: for each one, the names it has a file under
    Faults       \* what may go wrong

\* The names of a client, and how much of it they name (digits): the MAC
\* address, leading digits of the IP address, or nothing.
ClientNames == {[kind |-> "mac", digits |-> 12]}
                   \union {[kind |-> "ip", digits |-> d] : d \in 1..8}
                   \union {[kind |-> "default", digits |-> 0]}

ASSUME SearchAssumption ==
    /\ Blocks \in Nat \ {0}
    /\ Servers \subseteq SUBSET ClientNames
    /\ Faults \subseteq {"connect",    \* a connection is refused
                         "break"}      \* a transfer breaks off or times out

VARIABLES
    server,      \* the names the server has; never changes
    network,     \* what goes wrong in this network; never changes
    quiet,       \* m_quiet: no notifier then
    i,           \* the loop variable
    ss,          \* the stream: a sequence of [name, block]
    transfer,    \* the Downloader of this round; behind the loop, how the
                 \* last one ended
    got,         \* the blocks it has written
    calls,       \* its calls of the notifier
    pc           \* "loop", "parse", "parsed" or "thrown"

vars == <<server, network, quiet, i, ss, transfer, got, calls, pc>>

\* Mutated form: the address loses its digits in the wrong order.
NameAtReversed(n) ==
    IF n = 0 THEN [kind |-> "mac", digits |-> 12]
    ELSE IF n < 9 THEN [kind |-> "ip", digits |-> n]
    ELSE [kind |-> "default", digits |-> 0]

\* names[n]
NameAt(n) ==
    IF n = 0 THEN [kind |-> "mac", digits |-> 12]
    ELSE IF n < 9 THEN [kind |-> "ip", digits |-> 8 - (n - 1)]
    ELSE [kind |-> "default", digits |-> 0]

NoCalls == [progressed |-> FALSE, finished |-> 0]

Init ==
    /\ server \in Servers /\ network \in SUBSET Faults
    /\ quiet \in BOOLEAN
    /\ i = 0 /\ ss = <<>>
    /\ transfer = "none" /\ got = 0 /\ calls = NoCalls
    /\ pc = "loop"

-----------------------------------------------------------------------------
(* Downloader                                                              *)

\* A new Downloader on the stream, its URL and its notifier; curl starts.
StartTransfer ==
    /\ pc = "loop" /\ transfer = "none"
    /\ transfer' = "running" /\ got' = 0 /\ calls' = NoCalls
    /\ UNCHANGED <<server, network, quiet, i, ss, pc>>

\* curl_write_callback(): a string stream takes every block.
WriteBlock ==
    /\ transfer = "running"
    /\ NameAt(i) \in server /\ got < Blocks
    /\ got' = got + 1
    /\ ss' = Append(ss, [name |-> NameAt(i), block |-> got'])
    /\ UNCHANGED <<server, network, quiet, i, transfer, calls, pc>>

\* curl_progress_callback(), as often as curl likes.
Progress ==
    /\ transfer = "running" /\ ~quiet
    /\ calls' = [calls EXCEPT !.progressed = TRUE]
    /\ UNCHANGED <<server, network, quiet, i, ss, transfer, got, pc>>

\* Mutated form: finished() only after a download that succeeded.
PerformedOnSuccess(result) ==
    /\ transfer = "running" /\ transfer' = result
    /\ calls' = IF quiet \/ result # "ok" THEN calls
                ELSE [calls EXCEPT !.finished = @ + 1]
    /\ UNCHANGED <<server, network, quiet, i, ss, got, pc>>

\* curl_easy_perform() returns, and download() tells the notifier before it
\* looks at the result.
Performed(result) ==
    /\ transfer = "running" /\ transfer' = result
    /\ calls' = IF quiet THEN calls ELSE [calls EXCEPT !.finished = @ + 1]
    /\ UNCHANGED <<server, network, quiet, i, ss, got, pc>>

TransferEnds ==
    \/ NameAt(i) \in server /\ got = Blocks /\ Performed("ok")
    \/ NameAt(i) \notin server /\ Performed("unknown")
    \/ "break" \in network /\ Performed("unknown")
    \/ "connect" \in network /\ got = 0 /\ Performed("connection failed")

-----------------------------------------------------------------------------
(* readPxeConfig()                                                         *)

\* Mutated form: a name whose transfer broke off is asked for again.
RoundEndsRetrying ==
    /\ pc = "loop" /\ transfer \in {"ok", "unknown", "connection failed"}
    /\ IF transfer = "unknown" /\ i < 9
       THEN /\ i' = IF got > 0 THEN i ELSE i + 1
            /\ transfer' = "none" /\ pc' = "loop"
       ELSE i' = i /\ transfer' = transfer /\ pc' = "parse"
    /\ UNCHANGED <<server, network, quiet, ss, got, calls>>

\* Mutated form: a refused connection is tried again.
RoundEndsPatient ==
    /\ pc = "loop" /\ transfer \in {"ok", "unknown", "connection failed"}
    /\ IF transfer # "ok" /\ i < 9
       THEN /\ i' = IF transfer = "unknown" THEN i + 1 ELSE i
            /\ transfer' = "none" /\ pc' = "loop"
       ELSE i' = i /\ transfer' = transfer /\ pc' = "parse"
    /\ UNCHANGED <<server, network, quiet, ss, got, calls>>

\* A success and a refused connection break the loop, every other error makes
\* it try the next name.  What was written stays in the stream.
RoundEnds ==
    /\ pc = "loop" /\ transfer \in {"ok", "unknown", "connection failed"}
    /\ IF transfer = "unknown" /\ i < 9
       THEN i' = i + 1 /\ transfer' = "none" /\ pc' = "loop"
       ELSE i' = i /\ transfer' = transfer /\ pc' = "parse"
    /\ UNCHANGED <<server, network, quiet, ss, got, calls>>

\* "No PXE configuration found." of an empty stream only.
Parse ==
    /\ pc = "parse"
    /\ pc' = IF ss = <<>> THEN "thrown" ELSE "parsed"
    /\ UNCHANGED <<server, network, quiet, i, ss, transfer, got, calls>>

Ended == pc \in {"parsed", "thrown"} /\ UNCHANGED vars

Next == StartTransfer \/ WriteBlock \/ Progress \/ TransferEnds \/ RoundEnds
            \/ Parse \/ Ended

Spec == Init /\ [][Next]_vars

\* curl ends every transfer: a silent server runs into CURLOPT_TIMEOUT.
FairSpec == /\ Spec
            /\ WF_vars(StartTransfer \/ RoundEnds \/ Parse)
            /\ WF_vars(WriteBlock) /\ WF_vars(TransferEnds)

-----------------------------------------------------------------------------
(* Properties                                                              *)

File(name) == [b \in 1..Blocks |-> [name |-> name, block |-> b]]

\* In a network where nothing goes wrong, what is parsed is the file of the
\* name that says most about the client, whole and alone; an error is reported
\* only of a server that has none of the names.
MostSpecificIsUsed ==
    network = {} =>
        /\ pc = "parsed" =>
               \E name \in server :
                   /\ ss = File(name)
                   /\ \A other \in server : other.digits <= name.digits
        /\ pc = "thrown" => server = {}

\* The more a name says about the client, the earlier its pieces stand, and
\* the pieces of one name in the order of its file.
MoreSpecificFirst ==
    \A j, k \in DOMAIN ss :
        j < k => \/ ss[j].name.digits > ss[k].name.digits
                 \/ ss[j].name = ss[k].name /\ ss[j].block < ss[k].block

\* Each piece is one of a file that is there, and it is the first one or stands
\* behind the one before it.
BeginningsOfFiles ==
    \A k \in DOMAIN ss :
        /\ ss[k].name \in server
        /\ \/ ss[k].block = 1
           \/ /\ k > 1
              /\ ss[k - 1] = [ss[k] EXCEPT !.block = @ - 1]

EndsWith(file) ==
    /\ Len(ss) >= Len(file)
    /\ \A b \in DOMAIN file : ss[Len(ss) - Len(file) + b] = file[b]

\* However the transfers go, the stream that all rounds write to holds nothing
\* but beginnings of the server's files, no piece twice, those of more specific
\* names in front; and behind a transfer that succeeded it ends with the whole
\* of that file (the loop of readPxeConfig(), Downloader::download()).  That
\* broken transfers leave their beginnings in front of it is allowed for.
StreamIsInOrder ==
    /\ MoreSpecificFirst
    /\ BeginningsOfFiles
    /\ transfer = "ok" => EndsWith(File(NameAt(i)))

\* "after the last call of progressed() this method is called exactly once"
\* (src/src/downloader.h:155): also when a download fails.
FinishedExactlyOnce ==
    calls.progressed /\ transfer # "running" => calls.finished = 1

\* The search comes to an end, at the latest with the tenth name.
Termination == <>(pc \in {"parsed", "thrown"})
=============================================================================
