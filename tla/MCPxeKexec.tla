---------------------------- MODULE MCPxeKexec ----------------------------
(***************************************************************************)
(* Small instances of PxeKexec: two labels that differ in case only,       *)
(* another one and one that no entry has, two kernels, two initrds, and    *)
(* command lines and machines chosen so that every branch on them is taken.*)
(***************************************************************************)
EXTENDS PxeKexec

MCLabels == {"linux", "LINUX", "rescue", "other"}

MCFold == [l \in MCLabels |-> IF l = "LINUX" THEN "linux" ELSE l]

MCKernels == {"k1", "k2"}
MCInitrds == {"i1", "i2"}
MCArgs    == {"", "quiet"}

ALine(args, initrd) == [args |-> args, initrd |-> initrd]

\* As the parser leaves them: the initrd of every entry but the last was
\* asked for by its trace message.
Parsed(l, k, a) == AfterGetInitrd(SetAppend(SetKernel(NewEntry(l), k), a))
Unparsed(l, k, a) == SetAppend(SetKernel(NewEntry(l), k), a)

MCConfigs ==
    {<<Parsed("linux", "k1", ALine("", "i1")),
       Unparsed("rescue", "k2", ALine("quiet", NoParameter))>>,
     <<Parsed("LINUX", "k2", ALine("", NoInitrd)),
       Parsed("linux", "k1", ALine("", "i2")),
       Unparsed("rescue", "k1", ALine("", "i1"))>>}

Line == NoOpts

MCCmdLines ==
    {Line,
     [Line EXCEPT !.noconfirm = TRUE],
     [Line EXCEPT !.label = "LINUX", !.noconfirm = TRUE, !.force = TRUE],
     [Line EXCEPT !.label = "other", !.force = TRUE, !.ignoreWhitelist = TRUE],
     [Line EXCEPT !.label = "linux", !.loadOnly = TRUE],
     [Line EXCEPT !.quiet = TRUE, !.nodelete = TRUE],
     [Line EXCEPT !.dryRun = TRUE, !.force = TRUE],
     [Line EXCEPT !.dryRun = TRUE, !.noconfirm = TRUE]}

\* A machine on whose pseudo terminal /dev/tty is not a console, /dev/tty0 is.
Terminal == [modes |-> {"rw", "w", "r"}, console |-> FALSE]
Tty0     == [modes |-> {"w", "r"}, console |-> TRUE]
Missing  == [modes |-> {}, console |-> FALSE]

Machine == [path |-> <<FALSE, TRUE>>, root |-> TRUE, suitable |-> TRUE,
            stdin |-> "pty", terminals |-> <<Terminal, Tty0, Missing, Tty0>>,
            consoles |-> {}]

MCEnvs ==
    {Machine,
     [Machine EXCEPT !.stdin = "console", !.consoles = Streams],
     [Machine EXCEPT !.stdin = "none"],
     [Machine EXCEPT !.terminals = <<Missing, Tty0, Tty0, Tty0>>],
     [Machine EXCEPT !.terminals = <<Terminal, Terminal, Terminal, Tty0>>],
     [Machine EXCEPT !.terminals = <<Terminal, Terminal>>, !.consoles = {1, 2}],
     [Machine EXCEPT !.root = FALSE],
     [Machine EXCEPT !.suitable = FALSE],
     [Machine EXCEPT !.path = <<FALSE>>],
     [Machine EXCEPT !.path = <<TRUE>>]}

=============================================================================
