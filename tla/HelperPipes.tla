---------------------------- MODULE HelperPipes ----------------------------
(***************************************************************************)
(* The two pipes popen2 lays between the service and rtl_fm_helper, and    *)
(* the lines that travel on them.  A line is written by one write() and a  *)
(* pipe keeps their order; read() on the reply pipe takes every line that  *)
(* is in it, as far as its buffer goes.                                    *)
(***************************************************************************)
EXTENDS BandPlan, Sequences

CONSTANTS
    PipeMax,       \* the lines the reply pipe holds; who prints one more waits
    ReadMax        \* the lines a read() takes whole: its 127 bytes hold ten

ASSUME PipesAssumption == PipeMax \in Nat \ {0} /\ ReadMax \in Nat \ {0}

VARIABLES
    toHelper,      \* lines written to helper_in and not yet read by fgets
    fromHelper,    \* lines printed by the helper and not yet read
    helper_alive   \* FALSE once the helper process has ended

pipeVars == <<toHelper, fromHelper, helper_alive>>

ScanOps == {"S=UP", "S=DOWN"}
PlainOps == {"START", "STOP", "S=STOP"}

\* The frequencies that can be tuned to or asked for.
Frequencies == {f \in Nat : f >= MinFreq}

\* The commands of the protocol; freq is 0 in those that carry none.
Commands == [op : {"F="}, freq : Frequencies]
            \cup [op : ScanOps \cup PlainOps, freq : {0}]

\* The replies: "F=%u" after a retune, "S=%u" when a scan found a station, and what a
\* read() has left of one that it took the beginning of.
Kinds == {"F", "S", "rest"}
Lines == [kind : Kinds, freq : Nat]

Command(o, f) == [op |-> o, freq |-> f]
ReplyLine(k, f) == [kind |-> k, freq |-> f]

PipesTypeOK ==
    /\ toHelper \in Seq(Commands)
    /\ fromHelper \in Seq(Lines)
    /\ helper_alive \in BOOLEAN

\* The pipes as rtlsdr_init leaves them: its F= has been answered and read.
PipesInit ==
    /\ toHelper = << >>
    /\ fromHelper = << >>
    /\ helper_alive = TRUE

\* write(helper_in, ...) succeeds while the helper lives; afterwards it fails
\* with EPIPE (systemd starts the service with SIGPIPE ignored) and nothing is
\* sent.
WriteCommand(c) ==
    toHelper' = IF helper_alive THEN Append(toHelper, c) ELSE toHelper

\* printf and fflush of one line, which wait as long as the pipe is full.
PrintLine(l) ==
    /\ Len(fromHelper) < PipeMax
    /\ fromHelper' = Append(fromHelper, l)

\* A line whose first bytes have been read.
Torn(l) == [l EXCEPT !.kind = "rest"]

\* read(helper_out, ...) returns a positive count: it takes what its buffer holds,
\* which may end in the middle of the next line.
ReadLines ==
    /\ fromHelper # << >>
    /\ LET left == SubSeq(fromHelper, ReadMax + 1, Len(fromHelper))
       IN  \/ fromHelper' = left
           \/ left # << >> /\ fromHelper' = <<Torn(Head(left))>> \o Tail(left)

\* read(helper_out, ...) returns 0.
EndOfFile == fromHelper = << >> /\ ~ helper_alive

=============================================================================
