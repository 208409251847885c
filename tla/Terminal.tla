------------------------------ MODULE Terminal ------------------------------
(***************************************************************************)
(* Terminals: the pool of pseudo-terminals with their line discipline      *)
(* (pty/lxp_pty.c), and the console, whose input is read by guests and,    *)
(* for ^C and ^Z, by the coordinator (fs/lxp_console.c,                    *)
(* run/lxp_console_input.c, the console retry of run/lxp_blocked.c).       *)
(*                                                                         *)
(* A keystroke is a pair of its character and its number in the order of   *)
(* typing, so that one that is lost, repeated or overtaken shows.  A write *)
(* to a master numbers its characters when it is called and keeps the      *)
(* numbers while it is parked; those the call does not report as consumed  *)
(* are typed again by the next write.  Output towards a master is only     *)
(* counted.  Signals raised by a keystroke go to the signal router and     *)
(* change nothing here.                                                    *)
(***************************************************************************)
EXTENDS Integers, Sequences, FiniteSets, SequencesExt

CONSTANTS
    TtyGuests,     \* guest tasks
    NPTY,          \* LXP_NPTY
    PTYBUF,        \* LXP_PTY_BUF, each direction
    CANON,         \* LXP_PTY_CANON
    TYPEAHEAD,     \* LXP_CONSOLE_TYPEAHEAD
    Keys,          \* characters that are typed on the console
    Uses,          \* which guest calls on which end of a pty (TRUE: the master)
    PtyWrites,     \* writes to a pty: the end and the buffer
    ReadLens,      \* lengths of a read
    TermModes,     \* termios settings a guest may choose, the first the default
    MaxTyped,      \* keystrokes in a behaviour
    MaxEnds,       \* descriptors of one end of a pty
    TtyProfiles    \* what is exercised: "pty", "console"

ASSUME TerminalConstants ==
    /\ NPTY \in Nat \ {0} /\ CANON \in Nat \ {0} /\ TYPEAHEAD \in Nat \ {0}
    /\ PTYBUF > CANON

VARIABLES
    ptys,       \* g_ptys
    twait,      \* the terminal call each guest is parked in
    transport,  \* external: input the host has received and nobody has read
    typeahead,  \* g_lxp_rt.typeahead
    contio,     \* g_console_tty
    conlog,     \* history: what guests read from the console, and what was a signal
    typed,      \* number of keystrokes on the console
    tprofile    \* a member of TtyProfiles

terminalVars == <<ptys, twait, transport, typeahead, contio, conlog, typed, tprofile>>

Ptys == 1..NPTY
NoTtyCall == [op |-> "none"]
NoPty == [used |-> FALSE]

\* lxp_tty_init and the cleared pty.  The last three are history: the keystrokes
\* reported to the writer as consumed, those the slave has read, in order, and
\* those the discipline has eaten.
NewPty(nb) ==
    [used |-> TRUE, m2s |-> <<>>, s2m |-> 0, canon |-> <<>>, eof |-> FALSE,
     tio |-> TermModes[1], masters |-> 0, slaves |-> 0, m_nb |-> nb, s_nb |-> FALSE,
     taken |-> {}, out |-> <<>>, eaten |-> {}]

\* lxp_tty_signal_for
SignalFor(tio, c) == tio.isig /\ c \in {"int", "susp"}
Translated(tio, c) == IF tio.icrnl /\ c = "cr" THEN "nl" ELSE c

TerminalInit ==
    /\ ptys = [i \in Ptys |-> NoPty]
    /\ twait = [g \in TtyGuests |-> NoTtyCall]
    /\ transport = <<>> /\ typeahead = <<>> /\ contio = TermModes[1]
    /\ conlog = [read |-> <<>>, signals |-> {}] /\ typed = 0
    /\ tprofile \in TtyProfiles

ConsoleSame == UNCHANGED <<transport, typeahead, contio, conlog, typed>>
-----------------------------------------------------------------------------
(***************************************************************************)
(* Line discipline.                                                        *)
(***************************************************************************)
ring_space(ring) == PTYBUF - Len(ring)

\* A byte for a full ring is dropped.
ring_putc(ring, k) == IF ring_space(ring) > 0 THEN Append(ring, k) ELSE ring
ring_put_all(ring, ks) == FoldLeft(ring_putc, ring, ks)

\* Echo towards the master: n more bytes, those that do not fit dropped.
Echoed(pt, n) ==
    IF pt.tio.echo /\ n > 0
    THEN [pt EXCEPT !.s2m = IF @ + n > PTYBUF THEN PTYBUF ELSE @ + n] ELSE pt

Ids(keys) == [n \in DOMAIN keys |-> keys[n].id]
\* Whether a line of n bytes, or a raw byte, fits.
Room(pt, n) == ring_space(pt.m2s) >= n

\* One character of a write to the master; `in' is the pty, the characters
\* consumed and whether the write has stopped for want of room.
pty_input_char(in, char) ==
    LET pt == in.pt
        c == Translated(pt.tio, char.c)
        key == [c |-> c, id |-> char.id, raw |-> ~pt.tio.icanon]
        Accept(p) == [in EXCEPT !.pt = p, !.consumed = @ + 1]
        Eat(p, ids) == Accept([p EXCEPT !.eaten = @ \union ids])
        Stop == [in EXCEPT !.stopped = TRUE]
    IN  CASE in.stopped -> in
          [] ~in.stopped /\ SignalFor(pt.tio, c) -> Eat(pt, {key.id})
          [] ~in.stopped /\ ~SignalFor(pt.tio, c) /\ ~pt.tio.icanon ->
                IF ~Room(pt, 1) THEN Stop
                ELSE Accept(Echoed([pt EXCEPT !.m2s = ring_putc(@, key)], 1))
          [] OTHER ->
                CASE c = "del" ->
                       IF pt.canon = <<>> THEN Eat(pt, {key.id})
                       ELSE Eat(Echoed([pt EXCEPT !.canon = Front(@)], 3),
                                {key.id, Last(pt.canon).id})
                  [] c = "nl" ->
                       IF ~Room(pt, Len(pt.canon) + 1) THEN Stop
                       ELSE Accept(Echoed([pt EXCEPT !.m2s = ring_put_all(@, Append(pt.canon, key)),
                                                     !.canon = <<>>], 2))
                  [] c = "eof" ->
                       IF ~Room(pt, Len(pt.canon)) THEN Stop
                       ELSE Eat([pt EXCEPT !.m2s = ring_put_all(@, pt.canon), !.canon = <<>>,
                                           !.eof = @ \/ pt.canon = <<>>], {key.id})
                  [] OTHER ->
                       IF Len(pt.canon) = CANON THEN Eat(pt, {key.id})
                       ELSE Accept(Echoed([pt EXCEPT !.canon = Append(@, key)], 1))

\* Master write: what was consumed, or 0 when the first character had no room.
pty_input(pt, buf) ==
    FoldLeft(pty_input_char, [pt |-> pt, consumed |-> 0, stopped |-> FALSE], buf)

\* Slave write; a newline takes two bytes under ONLCR.
pty_output_char(out, char) ==
    LET n == IF out.pt.tio.onlcr /\ char = "nl" THEN 2 ELSE 1
    IN  IF out.stopped \/ out.pt.s2m + n > PTYBUF THEN [out EXCEPT !.stopped = TRUE]
        ELSE [out EXCEPT !.pt.s2m = @ + n, !.consumed = @ + 1]

pty_output(pt, buf) ==
    FoldLeft(pty_output_char, [pt |-> pt, consumed |-> 0, stopped |-> FALSE], buf)

\* Canonical read: up to and with the first newline.
ring_read_line(ring, len) ==
    LET ends == {n \in 1..Len(ring) : n = len \/ n = Len(ring) \/ ring[n].c = "nl"}
    IN  CHOOSE n \in ends : \A m \in ends : n <= m
-----------------------------------------------------------------------------
(***************************************************************************)
(* Reads and writes of a pty, their retry, and the two ends.               *)
(***************************************************************************)
\* What the history keeps of keystrokes that have been read.
Unlettered(keys) == [n \in DOMAIN keys |-> [id |-> keys[n].id, raw |-> keys[n].raw]]

\* lxp_pty_read: the pty afterwards and whether the call would block.
lxp_pty_read(pt, master, len) ==
    LET n == IF pt.tio.icanon THEN ring_read_line(pt.m2s, len)
             ELSE IF len < Len(pt.m2s) THEN len ELSE Len(pt.m2s)
        Ans(p, again) == [pt |-> p, again |-> again]
    IN  CASE master /\ pt.s2m > 0 -> Ans([pt EXCEPT !.s2m = IF @ > len THEN @ - len ELSE 0], FALSE)
          [] master /\ pt.s2m = 0 -> Ans(pt, pt.slaves # 0)
          [] ~master /\ pt.m2s # <<>> ->
                Ans([pt EXCEPT !.m2s = SubSeq(@, n + 1, Len(@)),
                               !.out = @ \o Unlettered(SubSeq(pt.m2s, 1, n))], FALSE)
          [] OTHER -> IF pt.masters = 0 THEN Ans(pt, FALSE)
                      ELSE Ans([pt EXCEPT !.eof = FALSE], ~pt.eof)

\* Mutant: a write that stopped half way is tried again from its start.
lxp_pty_write_all(pt, master, buf) ==
    LET w == IF master THEN pty_input(pt, buf) ELSE pty_output(pt, buf)
        short == w.consumed < Len(buf)
    IN  [pt |-> IF master /\ ~short THEN [w.pt EXCEPT !.taken = @ \union Range(Ids(buf))] ELSE w.pt,
         again |-> short]
\* lxp_pty_write: a short write reports what was consumed and ends.
lxp_pty_write(pt, master, buf) ==
    LET w == IF master THEN pty_input(pt, buf) ELSE pty_output(pt, buf)
    IN  [pt |-> IF master
                THEN [w.pt EXCEPT !.taken = @ \union Range(Ids(SubSeq(buf, 1, w.consumed)))]
                ELSE w.pt,
         again |-> w.consumed = 0]

lxp_pty_nonblock(pt, master) == IF master THEN pt.m_nb ELSE pt.s_nb

Attempted(pt, c) ==
    IF c.op = "read" THEN lxp_pty_read(pt, c.master, c.len)
    ELSE lxp_pty_write(pt, c.master, c.buf)

\* The number of the last keystroke of a pty, and a buffer with the next ones.
LastTyped(pt) == Max(pt.taken \union {0})
Numbered(pt, chars) == [n \in DOMAIN chars |-> [c |-> chars[n], id |-> LastTyped(pt) + n]]

\* read(2) and write(2) on an open end; fop_read_pty, fop_write_pty.
PtyCall(g, c) ==
    LET i == c.object
        a == Attempted(ptys[i], c)
    IN  /\ tprofile = "pty" /\ twait[g] = NoTtyCall /\ <<g, c.master>> \in Uses
        /\ (IF c.master THEN ptys[i].masters ELSE ptys[i].slaves) > 0
        /\ c.op = "write" /\ c.master => LastTyped(ptys[i]) + Len(c.buf) <= MaxTyped
        /\ ptys' = [ptys EXCEPT ![i] = a.pt]
        /\ twait' = [twait EXCEPT ![g] =
                IF a.again /\ ~lxp_pty_nonblock(a.pt, c.master) THEN c ELSE NoTtyCall]
        /\ ConsoleSame /\ UNCHANGED tprofile

\* The coordinator's retry; the pty may have been closed, and taken again.
lxp_pty_retry(g) ==
    LET c == twait[g]
        a == Attempted(ptys[c.object], c)
    IN  /\ c.op \in {"read", "write"}
        /\ IF ~ptys[c.object].used
           THEN twait' = [twait EXCEPT ![g] = NoTtyCall] /\ UNCHANGED ptys
           ELSE /\ ~a.again
                /\ ptys' = [ptys EXCEPT ![c.object] = a.pt]
                /\ twait' = [twait EXCEPT ![g] = NoTtyCall]
        /\ ConsoleSame /\ UNCHANGED tprofile

\* Open of /dev/ptmx; without a free descriptor the pty is given back.
lxp_pty_open_master(nb) ==
    LET i == CHOOSE n \in Ptys : ~ptys[n].used /\ \A m \in 1..(n - 1) : ptys[m].used
    IN  /\ tprofile = "pty" /\ \E n \in Ptys : ~ptys[n].used
        /\ ptys' = [ptys EXCEPT ![i] = [NewPty(nb) EXCEPT !.masters = 1]]
        /\ UNCHANGED <<twait, tprofile>> /\ ConsoleSame

\* Open of /dev/pts/N: the flags are taken even when the descriptor is not.
lxp_pty_open_slave(i, nb) ==
    /\ ptys[i].used
    /\ \E n \in {0, 1} : /\ ptys[i].slaves + n <= MaxEnds
                         /\ ptys' = [ptys EXCEPT ![i].s_nb = nb, ![i].slaves = @ + n]
    /\ UNCHANGED <<twait, tprofile>> /\ ConsoleSame

\* The last close of a description of one end, other guests perhaps parked.
lxp_pty_end_close(i, master) ==
    LET left == IF master THEN [ptys[i] EXCEPT !.masters = @ - 1]
                ELSE [ptys[i] EXCEPT !.slaves = @ - 1]
    IN  /\ ptys[i].used /\ (IF master THEN ptys[i].masters ELSE ptys[i].slaves) > 0
        /\ ptys' = [ptys EXCEPT ![i] =
                IF left.masters = 0 /\ left.slaves = 0 THEN NoPty ELSE left]
        /\ UNCHANGED <<twait, tprofile>> /\ ConsoleSame

lxp_pty_setfl(i, master, nb) ==
    /\ ptys[i].used
    /\ ptys' = IF master THEN [ptys EXCEPT ![i].m_nb = nb] ELSE [ptys EXCEPT ![i].s_nb = nb]
    /\ UNCHANGED <<twait, tprofile>> /\ ConsoleSame

\* TCSETS from either end, or on the console.
lxp_tty_ioctl(tio) ==
    \/ /\ \E i \in Ptys : ptys[i].used /\ ptys' = [ptys EXCEPT ![i].tio = tio]
       /\ UNCHANGED <<twait, tprofile>> /\ ConsoleSame
    \/ /\ tprofile = "console" /\ contio' = tio
       /\ UNCHANGED <<ptys, twait, transport, typeahead, conlog, typed, tprofile>>
-----------------------------------------------------------------------------
(***************************************************************************)
(* The console.                                                            *)
(***************************************************************************)
\* External: the user types; the host transport keeps the byte.
Type(c) ==
    /\ tprofile = "console" /\ typed < MaxTyped
    /\ typed' = typed + 1
    /\ transport' = Append(transport, [c |-> c, id |-> typed + 1])
    /\ UNCHANGED <<ptys, twait, typeahead, contio, conlog, tprofile>>

lxp_console_input_ready == typeahead # <<>> \/ transport # <<>>

\* One byte of typeahead first, else what the transport returns, translated
\* when it is a single byte.
lxp_console_read(n) ==
    IF typeahead # <<>>
    THEN [keys |-> <<[Head(typeahead) EXCEPT !.c = Translated(contio, @)]>>,
          ahead |-> Tail(typeahead), left |-> transport]
    ELSE [keys |-> IF n = 1 THEN <<[Head(transport) EXCEPT !.c = Translated(contio, @)]>>
                   ELSE SubSeq(transport, 1, n),
          ahead |-> typeahead, left |-> SubSeq(transport, n + 1, Len(transport))]

\* How many bytes the transport returns for a read of len.
Returned(len) == IF transport = <<>> THEN {1} ELSE {n \in 1..len : n <= Len(transport)}

\* A guest's read, which parks while there is no input.  A byte that is there
\* is data for the reader, whatever it is.
fop_read_console(g, len) ==
    /\ tprofile = "console" /\ twait[g] = NoTtyCall
    /\ IF lxp_console_input_ready
       THEN \E n \in Returned(len) : LET r == lxp_console_read(n) IN
              /\ conlog' = [conlog EXCEPT !.read = @ \o r.keys]
              /\ typeahead' = r.ahead /\ transport' = r.left /\ UNCHANGED twait
       ELSE /\ twait' = [twait EXCEPT ![g] = [op |-> "console", len |-> len]]
            /\ UNCHANGED <<conlog, typeahead, transport>>
    /\ UNCHANGED <<ptys, contio, typed, tprofile>>

\* The retry of a parked read: ^Z keeps it parked, ^C ends it.
lxp_blocked_retry_console(g) ==
    /\ twait[g].op = "console" /\ lxp_console_input_ready
    /\ \E n \in Returned(twait[g].len) :
          LET r == lxp_console_read(n)
              key == r.keys[1]
              sig == Len(r.keys) = 1 /\ SignalFor(contio, key.c)
          IN  /\ conlog' = IF sig THEN [conlog EXCEPT !.signals = @ \union {key.id}]
                           ELSE [conlog EXCEPT !.read = @ \o r.keys]
              /\ typeahead' = r.ahead /\ transport' = r.left
              /\ twait' = IF sig /\ key.c = "susp" THEN twait
                          ELSE [twait EXCEPT ![g] = NoTtyCall]
    /\ UNCHANGED <<ptys, contio, typed, tprofile>>

\* While no guest waits for the console the coordinator reads it for signals.
lxp_console_poll_interrupts ==
    LET key == Head(transport)
    IN  /\ \A g \in TtyGuests : twait[g].op # "console"
        /\ contio.isig /\ Len(typeahead) < TYPEAHEAD /\ transport # <<>>
        /\ transport' = Tail(transport)
        /\ IF SignalFor(contio, key.c)
           THEN conlog' = [conlog EXCEPT !.signals = @ \union {key.id}] /\ UNCHANGED typeahead
           ELSE typeahead' = Append(typeahead, key) /\ UNCHANGED conlog
        /\ UNCHANGED <<ptys, twait, contio, typed, tprofile>>

\* A signal ends a parked call.
TtyInterrupt(g) ==
    /\ twait[g] # NoTtyCall
    /\ twait' = [twait EXCEPT ![g] = NoTtyCall]
    /\ UNCHANGED <<ptys, tprofile>> /\ ConsoleSame

TerminalNext ==
    \/ \E g \in TtyGuests :
          \/ lxp_pty_retry(g) \/ lxp_blocked_retry_console(g) \/ TtyInterrupt(g)
          \/ \E len \in ReadLens : fop_read_console(g, len)
          \/ \E i \in {n \in Ptys : ptys[n].used} :
                \/ \E m \in BOOLEAN, len \in ReadLens :
                      PtyCall(g, [op |-> "read", object |-> i, master |-> m, len |-> len])
                \/ \E w \in PtyWrites :
                      PtyCall(g, [op |-> "write", object |-> i, master |-> w[1],
                                  buf |-> IF w[1] THEN Numbered(ptys[i], w[2]) ELSE w[2]])
    \/ \E nb \in BOOLEAN :
          \/ lxp_pty_open_master(nb)
          \/ \E i \in Ptys, m \in BOOLEAN :
                lxp_pty_open_slave(i, nb) \/ lxp_pty_end_close(i, m) \/ lxp_pty_setfl(i, m, nb)
    \/ \E n \in DOMAIN TermModes : lxp_tty_ioctl(TermModes[n])
    \/ \E c \in Keys : Type(c)
    \/ lxp_console_poll_interrupts

TerminalSpec == TerminalInit /\ [][TerminalNext]_terminalVars
-----------------------------------------------------------------------------
(***************************************************************************)
(* Properties.                                                             *)
(***************************************************************************)
Increasing(s) == \A m, n \in DOMAIN s : m < n => s[m] < s[n]

\* No keystroke is lost, repeated or moved.  On the console each is read by a
\* guest, taken as a signal, in the typeahead or still with the host, in the order
\* of typing, whoever of guests and coordinator reads it, and whenever
\* (lxp_console_input.c lxp_console_read, lxp_console_poll_interrupts).  On a pty
\* each that a write reported as consumed, at once or by a retry, was eaten by the
\* discipline or is in exactly one place: read by the slave, in the ring or in the
\* line being edited; nothing else is.  There they are in the order of typing but
\* for what TCSETS allows: a raw byte goes ahead of those of an unfinished line
\* typed before it (lxp_pty.c pty_input, lxp_pty_retry).
TypedInOrder ==
    /\ LET kept == Ids(conlog.read \o typeahead \o transport)
       IN  Increasing(kept) /\ Range(kept) = (1..typed) \ conlog.signals
    /\ \A i \in {n \in Ptys : ptys[n].used} :
          LET pt == ptys[i]
              kept == pt.out \o pt.m2s \o pt.canon
          IN  /\ pt.eaten \subseteq pt.taken
              /\ Range(Ids(kept)) = pt.taken \ pt.eaten /\ IsInjective(Ids(kept))
              /\ \A m, n \in DOMAIN kept :
                    m < n => kept[m].id < kept[n].id \/ (kept[m].raw /\ ~kept[n].raw)
=============================================================================
