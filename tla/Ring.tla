-------------------------------- MODULE Ring --------------------------------
(***************************************************************************)
(* The byte ring of src/src/fs/lxp_ring.h.  A ring of capacity cap is a    *)
(* record: the storage buf (indexes 0 .. cap-1, whose dead bytes keep      *)
(* their last value), the read and write positions and the count of bytes  *)
(* buffered.  Each copy is two memcpys, up to the end of the storage and   *)
(* from its start.                                                         *)
(***************************************************************************)
EXTENDS Integers, Sequences

Lesser(a, b) == IF a <= b THEN a ELSE b

RingIsOK(r, cap, Byte) ==
    /\ r.buf \in [0 .. cap - 1 -> Byte]
    /\ r.rpos \in 0 .. cap - 1
    /\ r.wpos \in 0 .. cap - 1
    /\ r.count \in 0 .. cap
    /\ r.wpos = (r.rpos + r.count) % cap

\* The bytes buffered, oldest first.
Content(r, cap) == [i \in 1 .. r.count |-> r.buf[(r.rpos + i - 1) % cap]]

\* lxp_ring_read: how many bytes it copies, which, and the ring it leaves.
ReadLen(r, len) == Lesser(len, r.count)

ReadBytes(r, cap, len) ==
    LET n1 == Lesser(cap - r.rpos, ReadLen(r, len))
    IN  [i \in 1 .. ReadLen(r, len) |->
            IF i <= n1 THEN r.buf[r.rpos + i - 1] ELSE r.buf[i - n1 - 1]]

ReadRing(r, cap, len) ==
    [r EXCEPT !.rpos = (r.rpos + ReadLen(r, len)) % cap,
              !.count = r.count - ReadLen(r, len)]

\* lxp_ring_write: how many bytes of src it takes, and the ring it leaves.
WriteLen(r, cap, src) == Lesser(Len(src), cap - r.count)

\* Mutant: the wrapped tail is written from the start of the source again.
WriteRingTailRestarts(r, cap, src) ==
    LET len == WriteLen(r, cap, src)
        n1 == Lesser(cap - r.wpos, len)
    IN  [r EXCEPT !.buf = [j \in 0 .. cap - 1 |->
                               IF j \in r.wpos .. r.wpos + n1 - 1 THEN src[j - r.wpos + 1]
                               ELSE IF j < len - n1 THEN src[j + 1]
                               ELSE r.buf[j]],
                  !.wpos = (r.wpos + len) % cap,
                  !.count = r.count + len]

WriteRing(r, cap, src) ==
    LET len == WriteLen(r, cap, src)
        n1 == Lesser(cap - r.wpos, len)
    IN  [r EXCEPT !.buf = [j \in 0 .. cap - 1 |->
                               IF j \in r.wpos .. r.wpos + n1 - 1 THEN src[j - r.wpos + 1]
                               ELSE IF j < len - n1 THEN src[n1 + j + 1]
                               ELSE r.buf[j]],
                  !.wpos = (r.wpos + len) % cap,
                  !.count = r.count + len]
=============================================================================
