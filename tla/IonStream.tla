----------------------------- MODULE IonStream -----------------------------
(***************************************************************************)
(* ion_stream.c: a stream that reads a source, keeps what is written, or   *)
(* sends it on, through pages of _page_size bytes.  Byte p of a source is  *)
(* the number p, so that every byte in a buffer says where it came from.   *)
(* The stream is one record: C functions that change it are operators from *)
(* a stream to [s, err], the stream afterwards and how the call ended.     *)
(*                                                                         *)
(* Pages are frames: Frame f holds _page_id, _page_start, _page_limit and  *)
(* the buffer, which keeps its old bytes when the frame is recycled.  A    *)
(* frame nothing points to is memory the stream will not find again; a new *)
(* allocation is such a frame, with arbitrary bytes (Garbage).             *)
(***************************************************************************)
EXTENDS Integers, Sequences, FiniteSets

CONSTANTS
  Kinds,       \* the kinds of stream explored, see Flags
  Size,        \* _page_size, _buffer_size
  Frames,      \* the page frames, 1..n: enough for every page in use at once
  Lens,        \* the source lengths explored
  MaxWritten,  \* how far is written
  Capacity,    \* the length of a user buffer
  Values,      \* what is written at p is one of p + Values
  Rooms,       \* how much an output handler takes at a time
  TempLen,     \* TEMP_BUFFER_LEN
  Sizes,       \* the lengths read and skipped by
  MaxUnread,   \* how many bytes a caller puts back in a row
  Careless,    \* the calls explored that the stream does not support, below
  HashFits     \* is int_fast32_t as wide as PAGE_ID?

Longest == CHOOSE m \in Lens : \A k \in Lens : k <= m

ASSUME StreamAssumption ==
  /\ Kinds \subseteq {"file", "tty", "user", "fd", "memory", "buffer",
                      "stdout", "handler", "file out"}
  /\ Capacity \in Nat /\ MaxWritten \in 0..Longest /\ Values \subseteq Nat
  /\ Rooms \subseteq Nat \ {0} /\ TempLen \in Nat \ {0}
  /\ Size \in Nat \ {0} /\ MaxUnread \in 0..Size
  /\ HashFits \in BOOLEAN
  /\ Lens \subseteq Nat /\ Sizes \subseteq Nat

VARIABLES
  kind,        \* the kind of stream
  cells,       \* the source, or what was written: cells[p + 1] is byte p
  breaks,      \* "user": where the handler's chunks end
  s,           \* the stream
  back,        \* what the caller may unread, the last byte read at the end
  res          \* what the last call returned

vars == <<kind, cells, breaks, s, back, res>>

None == 0      \* the null page
EOF == -1
Garbage == -2
NoMark == -1

len == Len(cells)

IdOf(p) == p \div Size
PageIds == 0..IdOf(Size + Longest)

Ok(t)      == [s |-> t, err |-> "ok"]
Fails(t, e) == [s |-> t, err |-> e]

LeastOf(a, b) == IF a < b THEN a ELSE b

-----------------------------------------------------------------------------
(* The flags of each ion_stream_open_*.  A file descriptor is not "backed". *)
Flags ==
  CASE kind = "file"     -> {"backed", "read", "random"}
    [] kind = "tty"      -> {"backed", "read", "tty"}
    [] kind = "user"     -> {"backed", "read", "user"}
    [] kind = "fd"       -> {"fd", "read", "random"}
    [] kind = "memory"   -> {"all", "read", "write", "random"}
    [] kind = "buffer"   -> {"all", "read", "write", "random", "user buffer"}
    [] kind = "stdout"   -> {"backed", "write", "tty"}
    [] kind = "handler"  -> {"backed", "write", "user"}
    [] kind = "file out" -> {"backed", "write", "random"}

Random        == "random" \in Flags
CanRead       == "read" \in Flags
CanWrite      == "write" \in Flags
FileBacked    == "backed" \in Flags
FullyBuffered == "all" \in Flags
Paged         == "user buffer" \notin Flags

(* Positions. *)

Pos(t)    == t.off + t.ci
MarkOpen(t) == t.mark >= 0
Caching(t)  == MarkOpen(t) \/ FullyBuffered

(* _ion_stream_can_seek_to. *)
CanSeekTo(t, p) == Random \/ p >= t.off \/ (MarkOpen(t) /\ p >= t.mark)

OnCurrentPage(t, p) == p >= t.off /\ p < t.off + t.lim

PageEnd(t, f) == t.pg[f].id * Size + t.pg[f].start + t.pg[f].limit

-----------------------------------------------------------------------------
(* Pages: the free list is a stack, the index maps page ids to frames.     *)

(* The index holds a pointer to a page's own _page_id as its key.          *)
(* _ion_stream_page_hash_page_id reads an int_fast32_t from a PAGE_ID:     *)
(* where that is 8 bytes the lookup of a local page_id hashes what lies    *)
(* next to it on the stack, and may miss: t.blind says which lookups of    *)
(* this call do.  A registered page's own id is followed by _page_start,   *)
(* which is 0, so _ion_stream_page_register does not miss.                 *)
Indexed(t, id) == IF t.index[id] # None /\ t.pg[t.index[id]].id = id
                    THEN t.index[id] ELSE None

Find(t, id) == IF id \in PageIds \ t.blind THEN Indexed(t, id) ELSE None

Misses == IF HashFits THEN {{}} ELSE {{}, PageIds}

InUse(t) == {t.cur, t.last, t.held} \cup { t.index[i] : i \in PageIds }
              \cup { t.freed[i] : i \in 1..Len(t.freed) }

FreshFrame(t) == CHOOSE f \in Frames : f \notin InUse(t)
                   /\ \A g \in Frames : g < f => g \in InUse(t)

NewPage(t, f, id, buf) ==
  [t EXCEPT !.pg[f] = [id |-> id, start |-> 0, limit |-> 0, buf |-> buf]]

(* _ion_stream_page_allocate: the frame is left in held.                    *)
HeldPage(t, f, id, buf) == [NewPage(t, f, id, buf) EXCEPT !.held = f]

Allocate(t, id) ==
  IF t.freed # <<>>
    THEN [HeldPage(t, Head(t.freed), id, t.pg[Head(t.freed)].buf) EXCEPT !.freed = Tail(@)]
    ELSE HeldPage(t, FreshFrame(t), id, [i \in 0..(Size - 1) |-> Garbage])

(* Mutant of PutBack: the free pages are a queue. *)
PutBackLast(t, f) == [t EXCEPT !.freed = Append(@, f)]

PutBack(t, f) == [t EXCEPT !.freed = <<f>> \o @]

(* What _last_page becomes when frame f is released. *)
LastWithout(t, f) ==
  IF t.last # f THEN t.last
  ELSE IF t.pg[f].id > 0 THEN Find(t, t.pg[f].id - 1) ELSE None

Unindexed(t, f) ==
  IF Find(t, t.pg[f].id) = f THEN [t EXCEPT !.index[t.pg[f].id] = None] ELSE t

(* _ion_stream_page_release, for a page that is not null. *)
Forgotten(u, f) ==
  [u EXCEPT !.last = LastWithout(u, f), !.pg[f].id = -1,
            !.pg[f].start = 0, !.pg[f].limit = 0]

Release(t, f) == PutBack(Forgotten(Unindexed(t, f), f), f)

(* _ion_stream_page_register. *)
Register(t, f) ==
  LET id == t.pg[f].id
  IN  IF Indexed(t, id) = f THEN Ok(t)
      ELSE IF Indexed(t, id) # None THEN Fails(t, "internal")
      ELSE Ok([t EXCEPT !.index[id] = f,
                        !.last = IF @ = None \/ id > t.pg[@].id THEN f ELSE @])

(* Does _ion_stream_page_make_current keep the current page for f? *)
Keeps(t, f) == Caching(t) \/ t.pg[t.cur].id >= t.pg[f].id

(* _ion_stream_flush_helper: what is written since the last flush goes to  *)
(* the handler in pieces of the room it gives, or to the file, where a     *)
(* stream that can seek first goes to the position: the end of those bytes.*)
(* What is backed by no file just forgets that there is something to send. *)
Dirty(t, n) == [i \in 1..n |-> t.pg[t.cur].buf[t.from + i - 1]]

Sent(t, n) == [t EXCEPT !.dirty = @ - n, !.from = @ + n]

RECURSIVE SendPieces(_)
SendPieces(t) ==
  IF t.dirty = 0 THEN t
  ELSE LET n == LeastOf(t.room, t.dirty)
       IN  SendPieces([Sent(t, n) EXCEPT !.sink = @ \o Dirty(t, n), !.room = t.gives])

(* What a file holds after bytes are written at p, which may leave a hole.  *)
Patched(file, p, bytes) ==
  [i \in 1..(p + Len(bytes)) |-> IF i > p THEN bytes[i - p]
                                 ELSE IF i <= Len(file) THEN file[i] ELSE Garbage]

Flushed(t) ==
  IF ~FileBacked              THEN [t EXCEPT !.dirty = 0]
  ELSE IF "user" \in Flags    THEN SendPieces(t)
  ELSE IF t.dirty = 0         THEN t
  ELSE [Sent(t, t.dirty) EXCEPT
          !.sink = Patched(@, IF Random THEN Pos(t) ELSE Len(@), Dirty(t, t.dirty))]

(* _ion_stream_page_make_current. *)
LeaveFor(t, f) ==
  IF t.cur = None THEN t
  ELSE IF Keeps(t, f)
    THEN [t EXCEPT !.pg[t.cur].start = 0, !.pg[t.cur].limit = t.lim]
    ELSE Release(t, t.cur)

(* Mutant of Enter: any page entered becomes the last one, backwards too. *)
EnterAsLast(u, f) ==
  [u EXCEPT !.cur = f, !.held = None, !.off = u.pg[f].id * Size,
            !.lim = u.pg[f].start + u.pg[f].limit, !.ci = u.pg[f].start, !.last = f]

Enter(u, f) ==
  [u EXCEPT !.cur = f, !.held = None, !.off = u.pg[f].id * Size,
            !.lim = u.pg[f].start + u.pg[f].limit, !.ci = u.pg[f].start,
            !.last = IF @ = None \/ u.pg[@].id < u.pg[f].id THEN f ELSE @]

MakeCurrent(t, f) == Enter(LeaveFor(Flushed(t), f), f)

-----------------------------------------------------------------------------
(* The source.                                                             *)

(* _ion_stream_console_read, as often as it takes: a tty reads lines until *)
(* it has n bytes or the input ends.                                       *)
FromConsole(p, n) == IF p >= len THEN EOF ELSE LeastOf(n, len - p)

(* What _ion_stream_fread returns when n bytes are asked for at source     *)
(* position p: a handler gives what is left of its chunk, a file gives     *)
(* what it has.                                                            *)
Available(p, n) ==
  IF kind = "tty" THEN FromConsole(p, n)
  ELSE IF p >= len THEN 0
  ELSE IF kind = "user"
    THEN LeastOf(n, (CHOOSE b \in breaks : b > p /\ \A c \in breaks : c > p => b <= c) - p)
  ELSE LeastOf(n, len - p)

(* Bytes p.. of the source copied to frame f's buffer at index i.           *)
Copied(t, f, i, n, p) ==
  [t EXCEPT !.pg[f].buf = [j \in 0..(Size - 1) |->
                             IF j >= i /\ j < i + n THEN p + (j - i) ELSE @[j]]]

(* The loop of _ion_stream_read_for_seek.  f is its page, None when it has *)
(* none; Scratch is the page on its stack, whose bytes are thrown away.    *)
(* A handler at its end returns no bytes and the loop never ends ("hang"). *)
Scratch == -1

PageKept(u, held) == [s |-> [u EXCEPT !.held = held], f |-> u.held]

PageToRead(t, f, id) ==
  IF f > 0 /\ t.pg[f].id = id  THEN [s |-> t, f |-> f]
  ELSE IF ~Caching(t)          THEN [s |-> t, f |-> Scratch]
  ELSE IF Find(t, id) # None   THEN [s |-> t, f |-> Find(t, id)]
  ELSE PageKept(Allocate(t, id), t.held)

Filling(t, f) == IF f = Scratch THEN 0 ELSE t.pg[f].start + t.pg[f].limit
Wanted(f, at, left) == IF f = Scratch THEN left ELSE LeastOf(Size - at, left)

RECURSIVE ReadUntil(_, _, _, _, _), ReadInto(_, _, _, _)
ReadUntil(t, f, id, p, target) ==
  IF p > target      THEN Fails(t, "seek")
  ELSE IF p = target THEN Ok(t)
  ELSE ReadInto(PageToRead(t, f, id), id, p, target)

ReadInto(r, id, p, target) ==
  LET at  == Filling(r.s, r.f)
      n   == Wanted(r.f, at, target - p)
      got == Available(r.s.dev, n)
      v   == IF r.f = Scratch THEN r.s ELSE Copied(r.s, r.f, at, got, r.s.dev)
  IN  IF n = 0          THEN ReadUntil(r.s, r.f, id + 1, p, target)
      ELSE IF got = EOF THEN Fails(r.s, "eof")
      ELSE IF got = 0   THEN Fails(r.s, "hang")
      ELSE ReadUntil([v EXCEPT !.dev = @ + got], r.f,
                     IF got = n THEN id + 1 ELSE id, p + got, target)

(* _ion_stream_read_for_seek: start from the end of the furthest page.     *)
ReadFromLast(u, target) ==
  ReadUntil(u, u.last, u.pg[u.last].id, PageEnd(u, u.last), target)

ReadForSeek(t, target) ==
  IF t.last = None THEN ReadUntil(t, None, 0, 0, target)
  ELSE ReadFromLast(IF t.last = t.cur
                      THEN [t EXCEPT !.pg[t.cur].start = 0, !.pg[t.cur].limit = t.lim]
                      ELSE t, target)

(* _ion_stream_fetch_fill_page: fill frame f from its index e to its end,  *)
(* as far as one _ion_stream_fread goes.  A file is positioned by fseek.   *)
(* Where there is no file to read, the page is as it is.                   *)
FillFrom(r, f, e) ==
  LET got == Available(r.s.dev, Size - e)
  IN  IF r.err # "ok"   THEN r
      ELSE IF got = EOF THEN Fails(r.s, "eof")
      ELSE Ok([Copied(r.s, f, e, got, r.s.dev) EXCEPT !.dev = @ + got,
                                                      !.pg[f].limit = @ + got])

(* _ion_stream_fseek. *)
SeekSource(t, p) == IF Random THEN Ok([t EXCEPT !.dev = p]) ELSE ReadForSeek(t, p)

FillPage(t, f) ==
  IF FileBacked /\ CanRead
    THEN FillFrom(SeekSource(t, PageEnd(t, f)), f, t.pg[f].start + t.pg[f].limit)
    ELSE Ok(t)

(* _ion_stream_fetch_position: g is the page of the target, and whether it *)
(* is current, cached or new; r is the stream once it is filled.           *)
LocatedNew(u) == [s |-> u, f |-> u.held, is |-> "new"]
Located(t, id) ==
  IF t.cur # None /\ t.pg[t.cur].id = id THEN [s |-> t, f |-> t.cur, is |-> "current"]
  ELSE IF Find(t, id) # None THEN [s |-> t, f |-> Find(t, id), is |-> "cached"]
  ELSE LocatedNew(Allocate(t, id))

At(t, target) == Ok([t EXCEPT !.ci = target - t.off])
Entered(r, f, target) == IF r.err # "ok" THEN r ELSE At(MakeCurrent(r.s, f), target)

Settled(r, g, target) ==
  IF r.err # "ok"
    THEN IF r.s.pg[g.f].limit < 1 /\ g.f # r.s.cur
           THEN Fails([Release(r.s, g.f) EXCEPT !.held = None], r.err)
           ELSE r
  ELSE IF g.is = "current" THEN At([r.s EXCEPT !.lim = r.s.pg[g.f].limit], target)
  ELSE Entered(IF g.is = "new" THEN Register(r.s, g.f) ELSE r, g.f, target)

Fetched(g, target) ==
  IF PageEnd(g.s, g.f) <= target   THEN Settled(FillPage(g.s, g.f), g, target)
  ELSE IF g.s.pg[g.f].start # 0    THEN Fails(g.s, "fake page")
  ELSE IF g.is = "current"         THEN At(g.s, target)
  ELSE Settled(Ok(g.s), g, target)

(* A user buffer is all there is: its position stays where it is.          *)
FetchInBuffer(t, target) == IF target >= t.lim THEN Fails(t, "eof") ELSE Ok(t)

Fetch(t, target) ==
  IF Paged THEN Fetched(Located(t, IdOf(target)), target) ELSE FetchInBuffer(t, target)

-----------------------------------------------------------------------------
(* The public calls, as operators from a stream to what Ok and Fails give, *)
(* with what the call returns in out.                                      *)

Returns(t, out)      == [s |-> t, err |-> "ok", out |-> out]
Ends(r, out)         == [s |-> r.s, err |-> r.err, out |-> out]

(* The stream with a byte to read, if there is one. *)
Ready(t) == IF t.ci >= t.lim THEN Fetch(t, Pos(t)) ELSE Ok(t)

(* ion_stream_read_byte, and ION_GET. *)
TakeByte(r) ==
  IF r.err \notin {"ok", "eof"} THEN Ends(r, <<>>)
  ELSE IF r.s.ci < r.s.lim
    THEN Returns([r.s EXCEPT !.ci = @ + 1], <<"byte", r.s.pg[r.s.cur].buf[r.s.ci]>>)
    ELSE Returns(r.s, <<"byte", EOF>>)

GetByte(t) == TakeByte(Ready(t))

(* ion_stream_read: bytes holds what it has copied so far. *)
RECURSIVE GetBytes(_, _, _), TakeBytes(_, _, _)
GetBytes(t, n, bytes) ==
  IF n = 0 THEN Returns(t, <<"bytes", bytes>>) ELSE TakeBytes(Ready(t), n, bytes)

TakeBytes(r, n, bytes) ==
  LET take == LeastOf(r.s.lim - r.s.ci, n)
  IN  IF r.err \notin {"ok", "eof"} THEN Ends(r, <<>>)
      ELSE IF take < 1 THEN Ends(r, <<"bytes", bytes>>)
      ELSE GetBytes([r.s EXCEPT !.ci = @ + take], n - take,
                    bytes \o [i \in 1..take |-> r.s.pg[r.s.cur].buf[r.s.ci + i - 1]])

(* ion_stream_unread_byte at the start of a page: the page before, found,  *)
(* sought, or made up: a fake page, empty, that starts at its own end.     *)
OnPage(r, f) == [s |-> r.s, err |-> r.err, f |-> f]
Sought(r) == OnPage(r, r.s.cur)
MadeUp(u) == OnPage(Ok([u EXCEPT !.pg[u.held].start = Size]), u.held)

Previous(t, p) ==
  IF Find(t, IdOf(p)) # None THEN OnPage(Ok(t), Find(t, IdOf(p)))
  ELSE IF CanSeekTo(t, p)    THEN Sought(Fetch(t, p))
  ELSE MadeUp(Allocate(t, IdOf(p)))

EnterAtEnd(u, p) == Ok([u EXCEPT !.ci = p + 1 - u.off])
EnterBefore(r, p) ==
  IF r.err # "ok" THEN Fails(r.s, r.err) ELSE EnterAtEnd(MakeCurrent(r.s, r.f), p)

BackUp(t) == EnterBefore(Previous(t, Pos(t) - 1), Pos(t) - 1)

FillBackwards(t, i, c) ==
  [t EXCEPT !.pg[t.cur].buf[i] = c, !.pg[t.cur].start = @ - 1, !.pg[t.cur].limit = @ + 1]

(* ion_stream_unread_byte: only the byte that switches to a fake page is   *)
(* written there, later ones must be in its recycled buffer already.       *)
PutInto(t, c) ==
  IF t.pg[t.cur].buf[t.ci] # c THEN Ends(Fails(t, "unread"), <<>>) ELSE Returns(t, <<"ok">>)

PutBefore(r, switched, c) ==
  IF r.err # "ok"  THEN Ends(r, <<>>)
  ELSE IF c = EOF  THEN Returns(r.s, <<"ok">>)
  ELSE PutInto(LET w == [r.s EXCEPT !.ci = @ - 1]
               IN  IF switched /\ w.pg[w.cur].start > 0 THEN FillBackwards(w, w.ci, c) ELSE w,
               c)

PutByte(t, c) ==
  IF t.ci <= 0 /\ t.off = 0
    THEN IF c = EOF THEN Returns(t, <<"ok">>) ELSE Ends(Fails(t, "unread"), <<>>)
  ELSE PutBefore(IF t.ci <= 0 THEN BackUp(t) ELSE Ok(t), t.ci <= 0, c)

(* ion_stream_skip. *)
Skipped(r, from) == Ends(r, IF r.err = "ok" THEN <<"skipped", Pos(r.s) - from>> ELSE <<>>)
SkipBytes(t, n) == Skipped(Fetch(t, Pos(t) + n), Pos(t))

(* ion_stream_seek, and ion_stream_mark_rewind but for its first test. *)
Gone(r) == Ends(r, IF r.err = "ok" THEN <<"ok">> ELSE <<>>)
GoTo(t, p) ==
  IF OnCurrentPage(t, p) THEN Returns([t EXCEPT !.ci = p - t.off], <<"ok">>)
  ELSE IF ~Paged THEN Gone(IF p = Pos(t) THEN Ok(t) ELSE Fails(t, "seek"))
  ELSE Gone(Fetch(t, p))

(* _ion_stream_mark_clear_helper: release the pages from the mark's to the *)
(* one before p's.  The page released may be null, which fails an ASSERT.  *)
RECURSIVE ReleaseFrom(_, _, _)
ReleaseFrom(t, id, end) ==
  IF id >= end THEN Ok(t)
  ELSE IF Find(t, id) = None THEN Fails(t, "null page")
  ELSE ReleaseFrom(Release(t, Find(t, id)), id + 1, end)

ReleaseMarked(t, p) ==
  IF p > Size /\ ~FullyBuffered THEN ReleaseFrom(t, IdOf(t.mark), IdOf(p - 1)) ELSE Ok(t)

(* ion_stream_mark_clear and ion_stream_mark_remark at the position: the   *)
(* mark becomes mark.                                                      *)
ForgetMark(t, mark) ==
  LET r == ReleaseMarked(t, Pos(t))
  IN  IF r.err # "ok" THEN Ends(r, <<>>) ELSE Returns([r.s EXCEPT !.mark = mark], <<"ok">>)

(* ion_stream_write_byte_no_checks and one round of ion_stream_write: bytes *)
(* are put at _curr as far as the page goes, and remembered as dirty; how  *)
(* many matters only to what has a file.                                   *)
PageRoom(t) == (IF Paged THEN Size ELSE Capacity) - t.ci

Overwritten(buf, i, bytes) ==
  [j \in DOMAIN buf |-> IF j >= i /\ j < i + Len(bytes) THEN bytes[j - i + 1] ELSE buf[j]]

GreatestOf(a, b) == IF a < b THEN b ELSE a

PutOnPage(t, bytes) ==
  [t EXCEPT !.pg[t.cur].buf = Overwritten(@, t.ci, bytes),
            !.from  = IF FileBacked /\ t.dirty = 0 THEN t.ci ELSE @,
            !.dirty = IF FileBacked THEN @ + Len(bytes) ELSE 1,
            !.ci    = @ + Len(bytes),
            !.lim   = GreatestOf(@, t.ci + Len(bytes))]

NextPage(t) == IF PageRoom(t) < 1 THEN Fetch(t, Pos(t)) ELSE Ok(t)

(* ion_stream_write. *)
RECURSIVE PutBytes(_, _), PutSome(_, _)
PutBytes(t, bytes) == IF bytes = <<>> THEN Ok(t) ELSE PutSome(NextPage(t), bytes)

PutSome(r, bytes) ==
  LET n == LeastOf(PageRoom(r.s), Len(bytes))
  IN  IF r.err # "ok" THEN r
      ELSE PutBytes(PutOnPage(r.s, SubSeq(bytes, 1, n)), SubSeq(bytes, n + 1, Len(bytes)))

Done(r, n) == Ends(r, IF r.err = "ok" THEN <<"wrote", n>> ELSE <<>>)
WriteBytes(t, bytes) == Done(PutBytes(t, bytes), Len(bytes))

(* ion_stream_write_byte: makes room behind the byte it is about to write.  *)
WriteChecked(t, byte) ==
  LET r == IF PageRoom(t) < 1 THEN Fetch(t, Pos(t) + 1) ELSE Ok(t)
  IN  Done(IF r.err = "ok" THEN Ok(PutOnPage(r.s, <<byte>>)) ELSE r, 1)

(* ion_stream_write_stream: bytes is what the input has; n of it are copied *)
(* in pieces of TempLen, and a piece the input lacks is an error.           *)
RECURSIVE Transfer(_, _, _, _)
Transfer(r, n, done, bytes) ==
  LET k == LeastOf(n - done, TempLen)
  IN  IF r.err # "ok" \/ done = n  THEN Done(r, n)
      ELSE IF done + k > Len(bytes) THEN Done(Fails(r.s, "read"), n)
      ELSE Transfer(PutBytes(r.s, SubSeq(bytes, done + 1, done + k)), n, done + k, bytes)

(* ion_stream_truncate: the pages behind the current one go.                *)
RECURSIVE ReleaseBehind(_, _, _)
ReleaseBehind(t, id, end) ==
  IF id > end THEN t
  ELSE ReleaseBehind(IF Find(t, id) = None THEN t ELSE Release(t, Find(t, id)), id + 1, end)

Cut(t) ==
  IF Paged
    THEN [ReleaseBehind(t, t.pg[t.cur].id + 1, t.pg[t.last].id) EXCEPT !.last = t.cur,
                                                                       !.lim = t.ci]
    ELSE [t EXCEPT !.lim = t.ci]

-----------------------------------------------------------------------------
(* The stream machine.  Every action is one call; r is what the call does. *)
(* ion_stream_read at the end of a tty returns IERR_EOF and its count.     *)

Does(r) ==
  /\ \E m \in Misses : s' = [r.s EXCEPT !.blind = m]
  /\ res' = IF r.out # <<>> THEN r.out ELSE <<r.err>>

(* The calls follow a successful call: a caller stops at an error.         *)
Running == res[1] \in {"open", "byte", "bytes", "skipped", "ok", "wrote"}

Call    == Running /\ UNCHANGED <<kind, breaks>>
Reading == Call /\ CanRead /\ UNCHANGED cells
Writing == Call /\ CanWrite

(* The bytes a caller may put back: it read them last and in this order.   *)
Recent(b) == IF Len(b) <= MaxUnread THEN b ELSE Tail(b)

(* What the stream does not support, and the library's own readers mostly  *)
(* avoid, is explored only when Careless names it:                         *)
(* "fake": skips and marks on a page that unread made up;                  *)
(* "gap":  skips that leave out bytes the mark should keep;                *)
(* "end":  skips that aim at the end of stdin, or past the end;            *)
(* "chunk": skips of a handler's stream, whatever its chunks;              *)
(* "stale": fetches at the written end of a memory stream's current page,  *)
(*    whose page still says how much it held when it was entered;          *)
(* "still": skips of a user buffer, which do not move the position;        *)
(* "checked": ion_stream_write_byte where the page is full.                *)
OnFakePage(t) == t.cur # None /\ t.pg[t.cur].start > 0

Gap(t, n) == MarkOpen(t) /\ (~Random \/ IdOf(Pos(t) + n) > IdOf(t.off) + 1)

AtEnd(t, n) == Pos(t) + n > len \/ (Pos(t) + n = len /\ kind = "tty")

StaleAt(t, p) ==
  /\ FullyBuffered /\ Paged
  /\ IdOf(p) = t.pg[t.cur].id /\ PageEnd(t, t.cur) <= p
  /\ t.pg[t.cur].limit < t.lim

ReadByte ==
  /\ Reading
  /\ s.ci >= s.lim /\ StaleAt(s, Pos(s)) => "stale" \in Careless
  /\ Does(GetByte(s))
  /\ back' = IF res'[1] = "byte" THEN Recent(Append(back, res'[2])) ELSE <<>>

Read(n) ==
  /\ Reading
  /\ s.ci + n > s.lim /\ StaleAt(s, s.off + s.lim) => "stale" \in Careless
  /\ Does(GetBytes(s, n, <<>>))
  /\ back' = <<>>

Unread ==
  /\ Reading
  /\ back # <<>>
  /\ Does(PutByte(s, back[Len(back)]))
  /\ back' = SubSeq(back, 1, Len(back) - 1)

Skip(n) ==
  /\ Reading
  /\ OnFakePage(s)          => "fake" \in Careless
  /\ Gap(s, n)              => "gap" \in Careless
  /\ AtEnd(s, n)            => "end" \in Careless
  /\ kind = "user"          => "chunk" \in Careless
  /\ StaleAt(s, Pos(s) + n) => "stale" \in Careless
  /\ ~Paged                 => "still" \in Careless
  /\ Does(SkipBytes(s, n))
  /\ back' = <<>>

(* Only FILE* streams seek at will, and ion_reader_seek does with no mark.  *)
Seek(p) ==
  /\ Reading
  /\ Random /\ ~MarkOpen(s)
  /\ ~OnCurrentPage(s, p) /\ StaleAt(s, p) => "stale" \in Careless
  /\ ~Paged => p < len
  /\ Does(GoTo(s, p))
  /\ back' = <<>>

(* A caller that marks puts back nothing from before the mark.             *)
Mark ==
  /\ Reading
  /\ OnFakePage(s) => "fake" \in Careless
  /\ Does(Returns(IF MarkOpen(s) THEN s ELSE [s EXCEPT !.mark = Pos(s)], <<"ok">>))
  /\ back' = <<>>

Remark ==
  /\ Reading
  /\ MarkOpen(s)
  /\ Does(IF s.mark < Pos(s) THEN ForgetMark(s, Pos(s))
          ELSE Returns([s EXCEPT !.mark = Pos(s)], <<"ok">>))
  /\ back' = <<>>

Rewind ==
  /\ Reading
  /\ MarkOpen(s)
  /\ ~OnCurrentPage(s, s.mark) /\ StaleAt(s, s.mark) => "stale" \in Careless
  /\ Does(GoTo(s, s.mark))
  /\ back' = <<>>

MarkClear ==
  /\ Reading
  /\ MarkOpen(s)
  /\ Does(ForgetMark(s, NoMark))
  /\ back' = <<>>

(* What the caller wrote replaces what was at the position, or is behind it. *)
Wrote(bytes) ==
  [i \in 1..GreatestOf(len, Pos(s) + Len(bytes)) |->
     IF i > Pos(s) /\ i <= Pos(s) + Len(bytes) THEN bytes[i - Pos(s)] ELSE cells[i]]

Bytes(n, v) == [i \in 1..n |-> Pos(s) + i - 1 + v]
Held(n)     == IF Paged THEN n ELSE LeastOf(n, Capacity - Pos(s))
Fits(n)     == Pos(s) + n <= MaxWritten

Write(n, v) ==
  /\ Writing /\ Fits(n)
  /\ Does(WriteBytes(s, Bytes(n, v)))
  /\ cells' = Wrote(Bytes(Held(n), v))
  /\ back' = <<>>

WriteByte(v) ==
  /\ Writing /\ Fits(1)
  /\ PageRoom(s) < 1 => "checked" \in Careless
  /\ Does(WriteChecked(s, Bytes(1, v)[1]))
  /\ cells' = Wrote(Bytes(Held(1), v))
  /\ back' = <<>>

(* The input is any stream with k bytes left, which gives them in order.    *)
WriteStream(n, k, v) ==
  /\ Writing /\ Fits(n) /\ Paged
  /\ Does(Transfer(Ok(s), n, 0, Bytes(k, v)))
  /\ cells' = Wrote(Bytes(IF k < n THEN k - (k % TempLen) ELSE n, v))
  /\ back' = <<>>

Flush ==
  /\ Writing
  /\ Does(Returns(Flushed(s), <<"ok">>))
  /\ UNCHANGED cells
  /\ back' = <<>>

Truncate ==
  /\ Writing
  /\ Does(Returns(Cut(s), <<"ok">>))
  /\ cells' = SubSeq(cells, 1, Pos(s))
  /\ back' = <<>>

(* _ion_stream_open_helper. *)
Empty ==
  [cur |-> None, last |-> None, held |-> None, freed |-> <<>>,
   index |-> [i \in PageIds |-> None],
   pg |-> [f \in Frames |-> [id |-> -1, start |-> 0, limit |-> 0,
                             buf |-> [i \in 0..(Size - 1) |-> Garbage]]],
   off |-> 0, ci |-> 0, lim |-> 0, mark |-> NoMark, dev |-> 0, blind |-> {},
   dirty |-> 0, from |-> 0, sink |-> <<>>, room |-> 0, gives |-> 0]

(* ion_stream_close: an output sends what it has, and nothing is left. *)
Closed(sink) == [Empty EXCEPT !.sink = sink]

Close ==
  /\ Call
  /\ s' = Closed(IF CanWrite THEN Flushed(s).sink ELSE <<>>)
  /\ res' = <<"closed">>
  /\ UNCHANGED cells
  /\ back' = <<>>

(* ion_stream_open_buffer: the buffer is taken for the only page. *)
OpenBuffer ==
  [Empty EXCEPT !.cur = 1, !.lim = len,
                !.pg[1].buf = [i \in 0..(Capacity - 1) |-> IF i < len THEN cells[i + 1]
                                                                    ELSE Garbage]]

(* ion_stream_open_memory_only: an empty page. *)
OpenMemory == LET t == Allocate(Empty, 0) IN MakeCurrent(Register(t, t.held).s, t.held)

(* The other ion_stream_open_*: fetch_position(0) on an empty stream.  stdin *)
(* ignores an end of file here.                                              *)
OpenPaged(gives) == Fetch([Empty EXCEPT !.gives = gives], 0).s

Source(n) == [i \in 1..n |-> i - 1]

Init ==
  /\ kind \in Kinds
  /\ cells \in IF ~CanRead \/ kind = "memory" THEN {<<>>}
               ELSE { Source(n) : n \in { m \in Lens : ~Paged => m <= Capacity } }
  /\ breaks \in IF kind = "user"
                  THEN { b \in SUBSET (1..len) : len > 0 => len \in b }
                  ELSE {{}}
  /\ \E gives \in IF kind = "handler" THEN Rooms ELSE {0} :
       s = IF kind = "buffer" THEN OpenBuffer
           ELSE IF kind = "memory" THEN OpenMemory
           ELSE OpenPaged(gives)
  /\ back = <<>>
  /\ res = <<"open">>

Next ==
  \/ ReadByte \/ Unread \/ Mark \/ Remark \/ Rewind \/ MarkClear
  \/ \E n \in Sizes : Read(n) \/ Skip(n)
  \/ \E p \in 0..len : Seek(p)
  \/ Flush \/ Truncate \/ Close
  \/ \E v \in Values : \/ WriteByte(v)
                        \/ \E n \in Sizes : \/ Write(n, v)
                                             \/ \E k \in (n - 1)..n : WriteStream(n, k, v)

Spec == Init /\ [][Next]_vars
-----------------------------------------------------------------------------
(* Properties. *)

(* The stream is the tape: whatever pages were kept, dropped, recycled or   *)
(* made up on the way, each call returns the bytes of the source at the     *)
(* position, or puts them there, moves the position as far as it says, and  *)
(* does not fail; what an output was sent are the bytes written, in order,  *)
(* and all of them after a flush.                                           *)
Tape == INSTANCE IonTape
  WITH pos <- Pos(s), mark <- s.mark, sent <- s.sink, sends <- FileBacked /\ CanWrite,
       room <- IF Paged THEN Longest ELSE Capacity
ImplementsTape == Tape!Spec

(* A page the index can find has the id it is found under, its filled part  *)
(* lies within the page, and what is filled is the source at that page: a   *)
(* cached page is never stale.  What is written is on some page, but what a *)
(* sink was sent.                                                           *)
Filled(f) == IF f = s.cur THEN s.pg[f].start..(s.lim - 1)
             ELSE s.pg[f].start..(s.pg[f].start + s.pg[f].limit - 1)
PagesHoldSource ==
  /\ \A i \in PageIds : LET f == s.index[i] IN
       f # None => /\ s.pg[f].id = i
                   /\ s.pg[f].start + s.pg[f].limit <= Size
                   /\ \A j \in Filled(f) : i * Size + j < len
                                        => s.pg[f].buf[j] = cells[i * Size + j + 1]
  /\ kind = "memory" /\ Running => \A p \in 0..(len - 1) :
       s.index[IdOf(p)] # None /\ p % Size \in Filled(s.index[IdOf(p)])

(* A frame on the free list is there once, and neither the index, the       *)
(* current page nor the furthest page still refers to it.                   *)
FreePagesUnused ==
  /\ \A i, j \in 1..Len(s.freed) : s.freed[i] = s.freed[j] => i = j
  /\ \A i \in 1..Len(s.freed) :
       s.freed[i] \notin {s.cur, s.last} \cup { s.index[k] : k \in PageIds }

(* _ion_stream_read_for_seek takes the end of _last_page for the place the  *)
(* source was last read at ("the last page is always where we last read");  *)
(* after any successful call that is so.                                    *)
EndOfLast == IF s.last = None THEN 0
             ELSE IF s.last = s.cur THEN s.off + s.lim
             ELSE PageEnd(s, s.last)
FurthestPageIsLast == CanRead /\ ~Random /\ Running => s.dev = EndOfLast

(* The pages, the index, the free list and the furthest page at once: no    *)
(* byte that is cached is stale, no frame is used twice, and the source is  *)
(* read on where it was left.                                               *)
PagesSound == PagesHoldSource /\ FreePagesUnused /\ FurthestPageIsLast

(* ion_stream.c on skipping in a user buffer: "compute new position; seek to *)
(* new position".  A skip to a place inside the buffer that says it is done  *)
(* arrives there.                                                            *)
SkipArrives ==
  [][\A n \in Sizes : ~Paged /\ Pos(s) + n < len /\ Skip(n) => Pos(s') = Pos(s) + n]_vars

=============================================================================
