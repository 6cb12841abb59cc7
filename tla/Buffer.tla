------------------------------- MODULE Buffer -------------------------------
(***************************************************************************)
(* agora::net::Buffer: a vector of bytes with a read and a write index, the  *)
(* bytes between them being the content.  Space in front of the content is   *)
(* reused by moving the content down, and the vector grows only when that    *)
(* would not be enough.  Its operations are operators on a record, so that   *)
(* one can call another, with one action for each.                           *)
(***************************************************************************)
EXTENDS Integers, Sequences

CONSTANTS
    Bytes,           \* the values of a byte
    Nul,             \* the one a vector's new elements have
    CheapPrepend,    \* kCheapPrepend
    InitialSize,     \* kInitialSize
    ExtraSize,       \* sizeof(extrabuf) in readFd
    Chunks,          \* the byte strings appended or received at once
    MaxReadable      \* bound: how many bytes may be waiting in the buffer

ASSUME ByteAssumption == Nul \in Bytes /\ \A d \in Chunks : d \in Seq(Bytes)

ASSUME SizeAssumption ==
    {CheapPrepend, InitialSize, ExtraSize, MaxReadable} \subseteq Nat

VARIABLES
    buf,             \* the vector mem, its size, and the two indices
    result           \* the bytes last put in, or last given out

vars == <<buf, result>>

Readable(b) == b.writer - b.reader
Writable(b) == b.size - b.writer
Prependable(b) == b.reader

\* What a reader of the buffer sees: peek() and readableBytes().
Content(b) == [i \in 1 .. Readable(b) |-> b.mem[b.reader + i - 1]]

Init ==
    /\ buf = [mem    |-> [i \in 0 .. CheapPrepend + InitialSize - 1 |-> Nul],
              size   |-> CheapPrepend + InitialSize,
              reader |-> CheapPrepend,
              writer |-> CheapPrepend]
    /\ result = <<"out", <<>>>>

-----------------------------------------------------------------------------
(* Making room and storing *)

\* buffer_.resize(n), where n is never less than the size.
Resize(b, n) ==
    [b EXCEPT !.size = n,
              !.mem  = [i \in 0 .. n - 1 |-> IF i < b.size THEN b.mem[i] ELSE Nul]]

\* std::copy of the content to begin() + kCheapPrepend, and both indices.
MoveDown(b) ==
    LET end == CheapPrepend + Readable(b)
    IN  [b EXCEPT
           !.mem = [i \in 0 .. b.size - 1 |->
                      IF i \in CheapPrepend .. end - 1
                      THEN b.mem[b.reader + (i - CheapPrepend)]
                      ELSE b.mem[i]],
           !.reader = CheapPrepend,
           !.writer = end]

MakeSpaceShort(b, len) ==
    IF Prependable(b) + Writable(b) < len
    THEN Resize(b, b.writer + len)
    ELSE MoveDown(b)

MakeSpace(b, len) ==
    IF Prependable(b) + Writable(b) < len + CheapPrepend
    THEN Resize(b, b.writer + len)
    ELSE MoveDown(b)

EnsureWritableBytes(b, len) ==
    IF Writable(b) < len THEN MakeSpace(b, len) ELSE b

\* memcpy of d to begin() + writerIndex_, past which the index moves.
Store(b, d) ==
    [b EXCEPT
       !.mem = [i \in 0 .. b.size - 1 |->
                  IF i \in b.writer .. b.writer + Len(d) - 1
                  THEN d[i - b.writer + 1]
                  ELSE b.mem[i]],
       !.writer = b.writer + Len(d)]

AppendTo(b, d) == Store(EnsureWritableBytes(b, Len(d)), d)

RetrieveAllKeepsReader(b, len) ==
    IF len <= Readable(b)
    THEN [b EXCEPT !.reader = b.reader + len]
    ELSE [b EXCEPT !.reader = CheapPrepend, !.writer = CheapPrepend]

RetrieveFrom(b, len) ==
    IF len < Readable(b)
    THEN [b EXCEPT !.reader = b.reader + len]
    ELSE [b EXCEPT !.reader = CheapPrepend, !.writer = CheapPrepend]

-----------------------------------------------------------------------------
(* The operations *)

\* The bound MaxReadable: d still fits among the bytes waiting.
Bounded(d) == Readable(buf) + Len(d) <= MaxReadable

Append_(d) ==
    /\ Bounded(d)
    /\ buf' = AppendTo(buf, d)
    /\ result' = <<"in", d>>

EnsureWritable(len) ==
    /\ buf' = EnsureWritableBytes(buf, len)
    /\ UNCHANGED result

\* retrieve, retrieveUntil, and retrieveAll when len covers everything.
Retrieve(len) ==
    /\ buf' = RetrieveFrom(buf, len)
    /\ UNCHANGED result

\* retrieveAsString asserts that there are len bytes.
RetrieveAsString(len) ==
    /\ len <= Readable(buf)
    /\ result' = <<"out", SubSeq(Content(buf), 1, len)>>
    /\ buf' = RetrieveFrom(buf, len)

ReadFdSkipsExtra(d) ==
    /\ Bounded(d)
    /\ LET writable == Writable(buf)
           extra == IF writable < ExtraSize THEN ExtraSize ELSE 0
       IN  /\ Len(d) <= writable + extra
           /\ buf' = IF Len(d) <= writable
                     THEN Store(buf, d)
                     ELSE AppendTo(buf, SubSeq(d, writable + 1, Len(d)))
    /\ result' = <<"in", d>>

\* readv scatters what the kernel has over the writable space and then, if
\* that space is small, over extrabuf, which is appended.
ReadFd(d) ==
    /\ Bounded(d)
    /\ LET writable == Writable(buf)
           extra == IF writable < ExtraSize THEN ExtraSize ELSE 0
       IN  /\ Len(d) <= writable + extra
           /\ buf' = IF Len(d) <= writable
                     THEN Store(buf, d)
                     ELSE AppendTo(Store(buf, SubSeq(d, 1, writable)),
                                   SubSeq(d, writable + 1, Len(d)))
    /\ result' = <<"in", d>>

\* write() takes a prefix of the content; the caller retrieves it afterwards.
WriteFd(n) ==
    /\ n <= Readable(buf)
    /\ result' = <<"out", SubSeq(Content(buf), 1, n)>>
    /\ UNCHANGED buf

Next ==
    \/ \E d \in Chunks : Append_(d) \/ ReadFd(d)
    \/ \E n \in 0 .. MaxReadable :
          EnsureWritable(n) \/ Retrieve(n) \/ RetrieveAsString(n) \/ WriteFd(n)

Spec == Init /\ [][Next]_vars

-----------------------------------------------------------------------------
(* Properties *)

\* prependable, readable and writable space partition the vector, and the
\* prepend space never shrinks below what the constructor reserved.
WellFormed(b) ==
    /\ DOMAIN b = {"mem", "size", "reader", "writer"}
    /\ b.size \in Nat /\ b.reader \in Nat /\ b.writer \in Nat
    /\ CheapPrepend <= b.reader
    /\ b.reader <= b.writer
    /\ b.writer <= b.size
    /\ b.mem \in [0 .. b.size - 1 -> Bytes]

TypeOK ==
    /\ WellFormed(buf)
    /\ result \in {"in", "out"} \X Seq(Bytes)

\* A buffer that has been emptied offers all its space again: the indices go
\* back to kCheapPrepend whatever sequence of calls emptied it.
EmptyIsReset == Readable(buf) = 0 => buf.reader = CheapPrepend

\* Moving down and growing, the two halves of readFd and partial retrieves
\* never lose, repeat, reorder or alter a byte.
Queue == INSTANCE ByteQueue WITH content <- Content(buf)
ImplementsByteQueue == Queue!Spec

=============================================================================
