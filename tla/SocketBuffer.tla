---------------------------- MODULE SocketBuffer ----------------------------
(***************************************************************************)
(* CSocketBuffer: a block of memory whose bytes from buffer on, off in     *)
(* number, are the contents.  Bytes are appended behind the contents and   *)
(* erased at their front; when the end of the block is reached the         *)
(* contents are moved to its start (Align) or the block grows (Expand).    *)
(* The code keeps the place of the contents twice, as the pointer buffer   *)
(* and as the number misalign; so does the model.                          *)
(***************************************************************************)
EXTENDS Integers, Sequences

CONSTANTS
  Byte,      \* values of a byte
  Garbage,   \* a byte of memory that nobody wrote
  InitLen,   \* m_nMaxBufferLen (8192)
  LeastLen,  \* the least size of a block that grew (256)
  MaxRead,   \* BUFFER_MAX_READ (4096)
  MaxAppend, \* bound: bytes appended at once
  MaxLen     \* bound: the largest block that realloc gives

ASSUME BufferAssumption ==
  /\ Garbage \notin Byte
  /\ InitLen \in Nat /\ LeastLen \in Nat \ {0}
  /\ MaxRead \in Nat \ {0} /\ MaxAppend \in Nat /\ MaxLen \in Nat

VARIABLES
  block,     \* the memory at orig_buffer, of length totallen
  start,     \* buffer - orig_buffer
  misalign,
  off        \* length of the contents

bufferVars == <<block, start, misalign, off>>

totallen == Len(block)

\* The byte at a place of the block; reading behind its end finds anything.
At(i) == IF i \in 1 .. totallen THEN block[i] ELSE Garbage

\* GetBuffer and GetSize.
Contents == [i \in 1 .. off |-> At(start + i)]

\* Init.
BufferInit ==
  /\ block = [i \in 1 .. InitLen |-> Garbage]
  /\ start = 0
  /\ misalign = 0
  /\ off = 0

-----------------------------------------------------------------------------
(* Room for n bytes behind the contents.                                   *)

Need(n) == misalign + off + n

\* The contents moved to the start of a block of len bytes.
Moved(len) ==
  [block    |-> [i \in 1 .. len |-> IF i <= off THEN At(start + i) ELSE At(i)],
   start    |-> 0,
   misalign |-> 0]

Unmoved == [block |-> block, start |-> start, misalign |-> misalign]

\* Mutant: the contents are moved when there is any free byte before them.
AlignsAny(n) == misalign > 0

\* Align will do: there are n free bytes before the contents.
Aligns(n) == misalign >= n

\* Expand doubles the size, from 256 on, until Need(n) fits; there is no such size when
\* realloc would have to give too much.
Grown(n) ==
  LET least == IF totallen < LeastLen THEN LeastLen ELSE totallen
  IN  {len \in 1 .. MaxLen :
         /\ len >= Need(n)
         /\ \E k \in 0 .. MaxLen : /\ len = least * 2 ^ k
                                   /\ k > 0 => least * 2 ^ (k - 1) < Need(n)}

\* The blocks that Append and SockRead go on with.
Rooms(n) ==
  IF totallen >= Need(n) THEN {Unmoved}
  ELSE IF Aligns(n) THEN {Moved(totallen)}
  ELSE {Moved(len) : len \in Grown(n)}

\* realloc may fail; Expand has moved the contents then.
MayFail(n) == totallen < Need(n) /\ ~Aligns(n)

-----------------------------------------------------------------------------
(* The operations.                                                         *)

\* s is copied behind the contents in the block of r.
Written(r, s) ==
  /\ block' = [i \in DOMAIN r.block |->
                 IF i - r.start - off \in 1 .. Len(s) THEN s[i - r.start - off] ELSE r.block[i]]
  /\ start' = r.start
  /\ misalign' = r.misalign
  /\ off' = off + Len(s)

\* Append, and Appends with the contents of another buffer: an empty one does nothing.
BufferAppend(s) == s # << >> /\ \E r \in Rooms(Len(s)) : Written(r, s)

\* Append returns -1: the contents are kept, and s is not in them.
AppendFails(n) ==
  /\ n > 0 /\ MayFail(n)
  /\ block' = Moved(totallen).block
  /\ start' = 0
  /\ misalign' = 0
  /\ UNCHANGED off

\* SockRead makes room for all it asks for; recv gives s, or nothing or an error.
SockRead(s) == Len(s) <= MaxRead /\ \E r \in Rooms(MaxRead) : Written(r, s)

\* Mutant: the pointer is moved, the number is not.
ErasedPointer(n) ==
  /\ start' = start + n
  /\ off' = off - n
  /\ UNCHANGED misalign

\* Some of the contents are erased.
Erased(n) ==
  /\ start' = start + n
  /\ misalign' = misalign + n
  /\ off' = off - n

\* Erase: BufferRead and Sends erase what they copied or sent.  Clear and Reset erase
\* all of the contents.
Erase(n) ==
  /\ n \in 0 .. off
  /\ IF n = off THEN start' = 0 /\ misalign' = 0 /\ off' = 0 ELSE Erased(n)
  /\ UNCHANGED block

\* SockRead finds no memory: Expand has moved the contents and they are reset.
SockReadFails ==
  /\ MayFail(MaxRead)
  /\ block' = Moved(totallen).block
  /\ start' = 0 /\ misalign' = 0 /\ off' = 0

BytesUpTo(n) == UNION {[1 .. k -> Byte] : k \in 0 .. n}

BufferNext ==
  \/ \E s \in BytesUpTo(MaxAppend) : BufferAppend(s)
  \/ \E n \in 1 .. MaxAppend : AppendFails(n)
  \/ \E s \in BytesUpTo(MaxRead) : SockRead(s)
  \/ SockReadFails
  \/ \E n \in 0 .. off : Erase(n)

BufferSpec == BufferInit /\ [][BufferNext]_bufferVars

-----------------------------------------------------------------------------
(* Properties.                                                             *)

\* The variables have their types.
BufferTypeOK ==
  /\ block \in Seq(Byte \cup {Garbage})
  /\ start \in Nat /\ misalign \in Nat /\ off \in Nat

\* The two records of the place of the contents agree, and the contents lie inside of
\* the block: neither Append nor SockRead writes behind it, Erase never leaves it.
ContentsInBlock == start = misalign /\ misalign + off <= totallen

Queue == INSTANCE ByteQueue WITH queue <- Contents

\* Moving and growing the block, wherever the contents lie, loses, repeats or changes no
\* byte: the buffer implements the queue of bytes.
BytesInOrder == Queue!QueueSpec
=============================================================================
