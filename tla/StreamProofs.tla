---------------------------- MODULE StreamProofs ----------------------------
(***************************************************************************)
(* Streams of bytes.  SocketBuffer implements ByteQueue, for every set of  *)
(* bytes and all limits on sizes: whichever way Append, SockRead and Erase *)
(* find, make or give up room, the bytes that come out are those that went *)
(* in.  RelayClient, which reads frames from such a buffer, delivers what  *)
(* the other server sent, for all frames and any number of connections.    *)
(***************************************************************************)
EXTENDS SocketBuffer, RelayClient, SequenceTheorems, TLAPS

\* The contents lie inside of the block, and were written.
BufferInv ==
  /\ BufferTypeOK
  /\ ContentsInBlock
  /\ \A i \in 1 .. off : block[start + i] \in Byte

-----------------------------------------------------------------------------
(* Sequences.                                                              *)

\* A function on the numbers up to n is a sequence.
LEMMA FunctionIsSeq ==
  ASSUME NEW S, NEW n \in Nat, NEW f \in [1 .. n -> S]
  PROVE  f \in Seq(S) /\ Len(f) = n
  <1>1. f \in Seq(S)
    BY SeqDef
  <1>2. Len(f) \in Nat /\ DOMAIN f = 1 .. Len(f)
    BY <1>1, LenProperties
  <1> QED BY <1>1, <1>2

\* A part of a sequence, read with a guard as GetBuffer is modelled.
Part(b, a, n) == [i \in 1 .. n |-> IF a + i \in 1 .. Len(b) THEN b[a + i] ELSE Garbage]

LEMMA PartIsSeq ==
  ASSUME NEW b \in Seq(Byte \cup {Garbage}), NEW a \in Nat, NEW n \in Nat, a + n <= Len(b),
         \A i \in 1 .. n : b[a + i] \in Byte
  PROVE  /\ Part(b, a, n) \in Seq(Byte) /\ Len(Part(b, a, n)) = n
         /\ \A i \in 1 .. n : Part(b, a, n)[i] = b[a + i]
  <1>1. Len(b) \in Nat
    BY LenProperties
  <1>2. \A i \in 1 .. n : a + i \in 1 .. Len(b)
    BY <1>1
  <1>3. \A i \in 1 .. n : Part(b, a, n)[i] = b[a + i]
    BY <1>2 DEF Part
  <1>4. Part(b, a, n) \in [1 .. n -> Byte]
    BY <1>2 DEF Part
  <1> QED BY <1>3, <1>4, FunctionIsSeq

\* What the invariant says of the contents.
LEMMA ContentsSeq ==
  ASSUME BufferInv
  PROVE  /\ Contents \in Seq(Byte) /\ Len(Contents) = off
         /\ \A i \in 1 .. off : Contents[i] = block[start + i]
  <1>1. /\ block \in Seq(Byte \cup {Garbage}) /\ start \in Nat /\ off \in Nat
        /\ start + off <= Len(block)
        /\ \A i \in 1 .. off : block[start + i] \in Byte
    BY DEF BufferInv, BufferTypeOK, ContentsInBlock, totallen
  <1>2. Contents = Part(block, start, off)
    BY DEF Contents, At, totallen, Part
  <1> QED BY <1>1, <1>2, PartIsSeq

\* The same, after a step.
LEMMA ContentsSeqNext ==
  ASSUME BufferInv'
  PROVE  /\ Contents' \in Seq(Byte) /\ Len(Contents') = off'
         /\ \A i \in 1 .. off' : Contents'[i] = block'[start' + i]
  <1>1. /\ block' \in Seq(Byte \cup {Garbage}) /\ start' \in Nat /\ off' \in Nat
        /\ start' + off' <= Len(block')
        /\ \A i \in 1 .. off' : block'[start' + i] \in Byte
    BY DEF BufferInv, BufferTypeOK, ContentsInBlock, totallen
  <1>2. Contents' = Part(block', start', off')
    BY DEF Contents, At, totallen, Part
  <1> QED BY <1>1, <1>2, PartIsSeq

-----------------------------------------------------------------------------
(* Room.                                                                   *)

\* A block with room for n bytes behind the contents, which are as they were.
Fits(r, n) ==
  /\ r.block \in Seq(Byte \cup {Garbage})
  /\ r.start \in Nat /\ r.misalign = r.start
  /\ r.start + off + n <= Len(r.block)
  /\ \A i \in 1 .. off : r.block[r.start + i] = block[start + i]

\* Moving the contents within a block that is long enough keeps them.
LEMMA MovedFits ==
  ASSUME BufferInv, NEW n \in Nat, NEW len \in Nat, off + n <= len
  PROVE  Fits(Moved(len), n)
  <1>1. /\ block \in Seq(Byte \cup {Garbage}) /\ Len(block) \in Nat
        /\ start \in Nat /\ off \in Nat /\ start + off <= Len(block)
    BY LenProperties DEF BufferInv, BufferTypeOK, ContentsInBlock, totallen
  <1>2. \A i \in Int : At(i) \in Byte \cup {Garbage}
    BY <1>1, ElementOfSeq DEF At, totallen
  <1> DEFINE b == [i \in 1 .. len |-> IF i <= off THEN At(start + i) ELSE At(i)]
  <1>3. b \in [1 .. len -> Byte \cup {Garbage}]
    BY <1>1, <1>2
  <1>4. b \in Seq(Byte \cup {Garbage}) /\ Len(b) = len
    <2> HIDE DEF b
    <2> QED BY <1>3, FunctionIsSeq
  <1>5. \A i \in 1 .. off : b[0 + i] = block[start + i]
    BY <1>1 DEF At, totallen
  <1>6. Moved(len).block = b /\ Moved(len).start = 0 /\ Moved(len).misalign = 0
    BY DEF Moved
  <1> HIDE DEF b
  <1> QED BY <1>1, <1>4, <1>5, <1>6 DEF Fits

\* Append and SockRead go on with a block that has room.
LEMMA RoomsFit ==
  ASSUME BufferInv, NEW n \in Nat, NEW r \in Rooms(n)
  PROVE  Fits(r, n)
  <1>1. /\ block \in Seq(Byte \cup {Garbage}) /\ totallen = Len(block) /\ Len(block) \in Nat
        /\ start \in Nat /\ misalign = start /\ off \in Nat /\ start + off <= Len(block)
    BY LenProperties DEF BufferInv, BufferTypeOK, ContentsInBlock, totallen
  <1>2. CASE totallen >= Need(n)
    <2>1. r = Unmoved
      BY <1>2 DEF Rooms
    <2>2. r.block = block /\ r.start = start /\ r.misalign = misalign
      BY <2>1 DEF Unmoved
    <2>3. start + off + n <= Len(block)
      BY <1>1, <1>2 DEF Need
    <2> QED BY <1>1, <2>2, <2>3 DEF Fits
  <1>3. CASE totallen < Need(n) /\ Aligns(n)
    <2>1. r = Moved(totallen)
      BY <1>1, <1>3 DEF Rooms, Need
    <2>2. off + n <= totallen
      BY <1>1, <1>3 DEF Aligns
    <2> QED BY <1>1, <2>1, <2>2, MovedFits
  <1>4. CASE totallen < Need(n) /\ ~Aligns(n)
    <2>1. PICK len \in Grown(n) : r = Moved(len)
      BY <1>1, <1>4 DEF Rooms, Need
    <2>2. BufferAssumption
      BY BufferAssumption
    <2>3. len \in Nat /\ len >= Need(n)
      BY <2>2 DEF Grown, BufferAssumption
    <2>4. off + n <= len
      BY <1>1, <2>3 DEF Need
    <2> QED BY <2>1, <2>3, <2>4, MovedFits
  <1> QED BY <1>1, <1>2, <1>3, <1>4 DEF Need

-----------------------------------------------------------------------------
(* The operations.                                                         *)

\* Bytes written into a block with room for them stand behind the contents.
LEMMA WrittenPuts ==
  ASSUME BufferInv, NEW s \in Seq(Byte), NEW r, Fits(r, Len(s)), Written(r, s)
  PROVE  BufferInv' /\ Queue!Put
  <1>1. /\ Len(s) \in Nat /\ off \in Nat /\ Len(r.block) \in Nat /\ r.start \in Nat
        /\ DOMAIN r.block = 1 .. Len(r.block) /\ r.start + off + Len(s) <= Len(r.block)
        /\ r.block \in [1 .. Len(r.block) -> Byte \cup {Garbage}]
    BY LenProperties DEF BufferInv, BufferTypeOK, Fits
  <1>2. /\ start' = r.start /\ misalign' = r.start /\ off' = off + Len(s)
        /\ block' = [i \in 1 .. Len(r.block) |->
                       IF i - r.start - off \in 1 .. Len(s)
                       THEN s[i - r.start - off] ELSE r.block[i]]
    BY <1>1 DEF Written, Fits
  <1>3. \A i \in 1 .. Len(s) : s[i] \in Byte
    BY ElementOfSeq
  <1>4. block' \in [1 .. Len(r.block) -> Byte \cup {Garbage}]
    BY <1>1, <1>2, <1>3
  <1>5. block' \in Seq(Byte \cup {Garbage}) /\ Len(block') = Len(r.block)
    BY <1>1, <1>4, FunctionIsSeq
  <1>6. \A i \in 1 .. off : block'[start' + i] = block[start + i]
    <2> SUFFICES ASSUME NEW i \in 1 .. off PROVE block'[r.start + i] = block[start + i]
      BY <1>2
    <2>1. /\ r.start + i \in 1 .. Len(r.block)
          /\ (r.start + i) - r.start - off \notin 1 .. Len(s)
      <3>1. ASSUME NEW st \in Nat, NEW m \in Nat, NEW n \in Nat, st + off + n <= m
            PROVE  st + i \in 1 .. m /\ (st + i) - st - off \notin 1 .. n
        <4>1. off \in Nat
          BY <1>1
        <4> QED BY <3>1, <4>1
      <3> QED BY <1>1, <3>1, Zenon
    <2>2. block'[r.start + i] = r.block[r.start + i]
      <3>1. PICK j : j = r.start + i
        OBVIOUS
      <3>2. block'[j] = IF j - r.start - off \in 1 .. Len(s)
                         THEN s[j - r.start - off] ELSE r.block[j]
        BY <1>2, <2>1, <3>1, Zenon
      <3> QED BY <2>1, <3>1, <3>2, Zenon
    <2> QED BY <2>2, Zenon DEF Fits
  <1>7. \A i \in off + 1 .. off' : block'[start' + i] = s[i - off]
    <2> SUFFICES ASSUME NEW i \in off + 1 .. off + Len(s) PROVE block'[r.start + i] = s[i - off]
      BY <1>2
    <2>1. (r.start + i) - r.start - off = i - off /\ i - off \in 1 .. Len(s)
      BY <1>1
    <2>2. r.start + i \in 1 .. Len(r.block)
      BY <1>1
    <2> QED BY <1>2, <2>1, <2>2
  <1>8. BufferInv'
    <2>1. BufferTypeOK' /\ ContentsInBlock'
      BY <1>1, <1>2, <1>5 DEF BufferTypeOK, ContentsInBlock, totallen
    <2>2. \A i \in 1 .. off' : block'[start' + i] \in Byte
      <3> SUFFICES ASSUME NEW i \in 1 .. off + Len(s) PROVE block'[start' + i] \in Byte
        BY <1>2
      <3>1. CASE i \in 1 .. off
        BY <1>6, <3>1 DEF BufferInv
      <3>2. CASE i \in off + 1 .. off + Len(s)
        <4>1. i - off \in 1 .. Len(s)
          BY <1>1, <3>2
        <4> QED BY <1>2, <1>3, <1>7, <3>2, <4>1
      <3> QED BY <1>1, <3>1, <3>2
    <2> QED BY <2>1, <2>2 DEF BufferInv
  <1>9. /\ Contents \in Seq(Byte) /\ Len(Contents) = off
        /\ \A i \in 1 .. off : Contents[i] = block[start + i]
    BY ContentsSeq
  <1>10. /\ Contents' \in Seq(Byte) /\ Len(Contents') = off'
         /\ \A i \in 1 .. off' : Contents'[i] = block'[start' + i]
    BY <1>8, ContentsSeqNext
  <1>11. SubSeq(Contents', 1, Len(Contents)) = Contents
    <2>1. \A i \in 1 .. off : Contents'[i] = Contents[i]
      <3>1. \A i \in 1 .. off : i \in 1 .. off'
        BY <1>1, <1>2
      <3> QED BY <1>6, <1>9, <1>10, <3>1
    <2>2. \A i \in 1 .. off : Contents'[i] \in Byte
      BY <1>9, <2>1, ElementOfSeq
    <2>3. /\ SubSeq(Contents', 1, off) \in Seq(Byte)
          /\ Len(SubSeq(Contents', 1, off)) = off
          /\ \A i \in 1 .. off : SubSeq(Contents', 1, off)[i] = Contents'[i]
      BY <1>1, <2>2, SubSeqProperties
    <2> QED BY <1>9, <2>1, <2>3, SeqEqual
  <1> QED BY <1>1, <1>2, <1>8, <1>9, <1>10, <1>11 DEF Queue!Put

\* Bytes that go from the front, and only from there, are taken.
LEMMA ShorterTakes ==
  ASSUME BufferInv, BufferInv', NEW n \in 0 .. off, off' = off - n,
         \A i \in 1 .. off' : block'[start' + i] = block[start + (n + i)]
  PROVE  Queue!Take
  <1>1. /\ Contents \in Seq(Byte) /\ Len(Contents) = off
        /\ \A i \in 1 .. off : Contents[i] = block[start + i]
    BY ContentsSeq
  <1>2. /\ Contents' \in Seq(Byte) /\ Len(Contents') = off'
        /\ \A i \in 1 .. off' : Contents'[i] = block'[start' + i]
    BY ContentsSeqNext
  <1>3. off \in Nat /\ n \in Nat /\ n <= off /\ off' \in Nat
    BY DEF BufferInv, BufferTypeOK
  <1> DEFINE rest == SubSeq(Contents, n + 1, off)
  <1>4. /\ rest \in Seq(Byte)
        /\ Len(rest) = IF n + 1 <= off THEN off - (n + 1) + 1 ELSE 0
        /\ \A i \in 1 .. off - (n + 1) + 1 : rest[i] = Contents[(n + 1) + i - 1]
    <2>1. \A i \in n + 1 .. off : Contents[i] \in Byte
      <3>1. \A i \in n + 1 .. off : i \in 1 .. Len(Contents)
        BY <1>1, <1>3
      <3> QED BY <1>1, <3>1, ElementOfSeq
    <2>2. n + 1 \in Int /\ off \in Int
      BY <1>3
    <2> QED BY <2>1, <2>2, SubSeqProperties
  <1>5. Len(rest) = off'
    BY <1>3, <1>4
  <1>6. \A i \in 1 .. off' : rest[i] = Contents'[i]
    <2> SUFFICES ASSUME NEW i \in 1 .. off' PROVE rest[i] = Contents'[i]
      OBVIOUS
    <2>1. i \in 1 .. off - (n + 1) + 1 /\ (n + 1) + i - 1 = n + i /\ n + i \in 1 .. off
      BY <1>3
    <2>2. rest[i] = Contents[n + i]
      BY <1>4, <2>1
    <2>3. Contents[n + i] = block[start + (n + i)]
      BY <1>1, <2>1
    <2> QED BY <1>2, <2>2, <2>3
  <1> HIDE DEF rest
  <1>7. Contents' = rest
    BY <1>2, <1>4, <1>5, <1>6, SeqEqual
  <1> QED BY <1>1, <1>7 DEF rest, Queue!Take

\* What the bounds of the model let through are sequences of bytes.
LEMMA BytesAreSeq ==
  ASSUME NEW n \in Nat, NEW s \in BytesUpTo(n)
  PROVE  s \in Seq(Byte) /\ Len(s) \in Nat
  <1>1. PICK k \in 0 .. n : s \in [1 .. k -> Byte]
    BY DEF BytesUpTo
  <1> QED BY <1>1, FunctionIsSeq

\* Append, or its failure, which leaves the contents at another place.
LEMMA AppendStep ==
  ASSUME BufferInv,
         \/ \E s \in BytesUpTo(MaxAppend) : BufferAppend(s)
         \/ \E n \in 1 .. MaxAppend : AppendFails(n)
  PROVE  BufferInv' /\ (Queue!Put \/ UNCHANGED Contents)
  <1>1. ASSUME NEW s \in BytesUpTo(MaxAppend), BufferAppend(s)
        PROVE  BufferInv' /\ Queue!Put
    <2>1. s \in Seq(Byte) /\ Len(s) \in Nat
      BY BytesAreSeq, BufferAssumption DEF BufferAssumption
    <2>2. PICK r \in Rooms(Len(s)) : Written(r, s)
      BY <1>1 DEF BufferAppend
    <2>3. Fits(r, Len(s))
      BY <2>1, RoomsFit
    <2> QED BY <2>1, <2>2, <2>3, WrittenPuts
  <1>2. ASSUME NEW n \in 1 .. MaxAppend, AppendFails(n)
        PROVE  BufferInv' /\ UNCHANGED Contents
    <2>1. totallen \in Nat /\ off + 0 <= totallen /\ off \in Nat
      BY LenProperties DEF BufferInv, BufferTypeOK, ContentsInBlock, totallen
    <2>2. Fits(Moved(totallen), 0)
      BY <2>1, MovedFits
    <2>3. block' = Moved(totallen).block /\ start' = 0 /\ misalign' = 0 /\ off' = off
      BY <1>2 DEF AppendFails
    <2>4. Moved(totallen).start = 0
      BY DEF Moved
    <2>5. /\ block' \in Seq(Byte \cup {Garbage}) /\ off <= Len(block')
          /\ \A i \in 1 .. off : block'[start' + i] = block[start + i]
      BY <2>1, <2>2, <2>3, <2>4 DEF Fits
    <2>6. BufferInv'
      <3>1. Len(block') \in Nat
        BY <2>5, LenProperties
      <3>2. \A i \in 1 .. off : block'[start' + i] \in Byte
        BY <2>5 DEF BufferInv
      <3>3. BufferTypeOK'
        BY <2>1, <2>3, <2>5 DEF BufferTypeOK
      <3>4. ContentsInBlock'
        BY <2>1, <2>3, <2>5, <3>1 DEF ContentsInBlock, totallen
      <3> QED BY <2>3, <3>2, <3>3, <3>4, Zenon DEF BufferInv
    <2>7. /\ Contents \in Seq(Byte) /\ Len(Contents) = off
          /\ \A i \in 1 .. off : Contents[i] = block[start + i]
      BY ContentsSeq
    <2>8. /\ Contents' \in Seq(Byte) /\ Len(Contents') = off
          /\ \A i \in 1 .. off : Contents'[i] = block'[start' + i]
      BY <2>3, <2>6, ContentsSeqNext
    <2>9. Contents' = Contents
      BY <2>5, <2>7, <2>8, SeqEqual
    <2> QED BY <2>6, <2>9
  <1> QED BY <1>1, <1>2

\* SockRead, and the one that finds no memory and drops everything.
LEMMA SockReadStep ==
  ASSUME BufferInv, (\E s \in BytesUpTo(MaxRead) : SockRead(s)) \/ SockReadFails
  PROVE  BufferInv' /\ (Queue!Put \/ Queue!Take)
  <1>0. MaxRead \in Nat
    BY BufferAssumption DEF BufferAssumption
  <1>1. ASSUME NEW s \in BytesUpTo(MaxRead), SockRead(s)
        PROVE  BufferInv' /\ Queue!Put
    <2>1. s \in Seq(Byte) /\ Len(s) \in Nat /\ Len(s) <= MaxRead
      BY <1>0, <1>1, BytesAreSeq DEF SockRead
    <2>2. PICK r \in Rooms(MaxRead) : Written(r, s)
      BY <1>1 DEF SockRead
    <2>3. Fits(r, MaxRead) /\ off \in Nat
      BY <1>0, RoomsFit DEF BufferInv, BufferTypeOK
    <2>4. Fits(r, Len(s))
      <3>1. r.start \in Nat /\ Len(r.block) \in Nat
        BY <2>3, LenProperties DEF Fits
      <3> QED BY <1>0, <2>1, <2>3, <3>1 DEF Fits
    <2> QED BY <2>1, <2>2, <2>4, WrittenPuts
  <1>2. ASSUME SockReadFails PROVE BufferInv' /\ Queue!Take
    <2>1. totallen \in Nat /\ off + 0 <= totallen /\ off \in Nat
      BY LenProperties DEF BufferInv, BufferTypeOK, ContentsInBlock, totallen
    <2>2. Fits(Moved(totallen), 0)
      BY <2>1, MovedFits
    <2>3. block' = Moved(totallen).block /\ start' = 0 /\ misalign' = 0 /\ off' = 0
      BY <1>2 DEF SockReadFails
    <2>4. block' \in Seq(Byte \cup {Garbage}) /\ Len(block') \in Nat
      BY <2>2, <2>3, LenProperties DEF Fits
    <2>5. BufferInv'
      BY <2>3, <2>4 DEF BufferInv, BufferTypeOK, ContentsInBlock, totallen
    <2>6. off \in 0 .. off /\ off' = off - off /\ \A i \in 1 .. off' : FALSE
      BY <2>1, <2>3
    <2> QED BY <2>5, <2>6, ShorterTakes
  <1> QED BY <1>1, <1>2

LEMMA EraseStep ==
  ASSUME BufferInv, NEW n \in 0 .. off, Erase(n)
  PROVE  BufferInv' /\ Queue!Take
  <1>1. /\ block \in Seq(Byte \cup {Garbage}) /\ Len(block) \in Nat /\ totallen = Len(block)
        /\ start \in Nat /\ misalign = start /\ off \in Nat /\ start + off <= Len(block)
        /\ \A i \in 1 .. off : block[start + i] \in Byte
    BY LenProperties DEF BufferInv, BufferTypeOK, ContentsInBlock, totallen
  <1>2. block' = block /\ off' = off - n
    BY <1>1 DEF Erase, Erased
  <1>3. CASE n = off
    <2>1. start' = 0 /\ misalign' = 0 /\ off' = 0
      BY <1>3 DEF Erase
    <2>2. BufferInv'
      BY <1>1, <1>2, <2>1 DEF BufferInv, BufferTypeOK, ContentsInBlock, totallen
    <2>3. \A i \in 1 .. off' : FALSE
      BY <2>1
    <2> QED BY <1>2, <2>2, <2>3, ShorterTakes
  <1>4. CASE n # off
    <2>1. start' = start + n /\ misalign' = start + n
      BY <1>1, <1>4 DEF Erase, Erased
    <2>2. \A i \in 1 .. off' : n + i \in 1 .. off /\ start' + i = start + (n + i)
      BY <1>1, <1>2, <2>1
    <2>3. \A i \in 1 .. off' : block'[start' + i] = block[start + (n + i)]
      BY <1>2, <2>2
    <2>4. \A i \in 1 .. off' : block'[start' + i] \in Byte
      BY <1>1, <2>2, <2>3
    <2>5. BufferInv'
      <3>1. start' \in Nat /\ misalign' \in Nat /\ off' \in Nat /\ misalign' + off' <= Len(block')
        BY <1>1, <1>2, <2>1
      <3> QED BY <1>1, <1>2, <2>1, <2>4, <3>1
              DEF BufferInv, BufferTypeOK, ContentsInBlock, totallen
    <2> QED BY <1>2, <2>3, <2>5, ShorterTakes
  <1> QED BY <1>3, <1>4

-----------------------------------------------------------------------------
(* The refinement.                                                         *)

LEMMA BufferInitInv == BufferInit => BufferInv /\ Contents = << >>
  <1> SUFFICES ASSUME BufferInit PROVE BufferInv /\ Contents = << >>
    OBVIOUS
  <1>1. InitLen \in Nat
    BY BufferAssumption DEF BufferAssumption
  <1>2. block \in [1 .. InitLen -> Byte \cup {Garbage}]
    BY DEF BufferInit
  <1>3. block \in Seq(Byte \cup {Garbage}) /\ Len(block) = InitLen
    BY <1>1, <1>2, FunctionIsSeq
  <1>4. BufferInv
    BY <1>1, <1>3 DEF BufferInit, BufferInv, BufferTypeOK, ContentsInBlock, totallen
  <1>5. Contents \in Seq(Byte) /\ Len(Contents) = 0
    BY <1>4, ContentsSeq DEF BufferInit
  <1> QED BY <1>4, <1>5, EmptySeq

LEMMA BufferInvNext ==
  BufferInv /\ [BufferNext]_bufferVars =>
    BufferInv' /\ [Queue!Put \/ Queue!Take]_Contents
  <1> SUFFICES ASSUME BufferInv, [BufferNext]_bufferVars
               PROVE  BufferInv' /\ (Queue!Put \/ Queue!Take \/ UNCHANGED Contents)
    OBVIOUS
  <1>1. CASE UNCHANGED bufferVars
    BY <1>1 DEF bufferVars, BufferInv, BufferTypeOK, ContentsInBlock, totallen, Contents, At
  <1>2. CASE BufferNext
    BY <1>2, AppendStep, SockReadStep, EraseStep DEF BufferNext
  <1> QED BY <1>1, <1>2

LEMMA BufferInvariant == BufferSpec => []BufferInv
  BY BufferInitInv, BufferInvNext, PTL DEF BufferSpec

\* The variables of a buffer are well typed.
THEOREM BufferTypeCorrect == BufferSpec => []BufferTypeOK
  <1>1. BufferInv => BufferTypeOK
    BY DEF BufferInv
  <1> QED BY <1>1, BufferInvariant, PTL

\* Neither Append nor SockRead writes behind the block, and the two records of the place
\* of the contents agree (SocketBuffer.cpp:61, 138, 188), whatever the sizes.
THEOREM BufferInBlock == BufferSpec => []ContentsInBlock
  <1>1. BufferInv => ContentsInBlock
    BY DEF BufferInv
  <1> QED BY <1>1, BufferInvariant, PTL

\* CSocketBuffer is a queue of bytes: Align and Expand, wherever the contents lie and
\* however long they are, lose, repeat and change none (SocketBuffer.cpp:96, 103).
THEOREM BufferIsQueue == BufferSpec => BytesInOrder
  <1>1. BufferInit => Contents = << >>
    BY BufferInitInv
  <1> QED BY <1>1, BufferInvariant, BufferInvNext, PTL DEF BufferSpec, BytesInOrder, Queue!QueueSpec
-----------------------------------------------------------------------------
(* A connection to another server: sequences of whole frames.              *)

\* From the first cell on each frame is followed by the next, up to the end: b is the
\* place where a frame begins, and the cell there is its length.
Whole(s) ==
  \E B \in SUBSET (1 .. Len(s) + 1) :
    /\ 1 \in B
    /\ \A b \in B : b <= Len(s) => s[b] >= 1 /\ b + s[b] \in B

LEMMA EmptyIsWhole == Whole(<< >>)
  <1>1. Len(<< >>) = 0
    BY EmptySeq
  <1>2. {1} \in SUBSET (1 .. Len(<< >>) + 1)
    BY <1>1
  <1>3. \A b \in {1} : ~(b <= Len(<< >>))
    BY <1>1
  <1>4. \E B \in SUBSET (1 .. Len(<< >>) + 1) :
          1 \in B /\ \A b \in B : b <= Len(<< >>) => << >>[b] >= 1 /\ b + << >>[b] \in B
    <2> HIDE <1>1
    <2> QED BY <1>2, <1>3, Zenon
  <1> QED BY <1>4, Zenon DEF Whole

LEMMA FrameSeq ==
  ASSUME NEW f \in Frames
  PROVE  f \in Seq(Nat) /\ Len(f) \in {1, 2} /\ f[1] = Len(f)
  <1>1. Payload \subseteq Nat
    BY RelayAssumption
  <1>2. CASE f = <<1>>
    BY <1>2
  <1>3. ASSUME NEW p \in Payload, f = <<2, p>> PROVE f \in Seq(Nat) /\ Len(f) = 2 /\ f[1] = 2
    BY <1>1, <1>3
  <1> QED BY <1>2, <1>3 DEF Frames

\* A frame behind whole frames.
LEMMA WholeAndFrame ==
  ASSUME NEW s \in Seq(Nat), NEW f \in Frames, Whole(s)
  PROVE  Whole(s \o f)
  <1>1. f \in Seq(Nat) /\ Len(f) \in {1, 2} /\ f[1] = Len(f)
    BY FrameSeq
  <1>2. /\ Len(s) \in Nat /\ Len(s \o f) = Len(s) + Len(f)
        /\ \A i \in 1 .. Len(s) + Len(f) :
             (s \o f)[i] = IF i <= Len(s) THEN s[i] ELSE f[i - Len(s)]
    BY <1>1, ConcatProperties, LenProperties
  <1>3. PICK B \in SUBSET (1 .. Len(s) + 1) :
          /\ 1 \in B
          /\ \A b \in B : b <= Len(s) => s[b] >= 1 /\ b + s[b] \in B
    BY DEF Whole
  <1> DEFINE C == B \cup {Len(s) + 1, Len(s) + 1 + Len(f)}
  <1> HIDE DEF C
  <1>4. /\ \A b \in C : b \in B \/ b = Len(s) + 1 \/ b = Len(s) + 1 + Len(f)
        /\ B \subseteq C /\ Len(s) + 1 \in C /\ Len(s) + 1 + Len(f) \in C
    BY Zenon DEF C
  <1>6. \A b \in C : b \in 1 .. Len(s \o f) + 1
    <2>1. \A b \in B : b \in 1 .. Len(s) + 1
      BY <1>3
    <2>2. Len(f) \in Nat
      BY <1>1
    <2> QED BY <1>2, <1>4, <2>1, <2>2
  <1>5. ASSUME NEW b \in C, b <= Len(s \o f)
        PROVE  (s \o f)[b] >= 1 /\ b + (s \o f)[b] \in C
    <2>3. b \in Int /\ b <= Len(s) + Len(f)
      BY <1>2, <1>5, <1>6
    <2>1. CASE b <= Len(s)
      <3>1. b \in B /\ b \in 1 .. Len(s)
        <4>1. b # Len(s) + 1 /\ b # Len(s) + 1 + Len(f)
          BY <1>1, <1>2, <2>1
        <4> QED BY <1>2, <1>3, <1>4, <2>1, <4>1
      <3>2. (s \o f)[b] = s[b]
        <4>1. b \in 1 .. Len(s) + Len(f)
          BY <1>1, <1>2, <3>1
        <4> QED BY <1>2, <2>1, <4>1
      <3> QED BY <1>3, <1>4, <2>1, <3>1, <3>2
    <2>2. CASE b > Len(s)
      <3>1. b = Len(s) + 1
        <4>1. b \in B => b = Len(s) + 1
          BY <1>2, <1>3, <2>2, <2>3
        <4>2. b # Len(s) + 1 + Len(f)
          BY <1>1, <1>2, <1>5
        <4> QED BY <1>4, <4>1, <4>2
      <3>2. (s \o f)[b] = f[1]
        <4>1. b \in 1 .. Len(s) + Len(f) /\ ~(b <= Len(s)) /\ b - Len(s) = 1
          BY <1>1, <1>2, <3>1
        <4> QED BY <1>2, <4>1
      <3>3. f[1] = 1 \/ f[1] = 2
        BY <1>1
      <3> QED BY <1>1, <1>4, <3>1, <3>2, <3>3
    <2>4. b <= Len(s) \/ b > Len(s)
      BY <1>2, <2>3
    <2> QED BY <2>1, <2>2, <2>4, Zenon
  <1>7. C \in SUBSET (1 .. Len(s \o f) + 1) /\ 1 \in C
    BY <1>3, <1>4, <1>6
  <1> QED BY <1>5, <1>7 DEF Whole

\* The cells behind the first k.
LEMMA RestOf ==
  ASSUME NEW s \in Seq(Nat), NEW k \in Nat, k <= Len(s)
  PROVE  /\ SubSeq(s, k + 1, Len(s)) \in Seq(Nat)
         /\ Len(SubSeq(s, k + 1, Len(s))) = Len(s) - k
         /\ \A i \in 1 .. Len(s) - k : SubSeq(s, k + 1, Len(s))[i] = s[k + i]
  <1>1. Len(s) \in Nat
    BY LenProperties
  <1>2. \A i \in k + 1 .. Len(s) : s[i] \in Nat
    BY <1>1, ElementOfSeq
  <1>3. /\ SubSeq(s, k + 1, Len(s)) \in Seq(Nat)
        /\ Len(SubSeq(s, k + 1, Len(s)))
             = IF k + 1 <= Len(s) THEN Len(s) - (k + 1) + 1 ELSE 0
        /\ \A i \in 1 .. Len(s) - (k + 1) + 1 :
             SubSeq(s, k + 1, Len(s))[i] = s[(k + 1) + i - 1]
    BY <1>1, <1>2, SubSeqProperties
  <1>4. \A i \in 1 .. Len(s) - k : i \in 1 .. Len(s) - (k + 1) + 1 /\ (k + 1) + i - 1 = k + i
    BY <1>1
  <1>5. \A i \in 1 .. Len(s) - k : SubSeq(s, k + 1, Len(s))[i] = s[k + i]
    BY <1>3, <1>4
  <1> QED BY <1>1, <1>3, <1>5

\* The first n cells.
LEMMA FirstOf ==
  ASSUME NEW s \in Seq(Nat), NEW n \in 0 .. Len(s)
  PROVE  /\ SubSeq(s, 1, n) \in Seq(Nat)
         /\ Len(SubSeq(s, 1, n)) = n
         /\ \A i \in 1 .. n : SubSeq(s, 1, n)[i] = s[i]
  <1>1. Len(s) \in Nat
    BY LenProperties
  <1>2. \A i \in 1 .. n : s[i] \in Nat
    BY <1>1, ElementOfSeq
  <1> QED BY <1>1, <1>2, SubSeqProperties

\* A whole frame from the front of whole frames.
LEMMA WholeWithoutFirst ==
  ASSUME NEW s \in Seq(Nat), Whole(s), s # << >>
  PROVE  /\ s[1] \in Nat \ {0} /\ s[1] <= Len(s) /\ Head(s) = s[1]
         /\ Whole(SubSeq(s, s[1] + 1, Len(s)))
  <1>1. Len(s) \in Nat \ {0} /\ s[1] \in Nat /\ Head(s) = s[1]
    <2>1. Len(s) \in Nat /\ Len(s) # 0
      BY LenProperties, EmptySeq
    <2> QED BY <2>1, ElementOfSeq
  <1>2. PICK B \in SUBSET (1 .. Len(s) + 1) :
          /\ 1 \in B
          /\ \A b \in B : b <= Len(s) => s[b] >= 1 /\ b + s[b] \in B
    BY DEF Whole
  <1>3. s[1] >= 1 /\ 1 + s[1] \in B /\ s[1] <= Len(s)
    BY <1>1, <1>2
  <1> DEFINE k == s[1]
             t == SubSeq(s, k + 1, Len(s))
             C == {i \in 1 .. Len(t) + 1 : k + i \in B}
  <1>4. /\ Len(t) = Len(s) - k
        /\ \A i \in 1 .. Len(s) - k : t[i] = s[k + i]
    BY <1>1, <1>3, RestOf
  <1>5. k \in Nat \ {0} /\ k <= Len(s) /\ k + 1 \in B
    BY <1>1, <1>3
  <1> HIDE DEF k, t
  <1>6. C \in SUBSET (1 .. Len(t) + 1) /\ 1 \in C
    BY <1>1, <1>4, <1>5
  <1>7. ASSUME NEW b \in C, b <= Len(t)
        PROVE  t[b] >= 1 /\ b + t[b] \in C
    <2>1. b \in 1 .. Len(s) - k /\ k + b \in B /\ k + b <= Len(s)
      BY <1>1, <1>4, <1>5, <1>7
    <2>2. t[b] = s[k + b]
      BY <1>4, <2>1
    <2>3. s[k + b] >= 1 /\ (k + b) + s[k + b] \in B /\ s[k + b] \in Nat
      <3>1. k + b \in 1 .. Len(s)
        BY <1>1, <1>5, <2>1
      <3> QED BY <1>2, <2>1, <3>1, ElementOfSeq
    <2> DEFINE l == s[k + b]
    <2> HIDE DEF l
    <2>4. l \in Nat /\ l >= 1 /\ (k + b) + l \in B /\ (k + b) + l \in 1 .. Len(s) + 1
      BY <1>2, <2>3 DEF l
    <2>6. (k + b) + l = k + (b + l) /\ b + l \in 1 .. Len(s) - k + 1
      BY <1>1, <1>5, <2>1, <2>4
    <2>5. b + l \in 1 .. Len(t) + 1 /\ k + (b + l) \in B
      BY <1>4, <2>4, <2>6
    <2> QED BY <2>2, <2>4, <2>5 DEF l
  <1> HIDE DEF C
  <1>8. Whole(t)
    BY <1>6, <1>7 DEF Whole
  <1> QED BY <1>1, <1>5, <1>8 DEF k, t

-----------------------------------------------------------------------------
(* The client and the other server.                                        *)

\* What was sent on this connection and not delivered begins with a frame.
InvWhole == Whole(expect)

\* While no connection began inside of a frame, the input and the wire hold what was sent
\* and not delivered, all of it as long as the connection lasts.
InvStream ==
  ~torn => /\ relay # "dead"
           /\ Len(input) + Len(wire) <= Len(expect)
           /\ \A i \in 1 .. Len(input) : input[i] = expect[i]
           /\ \A i \in 1 .. Len(wire) : wire[i] = expect[Len(input) + i]
           /\ live => Len(input) + Len(wire) = Len(expect)

RelayInv == RelayTypeOK /\ InvWhole /\ InvStream

LEMMA Lengths ==
  ASSUME RelayTypeOK
  PROVE  Len(input) \in Nat /\ Len(wire) \in Nat /\ Len(expect) \in Nat
  BY LenProperties DEF RelayTypeOK

\* Steps that move no cell.
LEMMA NoCellMoves ==
  ASSUME RelayInv, RelayTypeOK', UNCHANGED <<input, wire, expect, torn, live>>,
         relay' # "dead" \/ relay' = relay
  PROVE  RelayInv'
  BY DEF RelayInv, InvWhole, InvStream

\* A connection that is closed loses the cells on their way.
LEMMA ClosedStream ==
  ASSUME RelayInv, RelayTypeOK', UNCHANGED <<input, expect, torn>>, wire' = << >>, ~live',
         relay' # "dead" \/ relay' = relay
  PROVE  RelayInv'
  <1>1. Len(wire') = 0
    BY EmptySeq
  <1> QED BY <1>1, Lengths DEF RelayInv, InvWhole, InvStream

LEMMA ServerStep ==
  ASSUME RelayInv, \/ \E f \in Frames : ServerSend(f)
                   \/ \E n \in 0 .. Len(wire) : ServerBreak(n)
  PROVE  RelayInv'
  <1>0. /\ RelayTypeOK /\ Len(input) \in Nat /\ Len(wire) \in Nat /\ Len(expect) \in Nat
        /\ wire \in Seq(Nat) /\ expect \in Seq(Nat)
    BY Lengths DEF RelayInv, RelayTypeOK
  <1>1. ASSUME NEW f \in Frames, ServerSend(f) PROVE RelayInv'
    <2>1. f \in Seq(Nat) /\ Len(f) \in Nat
      BY FrameSeq
    <2>2. /\ live /\ wire' = wire \o f /\ expect' = expect \o f
          /\ UNCHANGED <<sock, connected, evRead, evWrite, unsent, input, relay, world, live,
                         torn, breaks>>
      BY <1>1 DEF ServerSend
    <2>3. /\ wire' \in Seq(Nat) /\ Len(wire') = Len(wire) + Len(f)
          /\ \A i \in 1 .. Len(wire) + Len(f) :
               wire'[i] = IF i <= Len(wire) THEN wire[i] ELSE f[i - Len(wire)]
      BY <1>0, <2>1, <2>2, ConcatProperties
    <2>4. /\ expect' \in Seq(Nat) /\ Len(expect') = Len(expect) + Len(f)
          /\ \A i \in 1 .. Len(expect) + Len(f) :
               expect'[i] = IF i <= Len(expect) THEN expect[i] ELSE f[i - Len(expect)]
      BY <1>0, <2>1, <2>2, ConcatProperties
    <2>5. RelayTypeOK'
      BY <1>0, <2>2, <2>3, <2>4 DEF RelayTypeOK
    <2>6. InvWhole'
      BY <1>0, <2>2, WholeAndFrame DEF RelayInv, InvWhole
    <2>7. InvStream'
      <3> SUFFICES ASSUME ~torn PROVE InvStream'
        BY <2>2 DEF InvStream
      <3>0. Len(input) \in Nat /\ Len(wire) \in Nat /\ Len(expect) \in Nat /\ Len(f) \in Nat
        BY <1>0, <2>1
      <3>1. /\ relay # "dead" /\ Len(input) + Len(wire) = Len(expect)
            /\ \A i \in 1 .. Len(input) : input[i] = expect[i]
            /\ \A i \in 1 .. Len(wire) : wire[i] = expect[Len(input) + i]
        BY <2>2 DEF RelayInv, InvStream
      <3>2. Len(input) + Len(wire') = Len(expect')
        <4>1. Len(input) + Len(wire) = Len(expect)
          BY <3>1
        <4>2. Len(wire') = Len(wire) + Len(f) /\ Len(expect') = Len(expect) + Len(f)
          BY <2>3, <2>4
        <4> QED BY <3>0, <4>1, <4>2
      <3>3. ASSUME NEW i \in 1 .. Len(input) PROVE input[i] = expect'[i]
        <4>1. i \in 1 .. Len(expect) + Len(f) /\ i <= Len(expect)
          BY <1>0, <2>1, <3>1
        <4> QED BY <2>4, <3>1, <4>1
      <3>4. ASSUME NEW i \in 1 .. Len(wire') PROVE wire'[i] = expect'[Len(input) + i]
        <4>0. i \in 1 .. Len(wire) + Len(f) /\ Len(input) + Len(wire) = Len(expect)
          BY <2>3, <3>1
        <4>1. CASE i <= Len(wire)
          <5>1. /\ i \in 1 .. Len(wire) /\ i \in 1 .. Len(wire) + Len(f)
                /\ Len(input) + i \in 1 .. Len(expect) + Len(f) /\ Len(input) + i <= Len(expect)
            BY <3>0, <4>0, <4>1
          <5> QED BY <2>3, <2>4, <3>1, <4>1, <5>1
        <4>2. CASE i > Len(wire)
          <5>1. /\ i \in 1 .. Len(wire) + Len(f) /\ ~(i <= Len(wire))
                /\ Len(input) + i \in 1 .. Len(expect) + Len(f)
                /\ ~(Len(input) + i <= Len(expect))
                /\ (Len(input) + i) - Len(expect) = i - Len(wire)
            BY <3>0, <4>0, <4>2
          <5> QED BY <2>3, <2>4, <5>1
        <4> QED BY <1>0, <2>1, <4>0, <4>1, <4>2
      <3>5. Len(input') + Len(wire') = Len(expect') /\ Len(expect') \in Nat
        BY <1>0, <2>1, <2>2, <2>4, <3>2
      <3> QED BY <2>2, <3>1, <3>3, <3>4, <3>5 DEF InvStream
    <2> QED BY <2>5, <2>6, <2>7 DEF RelayInv
  <1>2. ASSUME NEW n \in 0 .. Len(wire), ServerBreak(n) PROVE RelayInv'
    <2>1. /\ live' = FALSE /\ wire' = SubSeq(wire, 1, n) /\ breaks' = breaks + 1
          /\ breaks < MaxBreaks
          /\ UNCHANGED <<sock, connected, evRead, evWrite, unsent, input, relay, world, expect,
                         torn>>
      BY <1>2 DEF ServerBreak
    <2>2. /\ wire' \in Seq(Nat) /\ Len(wire') = n
          /\ \A i \in 1 .. n : wire'[i] = wire[i]
      BY <1>0, <2>1, FirstOf
    <2>3. RelayTypeOK'
      <3>1. breaks' \in 0 .. MaxBreaks
        BY <1>0, <2>1, RelayAssumption DEF RelayTypeOK
      <3> QED BY <1>0, <2>1, <2>2, <3>1 DEF RelayTypeOK
    <2>4. InvStream'
      <3> SUFFICES ASSUME ~torn PROVE InvStream'
        BY <2>1 DEF InvStream
      <3>1. /\ relay # "dead" /\ Len(input) + Len(wire) <= Len(expect)
            /\ \A i \in 1 .. Len(input) : input[i] = expect[i]
            /\ \A i \in 1 .. Len(wire) : wire[i] = expect[Len(input) + i]
        BY DEF RelayInv, InvStream
      <3>2. Len(input') + Len(wire') <= Len(expect')
        BY <1>0, <2>1, <2>2, <3>1
      <3>3. \A i \in 1 .. Len(wire') : i \in 1 .. n /\ i \in 1 .. Len(wire)
        BY <1>0, <2>2
      <3>4. \A i \in 1 .. Len(wire') : wire'[i] = expect'[Len(input') + i]
        BY <2>1, <2>2, <3>1, <3>3
      <3> QED BY <2>1, <3>1, <3>2, <3>4 DEF InvStream
    <2> QED BY <2>1, <2>3, <2>4 DEF RelayInv, InvWhole
  <1> QED BY <1>1, <1>2

LEMMA ReadStep ==
  ASSUME RelayInv, NEW n \in 1 .. Len(wire), OnRead(n)
  PROVE  RelayInv'
  <1>0. /\ RelayTypeOK /\ Len(input) \in Nat /\ Len(wire) \in Nat /\ Len(expect) \in Nat
        /\ input \in Seq(Nat) /\ wire \in Seq(Nat)
    BY Lengths DEF RelayInv, RelayTypeOK
  <1>1. /\ relay' = "parse" /\ input' = input \o SubSeq(wire, 1, n)
        /\ wire' = SubSeq(wire, n + 1, Len(wire))
        /\ UNCHANGED <<sock, connected, evRead, evWrite, unsent, world, live, expect, torn,
                       breaks>>
    BY DEF OnRead
  <1> DEFINE got == SubSeq(wire, 1, n)
  <1>2. got \in Seq(Nat) /\ Len(got) = n /\ \A i \in 1 .. n : got[i] = wire[i]
    BY <1>0, FirstOf
  <1>3. /\ wire' \in Seq(Nat) /\ Len(wire') = Len(wire) - n
        /\ \A i \in 1 .. Len(wire) - n : wire'[i] = wire[n + i]
    <2>1. n \in Nat /\ n <= Len(wire)
      BY <1>0
    <2> QED BY <1>0, <1>1, <2>1, RestOf
  <1> HIDE DEF got
  <1>4. /\ input' \in Seq(Nat) /\ Len(input') = Len(input) + n
        /\ \A i \in 1 .. Len(input) + n :
             input'[i] = IF i <= Len(input) THEN input[i] ELSE got[i - Len(input)]
    <2>1. input' = input \o got
      BY <1>1 DEF got
    <2>2. /\ input \o got \in Seq(Nat) /\ Len(input \o got) = Len(input) + Len(got)
          /\ \A i \in 1 .. Len(input) + Len(got) :
               (input \o got)[i] = IF i <= Len(input) THEN input[i] ELSE got[i - Len(input)]
      BY <1>0, <1>2, ConcatProperties
    <2>3. Len(got) = n
      BY <1>2
    <2> HIDE <1>2
    <2> QED BY <2>1, <2>2, <2>3
  <1>5. RelayTypeOK'
    BY <1>0, <1>1, <1>3, <1>4 DEF RelayTypeOK
  <1>6. InvStream'
    <2> SUFFICES ASSUME ~torn PROVE InvStream'
      BY <1>1 DEF InvStream
    <2>1. /\ Len(input) + Len(wire) <= Len(expect)
          /\ \A i \in 1 .. Len(input) : input[i] = expect[i]
          /\ \A i \in 1 .. Len(wire) : wire[i] = expect[Len(input) + i]
          /\ live => Len(input) + Len(wire) = Len(expect)
      BY DEF RelayInv, InvStream
    <2>2. ASSUME NEW i \in 1 .. Len(input') PROVE input'[i] = expect[i]
      <3>1. CASE i <= Len(input)
        <4>1. i \in 1 .. Len(input) /\ i \in 1 .. Len(input) + n
          BY <1>0, <1>4, <3>1
        <4> QED BY <1>4, <2>1, <3>1, <4>1
      <3>2. CASE i > Len(input)
        <4>1. /\ i \in 1 .. Len(input) + n /\ ~(i <= Len(input))
              /\ i - Len(input) \in 1 .. n /\ i - Len(input) \in 1 .. Len(wire)
              /\ Len(input) + (i - Len(input)) = i
          BY <1>0, <1>4, <3>2
        <4>2. input'[i] = got[i - Len(input)]
          BY <1>4, <4>1, Zenon
        <4>3. got[i - Len(input)] = wire[i - Len(input)]
          BY <1>2, <4>1, Zenon
        <4>4. wire[i - Len(input)] = expect[Len(input) + (i - Len(input))]
          BY <2>1, <4>1, Zenon
        <4> QED BY <4>1, <4>2, <4>3, <4>4, Zenon
      <3> QED BY <1>0, <1>4, <3>1, <3>2
    <2>3. ASSUME NEW i \in 1 .. Len(wire') PROVE wire'[i] = expect[Len(input') + i]
      <3>1. /\ i \in 1 .. Len(wire) - n /\ n + i \in 1 .. Len(wire)
            /\ Len(input) + (n + i) = Len(input') + i
        BY <1>0, <1>3, <1>4
      <3> QED BY <1>3, <2>1, <3>1
    <2>4. Len(input') + Len(wire') = Len(input) + Len(wire)
      BY <1>0, <1>3, <1>4
    <2> QED BY <1>1, <2>1, <2>2, <2>3, <2>4 DEF InvStream
  <1> QED BY <1>1, <1>5, <1>6 DEF RelayInv, InvWhole

\* The parser and the other server agree where the first frame ends.
LEMMA ParseStep ==
  ASSUME RelayInv, Parse
  PROVE  RelayInv'
  <1>0. /\ RelayTypeOK /\ Len(input) \in Nat /\ Len(wire) \in Nat /\ Len(expect) \in Nat
        /\ input \in Seq(Nat) /\ wire \in Seq(Nat) /\ expect \in Seq(Nat) /\ Whole(expect)
    BY Lengths DEF RelayInv, RelayTypeOK, InvWhole
  <1>1. /\ relay = "parse" /\ input # << >> /\ Head(input) <= Len(input)
        /\ UNCHANGED <<sock, connected, evRead, evWrite, unsent, world, live, wire, torn, breaks>>
    BY DEF Parse, Complete
  <1>2. Len(input) # 0 /\ Head(input) = input[1] /\ input[1] \in Nat
    <2>1. Len(input) # 0
      BY <1>0, <1>1, EmptySeq
    <2> QED BY <1>0, <2>1, ElementOfSeq
  <1>3. ~torn => input[1] = expect[1] /\ expect # << >>
    <2> SUFFICES ASSUME ~torn PROVE input[1] = expect[1] /\ Len(expect) # 0
      BY <1>0, EmptySeq
    <2> QED BY <1>0, <1>2 DEF RelayInv, InvStream
  <1>4. CASE Head(input) = 0
    <2>1. relay' = "dead" /\ UNCHANGED <<input, expect>>
      BY <1>4 DEF Parse
    <2>2. torn
      BY <1>0, <1>2, <1>3, <1>4, WholeWithoutFirst
    <2>3. RelayTypeOK'
      BY <1>0, <1>1, <2>1 DEF RelayTypeOK
    <2> QED BY <1>1, <2>1, <2>2, <2>3 DEF RelayInv, InvWhole, InvStream
  <1>5. CASE Head(input) # 0
    <2> DEFINE k == input[1]
    <2>1. /\ input' = SubSeq(input, k + 1, Len(input)) /\ relay' = relay
          /\ expect' = IF expect = << >> THEN << >>
                       ELSE SubSeq(expect, Head(expect) + 1, Len(expect))
      BY <1>2, <1>5 DEF Parse, Skipped
    <2>2. k \in Nat /\ k <= Len(input)
      BY <1>1, <1>2
    <2>3. /\ input' \in Seq(Nat) /\ Len(input') = Len(input) - k
          /\ \A i \in 1 .. Len(input) - k : input'[i] = input[k + i]
      BY <1>0, <2>1, <2>2, RestOf
    <2>4. expect' \in Seq(Nat) /\ Whole(expect')
      <3>1. CASE expect = << >>
        BY <2>1, <3>1, EmptyIsWhole, EmptySeq
      <3>2. CASE expect # << >>
        <4>1. /\ expect[1] \in Nat /\ expect[1] <= Len(expect) /\ Head(expect) = expect[1]
              /\ Whole(SubSeq(expect, expect[1] + 1, Len(expect)))
          BY <1>0, <3>2, WholeWithoutFirst
        <4>2. expect' = SubSeq(expect, expect[1] + 1, Len(expect))
          BY <2>1, <3>2, <4>1
        <4> QED BY <1>0, <4>1, <4>2, RestOf
      <3> QED BY <3>1, <3>2
    <2>5. RelayTypeOK'
      BY <1>0, <1>1, <2>1, <2>3, <2>4 DEF RelayTypeOK
    <2>6. InvStream'
      <3> SUFFICES ASSUME ~torn PROVE InvStream'
        BY <1>1 DEF InvStream
      <3>1. /\ relay # "dead" /\ Len(input) + Len(wire) <= Len(expect)
            /\ \A i \in 1 .. Len(input) : input[i] = expect[i]
            /\ \A i \in 1 .. Len(wire) : wire[i] = expect[Len(input) + i]
            /\ live => Len(input) + Len(wire) = Len(expect)
        BY DEF RelayInv, InvStream
      <3>2. expect # << >> /\ expect[1] = k /\ Head(expect) = k /\ k <= Len(expect)
        BY <1>0, <1>3, WholeWithoutFirst
      <3>3. /\ Len(expect') = Len(expect) - k
            /\ \A i \in 1 .. Len(expect) - k : expect'[i] = expect[k + i]
        <4>1. expect' = SubSeq(expect, k + 1, Len(expect))
          BY <2>1, <3>2
        <4> QED BY <1>0, <2>2, <3>2, <4>1, RestOf
      <3> HIDE DEF k
      <3>4. ASSUME NEW i \in 1 .. Len(input') PROVE input'[i] = expect'[i]
        <4>1. i \in 1 .. Len(input) - k /\ k + i \in 1 .. Len(input) /\ i \in 1 .. Len(expect) - k
          BY <1>0, <2>2, <2>3, <3>1
        <4> QED BY <2>3, <3>1, <3>3, <4>1
      <3>5. ASSUME NEW i \in 1 .. Len(wire') PROVE wire'[i] = expect'[Len(input') + i]
        <4>1. /\ i \in 1 .. Len(wire) /\ Len(input') + i \in 1 .. Len(expect) - k
              /\ k + (Len(input') + i) = Len(input) + i
          <5>1. i \in 1 .. Len(wire) /\ Len(input') = Len(input) - k
            BY <1>1, <2>3
          <5>2. Len(input) + Len(wire) <= Len(expect)
            BY <3>1
          <5>3. /\ Len(input) \in Nat /\ Len(wire) \in Nat /\ Len(expect) \in Nat
                /\ k \in Nat /\ k <= Len(input)
            BY <1>0, <2>2
          <5> QED BY <5>1, <5>2, <5>3
        <4> QED BY <1>1, <3>1, <3>3, <4>1
      <3>6. /\ Len(input') + Len(wire') <= Len(expect')
            /\ live' => Len(input') + Len(wire') = Len(expect')
        BY <1>0, <1>1, <2>2, <2>3, <3>1, <3>3
      <3> QED BY <2>1, <3>1, <3>4, <3>5, <3>6 DEF InvStream
    <2> QED BY <2>4, <2>5, <2>6 DEF RelayInv, InvWhole
  <1> QED BY <1>4, <1>5

\* A new connection.
LEMMA ConnectStep ==
  ASSUME RelayInv, Connect
  PROVE  RelayInv'
  <1>1. /\ wire' = << >> /\ expect' = << >> /\ torn' = (torn \/ input # << >>)
        /\ input' = input /\ relay' = "connected"
    BY DEF Connect
  <1>2. << >> \in Seq(Nat) /\ Len(<< >>) = 0
    BY EmptySeq
  <1>3. RelayTypeOK'
    BY <1>1, <1>2 DEF RelayInv, RelayTypeOK, Connect
  <1>4. InvWhole'
    BY <1>1, EmptyIsWhole DEF InvWhole
  <1>5. InvStream'
    <2> SUFFICES ASSUME ~torn' PROVE InvStream'
      BY DEF InvStream
    <2>1. Len(input') = 0 /\ Len(wire') = 0 /\ Len(expect') = 0
      BY <1>1, <1>2
    <2> QED BY <1>1, <2>1 DEF InvStream
  <1> QED BY <1>3, <1>4, <1>5 DEF RelayInv

\* The steps of the relay thread and of SendPacket that move no cell.
LEMMA QuietStep ==
  ASSUME RelayInv, OnTimer \/ SetConnected \/ ParseEnd \/ OnWrite \/ SendPacket
                   \/ SendQueue \/ SendEvent
  PROVE  RelayInv'
  <1>1. RelayTypeOK'
    <2>1. CASE OnTimer
      BY <2>1 DEF RelayInv, RelayTypeOK, OnTimer
    <2>2. CASE SetConnected
      BY <2>2 DEF RelayInv, RelayTypeOK, SetConnected
    <2>3. CASE ParseEnd
      BY <2>3 DEF RelayInv, RelayTypeOK, ParseEnd
    <2>4. CASE OnWrite
      BY <2>4 DEF RelayInv, RelayTypeOK, OnWrite
    <2>5. CASE SendPacket
      BY <2>5 DEF RelayInv, RelayTypeOK, SendPacket
    <2>6. CASE SendQueue
      BY <2>6 DEF RelayInv, RelayTypeOK, SendQueue
    <2>7. CASE SendEvent
      BY <2>7 DEF RelayInv, RelayTypeOK, SendEvent
    <2> QED  BY <2>1, <2>2, <2>3, <2>4, <2>5, <2>6, <2>7, Zenon
  <1>2. /\ UNCHANGED <<input, wire, expect, torn, live>>
        /\ relay' # "dead" \/ relay' = relay
    BY DEF OnTimer, SetConnected, ParseEnd, OnWrite, SendPacket, SendQueue, SendEvent
  <1> QED BY <1>1, <1>2, NoCellMoves

\* The steps that close the connection.
LEMMA CloseStep ==
  ASSUME RelayInv, ConnectFails \/ ReadEnd \/ WriteError \/ SendClose
  PROVE  RelayInv'
  <1>1. << >> \in Seq(Nat)
    BY EmptySeq
  <1>2. RelayTypeOK'
    <2>1. breaks' \in 0 .. MaxBreaks
      BY RelayAssumption DEF RelayInv, RelayTypeOK, ConnectFails, ReadEnd, WriteError, SendClose
    <2>2. relay' \in {"loop", "parse", "connect", "connected", "dead"}
      BY DEF RelayInv, RelayTypeOK, ConnectFails, ReadEnd, WriteError, SendClose
    <2>3. world' \in {"idle", "queue", "event", "close"}
      BY DEF RelayInv, RelayTypeOK, ConnectFails, ReadEnd, WriteError, SendClose
    <2>4. /\ sock' = "closed" /\ connected' = FALSE /\ evRead' = FALSE /\ evWrite' = FALSE
          /\ live' = FALSE /\ wire' = << >> /\ UNCHANGED <<unsent, input, expect, torn>>
      BY DEF ConnectFails, ReadEnd, WriteError, SendClose, CloseClient, ClosedFlag
    <2> QED BY <1>1, <2>1, <2>2, <2>3, <2>4 DEF RelayInv, RelayTypeOK
  <1>3. /\ UNCHANGED <<input, expect, torn>> /\ wire' = << >> /\ ~live'
        /\ relay' # "dead" \/ relay' = relay
    BY DEF ConnectFails, ReadEnd, WriteError, SendClose, CloseClient
  <1> QED BY <1>2, <1>3, ClosedStream

LEMMA RelayInitInv == RelayInit => RelayInv
  <1> SUFFICES ASSUME RelayInit PROVE RelayInv
    OBVIOUS
  <1>1. << >> \in Seq(Nat) /\ Len(<< >>) = 0
    BY EmptySeq
  <1>2. RelayTypeOK
    <2>1. breaks \in 0 .. MaxBreaks
      BY RelayAssumption DEF RelayInit
    <2> QED BY <1>1, <2>1, Zenon DEF RelayInit, RelayTypeOK
  <1>3. InvWhole /\ InvStream
    BY <1>1, EmptyIsWhole DEF RelayInit, InvWhole, InvStream
  <1> QED BY <1>2, <1>3 DEF RelayInv

LEMMA RelayInvNext == RelayInv /\ [RelayNext]_relayVars => RelayInv'
  <1> SUFFICES ASSUME RelayInv, [RelayNext]_relayVars PROVE RelayInv'
    OBVIOUS
  <1>1. CASE UNCHANGED relayVars
    BY <1>1 DEF relayVars, RelayInv, RelayTypeOK, InvWhole, InvStream
  <1>2. CASE RelayNext
    BY <1>2, ServerStep, ReadStep, ParseStep, ConnectStep, QuietStep, CloseStep
       DEF RelayNext, RelayThread, SendGoesOn
  <1> QED BY <1>1, <1>2

LEMMA RelayInvariant == RelaySpec => []RelayInv
  BY RelayInitInv, RelayInvNext, PTL DEF RelaySpec

\* The variables of a connection to another server are well typed.
THEOREM RelayTypeCorrect == RelaySpec => []RelayTypeOK
  <1>1. RelayInv => RelayTypeOK
    BY DEF RelayInv
  <1> QED BY <1>1, RelayInvariant, PTL

\* However the cells of a connection are cut up, and whenever the world thread closes it,
\* the loop of OnRead (Client.cpp) delivers the frames that were sent, in that order, and
\* finds no frame shorter than its header, unless an earlier connection was lost inside
\* of a frame.
THEOREM FramesStayIntact == RelaySpec => []FramesIntact
  <1>1. ASSUME RelayInv, ~torn
        PROVE  /\ relay # "dead" /\ Len(input \o wire) <= Len(expect)
               /\ input \o wire = SubSeq(expect, 1, Len(input \o wire))
    <2>0. /\ Len(input) \in Nat /\ Len(wire) \in Nat /\ Len(expect) \in Nat
          /\ input \in Seq(Nat) /\ wire \in Seq(Nat) /\ expect \in Seq(Nat)
      BY <1>1, Lengths DEF RelayInv, RelayTypeOK
    <2>1. /\ relay # "dead" /\ Len(input) + Len(wire) <= Len(expect)
          /\ \A i \in 1 .. Len(input) : input[i] = expect[i]
          /\ \A i \in 1 .. Len(wire) : wire[i] = expect[Len(input) + i]
      BY <1>1 DEF RelayInv, InvStream
    <2> DEFINE all == input \o wire
    <2>2. /\ all \in Seq(Nat) /\ Len(all) = Len(input) + Len(wire)
          /\ \A i \in 1 .. Len(input) + Len(wire) :
               all[i] = IF i <= Len(input) THEN input[i] ELSE wire[i - Len(input)]
      BY <2>0, ConcatProperties
    <2> HIDE DEF all
    <2>3. ASSUME NEW i \in 1 .. Len(all) PROVE all[i] = expect[i]
      <3>1. CASE i <= Len(input)
        <4>1. i \in 1 .. Len(input) /\ i \in 1 .. Len(input) + Len(wire)
          BY <2>0, <2>2, <3>1
        <4> QED BY <2>1, <2>2, <3>1, <4>1
      <3>2. CASE i > Len(input)
        <4>1. i - Len(input) \in 1 .. Len(wire) /\ Len(input) + (i - Len(input)) = i
          BY <2>0, <2>2, <3>2
        <4>2. all[i] = wire[i - Len(input)]
          BY <2>0, <2>2, <3>2
        <4> QED BY <2>1, <4>1, <4>2
      <3> QED BY <2>0, <2>2, <3>1, <3>2
    <2>4. Len(all) \in 0 .. Len(expect)
      BY <2>0, <2>1, <2>2
    <2>5. /\ SubSeq(expect, 1, Len(all)) \in Seq(Nat)
          /\ Len(SubSeq(expect, 1, Len(all))) = Len(all)
          /\ \A i \in 1 .. Len(all) : SubSeq(expect, 1, Len(all))[i] = expect[i]
      BY <2>0, <2>4, FirstOf
    <2>6. all = SubSeq(expect, 1, Len(all))
      BY <2>2, <2>3, <2>5, SeqEqual
    <2> QED BY <2>1, <2>4, <2>6 DEF all
  <1>2. RelayInv => FramesIntact
    BY <1>1 DEF FramesIntact
  <1> QED BY <1>2, RelayInvariant, PTL
=============================================================================
