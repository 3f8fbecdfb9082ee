----------------------------- MODULE ImageProofs -----------------------------
(***************************************************************************)
(* What becomes of the image in the global memory, if the memory holds it  *)
(* and the end flag starts cleared: every word is decrypted once,          *)
(* with its own byte of the key stream, and the GPU rotates the image the  *)
(* tool was given.  ContentInv says for each phase of the device           *)
(* (StageProofs) what the words of the image are.                          *)
(***************************************************************************)
EXTENDS StageProofs

-----------------------------------------------------------------------------
(* The file. *)

\* The key stream is the one NextKey generates.
LEMMA KeyType ==
    /\ Key[0] = KSA
    /\ \A n \in Nat : Key[n] \in Rc4State /\ Key[n + 1] = NextKey(Key[n])
<1> DEFINE S == Rc4State
           g == [c \in Nat \X S |-> NextKey(c[2])]
           Sequence(f) == [n \in Nat |-> IF n = 0 THEN KSA ELSE NextKey(f[n - 1])]
<1>1. KSA \in S /\ \A r \in S : NextKey(r) \in S
  BY KeyScheduleType, NextKeyType
<1> HIDE DEF S
<1>2. g \in [Nat \X S -> S]
  BY <1>1
<1>3. \A n \in Nat, r \in S : g[<<n, r>>] = NextKey(r)
  OBVIOUS
<1> HIDE DEF g
<1>4. PICK f : IsSequence(f, S, KSA, g)
  BY <1>1, <1>2, SequenceExists DEF Steps
<1>5. f = [n \in Nat |-> f[n]]
  BY <1>4 DEF IsSequence
<1>6. \A n \in Nat : f[n] = IF n = 0 THEN KSA ELSE NextKey(f[n - 1])
  <2> SUFFICES ASSUME NEW n \in Nat, n # 0 PROVE f[n] = NextKey(f[n - 1])
    BY <1>4 DEF IsSequence
  <2>1. n - 1 \in Nat /\ (n - 1) + 1 = n
    OBVIOUS
  <2>2. f[n] = g[<<n - 1, f[n - 1]>>] /\ f[n - 1] \in S
    BY <1>4, <2>1 DEF IsSequence
  <2> QED
    BY <1>3, <2>1, <2>2
<1>7. f = Sequence(f)
  BY <1>5, <1>6
<1>8. Key = Sequence(Key)
  <2>1. \E f_1 : f_1 = Sequence(f_1)
    BY <1>7
  <2> QED
    BY <2>1 DEF Key
<1>9. \A n \in Nat : Key[n] = IF n = 0 THEN KSA ELSE NextKey(Key[n - 1])
  BY <1>8
<1>10. ASSUME NEW n \in Nat PROVE Key[n + 1] = NextKey(Key[n])
  <2>1. n + 1 \in Nat /\ n + 1 # 0 /\ (n + 1) - 1 = n
    OBVIOUS
  <2> QED
    BY <1>9, <2>1
<1> DEFINE T == {n \in Nat : Key[n] \in S}
<1>11. 0 \in T
  BY <1>1, <1>9
<1>12. ASSUME NEW n \in Nat, n \in T PROVE n + 1 \in T
  BY <1>1, <1>10, <1>12
<1> HIDE DEF T
<1>13. Nat \subseteq T
  BY <1>11, <1>12, InductionOnSets
<1> QED
  BY <1>9, <1>10, <1>13 DEF T, S

\* The lines of the file are the words of the image, each encrypted with
\* its byte of the key stream, and all of them are valid.
LEMMA FileLines ==
    /\ Len(Image) \in Nat /\ Len(Lines) = Len(Image)
    /\ \A n \in 1..Len(Image) :
          /\ Image[n] \in Word /\ Lines[n].pixel \in Word
          /\ Lines[n].pixel = XorWord(Image[n], KeyByte(Key[n]))
          /\ XorWord(Lines[n].pixel, KeyByte(Key[n])) = Image[n]
          /\ ValidLine(Lines[n])
<1>1. /\ Image \in Seq(Word) /\ Len(Image) \in Nat
      /\ Lines \in Seq(Line) /\ Len(Lines) \in Nat
  BY FileAssumption, LinesAssumption
<1>2. Lines = [n \in 1..Len(Image) |-> [crc   |-> Sha(Encrypted(Image)[n]),
                                        pixel |-> Encrypted(Image)[n]]]
  BY FileAssumption DEF File
<1>3. Len(Lines) = Len(Image)
  <2>1. DOMAIN Lines = 1..Len(Image)
    BY <1>2
  <2>2. DOMAIN Lines = 1..Len(Lines)
    BY <1>1
  <2> QED
    BY <1>1, <2>1, <2>2
<1>4. ASSUME NEW n \in 1..Len(Image)
      PROVE  /\ Image[n] \in Word
             /\ Lines[n].pixel = Encrypted(Image)[n]
             /\ Lines[n].crc = Sha(Encrypted(Image)[n])
             /\ Encrypted(Image)[n] = XorWord(Image[n], KeyByte(Key[n]))
  BY <1>1, <1>2 DEF Encrypted
<1>5. ASSUME NEW n \in 1..Len(Image) PROVE KeyByte(Key[n]) \in Byte
  <2>1. n \in Nat
    BY <1>1
  <2> QED
    BY <2>1, KeyType, KeyByteType
<1> QED
  BY <1>1, <1>3, <1>4, <1>5, XorTwice DEF ValidLine

-----------------------------------------------------------------------------
(* The words of the image. *)

\* The memory holds the image.
Fits == WordOf(Len(Lines)) <= MemoryEnd

ImageEnd == WordOf(Len(Lines) + 1)

Received == \A n \in 1..Len(Lines) : mem[WordOf(n)] = Lines[n].pixel

\* The first m words are decrypted, the others are not.
Swept(m) ==
    \A n \in 1..Len(Lines) :
        mem[WordOf(n)] = IF n <= m THEN Plain(n) ELSE Lines[n].pixel

Whole == Swept(Len(Lines))

\* Only the announcement ends the time in which nothing is announced.
AnnounceInv == mem[ImageBeginAddr] = 0 \/ comPc \in {"begin", "range"} \/ Done

ReceivedInv ==
    /\ comPc \in {"begin", "range"} \/ mem[CryptoOpflag] = 1
          \/ encPc \in {"clear", "begin", "range"} => Received
    /\ comPc = "range" \/ mem[CryptoOpflag] = 1 \/ encPc \in {"clear", "begin"}
          => mem[ImageEndAddr] = ImageEnd
    /\ encPc \in {"range", "read", "write"} => read_end = ImageEnd

\* PRGA is at word m with the m-th state of the key stream.
SweepInv ==
    encPc \in {"read", "write"} =>
        \E m \in 1..Len(Lines) :
            /\ w = WordOf(m) /\ rc4 = Key[m]
            /\ encPc = "read" => mydata = Lines[m].pixel /\ Swept(m - 1)
            /\ encPc = "write" => Swept(m)

\* The GPU's flag is up while it works, and until the header is changed the
\* image is the one the tool was given.
PlainInv ==
    /\ GpuAtWork => mem[GpuOpflag] = 1
    /\ mem[GpuOpflag] = 1 /\ gpuPc \notin {"newWidth", "newHeight", "write"} => Whole

ContentInv == AnnounceInv /\ ReceivedInv /\ SweepInv /\ PlainInv

-----------------------------------------------------------------------------

LEMMA WordAddresses ==
    ASSUME Fits
    PROVE  /\ \A n \in 1..Len(Lines) :
                 WordOf(n) \in GlobalAddr /\ WordOf(n) \in Int /\ WordOf(n) >= 16
           /\ \A m, n \in 1..Len(Lines) : WordOf(m) = WordOf(n) => m = n
<1>1. Len(Lines) \in Nat /\ MemoryEnd \in Nat
  BY LinesAssumption, WiringAssumption
<1>2. ASSUME NEW n \in 1..Len(Lines) PROVE WordOf(n) \in GlobalAddr
  <2>1. WordOf(n) = 4 * (n + 3) /\ n + 3 \in Nat
    BY <1>1 DEF WordOf
  <2>2. 4 * (n + 3) <= MemoryEnd
    BY <1>1 DEF WordOf, Fits
  <2>3. n + 3 <= MemoryEnd \div 4
    BY <1>1, <2>1, <2>2
  <2> QED
    BY <1>1, <2>1, <2>3 DEF GlobalAddr
<1>3. ASSUME NEW n \in 1..Len(Lines) PROVE WordOf(n) \in Int /\ WordOf(n) >= 16
  BY <1>1 DEF WordOf
<1>4. \A m, n \in 1..Len(Lines) : WordOf(m) = WordOf(n) => m = n
  BY <1>1 DEF WordOf
<1> QED
  BY <1>2, <1>3, <1>4

\* The flags and the range are no words of the image.
LEMMA FlagsApart ==
    ASSUME Fits, NEW n \in 1..Len(Lines)
    PROVE  WordOf(n) \notin {ImageBeginAddr, ImageEndAddr, CryptoOpflag, GpuOpflag}
BY WordAddresses, FlagAddresses

\* A write to another address than those of the image.
LEMMA ContentStays ==
    ASSUME Fits, MemTypeOK, NEW a \in {ImageBeginAddr, ImageEndAddr,
                                       CryptoOpflag, GpuOpflag},
           NEW v, DirectWrite(a, v)
    PROVE  /\ \A n \in 1..Len(Lines) : mem'[WordOf(n)] = mem[WordOf(n)]
           /\ Received <=> Received'
           /\ \A m : Swept(m) <=> Swept(m)'
<1>1. \A n \in 1..Len(Lines) : mem'[WordOf(n)] = mem[WordOf(n)]
  BY DirectWritten, FlagsApart, WordAddresses
<1> QED
  BY <1>1 DEF Received, Swept, Plain

LEMMA PlaceOf ==
    ASSUME NEW n \in 0..Len(Lines)
    PROVE  Place(n) = 12 + 4 * n
<1>1. Len(Lines) \in Nat /\ n \in Nat
  BY LinesAssumption
<1>2. \A m \in 1..n : ValidLine(Lines[m])
  BY <1>1, FileLines
<1>3. ValidLines(n) = 1..n
  BY <1>2 DEF ValidLines
<1>4. Cardinality(1..n) = n
  BY <1>1, FS_Interval
<1> QED
  BY <1>3, <1>4 DEF Place

\* At the end of the file the pixels end where the image does.
LEMMA EndOfImage ==
    ASSUME KeptInv, Ended
    PROVE  memory_idx = ImageEnd
<1>1. LinesTaken = Len(Lines) /\ Len(Lines) \in Nat
  BY LinesAssumption DEF Ended, LinesTaken, LinesPut, SlotFull
<1>2. Place(Len(Lines)) = 12 + 4 * Len(Lines)
  BY <1>1, PlaceOf
<1> QED
  BY <1>1, <1>2 DEF KeptInv, ImageEnd, WordOf

\* What was stored in order is the image.
LEMMA StoredIsReceived ==
    ASSUME Fits, KeptInv, Ended, StoredInOrder, mem[ImageBeginAddr] = 0,
           comPc = "end"
    PROVE  Received
<1> SUFFICES ASSUME NEW n \in 1..Len(Lines)
             PROVE  mem[WordOf(n)] = Lines[n].pixel
  BY DEF Received
<1>1. Len(Lines) \in Nat /\ n \in Int
  BY LinesAssumption
<1>2. WordOf(n) \in GlobalAddr /\ WordOf(n) >= 16
  BY WordAddresses
<1>3. WordOf(n) < StoredEnd
  BY <1>1, EndOfImage DEF StoredEnd, ImageEnd, WordOf
<1>4. PICK m \in ValidLines(Len(Lines)) :
          Place(m) = WordOf(n) /\ mem[WordOf(n)] = Lines[m].pixel
  BY <1>2, <1>3 DEF StoredInOrder
<1>5. m \in 0..Len(Lines) /\ m \in Int
  BY <1>1 DEF ValidLines
<1>6. m = n
  BY <1>1, <1>4, <1>5, PlaceOf DEF WordOf
<1> QED
  BY <1>4, <1>6

-----------------------------------------------------------------------------
(* The steps. *)

\* A step that changes no word, and nothing the invariant speaks of.
LEMMA ContentIdle ==
    ASSUME TypeInv, ContentInv, [Next]_vars,
           UNCHANGED <<mem, comVars, encVars, gpuVars>>
    PROVE  ContentInv'
<1>1. Done => Done'
  BY DoneStays
<1>2. AnnounceInv'
  BY <1>1 DEF ContentInv, AnnounceInv, comVars
<1>3. ReceivedInv'
  BY DEF ContentInv, ReceivedInv, Received, comVars, encVars
<1>4. SweepInv'
  BY DEF ContentInv, SweepInv, Swept, Plain, encVars
<1>5. PlainInv'
  BY DEF ContentInv, PlainInv, GpuAtWork, Whole, Swept, Plain, gpuVars
<1> QED
  BY <1>2, <1>3, <1>4, <1>5 DEF ContentInv

\* Without an announcement no other thread is at work.
LEMMA NotDone ==
    ASSUME StageInv, ~Done
    PROVE  Before
BY DEF StageInv, Phases, Announced, Decrypting, Decrypted

\* A step of the communication module that leaves the other threads polling.
LEMMA ContentQuiet ==
    ASSUME Quiet, UNCHANGED <<encVars, gpuVars>>,
           mem'[GpuOpflag] # 1, AnnounceInv', ReceivedInv'
    PROVE  ContentInv'
<1>1. encPc' \in {"start", "poll"} /\ gpuPc' \in {"start", "poll"} /\ start' # 1
  BY DEF Quiet, encVars, gpuVars
<1>2. SweepInv'
  BY <1>1 DEF SweepInv
<1>3. PlainInv'
  BY <1>1 DEF PlainInv, GpuAtWork
<1> QED
  BY <1>2, <1>3 DEF ContentInv

LEMMA CommunicationContent ==
    ASSUME Fits, TypeInv, LinkInv, KeptInv, StageInv, StoredInOrder, ContentInv,
           CommunicationStep
    PROVE  ContentInv'
<1>1. UNCHANGED <<genVars, encVars, gpuVars>> /\ [Next]_vars /\ MemTypeOK
  BY DEF CommunicationStep, Next, TypeInv, TypeOK
<1>2. CASE Done
  <2>1. Done' /\ UNCHANGED mem
    BY <1>1, <1>2, DoneStays
  <2>2. comPc \notin {"begin", "range"} /\ comPc' \notin {"begin", "range"}
    BY <1>2, <2>1 DEF Done
  <2>3. AnnounceInv'
    BY <2>1 DEF AnnounceInv
  <2>4. ReceivedInv'
    BY <1>1, <2>1, <2>2 DEF ContentInv, ReceivedInv, Received, encVars
  <2>5. SweepInv'
    BY <1>1, <2>1 DEF ContentInv, SweepInv, Swept, Plain, encVars
  <2>6. PlainInv'
    BY <1>1, <2>1 DEF ContentInv, PlainInv, GpuAtWork, Whole, Swept, Plain, gpuVars
  <2> QED
    BY <2>3, <2>4, <2>5, <2>6 DEF ContentInv
<1>3. CASE ~Done
  <2>1. Quiet /\ comPc \notin {"crypto", "finish"}
    BY <1>3, NotDone DEF Before
  <2>2. encPc \in {"start", "poll"} /\ UNCHANGED encPc
    BY <1>1, <2>1 DEF Quiet, encVars
  <2>3. memory_idx \in Int /\ memory_idx >= 16
    BY DEF TypeInv, TypeOK, CommunicationTypeOK
  <2>4. AnnounceInv
    BY DEF ContentInv
  <2>5. CASE ComStart
    <3>1. mem' = [mem EXCEPT ![CryptoOpflag] = 0, ![GpuOpflag] = 0]
      BY <2>5 DEF ComStart
    <3>2. /\ comPc = "start" /\ comPc' = "end"
          /\ mem'[CryptoOpflag] # 1 /\ mem'[GpuOpflag] # 1
          /\ mem'[ImageBeginAddr] = mem[ImageBeginAddr]
      BY <1>1, <2>5, <3>1, FlagAddresses DEF ComStart, ComReady, ComGoto, MemTypeOK
    <3> QED
      BY <1>1, <1>3, <2>1, <2>2, <2>4, <3>2, ContentQuiet
      DEF AnnounceInv, ReceivedInv
  <2>6. CASE ComPoll \/ ComReadOpflag \/ ComReceiveWord \/ ComRelease
    <3>1. /\ comPc \notin {"begin", "range"} /\ UNCHANGED mem
          /\ comPc' \in {"end", "op", "receive", "ack"}
      BY <2>1, <2>6
      DEF ComPoll, ComReadOpflag, ComReceiveWord, ComRelease, ComReady,
          ComGoto, PacketReceived
    <3> QED
      BY <1>1, <1>3, <2>1, <2>2, <2>4, <3>1, ContentQuiet
      DEF AnnounceInv, ReceivedInv, Quiet
  <2>7. CASE ComStorePixel
    <3>1. /\ comPc = "receive" /\ comPc' = "store"
          /\ DirectWrite(memory_idx, packet[PacketWords])
      BY <2>7 DEF ComStorePixel, ComReady, ComGoto, PacketReceived
    <3>2. /\ mem'[CryptoOpflag] = mem[CryptoOpflag]
          /\ mem'[GpuOpflag] = mem[GpuOpflag]
          /\ mem'[ImageBeginAddr] = mem[ImageBeginAddr]
      BY <1>1, <2>3, <3>1, WrittenBehind
    <3> QED
      BY <1>1, <1>3, <2>1, <2>2, <2>4, <3>1, <3>2, ContentQuiet
      DEF AnnounceInv, ReceivedInv, Quiet
  <2>8. CASE ComSaveBegin
    <3>1. /\ comPc = "end" /\ comPc' = "begin" /\ read_en # 0
          /\ DirectWrite(ImageBeginAddr, 16)
      BY <2>8
      DEF ComSaveBegin, ComReady, ComGoto, ComOpflag, ImageBeginAddr, ComMemoryBegin
    <3>2. Ended /\ mem[ImageBeginAddr] = 0
      BY <1>3, <2>4, <3>1 DEF StageInv, EndInv, AnnounceInv
    <3>3. Received
      BY <3>1, <3>2, StoredIsReceived
    <3>4. Received'
      BY <1>1, <3>1, <3>3, ContentStays
    <3>5. /\ mem'[CryptoOpflag] = mem[CryptoOpflag]
          /\ mem'[GpuOpflag] = mem[GpuOpflag]
      BY <1>1, <3>1, DirectWritten, FlagAddresses
    <3> QED
      BY <1>1, <2>1, <2>2, <3>1, <3>4, <3>5, ContentQuiet
      DEF AnnounceInv, ReceivedInv, Quiet
  <2>9. CASE ComSaveEnd
    <3>1. /\ comPc = "begin" /\ comPc' = "range"
          /\ DirectWrite(ImageEndAddr, memory_idx)
      BY <2>9 DEF ComSaveEnd, ComReady, ComGoto, ComEndOpflag, ImageEndAddr
    <3>2. memory_idx = ImageEnd
      BY <3>1, EndOfImage DEF StageInv, EndInv, Announcing
    <3>3. Received'
      BY <1>1, <3>1, ContentStays DEF ContentInv, ReceivedInv
    <3>4. /\ mem'[CryptoOpflag] = mem[CryptoOpflag]
          /\ mem'[GpuOpflag] = mem[GpuOpflag]
          /\ mem'[ImageEndAddr] = ImageEnd
      BY <1>1, <3>1, <3>2, DirectWritten, FlagAddresses
    <3> QED
      BY <1>1, <2>1, <2>2, <3>1, <3>3, <3>4, ContentQuiet
      DEF AnnounceInv, ReceivedInv, Quiet, ImageEnd
  <2>10. CASE ComStartCrypto
    <3>1. /\ comPc = "range" /\ comPc' = "crypto" /\ DirectWrite(CryptoOpflag, 1)
      BY <2>10 DEF ComStartCrypto, ComReady, ComGoto
    <3>2. Done'
      <4>1. change = 1 /\ Ended
        BY <3>1 DEF StageInv, EndInv, RaisedInv, EndRaised, Announcing
      <4>2. Ended'
        BY <1>1, <4>1, EndedStays
      <4> QED
        BY <1>1, <3>1, <4>1, <4>2 DEF Done, genVars
    <3>3. Received' /\ mem[ImageEndAddr] = ImageEnd
      BY <1>1, <3>1, ContentStays DEF ContentInv, ReceivedInv
    <3>4. /\ mem'[GpuOpflag] = mem[GpuOpflag]
          /\ mem'[ImageEndAddr] = mem[ImageEndAddr]
      BY <1>1, <3>1, DirectWritten, FlagAddresses
    <3> QED
      BY <1>1, <2>1, <2>2, <3>1, <3>2, <3>3, <3>4, ContentQuiet
      DEF AnnounceInv, ReceivedInv, Quiet, ImageEnd
  <2>11. ~ComClearEnd
    BY <2>1 DEF ComClearEnd, ComReady
  <2> QED
    BY <2>5, <2>6, <2>7, <2>8, <2>9, <2>10, <2>11 DEF CommunicationStep, ComNext
<1> QED
  BY <1>2, <1>3

\* One more word of the image is decrypted.
LEMMA WordDecrypted ==
    ASSUME Fits, MemTypeOK, NEW m \in 1..Len(Lines), Swept(m - 1),
           DirectWrite(WordOf(m), XorWord(Lines[m].pixel, KeyByte(Key[m])))
    PROVE  Swept(m)'
<1> SUFFICES ASSUME NEW n \in 1..Len(Lines)
             PROVE  mem'[WordOf(n)] = IF n <= m THEN Plain(n) ELSE Lines[n].pixel
  BY DEF Swept, Plain
<1>1. Len(Lines) \in Nat /\ m \in Int /\ n \in Int
  BY LinesAssumption
<1>2. CASE n = m
  <2>1. XorWord(Lines[m].pixel, KeyByte(Key[m])) = Plain(m)
    BY FileLines DEF Plain
  <2> QED
    BY <1>1, <1>2, <2>1, DirectWritten, WordAddresses
<1>3. CASE n # m
  <2>1. WordOf(n) # WordOf(m) /\ WordOf(n) \in GlobalAddr
    BY <1>3, WordAddresses
  <2>2. mem'[WordOf(n)] = mem[WordOf(n)]
    BY <2>1, DirectWritten
  <2>3. n <= m <=> n <= m - 1
    BY <1>1, <1>3
  <2> QED
    BY <2>2, <2>3 DEF Swept
<1> QED
  BY <1>2, <1>3

LEMMA EncryptionContent ==
    ASSUME Fits, TypeInv, StageInv, ContentInv, EncryptionStep
    PROVE  ContentInv'
<1>1. UNCHANGED <<pmem, genVars, comVars, gpuVars>> /\ [Next]_vars /\ MemTypeOK
  BY DEF EncryptionStep, Next, TypeInv, TypeOK
<1>2. Done => Done'
  BY <1>1, DoneStays
<1>3. UNCHANGED <<comPc, gpuPc, start>>
  BY <1>1 DEF comVars, gpuVars
<1>4. Len(Lines) \in Nat
  BY LinesAssumption
<1>5. AnnounceInv /\ ReceivedInv /\ SweepInv /\ PlainInv
  BY DEF ContentInv
<1>6. CASE EncPoll
  <2>1. UNCHANGED mem /\ encPc' = "poll"
    BY <1>6 DEF EncPoll, EncGoto
  <2>2. AnnounceInv'
    BY <1>2, <1>3, <1>5, <2>1 DEF AnnounceInv
  <2>3. ReceivedInv'
    BY <1>3, <1>5, <2>1 DEF ReceivedInv, Received
  <2>4. SweepInv'
    BY <2>1 DEF SweepInv
  <2>5. PlainInv'
    BY <1>3, <1>5, <2>1 DEF PlainInv, GpuAtWork, Whole, Swept, Plain
  <2> QED
    BY <2>2, <2>3, <2>4, <2>5 DEF ContentInv
<1>7. CASE EncAcknowledge
  <2>1. /\ encPc = "poll" /\ control = 1 /\ encPc' = "clear"
        /\ DirectWrite(CryptoOpflag, 0)
    BY <1>7 DEF EncAcknowledge, EncReady, EncGoto
  <2>2. Announced
    BY <2>1 DEF StageInv, Phases, Before, Quiet, Decrypting, Decrypted
  <2>3. /\ mem[CryptoOpflag] = 1 /\ Done
        /\ mem[GpuOpflag] # 1 /\ gpuPc \in {"start", "poll"} /\ start # 1
    BY <2>2 DEF Announced, GpuIdle
  <2>4. /\ mem'[ImageEndAddr] = mem[ImageEndAddr]
        /\ mem'[GpuOpflag] = mem[GpuOpflag] /\ mem'[CryptoOpflag] = 0
    BY <1>1, <2>1, DirectWritten, FlagAddresses
  <2>5. Received' /\ mem'[ImageEndAddr] = ImageEnd'
    BY <1>1, <1>5, <2>1, <2>3, <2>4, ContentStays DEF ReceivedInv, ImageEnd
  <2>6. AnnounceInv'
    BY <1>2, <2>3 DEF AnnounceInv
  <2>7. ReceivedInv'
    BY <2>1, <2>5 DEF ReceivedInv
  <2>8. SweepInv'
    BY <2>1 DEF SweepInv
  <2>9. PlainInv'
    BY <1>3, <2>3, <2>4 DEF PlainInv, GpuAtWork
  <2> QED
    BY <2>6, <2>7, <2>8, <2>9 DEF ContentInv
<1>8. CASE EncReadBegin \/ EncReadEnd \/ EncReadWord \/ EncWriteWord \/ EncStartGpu
  <2>1. encPc \in {"clear", "begin", "range", "read", "write"}
    BY <1>8
    DEF EncReadBegin, EncReadEnd, EncReadWord, EncWriteWord, EncStartGpu, EncReady
  <2>2. Decrypting
    BY <2>1 DEF StageInv, Phases, Before, Quiet, Announced, Decrypted
  <2>3. /\ Done /\ mem[CryptoOpflag] # 1 /\ mem[ImageBeginAddr] = 16
        /\ mem[GpuOpflag] # 1 /\ gpuPc \in {"start", "poll"} /\ start # 1
        /\ encPc # "clear" => read_start = 16
    BY <2>2 DEF Decrypting, GpuIdle
  <2>4. comPc' \notin {"begin", "range"}
    BY <1>3, <2>3 DEF Done
  <2>5. AnnounceInv'
    BY <1>2, <2>3 DEF AnnounceInv
  <2>6. ASSUME mem'[GpuOpflag] # 1 PROVE PlainInv'
    BY <1>3, <2>3, <2>6 DEF PlainInv, GpuAtWork
  <2>7. CASE EncReadBegin
    <3>1. encPc = "clear" /\ encPc' = "begin" /\ UNCHANGED mem
      BY <2>7 DEF EncReadBegin, EncReady, EncGoto
    <3>2. ReceivedInv'
      BY <1>5, <2>3, <2>4, <3>1 DEF ReceivedInv, Received, ImageEnd
    <3> QED
      BY <2>3, <2>5, <2>6, <3>1, <3>2 DEF ContentInv, SweepInv
  <2>8. CASE EncReadEnd
    <3>1. /\ encPc = "begin" /\ encPc' = "range" /\ UNCHANGED mem
          /\ read_end' = DirectRead(ImageEndAddr, read_end)
      BY <2>8 DEF EncReadEnd, EncReady, EncGoto
    <3>2. read_end' = ImageEnd
      BY <1>5, <3>1, FlagAddresses DEF ReceivedInv, DirectRead
    <3>3. ReceivedInv'
      BY <1>5, <2>3, <2>4, <3>1, <3>2 DEF ReceivedInv, Received, ImageEnd
    <3> QED
      BY <2>3, <2>5, <2>6, <3>1, <3>3 DEF ContentInv, SweepInv
  <2>9. CASE EncReadWord
    <3>1. /\ encPc \in {"range", "write"} /\ encPc' = "read"
          /\ NextWord < read_end /\ w' = NextWord /\ rc4' = NextKey(KeyState)
          /\ mydata' = DirectRead(NextWord, mydata)
          /\ UNCHANGED <<mem, read_end>>
      BY <2>9 DEF EncReadWord, EncReady, EncGoto
    <3>2. read_end = ImageEnd
      BY <1>5, <3>1 DEF ReceivedInv
    <3>3. ReceivedInv'
      BY <2>3, <2>4, <3>1, <3>2 DEF ReceivedInv, ImageEnd
    <3>4. PICK m \in 1..Len(Lines) :
              NextWord = WordOf(m) /\ NextKey(KeyState) = Key[m] /\ Swept(m - 1)
      <4>1. CASE encPc = "range"
        <5>1. NextWord = 16 /\ KeyState = KSA /\ Received
          BY <1>5, <2>3, <4>1 DEF NextWord, KeyState, ReceivedInv
        <5>2. 1 \in 1..Len(Lines) /\ WordOf(1) = 16
          BY <1>4, <3>1, <3>2, <5>1 DEF ImageEnd, WordOf
        <5>3. Key[1] = NextKey(KSA)
          <6>1. Key[0 + 1] = NextKey(Key[0])
            BY KeyType
          <6> QED
            BY <6>1, KeyType
        <5>4. Swept(0)
          BY <1>4, <5>1 DEF Swept, Received
        <5> QED
          BY <5>1, <5>2, <5>3, <5>4
      <4>2. CASE encPc = "write"
        <5>1. PICK n \in 1..Len(Lines) : w = WordOf(n) /\ rc4 = Key[n] /\ Swept(n)
          BY <1>5, <4>2 DEF SweepInv
        <5>2. n \in Nat /\ (n + 1) - 1 = n
          BY <1>4
        <5>3. NextWord = WordOf(n + 1) /\ KeyState = Key[n]
          BY <4>2, <5>1, <5>2 DEF NextWord, KeyState, WordOf
        <5>4. n + 1 \in 1..Len(Lines)
          BY <1>4, <3>1, <3>2, <5>2, <5>3 DEF ImageEnd, WordOf
        <5> QED
          BY <5>1, <5>2, <5>3, <5>4, KeyType
      <4> QED
        BY <3>1, <4>1, <4>2
    <3>5. mydata' = Lines[m].pixel
      <4>1. ~(m <= m - 1)
        BY <1>4
      <4>2. mem[WordOf(m)] = Lines[m].pixel
        BY <3>4, <4>1 DEF Swept
      <4> QED
        BY <3>1, <3>4, <4>2, WordAddresses DEF DirectRead
    <3>6. SweepInv'
      BY <3>1, <3>4, <3>5 DEF SweepInv, Swept, Plain
    <3> QED
      BY <2>3, <2>5, <2>6, <3>1, <3>3, <3>6 DEF ContentInv
  <2>10. CASE EncWriteWord
    <3>1. /\ encPc = "read" /\ encPc' = "write" /\ UNCHANGED <<read_end, w, rc4>>
          /\ DirectWrite(w, XorWord(mydata, KeyByte(rc4)))
      BY <2>10 DEF EncWriteWord, EncReady, EncGoto
    <3>2. PICK m \in 1..Len(Lines) :
              /\ w = WordOf(m) /\ rc4 = Key[m] /\ mydata = Lines[m].pixel
              /\ Swept(m - 1)
      BY <1>5, <3>1 DEF SweepInv
    <3>3. Swept(m)'
      BY <1>1, <3>1, <3>2, WordDecrypted
    <3>4. /\ mem'[CryptoOpflag] = mem[CryptoOpflag]
          /\ mem'[GpuOpflag] = mem[GpuOpflag]
      BY <1>1, <3>1, <3>2, DirectWritten, FlagsApart, FlagAddresses
    <3>5. ReceivedInv'
      BY <1>5, <2>3, <2>4, <3>1, <3>4 DEF ReceivedInv, ImageEnd
    <3>6. SweepInv'
      BY <3>1, <3>2, <3>3 DEF SweepInv
    <3> QED
      BY <2>3, <2>5, <2>6, <3>4, <3>5, <3>6 DEF ContentInv
  <2>11. CASE EncStartGpu
    <3>1. /\ encPc \in {"range", "write"} /\ encPc' = "signal"
          /\ NextWord >= read_end /\ DirectWrite(GpuOpflag, 1)
      BY <2>11 DEF EncStartGpu, EncReady, EncGoto
    <3>2. read_end = ImageEnd
      BY <1>5, <3>1 DEF ReceivedInv
    <3>3. Whole
      <4>1. CASE encPc = "range"
        <5>1. NextWord = 16
          BY <2>3, <4>1 DEF NextWord
        <5>2. Len(Lines) = 0
          BY <1>4, <3>1, <3>2, <5>1 DEF ImageEnd, WordOf
        <5> QED
          BY <5>2 DEF Whole, Swept
      <4>2. CASE encPc = "write"
        <5>1. PICK n \in 1..Len(Lines) : w = WordOf(n) /\ Swept(n)
          BY <1>5, <4>2 DEF SweepInv
        <5>2. NextWord = w + 4
          BY <4>2 DEF NextWord
        <5>3. n = Len(Lines)
          BY <1>4, <3>1, <3>2, <5>1, <5>2 DEF ImageEnd, WordOf
        <5> QED
          BY <5>1, <5>3 DEF Whole
      <4> QED
        BY <3>1, <4>1, <4>2
    <3>4. Whole'
      BY <1>1, <3>1, <3>3, ContentStays DEF Whole
    <3>5. mem'[CryptoOpflag] = mem[CryptoOpflag] /\ mem'[GpuOpflag] = 1
      BY <1>1, <3>1, DirectWritten, FlagAddresses
    <3>6. ReceivedInv' /\ SweepInv'
      BY <2>3, <2>4, <3>1, <3>5 DEF ReceivedInv, SweepInv
    <3>7. PlainInv'
      BY <3>4, <3>5 DEF PlainInv
    <3> QED
      BY <2>5, <3>6, <3>7 DEF ContentInv
  <2> QED
    BY <1>8, <2>7, <2>8, <2>9, <2>10, <2>11
<1>9. CASE EncSaveBase
  <2>1. encPc = "signal" /\ encPc' = "base" /\ DirectWrite(ImageBeginAddr, 24)
    BY <1>9 DEF EncSaveBase, EncReady, EncGoto
  <2>2. Decrypted
    BY <2>1 DEF StageInv, Phases, Before, Quiet, Announced, Decrypting
  <2>3. Done /\ mem[CryptoOpflag] # 1 /\ comPc' \notin {"begin", "range"}
    BY <1>3, <2>2 DEF Decrypted, Done
  <2>4. /\ mem'[CryptoOpflag] = mem[CryptoOpflag]
        /\ mem'[GpuOpflag] = mem[GpuOpflag]
    BY <1>1, <2>1, DirectWritten, FlagAddresses
  <2>5. Whole => Whole'
    BY <1>1, <2>1, ContentStays DEF Whole
  <2>6. PlainInv'
    BY <1>3, <1>5, <2>4, <2>5 DEF PlainInv, GpuAtWork
  <2> QED
    BY <1>2, <2>1, <2>3, <2>4, <2>6
    DEF ContentInv, AnnounceInv, ReceivedInv, SweepInv
<1> QED
  BY <1>6, <1>7, <1>8, <1>9 DEF EncryptionStep, EncNext

LEMMA GpuContent ==
    ASSUME Fits, TypeInv, StageInv, ContentInv, GpuStep
    PROVE  ContentInv'
<1>1. UNCHANGED <<pmem, genVars, comVars, encVars>> /\ [Next]_vars /\ MemTypeOK
  BY DEF GpuStep, Next, TypeInv, TypeOK
<1>2. Done => Done'
  BY <1>1, DoneStays
<1>3. UNCHANGED <<comPc, encPc, read_end, w, rc4, mydata>>
  BY <1>1 DEF comVars, encVars
<1>4. AnnounceInv /\ ReceivedInv /\ SweepInv /\ PlainInv
  BY DEF ContentInv
<1>5. ASSUME UNCHANGED mem, PlainInv' PROVE ContentInv'
  <2>1. AnnounceInv'
    BY <1>2, <1>3, <1>4, <1>5 DEF AnnounceInv
  <2>2. ReceivedInv'
    BY <1>3, <1>4, <1>5 DEF ReceivedInv, Received, ImageEnd
  <2>3. SweepInv'
    BY <1>3, <1>4, <1>5 DEF SweepInv, Swept, Plain
  <2> QED
    BY <1>5, <2>1, <2>2, <2>3 DEF ContentInv
<1>6. CASE GpuPoll
  <2>1. /\ gpuPc \in {"start", "poll", "height", "stop"} /\ gpuPc' = "poll"
        /\ start' = mem[GpuOpflag] /\ UNCHANGED mem
    BY <1>6, FlagAddresses DEF GpuPoll, GpuReady, GpuGoto, DirectRead
  <2>2. PlainInv'
    BY <1>4, <2>1 DEF PlainInv, GpuAtWork, Whole, Swept, Plain
  <2> QED
    BY <1>5, <2>1, <2>2
<1>7. CASE GpuReadBase \/ GpuReadWidth \/ GpuReadHeight \/ GpuFetchPixel
  <2>1. /\ GpuAtWork /\ gpuPc \notin {"newWidth", "newHeight", "write"}
        /\ gpuPc' \in {"base", "width", "height", "fetch"} /\ UNCHANGED mem
    BY <1>7
    DEF GpuReadBase, GpuReadWidth, GpuReadHeight, GpuFetchPixel, GpuReady,
        GpuGoto, GpuAtWork
  <2>2. PlainInv'
    BY <1>4, <2>1 DEF PlainInv, GpuAtWork, Whole, Swept, Plain
  <2> QED
    BY <1>5, <2>1, <2>2
<1>8. CASE GpuRotate \/ GpuSaveHeight \/ GpuWritePixel \/ GpuStop
  <2>1. /\ gpuPc \in {"height", "fetch", "newWidth", "newHeight", "write"}
        /\ UNCHANGED <<rd_addr, start>>
    BY <1>8 DEF GpuRotate, GpuSaveHeight, GpuWritePixel, GpuStop, GpuReady
  <2>2. Decrypted /\ GpuAtWork
    BY <2>1
    DEF StageInv, Phases, Before, Quiet, Announced, Decrypting, GpuIdle, GpuAtWork
  <2>3. /\ Done /\ encPc \in {"signal", "base", "poll"} /\ mem[CryptoOpflag] # 1
        /\ comPc \notin {"begin", "range"} /\ mem[GpuOpflag] = 1
    BY <1>4, <2>2 DEF Decrypted, Done, PlainInv
  <2>4. rd_addr \in {16, 24} /\ i \in Int
    BY <2>1 DEF StageInv, BeginInv, TypeInv, TypeOK, GpuTypeOK
  <2>5. ASSUME mem'[CryptoOpflag] = mem[CryptoOpflag], PlainInv' PROVE ContentInv'
    BY <1>2, <1>3, <2>3, <2>5 DEF ContentInv, AnnounceInv, ReceivedInv, SweepInv
  <2>6. CASE GpuRotate \/ GpuSaveHeight \/ GpuWritePixel
    <3>1. PICK a, v : a \in Int /\ a >= 16 /\ DirectWrite(a, v)
      <4>1. CASE GpuRotate
        BY <4>1 DEF GpuRotate, ImageWidthAddr
      <4>2. CASE GpuSaveHeight
        BY <4>2 DEF GpuSaveHeight, ImageHeightAddr
      <4>3. CASE GpuWritePixel
        <5>1. DirectWrite(rd_addr + 4 * i, bufferB[k'])
          BY <4>3 DEF GpuWritePixel
        <5>2. i >= 0
          BY <4>3 DEF GpuWritePixel, GpuReady, StageInv, BeginInv
        <5>3. rd_addr + 4 * i \in Int /\ rd_addr + 4 * i >= 16
          BY <2>4, <5>2
        <5> QED
          BY <5>1, <5>3
      <4> QED
        BY <2>6, <4>1, <4>2, <4>3
    <3>2. /\ mem'[CryptoOpflag] = mem[CryptoOpflag]
          /\ mem'[GpuOpflag] = mem[GpuOpflag]
      BY <1>1, <3>1, WrittenBehind
    <3>3. gpuPc' \in {"newWidth", "newHeight", "write"}
      BY <2>6 DEF GpuRotate, GpuSaveHeight, GpuWritePixel, GpuGoto
    <3>4. PlainInv'
      BY <2>3, <3>2, <3>3 DEF PlainInv
    <3> QED
      BY <2>5, <3>2, <3>4
  <2>7. CASE GpuStop
    <3>1. gpuPc' = "stop" /\ DirectWrite(GpuOpflag, 0)
      BY <2>7 DEF GpuStop, GpuGoto
    <3>2. mem'[GpuOpflag] = 0 /\ mem'[CryptoOpflag] = mem[CryptoOpflag]
      BY <1>1, <3>1, DirectWritten, FlagAddresses
    <3>3. PlainInv'
      BY <3>1, <3>2 DEF PlainInv, GpuAtWork
    <3> QED
      BY <2>5, <3>2, <3>3
  <2> QED
    BY <1>8, <2>6, <2>7
<1> QED
  BY <1>6, <1>7, <1>8 DEF GpuStep, GpuNext

-----------------------------------------------------------------------------
(* The specification. *)

ImageInv ==
    /\ TypeInv /\ LinkInv /\ KeptInv /\ StageInv /\ StoredInOrder
    /\ ContentInv

LEMMA ContentStart == Init => ContentInv
<1> SUFFICES ASSUME Init PROVE ContentInv
  OBVIOUS
<1>1. Quiet /\ comPc = "start" /\ encPc = "start"
  BY InitQuiet DEF Init, CommunicationInit, EncryptionInit
<1>2. mem[ImageBeginAddr] = 0
  BY FlagAddresses DEF Init, MemInit
<1> QED
  BY <1>1, <1>2
  DEF ContentInv, AnnounceInv, ReceivedInv, SweepInv, PlainInv, GpuAtWork, Quiet

LEMMA ImageStart == EndFlagClear /\ Init => ImageInv
BY InitType, InitLink, InitKept, StageStart, NothingStored, ContentStart DEF ImageInv

LEMMA ImageStep == Fits /\ ImageInv /\ [Next]_vars => ImageInv'
<1> SUFFICES ASSUME Fits, ImageInv, [Next]_vars PROVE ImageInv'
  OBVIOUS
<1>1. TypeInv /\ LinkInv /\ KeptInv /\ StageInv /\ StoredInOrder /\ ContentInv
  BY DEF ImageInv
<1>2. TypeInv' /\ LinkInv'
  BY <1>1, NextType, NextLink
<1>3. KeptInv' /\ StageInv' /\ StoredInOrder'
  BY <1>1, <1>2, NextChannel, ChannelKeepsKept, StageStep, StoresInOrder
  DEF StageInv
<1>4. ContentInv'
  <2>1. CASE GeneratorStep \/ TimeStep \/ UNCHANGED vars
    BY <1>1, <2>1, ContentIdle
    DEF GeneratorStep, TimeStep, vars, comVars, encVars, gpuVars
  <2> QED
    BY <1>1, <2>1, CommunicationContent, EncryptionContent, GpuContent DEF Next
<1> QED
  BY <1>2, <1>3, <1>4 DEF ImageInv

LEMMA SweptIsSweep == ContentInv => DecryptionSweep
<1> SUFFICES ASSUME ContentInv, encPc \in {"read", "write"},
                    NEW n \in 1..Len(Lines)
             PROVE  mem[WordOf(n)] =
                        IF WordOf(n) < w \/ (WordOf(n) = w /\ encPc = "write")
                          THEN Plain(n) ELSE Lines[n].pixel
  BY DEF DecryptionSweep
<1>1. PICK m \in 1..Len(Lines) :
          /\ w = WordOf(m)
          /\ encPc = "read" => Swept(m - 1)
          /\ encPc = "write" => Swept(m)
  BY DEF ContentInv, SweepInv
<1>2. m \in Int /\ n \in Int
  BY LinesAssumption
<1>3. (WordOf(n) < w <=> n <= m - 1) /\ (WordOf(n) = w <=> n = m)
  BY <1>1, <1>2 DEF WordOf
<1>4. CASE encPc = "read"
  BY <1>1, <1>3, <1>4 DEF Swept
<1>5. CASE encPc = "write"
  BY <1>1, <1>2, <1>3, <1>5 DEF Swept
<1> QED
  BY <1>4, <1>5

(***************************************************************************)
(* Decryption sweeps the image once, for every image that fits the memory, *)
(* packet length, pair of periods and order of the threads, if the end     *)
(* flag starts cleared: whatever the channels of a word are, zero or a     *)
(* sign bit, the byte of the key stream that the tool used for it is the   *)
(* one that PRGA meets it with.                                            *)
(***************************************************************************)
THEOREM DecryptionSweepHolds ==
    ASSUME Fits
    PROVE  Spec /\ EndFlagClear => []DecryptionSweep
<1>1. ImageInv => DecryptionSweep
  BY SweptIsSweep DEF ImageInv
<1> QED
  BY <1>1, ImageStart, ImageStep, PTL DEF Spec

-----------------------------------------------------------------------------
(* The rotation. *)

\* The tool was given an image with its header.
ImageShaped ==
    /\ ImageWidth \in Nat \ {0} /\ ImageHeight \in Nat \ {0}
    /\ Len(Image) = 2 + ImageWidth * ImageHeight

HeaderRead == width = ImageWidth /\ height = ImageHeight

HeaderInv ==
    /\ gpuPc = "width" => width = ImageWidth
    /\ gpuPc \in {"height", "fetch", "newWidth", "newHeight", "write", "stop"}
          => HeaderRead

\* The first n pixels are fetched.
Fetched(n) == \A m \in 0..n - 1 : bufferA[m] = Plain(First + m)

FetchInv ==
    gpuPc = "fetch" =>
        Size <= ImageMaxSize /\ k \in 0..Size - 1 /\ Fetched(k + 1)

\* bufferB holds the words from First on, turned clockwise.
TurnedInv ==
    Rotating =>
        \A x \in 0..ImageHeight - 1, y \in 0..ImageWidth - 1 :
            bufferB[x + y * ImageHeight]
                = Plain(First + (y + (ImageHeight - 1 - x) * ImageWidth))

RotationInv == HeaderInv /\ FetchInv /\ TurnedInv

LEMMA FirstWord ==
    ASSUME rd_addr \in {16, 24}
    PROVE  /\ First \in {1, 3}
           /\ \A n \in Int : WordOf(First + n) = rd_addr + 4 * n
           /\ rd_addr = 24 <=> First = 3
<1>1. CASE rd_addr = 16
  BY <1>1 DEF First, WordOf
<1>2. CASE rd_addr = 24
  BY <1>2 DEF First, WordOf
<1> QED
  BY <1>1, <1>2

\* The size of the image is a word, as the addresses behind it are.
LEMMA ImageSize ==
    ASSUME ImageShaped, HeaderRead
    PROVE  /\ Size = ImageWidth * ImageHeight /\ Size \in Nat \ {0}
           /\ Len(Lines) = 2 + Size
<1> DEFINE v == ImageWidth * ImageHeight
           n == 2 + v
<1>1. v \in Nat \ {0} /\ Len(Lines) = n
  <2>1. ImageWidth * ImageHeight >= 1 * 1
    BY DEF ImageShaped
  <2> QED
    BY <2>1, FileLines DEF ImageShaped
<1> HIDE DEF v
<1>2. 16 + 4 * n \in Word
  BY <1>1, LinesAssumption
<1>3. v \in 0..WordSize - 1 /\ v <= MaxInt
  BY <1>1, <1>2, WordSizeType DEF Word
<1>4. Wrap(v) = v
  BY <1>3, WordSizeType, WrapUnsigned
<1>5. Size = v
  <2>1. width * height = v
    BY DEF HeaderRead, v
  <2> QED
    BY <1>4, <2>1 DEF Size
<1>6. Size = v /\ Size \in Nat \ {0} /\ Len(Lines) = 2 + Size
  BY <1>1, <1>5
<1> QED
  BY <1>6 DEF v

\* Rotation puts the fetched pixels where the rotated image has them.
LEMMA RotatedPixels ==
    ASSUME ImageShaped, HeaderRead, Size <= ImageMaxSize, Fetched(Size),
           NEW x \in 0..ImageHeight - 1, NEW y \in 0..ImageWidth - 1
    PROVE  Rotated[x + y * ImageHeight]
               = Plain(First + (y + (ImageHeight - 1 - x) * ImageWidth))
<1> DEFINE W == ImageWidth
           H == ImageHeight
           P == (0..W - 1) \X (0..H - 1)
           T(p) == pixelAddr(H - 1 - p[2], p[1], H)
           n == x + y * H
           q == <<y, H - 1 - x>>
<1>1. /\ W \in Nat \ {0} /\ H \in Nat \ {0}
      /\ width = W /\ height = H /\ Size = W * H /\ ImageMaxSize \in Nat
  BY ImageSize, WiringAssumption DEF ImageShaped, HeaderRead
<1> HIDE DEF W, H
<1>2. x \in 0..H - 1 /\ y \in 0..W - 1
  BY DEF W, H
<1>3. n \in Cell
  <2>1. n \in 0..(H * W) - 1
    BY <1>1, <1>2, PixelAddrBound DEF pixelAddr
  <2>2. H * W = W * H
    BY <1>1
  <2> HIDE DEF n
  <2> QED
    BY <1>1, <2>1, <2>2 DEF Cell
<1>4. q \in P /\ T(q) = n
  BY <1>1, <1>2 DEF pixelAddr
<1>5. ASSUME NEW p \in P, T(p) = n PROVE p = q
  <2>1. p[1] \in 0..W - 1 /\ p[2] \in 0..H - 1 /\ p = <<p[1], p[2]>>
    OBVIOUS
  <2> DEFINE r == H - 1 - p[2]
             c == p[1]
  <2>2. c * H + r = y * H + x
    BY <1>1, <1>2, <1>5, <2>1 DEF pixelAddr
  <2>3. r \in 0..H - 1 /\ c \in Int /\ y \in Int
    BY <1>1, <1>2, <2>1
  <2> HIDE DEF r, c
  <2>4. (c * H + r) \div H = c /\ (c * H + r) % H = r
    BY <1>1, <2>3, DivMod
  <2>5. (y * H + x) \div H = y /\ (y * H + x) % H = x
    BY <1>1, <1>2, <2>3, DivMod
  <2>6. c = y /\ r = x
    BY <2>2, <2>4, <2>5
  <2>7. p[1] = y /\ p[2] = H - 1 - x
    BY <1>1, <1>2, <2>1, <2>6 DEF r, c
  <2> QED
    BY <2>1, <2>7
<1>6. (CHOOSE p \in P : T(p) = n) = q
  <2> HIDE DEF P, T, q
  <2> QED
    BY <1>4, <1>5
<1>7. Rotated[n] = bufferA[pixelAddr(q[1], q[2], W)]
  <2>1. Rotated = [c \in Cell |->
                      IF \E p \in P : T(p) = c
                        THEN LET p == CHOOSE p \in P : T(p) = c
                             IN  bufferA[pixelAddr(p[1], p[2], W)]
                        ELSE bufferB[c]]
    BY <1>1 DEF Rotated
  <2> HIDE DEF P, T, q, n
  <2> QED
    BY <1>3, <1>4, <1>6, <2>1
<1>8. q[1] \in 0..W - 1 /\ q[2] \in 0..H - 1 /\ q[1] = y /\ q[2] = H - 1 - x
  BY <1>1, <1>2
<1> HIDE DEF q
<1> DEFINE t == q[1]
           u == q[2]
<1>9. pixelAddr(t, u, W) \in 0..Size - 1
  <2>1. t \in 0..W - 1 /\ u \in 0..H - 1 /\ W \in Int /\ H \in Int
    BY <1>1, <1>8
  <2> HIDE DEF t, u
  <2>2. pixelAddr(t, u, W) \in 0..(W * H) - 1
    BY <2>1, PixelAddrBound
  <2> QED
    BY <1>1, <2>2
<1>10. pixelAddr(t, u, W) = y + (H - 1 - x) * W
  BY <1>8 DEF pixelAddr
<1>11. bufferA[pixelAddr(t, u, W)] = Plain(First + pixelAddr(t, u, W))
  <2> HIDE DEF t, u
  <2> QED
    BY <1>9 DEF Fetched
<1> QED
  BY <1>7, <1>10, <1>11 DEF W, H

\* One more pixel is fetched.
LEMMA PixelFetched ==
    ASSUME ImageShaped, Fits, HeaderRead, Whole, GpuTypeOK,
           Size <= ImageMaxSize, NEW n \in 0..Size - 1, Fetched(n),
           rd_addr \in {16, 24}, UNCHANGED rd_addr,
           bufferA' = [bufferA EXCEPT ![n] = DirectRead(rd_addr + 4 * n, @)]
    PROVE  Fetched(n + 1)'
<1>1. /\ Size \in Nat \ {0} /\ Len(Lines) = 2 + Size /\ n \in Nat
      /\ ImageMaxSize \in Nat
  BY ImageSize, WiringAssumption
<1>2. n \in Cell /\ \A m \in 0..n : m \in Cell
  BY <1>1 DEF Cell
<1>3. First + n \in 1..Len(Lines) /\ WordOf(First + n) = rd_addr + 4 * n
  <2>1. First \in {1, 3}
    BY FirstWord
  <2>2. First + n \in 1..Len(Lines)
    BY <1>1, <2>1
  <2>3. n \in Int
    BY <1>1
  <2> QED
    BY <2>2, <2>3, FirstWord
<1>4. mem[rd_addr + 4 * n] = Plain(First + n) /\ rd_addr + 4 * n \in GlobalAddr
  BY <1>3, WordAddresses DEF Whole, Swept
<1>5. bufferA'[n] = Plain(First + n)
  BY <1>2, <1>4 DEF DirectRead, GpuTypeOK
<1>6. ASSUME NEW m \in 0..n, m # n PROVE bufferA'[m] = Plain(First + m)
  <2>1. m \in 0..n - 1 /\ m \in Cell
    BY <1>1, <1>2, <1>6
  <2> QED
    BY <1>6, <2>1 DEF Fetched, GpuTypeOK
<1>7. (n + 1) - 1 = n
  BY <1>1
<1> QED
  BY <1>5, <1>6, <1>7 DEF Fetched, Plain, First

LEMMA GpuRotation ==
    ASSUME ImageShaped, Fits, ImageInv, RotationInv, GpuStep
    PROVE  RotationInv'
<1>1. HeaderInv /\ FetchInv /\ TurnedInv /\ PlainInv /\ GpuTypeOK
  BY DEF RotationInv, ImageInv, ContentInv, TypeInv, TypeOK
<1>2. CASE GpuPoll
  <2>1. gpuPc' = "poll"
    BY <1>2 DEF GpuPoll, GpuGoto
  <2> QED
    BY <2>1 DEF RotationInv, HeaderInv, FetchInv, TurnedInv, Rotating
<1>3. CASE GpuReadBase
  <2>1. gpuPc' = "base"
    BY <1>3 DEF GpuReadBase, GpuGoto
  <2> QED
    BY <2>1 DEF RotationInv, HeaderInv, FetchInv, TurnedInv, Rotating
<1>4. ASSUME gpuPc \in {"base", "width", "height", "fetch"} PROVE Whole
  BY <1>1, <1>4 DEF PlainInv, GpuAtWork
<1>5. /\ 1 \in 1..Len(Lines) /\ 2 \in 1..Len(Lines)
      /\ WordOf(1) = ImageWidthAddr /\ WordOf(2) = ImageHeightAddr
  <2>1. ImageWidth * ImageHeight \in Nat /\ Len(Lines) = 2 + ImageWidth * ImageHeight
    BY FileLines DEF ImageShaped
  <2> QED
    BY <2>1 DEF WordOf, ImageWidthAddr, ImageHeightAddr
<1>6. CASE GpuReadWidth
  <2>1. /\ gpuPc = "base" /\ gpuPc' = "width"
        /\ width' = DirectRead(ImageWidthAddr, width)
    BY <1>6 DEF GpuReadWidth, GpuReady, GpuGoto
  <2>2. width' = ImageWidth
    BY <1>4, <1>5, <2>1, WordAddresses DEF Whole, Swept, DirectRead, ImageWidth
  <2> QED
    BY <2>1, <2>2
    DEF RotationInv, HeaderInv, FetchInv, TurnedInv, Rotating,
        ImageWidth, Plain
<1>7. CASE GpuReadHeight
  <2>1. /\ gpuPc = "width" /\ gpuPc' = "height" /\ UNCHANGED width
        /\ height' = DirectRead(ImageHeightAddr, height)
    BY <1>7 DEF GpuReadHeight, GpuReady, GpuGoto
  <2>2. height' = ImageHeight
    BY <1>4, <1>5, <2>1, WordAddresses DEF Whole, Swept, DirectRead, ImageHeight
  <2>3. width' = ImageWidth
    BY <1>1, <2>1 DEF HeaderInv
  <2> QED
    BY <2>1, <2>2, <2>3
    DEF RotationInv, HeaderInv, HeaderRead, FetchInv, TurnedInv,
        Rotating, ImageWidth, ImageHeight, Plain
<1>8. CASE GpuFetchPixel
  <2>1. /\ (gpuPc = "height" /\ Size <= ImageMaxSize) \/ gpuPc = "fetch"
        /\ gpuPc' = "fetch"
        /\ NextIndex("fetch") < Size /\ k' = NextIndex("fetch")
        /\ bufferA' = [bufferA EXCEPT ![k'] = DirectRead(rd_addr + 4 * k', @)]
        /\ UNCHANGED <<mem, rd_addr, width, height>>
    BY <1>8 DEF GpuFetchPixel, GpuReady, GpuGoto
  <2>2. HeaderRead /\ HeaderRead' /\ UNCHANGED Size
    BY <1>1, <2>1 DEF HeaderInv, HeaderRead, Size, ImageWidth, ImageHeight, Plain
  <2>3. Size \in Nat \ {0} /\ Len(Lines) = 2 + Size
    BY <2>2, ImageSize
  <2>4. Size' <= ImageMaxSize /\ k' \in 0..Size' - 1 /\ Fetched(k + 1)'
    <3>1. PICK n : n = k'
      OBVIOUS
    <3>2. Size <= ImageMaxSize /\ n \in 0..Size - 1 /\ Fetched(n)
      <4>1. CASE gpuPc = "height"
        <5>1. n = 0 /\ Size <= ImageMaxSize
          BY <2>1, <3>1, <4>1 DEF NextIndex
        <5> QED
          BY <2>3, <5>1 DEF Fetched
      <4>2. CASE gpuPc = "fetch"
        <5>1. Size <= ImageMaxSize /\ k \in 0..Size - 1 /\ Fetched(k + 1)
          BY <1>1, <4>2 DEF FetchInv
        <5>2. n = k + 1 /\ n < Size
          BY <2>1, <3>1, <4>2 DEF NextIndex
        <5> QED
          BY <2>3, <5>1, <5>2
      <4> QED
        BY <2>1, <4>1, <4>2
    <3>3. Fetched(n + 1)'
      <4>1. rd_addr \in {16, 24}
        BY <2>1 DEF ImageInv, StageInv, BeginInv
      <4> QED
        BY <1>1, <1>4, <2>1, <2>2, <3>1, <3>2, <4>1, PixelFetched
    <3> QED
      BY <2>2, <3>1, <3>2, <3>3 DEF Fetched
  <2>5. FetchInv'
    BY <2>4 DEF FetchInv
  <2> QED
    BY <2>1, <2>2, <2>5 DEF RotationInv, HeaderInv, TurnedInv, Rotating
<1>9. CASE GpuRotate
  <2>1. /\ gpuPc \in {"height", "fetch"} /\ gpuPc' = "newWidth"
        /\ NextIndex("fetch") >= Size
        /\ bufferB' = Rotated /\ UNCHANGED <<rd_addr, width, height>>
    BY <1>9 DEF GpuRotate, GpuReady, GpuGoto
  <2>2. HeaderRead /\ HeaderRead'
    BY <1>1, <2>1 DEF HeaderInv, HeaderRead, ImageWidth, ImageHeight, Plain
  <2>3. Size \in Nat \ {0}
    BY <2>2, ImageSize
  <2>4. gpuPc = "fetch"
    BY <2>1, <2>3 DEF NextIndex
  <2>5. Size <= ImageMaxSize /\ k \in 0..Size - 1 /\ Fetched(k + 1)
    BY <1>1, <2>4 DEF FetchInv
  <2>6. k + 1 = Size
    BY <2>1, <2>3, <2>4, <2>5 DEF NextIndex
  <2>7. \A x \in 0..ImageHeight - 1, y \in 0..ImageWidth - 1 :
           Rotated[x + y * ImageHeight]
               = Plain(First + (y + (ImageHeight - 1 - x) * ImageWidth))
    BY <2>2, <2>5, <2>6, RotatedPixels
  <2>8. TurnedInv'
    BY <2>1, <2>7 DEF TurnedInv, First, ImageWidth, ImageHeight, Plain
  <2> QED
    BY <2>1, <2>2, <2>8 DEF RotationInv, HeaderInv, FetchInv
<1>10. CASE GpuSaveHeight \/ GpuWritePixel \/ GpuStop
  <2>1. /\ gpuPc \in {"newWidth", "newHeight", "write"}
        /\ gpuPc' \in {"newHeight", "write", "stop"}
        /\ UNCHANGED <<rd_addr, width, height, bufferB>>
    BY <1>10 DEF GpuSaveHeight, GpuWritePixel, GpuStop, GpuReady, GpuGoto
  <2>2. HeaderInv' /\ FetchInv'
    BY <1>1, <2>1
    DEF HeaderInv, HeaderRead, FetchInv, ImageWidth, ImageHeight, Plain
  <2>3. TurnedInv'
    BY <1>1, <2>1
    DEF TurnedInv, Rotating, First, ImageWidth, ImageHeight, Plain
  <2> QED
    BY <2>2, <2>3 DEF RotationInv
<1> QED
  BY <1>2, <1>3, <1>6, <1>7, <1>8, <1>9, <1>10 DEF GpuStep, GpuNext

LEMMA RotationStart == Init => RotationInv
BY DEF Init, GpuInit, RotationInv, HeaderInv, FetchInv, TurnedInv, Rotating

LEMMA RotationStep ==
    Fits /\ ImageShaped /\ ImageInv /\ RotationInv /\ [Next]_vars => RotationInv'
<1> SUFFICES ASSUME Fits, ImageShaped, ImageInv, RotationInv, [Next]_vars
             PROVE  RotationInv'
  OBVIOUS
<1>1. CASE UNCHANGED gpuVars
  BY <1>1
  DEF RotationInv, HeaderInv, HeaderRead, FetchInv, Fetched, Size, TurnedInv,
      First, Rotating, ImageWidth, ImageHeight, Plain, gpuVars
<1>2. CASE GpuStep
  BY <1>2, GpuRotation
<1> QED
  BY <1>1, <1>2
  DEF Next, vars, GeneratorStep, CommunicationStep, EncryptionStep, TimeStep

LEMMA TurnedIsRotated ==
    ASSUME ImageShaped, BeginInv, RotationInv
    PROVE  RotatesImageAtBase
<1> SUFFICES ASSUME Rotating, rd_addr = 24
             PROVE  RotatedImage
  BY DEF RotatesImageAtBase
<1>1. HeaderRead /\ First = 3
  BY FirstWord DEF RotationInv, HeaderInv, Rotating
<1>2. ASSUME NEW x \in 0..ImageHeight - 1, NEW y \in 0..ImageWidth - 1
      PROVE  bufferB[x + y * ImageHeight] = Pixel(y, ImageHeight - 1 - x)
  <2> DEFINE row == (ImageHeight - 1 - x) * ImageWidth
  <2>1. row \in Int
    BY DEF ImageShaped
  <2> HIDE DEF row
  <2>2. 3 + (y + row) = 3 + y + row
    BY <2>1 DEF ImageShaped
  <2>3. bufferB[x + y * ImageHeight] = Plain(3 + (y + row))
    BY <1>1 DEF RotationInv, TurnedInv, row
  <2> QED
    BY <2>2, <2>3 DEF Pixel, row
<1> QED
  BY <1>1, <1>2 DEF RotatedImage, HeaderRead

(***************************************************************************)
(* The GPU rotates the image the tool was given, for every size and        *)
(* content of an image that fits the memory, if the end flag starts        *)
(* cleared and the GPU reads the beginning of the image after the          *)
(* encryption module has moved it.                                         *)
(***************************************************************************)
THEOREM RotationHolds ==
    ASSUME Fits, ImageShaped
    PROVE  Spec /\ EndFlagClear => []RotatesImageAtBase
<1>1. ImageInv /\ RotationInv => RotatesImageAtBase
  BY TurnedIsRotated DEF ImageInv, StageInv
<1> QED
  BY <1>1, RotationStart, RotationStep, ImageStart, ImageStep, PTL DEF Spec

-----------------------------------------------------------------------------
(* The result in the memory. *)

\* The header is the result's, but for the word that takes the pixels.
SavedAt == First + ImageWidth - 1

HeaderSaved ==
    \A n \in {1, 2} \ {SavedAt} : mem[WordOf(n)] = <<ImageHeight, ImageWidth>>[n]

SaveInv ==
    /\ Saving => i = ImageWidth - 1
    /\ gpuPc = "newWidth" => mem[WordOf(1)] = ImageHeight
    /\ gpuPc \in {"newHeight", "write"} => HeaderSaved
    /\ gpuPc = "write" =>
          k \in 0..Size - 1 /\ mem[WordOf(SavedAt)] = bufferB[k]

\* The word that takes the pixels is one of the image.
LEMMA SavedWord ==
    ASSUME ImageShaped, rd_addr \in {16, 24}, i = ImageWidth - 1
    PROVE  /\ {1, 2, SavedAt} \subseteq 1..Len(Lines)
           /\ WordOf(SavedAt) = rd_addr + 4 * i
           /\ WordOf(1) = ImageWidthAddr /\ WordOf(2) = ImageHeightAddr
<1>1. First \in {1, 3} /\ WordOf(First + i) = rd_addr + 4 * i
  BY FirstWord DEF ImageShaped
<1>2. SavedAt = First + i
  BY <1>1 DEF SavedAt, ImageShaped
<1>3. Len(Lines) >= 2 + ImageWidth
  <2> DEFINE v == ImageWidth * ImageHeight
  <2>1. v \in Nat /\ v >= ImageWidth /\ Len(Lines) = 2 + v
    BY FileLines DEF ImageShaped
  <2> HIDE DEF v
  <2> QED
    BY <2>1 DEF ImageShaped
<1>4. {1, 2, SavedAt} \subseteq 1..Len(Lines)
  BY <1>1, <1>2, <1>3, LinesAssumption DEF ImageShaped
<1>5. WordOf(1) = ImageWidthAddr /\ WordOf(2) = ImageHeightAddr
  BY DEF WordOf, ImageWidthAddr, ImageHeightAddr
<1> QED
  BY <1>1, <1>2, <1>4, <1>5

\* While the GPU works, the other threads have done their part.
LEMMA GpuWorks ==
    ASSUME StageInv, KeptInv, ContentInv, GpuAtWork
    PROVE  /\ Decrypted /\ mem[GpuOpflag] = 1 /\ mem[CryptoOpflag] # 1
           /\ ~Arriving /\ ~InDecryption /\ ~HasImage("communication")
           /\ memory_idx = ImageEnd
<1>1. Decrypted /\ mem[GpuOpflag] = 1
  BY DEF StageInv, Phases, Before, Quiet, Announced, Decrypting, GpuIdle,
         GpuAtWork, ContentInv, PlainInv
<1>2. memory_idx = ImageEnd
  BY <1>1, EndOfImage DEF Decrypted, Done
<1> QED
  BY <1>1, <1>2 DEF Decrypted, Done, Arriving, InDecryption, HasImage

\* The other threads leave the words of the image alone then.
LEMMA OthersKeepWords ==
    ASSUME Fits, ImageInv, GpuAtWork, [Next]_vars, ~GpuStep,
           NEW n \in 1..Len(Lines)
    PROVE  mem'[WordOf(n)] = mem[WordOf(n)]
<1>1. Decrypted /\ MemTypeOK
  BY GpuWorks DEF ImageInv, TypeInv, TypeOK
<1>2. CASE UNCHANGED mem
  BY <1>2
<1>3. CASE CommunicationStep
  BY <1>1, <1>2, <1>3, DoneStays DEF Decrypted, ImageInv
<1>4. CASE EncryptionStep
  <2>1. EncPoll \/ EncSaveBase
    BY <1>1, <1>4
    DEF EncryptionStep, EncNext, EncAcknowledge, EncReadBegin, EncReadEnd,
        EncReadWord, EncWriteWord, EncStartGpu, EncReady, Decrypted
  <2>2. CASE EncSaveBase
    BY <1>1, <2>2, ContentStays DEF EncSaveBase
  <2> QED
    BY <1>2, <2>1, <2>2 DEF EncPoll
<1> QED
  BY <1>2, <1>3, <1>4 DEF Next, vars, GeneratorStep, TimeStep

LEMMA GpuSaves ==
    ASSUME Fits, ImageShaped, ImageInv, RotationInv, RotationInv', SaveInv, GpuStep
    PROVE  SaveInv'
<1>1. MemTypeOK /\ GpuTypeOK
  BY DEF ImageInv, TypeInv, TypeOK
<1>2. CASE GpuPoll \/ GpuReadBase \/ GpuReadWidth \/ GpuReadHeight \/ GpuFetchPixel
  BY <1>2
  DEF GpuPoll, GpuReadBase, GpuReadWidth, GpuReadHeight, GpuFetchPixel, GpuGoto,
      SaveInv, Saving
<1>3. CASE GpuRotate \/ GpuSaveHeight \/ GpuWritePixel \/ GpuStop
  <2>1. /\ gpuPc \in {"height", "fetch", "newWidth", "newHeight", "write"}
        /\ UNCHANGED <<rd_addr, width, height>>
    BY <1>3 DEF GpuRotate, GpuSaveHeight, GpuWritePixel, GpuStop, GpuReady
  <2>2. rd_addr \in {16, 24} /\ HeaderRead
    BY <2>1 DEF ImageInv, StageInv, BeginInv, RotationInv, HeaderInv
  <2>3. /\ UNCHANGED <<First, SavedAt, ImageWidth, ImageHeight, Size>>
        /\ \A n : WordOf(n)' = WordOf(n)
    BY <2>1 DEF First, SavedAt, ImageWidth, ImageHeight, Plain, Size, WordOf
  <2>4. Size \in Nat \ {0}
    BY <2>2, ImageSize
  <2>5. CASE GpuRotate
    <3>1. /\ gpuPc' = "newWidth" /\ i' = width - 1
          /\ DirectWrite(ImageWidthAddr, height)
      BY <2>2, <2>5 DEF GpuRotate, GpuGoto, HeaderRead, ImageShaped
    <3>2. i' = ImageWidth - 1
      BY <2>2, <3>1 DEF HeaderRead
    <3>3. PICK c : c = i'
      OBVIOUS
    <3>4. mem'[WordOf(1)] = ImageHeight
      <4>1. WordOf(1) = ImageWidthAddr /\ 1 \in 1..Len(Lines)
        <5>1. Len(Lines) \in Nat /\ Len(Lines) > 0
          BY <2>2, <2>4, ImageSize
        <5> QED
          BY <5>1 DEF WordOf, ImageWidthAddr
      <4> QED
        BY <1>1, <2>2, <3>1, <4>1, DirectWritten, WordAddresses DEF HeaderRead
    <3> QED
      BY <2>3, <3>1, <3>2, <3>4 DEF SaveInv, Saving
  <2>6. CASE GpuSaveHeight \/ GpuWritePixel \/ GpuStop
    <3>1. Saving /\ i = ImageWidth - 1 /\ UNCHANGED <<i, bufferB>>
      BY <2>6
      DEF GpuSaveHeight, GpuWritePixel, GpuStop, GpuReady, Saving, SaveInv
    <3>2. /\ {1, 2, SavedAt} \subseteq 1..Len(Lines)
          /\ WordOf(SavedAt) = rd_addr + 4 * i
          /\ WordOf(1) = ImageWidthAddr /\ WordOf(2) = ImageHeightAddr
      BY <2>2, <3>1, SavedWord
    <3>3. CASE GpuSaveHeight
      <4>1. /\ gpuPc = "newWidth" /\ gpuPc' = "newHeight"
            /\ DirectWrite(ImageHeightAddr, width)
        BY <3>3 DEF GpuSaveHeight, GpuReady, GpuGoto
      <4>2. mem'[WordOf(2)] = ImageWidth /\ mem'[WordOf(1)] = mem[WordOf(1)]
        BY <1>1, <2>2, <3>2, <4>1, DirectWritten, WordAddresses DEF HeaderRead
      <4>3. mem[WordOf(1)] = ImageHeight
        BY <4>1 DEF SaveInv
      <4>4. HeaderSaved'
        BY <2>3, <4>2, <4>3 DEF HeaderSaved
      <4> QED
        BY <2>3, <3>1, <4>1, <4>4 DEF SaveInv
    <3>4. CASE GpuWritePixel
      <4>1. PICK n : n = k'
        OBVIOUS
      <4>2. /\ gpuPc \in {"newHeight", "write"} /\ gpuPc' = "write"
            /\ n = NextIndex("write") /\ n < Size
            /\ DirectWrite(WordOf(SavedAt), bufferB[n])
        BY <3>2, <3>4, <4>1 DEF GpuWritePixel, GpuReady, GpuGoto
      <4>3. n \in 0..Size - 1
        BY <2>4, <4>2 DEF NextIndex, SaveInv
      <4>4. mem'[WordOf(SavedAt)] = bufferB[n]
        BY <1>1, <3>2, <4>2, DirectWritten, WordAddresses
      <4>5. ASSUME NEW m \in {1, 2} \ {SavedAt}
            PROVE  mem'[WordOf(m)] = mem[WordOf(m)]
        <5>1. WordOf(m) \in GlobalAddr /\ WordOf(m) # WordOf(SavedAt)
          BY <3>2, WordAddresses
        <5> QED
          BY <1>1, <4>2, <5>1, DirectWritten
      <4>6. HeaderSaved'
        BY <2>3, <4>2, <4>5 DEF SaveInv, HeaderSaved
      <4> QED
        BY <2>3, <3>1, <4>1, <4>2, <4>3, <4>4, <4>6 DEF SaveInv
    <3>5. CASE GpuStop
      BY <3>5 DEF GpuStop, GpuGoto, SaveInv, Saving
    <3> QED
      BY <2>6, <3>3, <3>4, <3>5
  <2> QED
    BY <1>3, <2>5, <2>6
<1> QED
  BY <1>2, <1>3 DEF GpuStep, GpuNext

LEMMA SaveStep ==
    ASSUME Fits, ImageShaped, ImageInv, RotationInv, SaveInv, [Next]_vars
    PROVE  SaveInv'
<1>1. CASE GpuStep
  BY <1>1, RotationStep, GpuSaves
<1>2. CASE ~GpuStep
  <2>1. UNCHANGED gpuVars
    BY <1>2
    DEF Next, vars, GeneratorStep, CommunicationStep, EncryptionStep, TimeStep
  <2>2. CASE ~Saving
    BY <2>1, <2>2 DEF SaveInv, Saving, gpuVars
  <2>3. CASE Saving
    <3>1. i = ImageWidth - 1 /\ rd_addr \in {16, 24} /\ GpuAtWork
      BY <2>3 DEF SaveInv, Saving, ImageInv, StageInv, BeginInv, GpuAtWork
    <3>2. {1, 2, SavedAt} \subseteq 1..Len(Lines)
      BY <3>1, SavedWord
    <3>3. \A n \in {1, 2, SavedAt} : mem'[WordOf(n)] = mem[WordOf(n)]
      BY <1>2, <3>1, <3>2, OthersKeepWords
    <3>4. /\ UNCHANGED <<First, SavedAt, ImageWidth, ImageHeight, Size, Saving>>
          /\ UNCHANGED <<gpuPc, i, k, bufferB>>
      BY <2>1
      DEF First, SavedAt, ImageWidth, ImageHeight, Plain, Size, Saving, gpuVars
    <3>5. HeaderSaved => HeaderSaved'
      BY <3>3, <3>4 DEF HeaderSaved, WordOf
    <3> QED
      BY <3>3, <3>4, <3>5 DEF SaveInv, WordOf
  <2> QED
    BY <2>2, <2>3
<1> QED
  BY <1>1, <1>2

-----------------------------------------------------------------------------
(* The pipeline. *)

PipelineInv == ImageInv /\ RotationInv /\ SaveInv

PipelineStep == [Pipeline!Next]_(Pipeline!pipeVars)

LEMMA ArrivedCount ==
    ASSUME TypeInv
    PROVE  Arrived \in 0..Len(Lines) /\ StoredEnd = 16 + 4 * Arrived
<1>1. PICK n \in 0..Len(Lines) : memory_idx = 16 + 4 * n
  BY DEF TypeInv, TypeOK, CommunicationTypeOK
<1>2. line \in 0..Len(Lines) /\ Len(Lines) \in Nat
  BY LinesAssumption DEF TypeInv, TypeOK, GeneratorTypeOK
<1>3. comPc = "store" => n < Len(Lines)
  BY <1>1, <1>2 DEF TypeInv, StoreBound
<1>4. PICK m \in 0..Len(Lines) : StoredEnd = 16 + 4 * m
  <2>1. CASE comPc = "store"
    <3>1. n + 1 \in 0..Len(Lines) /\ StoredEnd = 16 + 4 * (n + 1)
      BY <1>1, <1>2, <1>3, <2>1 DEF StoredEnd
    <3> QED
      BY <3>1
  <2>2. CASE comPc # "store"
    BY <1>1, <2>2 DEF StoredEnd
  <2> QED
    BY <2>1, <2>2
<1>5. Arrived = m
  BY <1>2, <1>4 DEF Arrived
<1> QED
  BY <1>4, <1>5

\* What has arrived is what was sent.
LEMMA PrefixStored ==
    ASSUME Fits, ImageInv, Arriving
    PROVE  \A n \in 1..Arrived : mem[WordOf(n)] = Lines[n].pixel
<1> SUFFICES ASSUME NEW n \in 1..Arrived PROVE mem[WordOf(n)] = Lines[n].pixel
  OBVIOUS
<1>1. Len(Lines) \in Nat /\ Arrived \in 0..Len(Lines) /\ StoredEnd = 16 + 4 * Arrived
  BY ArrivedCount, LinesAssumption DEF ImageInv
<1>2. n \in 1..Len(Lines) /\ n \in Int
  BY <1>1
<1>3. CASE mem[ImageBeginAddr] = 0
  <2>1. WordOf(n) \in GlobalAddr /\ WordOf(n) >= 16
    BY <1>2, WordAddresses
  <2>2. WordOf(n) < StoredEnd
    BY <1>1 DEF WordOf
  <2>3. PICK m \in ValidLines(Len(Lines)) :
            Place(m) = WordOf(n) /\ mem[WordOf(n)] = Lines[m].pixel
    BY <1>3, <2>1, <2>2 DEF ImageInv, StoredInOrder
  <2>4. m \in 0..Len(Lines) /\ m \in Int
    BY <1>1 DEF ValidLines
  <2>5. m = n
    BY <1>2, <2>3, <2>4, PlaceOf DEF WordOf
  <2> QED
    BY <2>3, <2>5
<1>4. CASE comPc \in {"begin", "range"}
  BY <1>2, <1>4 DEF ImageInv, ContentInv, ReceivedInv, Received
<1> QED
  BY <1>3, <1>4 DEF Arriving

LEMMA SameWords ==
    ASSUME TypeInv, UNCHANGED StoredEnd,
           \A n \in 1..Len(Lines) : mem'[WordOf(n)] = mem[WordOf(n)]
    PROVE  UNCHANGED StoredWords
<1>1. Arrived \in 0..Len(Lines) /\ Len(Lines) \in Nat /\ UNCHANGED Arrived
  BY ArrivedCount, LinesAssumption DEF Arrived
<1>2. \A n \in 1..Arrived : n \in 1..Len(Lines)
  BY <1>1
<1> QED
  BY <1>1, <1>2 DEF StoredWords, WordOf

\* One word of the image is written.
LEMMA WordWritten ==
    ASSUME Fits, MemTypeOK, TypeInv, UNCHANGED <<comPc, memory_idx>>,
           NEW n \in 1..Len(Lines), NEW v, DirectWrite(WordOf(n), v),
           Arrived = Len(Lines)
    PROVE  StoredWords' = [StoredWords EXCEPT ![n] = v]
<1>1. UNCHANGED Arrived
  BY DEF Arrived, StoredEnd
<1>2. mem'[WordOf(n)] = v
  BY DirectWritten, WordAddresses
<1>3. ASSUME NEW m \in 1..Len(Lines), m # n
      PROVE  mem'[WordOf(m)] = mem[WordOf(m)]
  BY <1>3, DirectWritten, WordAddresses
<1>4. StoredWords = [m \in 1..Len(Lines) |-> mem[WordOf(m)]]
  BY DEF StoredWords
<1>5. StoredWords' = [m \in 1..Len(Lines) |-> mem'[WordOf(m)]]
  BY <1>1 DEF StoredWords, WordOf
<1> QED
  BY <1>2, <1>3, <1>4, <1>5

\* A step that is none of the pipeline's.
LEMMA PipelineIdle ==
    ASSUME UNCHANGED <<StageNow, StoredWords>>,
           \/ StageNow \notin {"save", "done"}
           \/ UNCHANGED <<rd_addr, width, height, bufferB>>
    PROVE  PipelineStep
<1>1. UNCHANGED FirstTaken
  BY DEF FirstTaken, Turned, First
<1>2. UNCHANGED Picture
  BY DEF Picture, Turned, pixelAddr
<1> QED
  BY <1>1, <1>2 DEF PipelineStep, Pipeline!pipeVars

\* There is no picture before the rotation.
LEMMA NoPicture ==
    /\ StageNow \notin {"save", "done"} => FirstTaken = 0 /\ Picture = <<>>
    /\ StageNow' \notin {"save", "done"} => FirstTaken' = 0 /\ Picture' = <<>>
BY DEF FirstTaken, Picture, Turned

\* The pixel that is stored is the next word that is sent.
LEMMA StoreReceives ==
    ASSUME Fits, ImageInv, ~Done, ComStorePixel
    PROVE  /\ Len(StoredWords) < Len(SentWords)
           /\ StoredWords' = Append(StoredWords, SentWords[Len(StoredWords) + 1])
<1>1. TypeInv /\ LinkInv /\ KeptInv /\ MemTypeOK
  BY DEF ImageInv, TypeInv, TypeOK
<1>2. /\ line \in 1..Len(Lines) /\ Place(line) = memory_idx
      /\ packet[PacketWords] = Lines[line].pixel
  BY <1>1, StoreInPlace DEF ValidLines
<1>3. /\ comPc = "receive" /\ comPc' = "store" /\ UNCHANGED memory_idx
      /\ DirectWrite(memory_idx, packet[PacketWords])
  BY DEF ComStorePixel, ComReady, ComGoto, PacketReceived
<1>4. Len(Lines) \in Nat /\ Arrived \in 0..Len(Lines) /\ StoredEnd = 16 + 4 * Arrived
  BY <1>1, ArrivedCount, LinesAssumption
<1>5. line \in 0..Len(Lines) /\ line \in Int
  BY <1>2, <1>4
<1>6. line = Arrived + 1 /\ memory_idx = WordOf(line)
  BY <1>2, <1>3, <1>4, <1>5, PlaceOf DEF StoredEnd, WordOf
<1>7. Arrived' = Arrived + 1
  <2>1. StoredEnd' = 16 + 4 * (Arrived + 1)
    BY <1>3, <1>4 DEF StoredEnd
  <2> QED
    BY <1>4, <2>1 DEF Arrived
<1>8. \A n \in 1..Arrived : mem'[WordOf(n)] = mem[WordOf(n)]
  <2> SUFFICES ASSUME NEW n \in 1..Arrived PROVE mem'[WordOf(n)] = mem[WordOf(n)]
    OBVIOUS
  <2>1. n \in 1..Len(Lines) /\ n # line
    BY <1>4, <1>6
  <2> QED
    BY <1>1, <1>2, <1>3, <1>6, <2>1, WordAddresses, DirectWritten
<1>9. mem'[WordOf(line)] = Lines[line].pixel
  BY <1>1, <1>2, <1>3, <1>6, WordAddresses, DirectWritten
<1> DEFINE N == Arrived
           A == [n \in 1..N |-> mem[WordOf(n)]]
           B == [n \in 1..N + 1 |-> mem'[WordOf(n)]]
<1>10. StoredWords = A /\ StoredWords' = B
  BY <1>7 DEF StoredWords, WordOf
<1>11. Len(A) = N /\ A \in Seq(Word)
  <2>1. \A n \in 1..N : mem[WordOf(n)] \in Word
    BY <1>1, <1>4, WordAddresses DEF MemTypeOK
  <2> QED
    BY <1>4, <2>1
<1>12. Lines[line].pixel \in Word
  BY <1>2, FileLines
<1>13. B = Append(A, Lines[line].pixel)
  <2> HIDE DEF N
  <2>1. N \in Nat /\ line = N + 1
    BY <1>4, <1>6 DEF N
  <2>2. \A n \in 1..N : B[n] = A[n]
    BY <1>8, <2>1 DEF N
  <2>3. B[N + 1] = Lines[line].pixel
    BY <1>9, <2>1
  <2>4. DOMAIN Append(A, Lines[line].pixel) = 1..N + 1
    BY <1>11, <1>12, <2>1
  <2> QED
    BY <1>11, <1>12, <2>1, <2>2, <2>3, <2>4
<1>14. Len(SentWords) = Len(Lines) /\ SentWords[line] = Lines[line].pixel
  BY <1>2, <1>4 DEF SentWords
<1>15. Len(StoredWords) = Arrived
  BY <1>10, <1>11
<1>16. StoredWords' = Append(StoredWords, Lines[line].pixel)
  BY <1>10, <1>13
<1> HIDE DEF A, B
<1> QED
  BY <1>4, <1>6, <1>14, <1>15, <1>16, <1>2

\* Until the last word has arrived, the communication module receives, and
\* the announcement finds all words received.
LEMMA CommunicationPipeline ==
    ASSUME Fits, PipelineInv, CommunicationStep
    PROVE  PipelineStep
<1>1. /\ UNCHANGED <<encVars, gpuVars>> /\ [Next]_vars
      /\ ImageInv /\ TypeInv /\ MemTypeOK /\ ContentInv /\ StageInv /\ KeptInv
  BY DEF CommunicationStep, Next, PipelineInv, ImageInv, TypeInv, TypeOK
<1>2. UNCHANGED <<encPc, gpuPc, rd_addr, width, height, bufferB>>
  BY <1>1 DEF encVars, gpuVars
<1>3. CASE Done
  <2>1. Done' /\ UNCHANGED mem
    BY <1>1, <1>3, DoneStays
  <2>2. /\ comPc \notin {"begin", "range", "store"}
        /\ comPc' \notin {"begin", "range", "store"}
    BY <1>3, <2>1 DEF Done
  <2>3. UNCHANGED memory_idx
    BY <2>2
    DEF CommunicationStep, ComNext, ComStart, ComPoll, ComReadOpflag,
        ComReceiveWord, ComStorePixel, ComRelease, ComSaveBegin, ComSaveEnd,
        ComStartCrypto, ComClearEnd, ComReady
  <2>4. UNCHANGED StoredWords
    BY <2>1, <2>2, <2>3 DEF StoredWords, Arrived, StoredEnd, WordOf
  <2>5. UNCHANGED StageNow
    BY <1>2, <2>1, <2>2
    DEF StageNow, Arriving, InDecryption, HasImage, Saving
  <2> QED
    BY <1>2, <2>4, <2>5, PipelineIdle
<1>4. CASE ~Done
  <2>1. Before /\ Arriving
    BY <1>1, <1>4, NotDone DEF ContentInv, AnnounceInv, Arriving
  <2>2. StageNow = "receive"
    BY <2>1 DEF StageNow
  <2>3. \A n \in 1..Len(Lines) : WordOf(n) \in GlobalAddr
    BY WordAddresses
  <2>4. ASSUME UNCHANGED StoredWords, Arriving' PROVE PipelineStep
    <3>1. StageNow' = "receive"
      BY <2>4 DEF StageNow
    <3> QED
      BY <2>2, <2>4, <3>1, PipelineIdle
  <2>5. CASE ComStart
    <3>1. mem' = [mem EXCEPT ![CryptoOpflag] = 0, ![GpuOpflag] = 0]
      BY <2>5 DEF ComStart
    <3>2. /\ comPc = "start" /\ comPc' = "end" /\ UNCHANGED memory_idx
          /\ mem'[ImageBeginAddr] = mem[ImageBeginAddr]
      BY <1>1, <2>5, <3>1, FlagAddresses DEF ComStart, ComReady, ComGoto, MemTypeOK
    <3>3. \A n \in 1..Len(Lines) : mem'[WordOf(n)] = mem[WordOf(n)]
      BY <1>1, <2>3, <3>1, FlagsApart DEF MemTypeOK
    <3>4. UNCHANGED StoredWords
      BY <1>1, <3>2, <3>3, SameWords DEF StoredEnd
    <3>5. Arriving'
      BY <2>1, <3>2 DEF Arriving
    <3> QED
      BY <2>4, <3>4, <3>5
  <2>6. CASE ComPoll \/ ComReadOpflag \/ ComReceiveWord \/ ComRelease
    <3>1. comPc \notin {"begin", "range"} /\ UNCHANGED <<mem, StoredEnd>>
      BY <2>1, <2>6
      DEF ComPoll, ComReadOpflag, ComReceiveWord, ComRelease, ComReady,
          ComGoto, PacketReceived, StoredEnd, Before
    <3>2. UNCHANGED StoredWords /\ Arriving'
      BY <2>1, <3>1 DEF StoredWords, Arrived, Arriving, WordOf
    <3> QED
      BY <2>4, <3>2
  <2>7. CASE ComStorePixel
    <3>1. /\ comPc = "receive" /\ memory_idx \in Int /\ memory_idx >= 16
          /\ DirectWrite(memory_idx, packet[PacketWords])
      BY <1>1, <2>7
      DEF ComStorePixel, ComReady, PacketReceived, TypeInv, TypeOK,
          CommunicationTypeOK
    <3>2. Arriving'
      BY <1>1, <2>1, <3>1, WrittenBehind DEF Arriving
    <3>3. StageNow' = "receive"
      BY <3>2 DEF StageNow
    <3>4. Pipeline!Receive
      BY <1>1, <1>4, <2>2, <2>7, <3>3, NoPicture, StoreReceives
      DEF Pipeline!Receive
    <3> QED
      BY <3>4 DEF PipelineStep, Pipeline!Next
  <2>8. CASE ComSaveBegin \/ ComSaveEnd
    <3>1. /\ comPc # "store" /\ comPc' \in {"begin", "range"} /\ UNCHANGED memory_idx
          /\ \E a \in {ImageBeginAddr, ImageEndAddr} : \E v : DirectWrite(a, v)
      BY <2>8
      DEF ComSaveBegin, ComSaveEnd, ComReady, ComGoto, ComOpflag, ComEndOpflag,
          ImageBeginAddr, ImageEndAddr
    <3>2. \A n \in 1..Len(Lines) : mem'[WordOf(n)] = mem[WordOf(n)]
      BY <1>1, <3>1, ContentStays
    <3>3. UNCHANGED StoredWords
      BY <1>1, <3>1, <3>2, SameWords DEF StoredEnd
    <3>4. Arriving'
      BY <3>1 DEF Arriving
    <3> QED
      BY <2>4, <3>3, <3>4
  <2>9. CASE ComStartCrypto
    <3>1. /\ comPc = "range" /\ comPc' = "crypto" /\ UNCHANGED memory_idx
          /\ DirectWrite(CryptoOpflag, 1)
      BY <2>9 DEF ComStartCrypto, ComReady, ComGoto
    <3>2. \A n \in 1..Len(Lines) : mem'[WordOf(n)] = mem[WordOf(n)]
      BY <1>1, <3>1, ContentStays
    <3>3. Arrived = Len(Lines) /\ UNCHANGED Arrived
      <4>1. memory_idx = ImageEnd
        BY <1>1, <3>1, EndOfImage DEF StageInv, EndInv, Announcing
      <4>2. StoredEnd = 16 + 4 * Len(Lines) /\ UNCHANGED StoredEnd
        BY <3>1, <4>1, LinesAssumption DEF StoredEnd, ImageEnd, WordOf
      <4>3. Arrived \in 0..Len(Lines) /\ StoredEnd = 16 + 4 * Arrived
        BY <1>1, ArrivedCount
      <4> QED
        BY <4>2, <4>3, LinesAssumption DEF Arrived
    <3>4. StoredWords = SentWords
      BY <1>1, <2>1, <3>3, PrefixStored DEF StoredWords, SentWords
    <3>5. UNCHANGED StoredWords
      BY <3>2, <3>3 DEF StoredWords, WordOf
    <3>6. mem'[CryptoOpflag] = 1 /\ mem'[ImageBeginAddr] = 16
      BY <1>1, <2>1, <3>1, DirectWritten, FlagAddresses DEF Before
    <3>7. StageNow' = "decrypt"
      BY <3>1, <3>6 DEF StageNow, Arriving, InDecryption, HasImage
    <3>8. Pipeline!Announce
      BY <2>2, <3>4, <3>5, <3>7, NoPicture DEF Pipeline!Announce
    <3> QED
      BY <3>8 DEF PipelineStep, Pipeline!Next
  <2>10. ~ComClearEnd
    BY <2>1 DEF ComClearEnd, ComReady, Before
  <2> QED
    BY <2>5, <2>6, <2>7, <2>8, <2>9, <2>10 DEF CommunicationStep, ComNext
<1> QED
  BY <1>3, <1>4

\* The words are decrypted one after the other, and handed over when all are.
LEMMA EncryptionPipeline ==
    ASSUME Fits, PipelineInv, EncryptionStep
    PROVE  PipelineStep
<1>1. /\ UNCHANGED <<comVars, gpuVars>> /\ ImageInv /\ TypeInv /\ MemTypeOK
      /\ ContentInv /\ StageInv /\ KeptInv
  BY DEF EncryptionStep, PipelineInv, ImageInv, TypeInv, TypeOK
<1>2. UNCHANGED <<comPc, memory_idx, gpuPc, rd_addr, width, height, bufferB, StoredEnd>>
  BY <1>1 DEF comVars, gpuVars, StoredEnd
<1>3. CASE EncPoll
  <2>1. /\ encPc \in {"start", "poll", "base"} /\ encPc' = "poll" /\ UNCHANGED mem
    BY <1>3 DEF EncPoll, EncReady, EncGoto
  <2>2. UNCHANGED StoredWords
    BY <1>1, <1>2, <2>1, SameWords
  <2>3. UNCHANGED StageNow
    BY <1>2, <2>1 DEF StageNow, Arriving, InDecryption, HasImage, Saving
  <2> QED
    BY <1>2, <2>2, <2>3, PipelineIdle
<1>4. CASE EncAcknowledge \/ EncReadBegin \/ EncReadEnd \/ EncReadWord
            \/ EncWriteWord \/ EncStartGpu
  <2>1. encPc \notin {"start", "signal", "base"} /\ (encPc = "poll" => control = 1)
    BY <1>4
    DEF EncAcknowledge, EncReadBegin, EncReadEnd, EncReadWord, EncWriteWord,
        EncStartGpu, EncReady
  <2>2. Announced \/ Decrypting
    BY <1>1, <2>1 DEF StageInv, Phases, Before, Quiet, Decrypted
  <2>3. /\ Done /\ mem[ImageBeginAddr] = 16 /\ gpuPc \in {"start", "poll"}
    BY <2>2 DEF Announced, Decrypting, GpuIdle
  <2>4. comPc \notin {"begin", "range", "store"} /\ memory_idx = ImageEnd
    BY <1>1, <2>3, EndOfImage DEF Done
  <2>5. StageNow = "decrypt"
    <3>1. InDecryption
      BY <2>2 DEF Announced, Decrypting, InDecryption, HasImage
    <3> QED
      BY <2>3, <2>4, <3>1 DEF StageNow, Arriving
  <2>6. Arrived = Len(Lines)
    <3>1. StoredEnd = 16 + 4 * Len(Lines)
      BY <2>4, LinesAssumption DEF StoredEnd, ImageEnd, WordOf
    <3> QED
      BY <3>1, LinesAssumption DEF Arrived
  <2>7. ASSUME UNCHANGED StoredWords, encPc' \in {"clear", "begin", "range", "read"},
               mem'[ImageBeginAddr] = 16
        PROVE  PipelineStep
    <3>1. StageNow' = "decrypt"
      BY <1>2, <2>4, <2>7 DEF StageNow, Arriving, InDecryption, HasImage
    <3> QED
      BY <2>5, <2>7, <3>1, PipelineIdle
  <2>8. CASE EncAcknowledge
    <3>1. encPc' = "clear" /\ DirectWrite(CryptoOpflag, 0)
      BY <2>8 DEF EncAcknowledge, EncGoto
    <3>2. UNCHANGED StoredWords
      BY <1>1, <1>2, <3>1, ContentStays, SameWords
    <3>3. mem'[ImageBeginAddr] = 16
      BY <1>1, <2>3, <3>1, DirectWritten, FlagAddresses
    <3> QED
      BY <2>7, <3>1, <3>2, <3>3
  <2>9. CASE EncReadBegin \/ EncReadEnd \/ EncReadWord
    <3>1. encPc' \in {"begin", "range", "read"} /\ UNCHANGED mem
      BY <2>9 DEF EncReadBegin, EncReadEnd, EncReadWord, EncGoto
    <3>2. UNCHANGED StoredWords
      BY <1>1, <1>2, <3>1, SameWords
    <3> QED
      BY <2>3, <2>7, <3>1, <3>2
  <2>10. CASE EncWriteWord
    <3>1. /\ encPc = "read" /\ encPc' = "write"
          /\ DirectWrite(w, XorWord(mydata, KeyByte(rc4)))
      BY <2>10 DEF EncWriteWord, EncReady, EncGoto
    <3>2. PICK m \in 1..Len(Lines) :
              /\ w = WordOf(m) /\ rc4 = Key[m] /\ mydata = Lines[m].pixel
              /\ Swept(m - 1)
      BY <1>1, <3>1 DEF ContentInv, SweepInv
    <3>3. XorWord(mydata, KeyByte(rc4)) = Image[m]
      BY <3>2, FileLines
    <3>4. StoredWords' = [StoredWords EXCEPT ![m] = Image[m]]
      BY <1>1, <1>2, <2>6, <3>1, <3>2, <3>3, WordWritten
    <3>5. \A n \in 1..Len(SentWords) :
              StoredWords[n] = IF n < m THEN Image[n] ELSE SentWords[n]
      <4>1. Len(SentWords) = Len(Lines) /\ Len(Lines) \in Nat
        BY LinesAssumption DEF SentWords
      <4>2. ASSUME NEW n \in 1..Len(Lines)
            PROVE  StoredWords[n] = IF n < m THEN Image[n] ELSE Lines[n].pixel
        <5>1. n <= m - 1 <=> n < m
          BY <4>1
        <5>2. StoredWords[n] = mem[WordOf(n)]
          BY <2>6 DEF StoredWords
        <5> QED
          BY <3>2, <5>1, <5>2 DEF Swept, Plain
      <4> QED
        BY <4>1, <4>2 DEF SentWords
    <3>6. mem'[ImageBeginAddr] = 16
      BY <1>1, <2>3, <3>1, <3>2, DirectWritten, FlagsApart, FlagAddresses
    <3>7. StageNow' = "decrypt"
      BY <1>2, <2>4, <3>1, <3>6 DEF StageNow, Arriving, InDecryption, HasImage
    <3>8. m \in 1..Len(SentWords)
      BY LinesAssumption DEF SentWords
    <3>9. Pipeline!Decrypt
      BY <2>5, <3>4, <3>5, <3>7, <3>8, NoPicture DEF Pipeline!Decrypt
    <3> QED
      BY <3>9 DEF PipelineStep, Pipeline!Next
  <2>11. CASE EncStartGpu
    <3>1. /\ encPc' = "signal" /\ DirectWrite(GpuOpflag, 1)
      BY <2>11 DEF EncStartGpu, EncGoto
    <3>2. ContentInv'
      BY <1>1, EncryptionContent
    <3>3. /\ mem'[GpuOpflag] = 1 /\ mem'[CryptoOpflag] = mem[CryptoOpflag]
          /\ mem'[ImageBeginAddr] = 16
      BY <1>1, <2>3, <3>1, DirectWritten, FlagAddresses
    <3>4. Decrypting
      BY <2>2, <2>11 DEF EncStartGpu, EncReady, Announced
    <3>5. StageNow' = "rotate"
      BY <1>2, <2>3, <2>4, <3>1, <3>3, <3>4
      DEF StageNow, Arriving, InDecryption, HasImage, Saving, Decrypting
    <3>6. UNCHANGED StoredWords
      BY <1>1, <1>2, <3>1, ContentStays, SameWords
    <3>7. StoredWords = Image
      <4>1. \A n \in 1..Len(Lines) : mem'[WordOf(n)] = Image[n]
        <5>1. Whole'
          BY <1>2, <2>3, <3>2, <3>3 DEF ContentInv, PlainInv
        <5> QED
          BY <5>1, LinesAssumption DEF Whole, Swept, Plain
      <4>2. \A n \in 1..Len(Lines) : mem[WordOf(n)] = Image[n]
        BY <1>1, <3>1, <4>1, ContentStays
      <4>3. Image = [n \in 1..Len(Lines) |-> Image[n]]
        BY FileLines, FileAssumption
      <4> QED
        BY <2>6, <4>2, <4>3 DEF StoredWords
    <3>8. /\ FirstTaken = 0 /\ Picture = <<>>
          /\ FirstTaken' = 0 /\ Picture' = <<>>
      BY <2>5, <3>5, NoPicture
    <3>9. Pipeline!HandOver
      BY <2>5, <3>5, <3>6, <3>7, <3>8 DEF Pipeline!HandOver
    <3> QED
      BY <3>9 DEF PipelineStep, Pipeline!Next
  <2> QED
    BY <1>4, <2>8, <2>9, <2>10, <2>11
<1>5. CASE EncSaveBase
  <2>1. encPc = "signal" /\ encPc' = "base" /\ DirectWrite(ImageBeginAddr, 24)
    BY <1>5 DEF EncSaveBase, EncReady, EncGoto
  <2>2. Decrypted
    BY <1>1, <2>1 DEF StageInv, Phases, Before, Quiet, Announced, Decrypting
  <2>3. comPc \notin {"begin", "range"} /\ mem[ImageBeginAddr] # 0
    BY <2>2 DEF Decrypted, Done
  <2>4. /\ mem'[CryptoOpflag] = mem[CryptoOpflag]
        /\ mem'[GpuOpflag] = mem[GpuOpflag]
        /\ mem'[ImageBeginAddr] = 24
    BY <1>1, <2>1, DirectWritten, FlagAddresses
  <2>5. UNCHANGED StageNow
    BY <1>2, <2>1, <2>3, <2>4 DEF StageNow, Arriving, InDecryption, HasImage, Saving
  <2>6. UNCHANGED StoredWords
    BY <1>1, <1>2, <2>1, ContentStays, SameWords
  <2> QED
    BY <1>2, <2>5, <2>6, PipelineIdle
<1> QED
  BY <1>3, <1>4, <1>5 DEF EncryptionStep, EncNext

\* Every pixel of the result is one of the picture, the last one its corner.
LEMMA PictureCell ==
    ASSUME ImageShaped, HeaderRead, Turned, NEW n \in 0..Size - 1
    PROVE  \E p \in Pipeline!Point :
               /\ Picture[p] = bufferB[n]
               /\ n = Size - 1 => p = <<ImageHeight - 1, ImageWidth - 1>>
<1> DEFINE W == ImageWidth
           H == ImageHeight
<1>1. /\ W \in Nat \ {0} /\ H \in Nat \ {0} /\ width = W /\ height = H
      /\ n \in 0..(W * H) - 1 /\ Size = W * H
  BY ImageSize DEF ImageShaped, HeaderRead
<1>2. Pipeline!Point = (0..H - 1) \X (0..W - 1)
  BY DEF Pipeline!Point, Pipeline!Height, Pipeline!Width, ImageWidth,
         ImageHeight, Plain
<1>3. Picture = [p \in (0..H - 1) \X (0..W - 1) |-> bufferB[p[1] + p[2] * H]]
  BY <1>1 DEF Picture, pixelAddr
<1> HIDE DEF W, H
<1>4. PICK y \in 0..W - 1, x \in 0..H - 1 : n = y * H + x
  <2>1. n \in Int /\ 0 <= n /\ n < W * H
    <3>1. Size \in Nat /\ Size = W * H
      BY <1>1, ImageSize
    <3>2. n \in Int /\ 0 <= n /\ n < Size
      BY <3>1
    <3> QED
      BY <3>1, <3>2
  <2>2. PICK q \in Int, r \in 0..H - 1 : n = q * H + r
    <3>1. H \in Nat /\ H > 0 /\ n \in Int
      BY <1>1, <2>1
    <3> QED
      BY <3>1, QuotientRemainder
  <2>3. q >= 0
    <3>1. q <= -1 => q * H <= (-1) * H
      BY <1>1
    <3> QED
      BY <1>1, <2>1, <2>2, <3>1
  <2>4. q < W
    <3>1. q >= W => q * H >= W * H
      BY <1>1
    <3> QED
      BY <1>1, <2>1, <2>2, <3>1
  <2> QED
    BY <1>1, <2>2, <2>3, <2>4
<1>5. n = Size - 1 => x = H - 1 /\ y = W - 1
  <2> SUFFICES ASSUME n = Size - 1 PROVE x = H - 1 /\ y = W - 1
    OBVIOUS
  <2>1. (W - 1) * H + (H - 1) = n
    BY <1>1
  <2>2. H - 1 \in 0..H - 1 /\ W - 1 \in Int /\ y \in Int /\ x \in 0..H - 1
    BY <1>1
  <2>3. (y * H + x) \div H = y /\ (y * H + x) % H = x
    BY <1>1, <2>2, DivMod
  <2>4. /\ ((W - 1) * H + (H - 1)) \div H = W - 1
        /\ ((W - 1) * H + (H - 1)) % H = H - 1
    BY <1>1, <2>2, DivMod
  <2> QED
    BY <1>4, <2>1, <2>3, <2>4
<1>6. <<x, y>> \in Pipeline!Point /\ Picture[<<x, y>>] = bufferB[n]
  <2> DEFINE z == y * H
  <2>1. z \in Int /\ x \in Int
    BY <1>1
  <2> HIDE DEF z
  <2>2. x + z = z + x
    BY <2>1
  <2> QED
    BY <1>2, <1>3, <1>4, <2>2 DEF z
<1> QED
  BY <1>5, <1>6 DEF W, H

\* The picture is taken from the words and two of its pixels go back.
LEMMA GpuPipeline ==
    ASSUME Fits, ImageShaped, PipelineInv, PipelineInv', GpuStep
    PROVE  PipelineStep
<1>1. /\ UNCHANGED <<comVars, encVars>> /\ ImageInv /\ TypeInv /\ MemTypeOK
      /\ ContentInv /\ StageInv /\ KeptInv /\ RotationInv /\ RotationInv'
      /\ SaveInv /\ [Next]_vars
  BY DEF GpuStep, Next, PipelineInv, ImageInv, TypeInv, TypeOK
<1>2. UNCHANGED <<comPc, memory_idx, encPc, StoredEnd>>
  BY <1>1 DEF comVars, encVars, StoredEnd
<1>3. CASE GpuPoll
  <2>1. /\ gpuPc \in {"start", "poll", "height", "stop"} /\ gpuPc' = "poll"
        /\ UNCHANGED <<mem, rd_addr, width, height, bufferB>>
    BY <1>3 DEF GpuPoll, GpuReady, GpuGoto
  <2>2. UNCHANGED StoredWords
    BY <1>1, <1>2, <2>1, SameWords
  <2>3. UNCHANGED StageNow
    BY <1>2, <2>1 DEF StageNow, Arriving, InDecryption, HasImage, Saving
  <2> QED
    BY <2>1, <2>2, <2>3, PipelineIdle
<1>4. CASE GpuReadBase \/ GpuReadWidth \/ GpuReadHeight \/ GpuFetchPixel
  <2>1. /\ GpuAtWork /\ ~Saving /\ ~Saving' /\ UNCHANGED mem
    BY <1>4
    DEF GpuReadBase, GpuReadWidth, GpuReadHeight, GpuFetchPixel, GpuReady,
        GpuGoto, GpuAtWork, Saving
  <2>2. ~Arriving /\ ~InDecryption /\ mem[GpuOpflag] = 1
    BY <1>1, <2>1, GpuWorks
  <2>3. ~Arriving' /\ ~InDecryption'
    BY <1>2, <2>1, <2>2 DEF Arriving, InDecryption, HasImage
  <2>4. StageNow = "rotate" /\ StageNow' = "rotate"
    BY <2>1, <2>2, <2>3 DEF StageNow
  <2>5. UNCHANGED StoredWords
    BY <1>1, <1>2, <2>1, SameWords
  <2> QED
    BY <2>4, <2>5, PipelineIdle
<1>5. CASE GpuRotate \/ GpuSaveHeight \/ GpuWritePixel \/ GpuStop
  <2>1. /\ gpuPc \in {"height", "fetch", "newWidth", "newHeight", "write"}
        /\ UNCHANGED <<rd_addr, width, height>>
    BY <1>5 DEF GpuRotate, GpuSaveHeight, GpuWritePixel, GpuStop, GpuReady
  <2>2. /\ mem[GpuOpflag] = 1 /\ mem[CryptoOpflag] # 1
        /\ ~Arriving /\ ~InDecryption /\ ~HasImage("communication")
        /\ memory_idx = ImageEnd
    BY <1>1, <2>1, GpuWorks DEF GpuAtWork
  <2>3. Arrived = Len(Lines)
    <3>1. StoredEnd = 16 + 4 * Len(Lines)
      BY <2>2, LinesAssumption DEF StoredEnd, ImageEnd, WordOf, HasImage
    <3> QED
      BY <3>1, LinesAssumption DEF Arrived
  <2>4. rd_addr \in {16, 24} /\ HeaderRead
    BY <1>1, <2>1 DEF StageInv, BeginInv, RotationInv, HeaderInv
  <2>5. /\ First \in {1, 3} /\ UNCHANGED First
        /\ Size \in Nat \ {0} /\ Len(Lines) = 2 + Size
    BY <2>1, <2>4, FirstWord, ImageSize DEF First
  <2>6. WordOf(1) = ImageWidthAddr /\ WordOf(2) = ImageHeightAddr
        /\ 1 \in 1..Len(Lines) /\ 2 \in 1..Len(Lines)
    BY <2>5 DEF WordOf, ImageWidthAddr, ImageHeightAddr
  <2>7. /\ Pipeline!Width = ImageWidth /\ Pipeline!Height = ImageHeight
        /\ width = ImageWidth /\ height = ImageHeight
    BY <2>4 DEF Pipeline!Width, Pipeline!Height, ImageWidth, ImageHeight,
                Plain, HeaderRead
  <2>8. ASSUME NEW n \in 1..Len(Lines), NEW v, DirectWrite(WordOf(n), v), Saving'
        PROVE  StageNow' = "save" /\ StoredWords' = [StoredWords EXCEPT ![n] = v]
    <3>1. WordOf(n) \in Int /\ WordOf(n) >= 16
      BY WordAddresses
    <3>2. /\ mem'[CryptoOpflag] = mem[CryptoOpflag]
          /\ mem'[ImageBeginAddr] = mem[ImageBeginAddr]
      BY <1>1, <2>8, <3>1, WrittenBehind
    <3>3. ~Arriving' /\ ~InDecryption'
      BY <1>2, <2>2, <3>2 DEF Arriving, InDecryption, HasImage
    <3>4. StageNow' = "save"
      BY <2>8, <3>3 DEF StageNow
    <3> QED
      BY <1>1, <1>2, <2>3, <2>8, <3>4, WordWritten
  <2>9. CASE GpuRotate
    <3>1. /\ ~Saving /\ Saving' /\ Rotating' /\ DirectWrite(ImageWidthAddr, height)
      BY <2>9 DEF GpuRotate, GpuReady, GpuGoto, Saving, Rotating
    <3>2. StageNow = "rotate"
      BY <2>2, <3>1 DEF StageNow
    <3>3. StageNow' = "save" /\ StoredWords' = [StoredWords EXCEPT ![1] = ImageHeight]
      BY <2>6, <2>7, <2>8, <3>1
    <3>4. Turned' /\ FirstTaken' = First
      BY <2>5, <3>3 DEF Turned, FirstTaken
    <3>5. Picture' = Pipeline!Turned(First)
      <4>1. width' = ImageWidth /\ height' = ImageHeight
        BY <2>1, <2>7
      <4>2. \A p \in (0..ImageHeight - 1) \X (0..ImageWidth - 1) :
                bufferB'[p[1] + p[2] * ImageHeight]
                    = Image[First + (p[2] + (ImageHeight - 1 - p[1]) * ImageWidth)]
        BY <1>1, <2>5, <3>1
        DEF RotationInv, TurnedInv, Plain, ImageWidth, ImageHeight
      <4> QED
        BY <3>4, <4>1, <4>2
        DEF Picture, pixelAddr, Pipeline!Turned, Pipeline!Point, Pipeline!Height,
            Pipeline!Width, ImageWidth, ImageHeight, Plain
    <3>6. Pipeline!Rotate
      BY <2>5, <2>7, <3>2, <3>3, <3>4, <3>5 DEF Pipeline!Rotate
    <3> QED
      BY <3>6 DEF PipelineStep, Pipeline!Next
  <2>10. CASE GpuSaveHeight \/ GpuWritePixel \/ GpuStop
    <3>1. Saving /\ UNCHANGED bufferB
      BY <2>10 DEF GpuSaveHeight, GpuWritePixel, GpuStop, GpuReady, Saving
    <3>2. /\ StageNow = "save" /\ Turned /\ FirstTaken = First
          /\ i = ImageWidth - 1
      BY <1>1, <2>2, <3>1 DEF StageNow, Turned, FirstTaken, SaveInv
    <3>3. /\ SavedAt \in 1..Len(Lines) /\ WordOf(SavedAt) = rd_addr + 4 * i
          /\ Pipeline!SavedAt = SavedAt
      BY <2>4, <2>7, <3>2, SavedWord DEF Pipeline!SavedAt, SavedAt
    <3>4. ASSUME StageNow' \in {"save", "done"}
          PROVE  UNCHANGED <<FirstTaken, Picture>>
      <4>1. Turned'
        BY <3>4 DEF Turned
      <4> QED
        BY <2>1, <2>5, <3>1, <3>2, <4>1 DEF FirstTaken, Picture, pixelAddr
    <3>5. CASE GpuSaveHeight
      <4>1. Saving' /\ DirectWrite(ImageHeightAddr, width)
        BY <3>5 DEF GpuSaveHeight, GpuGoto, Saving
      <4>2. StageNow' = "save" /\ StoredWords' = [StoredWords EXCEPT ![2] = ImageWidth]
        BY <2>6, <2>7, <2>8, <4>1
      <4>3. Pipeline!SaveHeight
        BY <2>7, <3>2, <3>4, <4>2 DEF Pipeline!SaveHeight
      <4> QED
        BY <4>3 DEF PipelineStep, Pipeline!Next
    <3>6. CASE GpuWritePixel
      <4>1. PICK n : n = k'
        OBVIOUS
      <4>2. Saving' /\ DirectWrite(WordOf(SavedAt), bufferB[n])
        BY <3>3, <3>6, <4>1 DEF GpuWritePixel, GpuGoto, Saving
      <4>3. n \in 0..Size - 1
        BY <1>1, <2>5, <3>6, <4>1
        DEF GpuWritePixel, GpuReady, NextIndex, SaveInv
      <4>4. /\ StageNow' = "save"
            /\ StoredWords' = [StoredWords EXCEPT ![SavedAt] = bufferB[n]]
        BY <2>8, <3>3, <4>2
      <4>5. PICK p \in Pipeline!Point : Picture[p] = bufferB[n]
        BY <2>4, <3>2, <4>3, PictureCell
      <4>6. Pipeline!SavePixel
        BY <3>2, <3>3, <3>4, <4>4, <4>5 DEF Pipeline!SavePixel
      <4> QED
        BY <4>6 DEF PipelineStep, Pipeline!Next
    <3>7. CASE GpuStop
      <4>1. /\ gpuPc \in {"newHeight", "write"} /\ NextIndex("write") >= Size
            /\ gpuPc' = "stop" /\ DirectWrite(GpuOpflag, 0)
        BY <3>7 DEF GpuStop, GpuReady, GpuGoto
      <4>2. gpuPc = "write" /\ k = Size - 1
        BY <1>1, <2>5, <4>1 DEF NextIndex, SaveInv
      <4>3. /\ mem'[GpuOpflag] = 0 /\ mem'[CryptoOpflag] = mem[CryptoOpflag]
            /\ mem'[ImageBeginAddr] = mem[ImageBeginAddr]
        BY <1>1, <4>1, DirectWritten, FlagAddresses
      <4>4. ~Arriving' /\ ~InDecryption' /\ ~Saving'
        BY <1>2, <2>2, <4>1, <4>3 DEF Arriving, InDecryption, HasImage, Saving
      <4>5. StageNow' = "done"
        BY <4>3, <4>4 DEF StageNow
      <4>6. UNCHANGED StoredWords
        BY <1>1, <1>2, <4>1, ContentStays, SameWords
      <4>7. \A n \in 1..Len(Lines) : StoredWords[n] = mem[WordOf(n)]
        BY <2>3 DEF StoredWords
      <4>8. StoredWords[SavedAt] = Picture[<<ImageHeight - 1, ImageWidth - 1>>]
        <5>1. k \in 0..Size - 1 /\ mem[WordOf(SavedAt)] = bufferB[k]
          BY <1>1, <4>2 DEF SaveInv
        <5>2. PICK p \in Pipeline!Point :
                  /\ Picture[p] = bufferB[k]
                  /\ p = <<ImageHeight - 1, ImageWidth - 1>>
          BY <2>4, <3>2, <4>2, <5>1, PictureCell
        <5> QED
          BY <3>3, <4>7, <5>1, <5>2
      <4>9. \A n \in {1, 2} \ {SavedAt} :
                StoredWords[n] = <<ImageHeight, ImageWidth>>[n]
        BY <1>1, <2>6, <4>2, <4>7 DEF SaveInv, HeaderSaved
      <4>10. Pipeline!Finish
        BY <2>7, <3>2, <3>3, <3>4, <4>5, <4>6, <4>8, <4>9 DEF Pipeline!Finish
      <4> QED
        BY <4>10 DEF PipelineStep, Pipeline!Next
    <3> QED
      BY <2>10, <3>5, <3>6, <3>7
  <2> QED
    BY <1>5, <2>9, <2>10
<1> QED
  BY <1>3, <1>4, <1>5 DEF GpuStep, GpuNext

(***************************************************************************)
(* The threads, their flags and the memory implement the pipeline, for     *)
(* every image that fits the memory, packet length, pair of periods and    *)
(* order of the threads, if the end flag starts cleared.                   *)
(***************************************************************************)
THEOREM ImplementsPipeline ==
    ASSUME Fits, ImageShaped
    PROVE  Spec /\ EndFlagClear => PipelineSpec
<1>1. Init => Pipeline!Init
  <2> SUFFICES ASSUME Init PROVE Pipeline!Init
    OBVIOUS
  <2>1. mem[ImageBeginAddr] = 0 /\ StoredEnd = 16
    BY FlagAddresses DEF Init, MemInit, CommunicationInit, StoredEnd
  <2>2. StageNow = "receive"
    BY <2>1 DEF StageNow, Arriving
  <2>3. StoredWords = <<>>
    BY <2>1 DEF StoredWords, Arrived
  <2> QED
    BY <2>2, <2>3, NoPicture DEF Pipeline!Init
<1>2. EndFlagClear /\ Init => PipelineInv
  <2>1. Init => SaveInv
    BY DEF Init, GpuInit, SaveInv, Saving
  <2> QED
    BY <2>1, ImageStart, RotationStart DEF PipelineInv
<1>3. PipelineInv /\ [Next]_vars => PipelineInv'
  BY ImageStep, RotationStep, SaveStep DEF PipelineInv
<1>4. PipelineInv /\ PipelineInv' /\ [Next]_vars => PipelineStep
  <2> SUFFICES ASSUME PipelineInv, PipelineInv', [Next]_vars PROVE PipelineStep
    OBVIOUS
  <2>1. CASE GeneratorStep \/ TimeStep \/ UNCHANGED vars
    <3>1. UNCHANGED <<mem, comVars, encVars, gpuVars>>
      BY <2>1 DEF GeneratorStep, TimeStep, vars
    <3>2. UNCHANGED <<StageNow, StoredWords>>
      BY <3>1
      DEF comVars, encVars, gpuVars, StageNow, Arriving, InDecryption, HasImage,
          Saving, StoredWords, Arrived, StoredEnd, WordOf
    <3> QED
      BY <3>1, <3>2, PipelineIdle DEF gpuVars
  <2> QED
    BY <2>1, CommunicationPipeline, EncryptionPipeline, GpuPipeline DEF Next
<1> QED
  BY <1>1, <1>2, <1>3, <1>4, PTL
  DEF Spec, PipelineSpec, Pipeline!Spec, PipelineStep

=============================================================================
