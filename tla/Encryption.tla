----------------------------- MODULE Encryption -----------------------------
(***************************************************************************)
(* simple_bus_encryption::main_action with getRange, KSA and PRGA: the     *)
(* thread that decrypts the image in place.  RC4 is symmetric; KSA starts  *)
(* the key stream afresh for every image, and PRGA uses one byte of it for *)
(* each word of the range.                                                 *)
(***************************************************************************)
EXTENDS SystemCKernel, GlobalMemory, Rc4

VARIABLES
    encPc,          \* the wait the encryption thread is at
    control,        \* last crypto flag read
    read_start,     \* address_read_start
    read_end,       \* address_read_end
    w,              \* address of the word being decrypted
    mydata,         \* the word read from there
    rc4             \* s, and the indices of PRGA

encVars == <<encPc, control, read_start, read_end, w, mydata, rc4>>

EncryptionTypeOK ==
    /\ encPc \in {"start", "poll", "clear", "begin", "range",
                  "read", "write", "signal", "base"}
    /\ control \in Word
    /\ read_start \in Word
    /\ read_end \in Word
    /\ w \in Int
    /\ mydata \in Word
    /\ rc4 \in Rc4State

EncryptionInit ==
    /\ encPc = "start"
    /\ control = 0 /\ read_start = 0 /\ read_end = 0
    /\ w = 0 /\ mydata = 0
    /\ rc4 = [s |-> [n \in Byte |-> 0], i |-> 0, j |-> 0]

EncGoto(pc) ==
    /\ encPc' = pc
    /\ Wait("encryption", Timeout)

EncReady(pc) == Ready("encryption") /\ encPc = pc

\* Read the crypto flag, again and again until it is 1.
EncPoll ==
    /\ \/ EncReady("start")
       \/ EncReady("poll") /\ control # 1
       \/ EncReady("base")
    /\ control' = DirectRead(CryptoOpflag, control)
    /\ EncGoto("poll")
    /\ UNCHANGED <<mem, read_start, read_end, w, mydata, rc4>>

\* Mutant: the crypto flag stays raised during the decryption.
EncAcknowledgeLocally ==
    /\ EncReady("poll") /\ control = 1
    /\ control' = 0
    /\ EncGoto("clear")
    /\ UNCHANGED <<mem, read_start, read_end, w, mydata, rc4>>

EncAcknowledge ==
    /\ EncReady("poll") /\ control = 1
    /\ control' = 0
    /\ DirectWrite(CryptoOpflag, 0)
    /\ EncGoto("clear")
    /\ UNCHANGED <<read_start, read_end, w, mydata, rc4>>

EncReadBegin ==
    /\ EncReady("clear")
    /\ read_start' = DirectRead(ImageBeginAddr, read_start)
    /\ EncGoto("begin")
    /\ UNCHANGED <<mem, control, read_end, w, mydata, rc4>>

EncReadEnd ==
    /\ EncReady("begin")
    /\ read_end' = DirectRead(ImageEndAddr, read_end)
    /\ EncGoto("range")
    /\ UNCHANGED <<mem, control, read_start, w, mydata, rc4>>

\* The next address of PRGA's loop, whose test may end it at once.
NextWord == IF encPc = "range" THEN read_start ELSE w + 4

\* KSA runs between the range and PRGA's loop.
KeyState == IF encPc = "range" THEN KSA ELSE rc4

EncReadWord ==
    /\ EncReady("range") \/ EncReady("write")
    /\ NextWord < read_end
    /\ w' = NextWord
    /\ rc4' = NextKey(KeyState)
    /\ mydata' = DirectRead(NextWord, mydata)
    /\ EncGoto("read")
    /\ UNCHANGED <<mem, control, read_start, read_end>>

\* Mutant: the key stream runs one byte ahead.
EncWriteWordAhead ==
    /\ EncReady("read")
    /\ DirectWrite(w, XorWord(mydata, KeyByte(NextKey(rc4))))
    /\ EncGoto("write")
    /\ UNCHANGED <<control, read_start, read_end, w, mydata, rc4>>

EncWriteWord ==
    /\ EncReady("read")
    /\ DirectWrite(w, XorWord(mydata, KeyByte(rc4)))
    /\ EncGoto("write")
    /\ UNCHANGED <<control, read_start, read_end, w, mydata, rc4>>

\* Mutant: the GPU is started one word too early.
EncStartGpuEarly ==
    /\ EncReady("range") \/ EncReady("write")
    /\ NextWord + 4 >= read_end
    /\ control' = 1
    /\ rc4' = KeyState
    /\ DirectWrite(GpuOpflag, 1)
    /\ EncGoto("signal")
    /\ UNCHANGED <<read_start, read_end, w, mydata>>

\* The image is decrypted: start the GPU, and one period later move the
\* beginning of the image past its header.
EncStartGpu ==
    /\ EncReady("range") \/ EncReady("write")
    /\ NextWord >= read_end
    /\ control' = 1
    /\ rc4' = KeyState
    /\ DirectWrite(GpuOpflag, 1)
    /\ EncGoto("signal")
    /\ UNCHANGED <<read_start, read_end, w, mydata>>

EncSaveBase ==
    /\ EncReady("signal")
    /\ control' = 24
    /\ DirectWrite(ImageBeginAddr, 24)
    /\ EncGoto("base")
    /\ UNCHANGED <<read_start, read_end, w, mydata, rc4>>

EncNext ==
    \/ EncPoll \/ EncAcknowledge \/ EncReadBegin \/ EncReadEnd
    \/ EncReadWord \/ EncWriteWord \/ EncStartGpu \/ EncSaveBase
=============================================================================
