--------------------------------- MODULE Gpu ---------------------------------
(***************************************************************************)
(* simple_bus_gpu::main_action: fetch the decrypted image into bufferA,    *)
(* rotate it into bufferB, swap width and height in the image's header and *)
(* write the result back.  The pixels of an image of width wd are at       *)
(* x + y * wd (pixelAddr).                                                 *)
(*                                                                         *)
(* The product width * height may overflow and then pass the size test;    *)
(* the rotation, whose loops run to the width and the height, then leaves  *)
(* the buffers and the program dies: no step follows.  The two PNG files   *)
(* that imageWrite leaves behind are not modelled.                         *)
(***************************************************************************)
EXTENDS SystemCKernel, GlobalMemory

VARIABLES
    gpuPc,          \* the wait the GPU is at
    start,          \* last GPU flag read
    rd_addr,        \* address of the first pixel
    width, height,  \* the image's dimensions
    bufferA,        \* the fetched pixels
    bufferB,        \* the rotated pixels
    i,              \* column of the rotation loop, kept after it
    k               \* index of the pixel being fetched, then written back

gpuVars == <<gpuPc, start, rd_addr, width, height, bufferA, bufferB, i, k>>

Cell == 0..ImageMaxSize - 1

GpuTypeOK ==
    /\ gpuPc \in {"start", "poll", "base", "width", "height", "fetch",
                  "newWidth", "newHeight", "write", "stop"}
    /\ start \in Word
    /\ rd_addr \in Word
    /\ width \in Word /\ height \in Word
    /\ bufferA \in [Cell -> Word]
    /\ bufferB \in [Cell -> Word]
    /\ i \in Int
    /\ k \in Int

\* The buffers are too large for the heap: they are fresh, zeroed pages.
GpuInit ==
    /\ gpuPc = "start"
    /\ start = 0 /\ rd_addr = 0 /\ width = 0 /\ height = 0
    /\ bufferA = [n \in Cell |-> 0]
    /\ bufferB = [n \in Cell |-> 0]
    /\ i = 0 /\ k = 0

GpuGoto(pc) ==
    /\ gpuPc' = pc
    /\ Wait("gpu", Timeout)

GpuReady(pc) == Ready("gpu") /\ gpuPc = pc

pixelAddr(x, y, wd) == x + y * wd

Size == Wrap(width * height)

\* The rotation's loops stay inside the buffers.
InBuffers == width <= 0 \/ height <= 0 \/ width * height <= ImageMaxSize

\* Mutant: the flag is cleared when an image does not fit.
GpuPollDropping ==
    /\ \/ GpuReady("start")
       \/ GpuReady("poll") /\ start # 1
       \/ GpuReady("height") /\ Size > ImageMaxSize
       \/ GpuReady("stop")
    /\ start' = DirectRead(GpuOpflag, start)
    /\ IF gpuPc = "height" THEN DirectWrite(GpuOpflag, 0) ELSE UNCHANGED mem
    /\ GpuGoto("poll")
    /\ UNCHANGED <<rd_addr, width, height, bufferA, bufferB, i, k>>

\* The top of the loop; an image that does not fit leads there at once.
GpuPoll ==
    /\ \/ GpuReady("start")
       \/ GpuReady("poll") /\ start # 1
       \/ GpuReady("height") /\ Size > ImageMaxSize
       \/ GpuReady("stop")
    /\ start' = DirectRead(GpuOpflag, start)
    /\ GpuGoto("poll")
    /\ UNCHANGED <<mem, rd_addr, width, height, bufferA, bufferB, i, k>>

GpuReadBase ==
    /\ GpuReady("poll") /\ start = 1
    /\ rd_addr' = DirectRead(ImageBeginAddr, rd_addr)
    /\ GpuGoto("base")
    /\ UNCHANGED <<mem, start, width, height, bufferA, bufferB, i, k>>

GpuReadWidth ==
    /\ GpuReady("base")
    /\ width' = DirectRead(ImageWidthAddr, width)
    /\ GpuGoto("width")
    /\ UNCHANGED <<mem, start, rd_addr, height, bufferA, bufferB, i, k>>

GpuReadHeight ==
    /\ GpuReady("width")
    /\ height' = DirectRead(ImageHeightAddr, height)
    /\ GpuGoto("height")
    /\ UNCHANGED <<mem, start, rd_addr, width, bufferA, bufferB, i, k>>

\* The next index of the loop that is entered from wait "before" and whose
\* iterations end at wait "within".
NextIndex(within) == IF gpuPc = within THEN k + 1 ELSE 0

GpuFetchPixel ==
    /\ (GpuReady("height") /\ Size <= ImageMaxSize) \/ GpuReady("fetch")
    /\ NextIndex("fetch") < Size
    /\ k' = NextIndex("fetch")
    /\ bufferA' = [bufferA EXCEPT ![k'] = DirectRead(rd_addr + 4 * k', @)]
    /\ GpuGoto("fetch")
    /\ UNCHANGED <<mem, start, rd_addr, width, height, bufferB, i>>

\* Mutant: the image is turned the other way.
RotatedBack ==
    LET Pixel == (0..width - 1) \X (0..height - 1)
        Target(p) == pixelAddr(p[2], width - 1 - p[1], height)
    IN  [n \in Cell |->
            IF \E p \in Pixel : Target(p) = n
              THEN LET p == CHOOSE p \in Pixel : Target(p) = n
                   IN  bufferA[pixelAddr(p[1], p[2], width)]
              ELSE bufferB[n]]

\* What the two rotation loops leave in bufferB: row y of bufferA becomes
\* column height - 1 - y of an image of width "height".
Rotated ==
    LET Pixel == (0..width - 1) \X (0..height - 1)
        Target(p) == pixelAddr(height - 1 - p[2], p[1], height)
    IN  [n \in Cell |->
            IF \E p \in Pixel : Target(p) = n
              THEN LET p == CHOOSE p \in Pixel : Target(p) = n
                   IN  bufferA[pixelAddr(p[1], p[2], width)]
              ELSE bufferB[n]]

\* Rotate, and write the new width.
GpuRotate ==
    /\ (GpuReady("height") /\ Size <= ImageMaxSize) \/ GpuReady("fetch")
    /\ NextIndex("fetch") >= Size
    /\ InBuffers
    /\ bufferB' = Rotated
    /\ i' = IF width > 0 /\ height > 0 THEN width - 1 ELSE 0
    /\ DirectWrite(ImageWidthAddr, height)
    /\ GpuGoto("newWidth")
    /\ UNCHANGED <<start, rd_addr, width, height, bufferA, k>>

GpuSaveHeight ==
    /\ GpuReady("newWidth")
    /\ DirectWrite(ImageHeightAddr, width)
    /\ GpuGoto("newHeight")
    /\ UNCHANGED <<start, rd_addr, width, height, bufferA, bufferB, i, k>>

\* The loop runs over k, the address is computed from i.
GpuWritePixel ==
    /\ GpuReady("newHeight") \/ GpuReady("write")
    /\ NextIndex("write") < Size
    /\ k' = NextIndex("write")
    /\ DirectWrite(rd_addr + 4 * i, bufferB[k'])
    /\ GpuGoto("write")
    /\ UNCHANGED <<start, rd_addr, width, height, bufferA, bufferB, i>>

\* Mutant: the GPU does not clear its flag.
GpuStopRaised ==
    /\ GpuReady("newHeight") \/ GpuReady("write")
    /\ NextIndex("write") >= Size
    /\ GpuGoto("stop")
    /\ UNCHANGED <<mem, start, rd_addr, width, height, bufferA, bufferB, i, k>>

GpuStop ==
    /\ GpuReady("newHeight") \/ GpuReady("write")
    /\ NextIndex("write") >= Size
    /\ DirectWrite(GpuOpflag, 0)
    /\ GpuGoto("stop")
    /\ UNCHANGED <<start, rd_addr, width, height, bufferA, bufferB, i, k>>

GpuNext ==
    \/ GpuPoll \/ GpuReadBase \/ GpuReadWidth \/ GpuReadHeight
    \/ GpuFetchPixel \/ GpuRotate \/ GpuSaveHeight \/ GpuWritePixel \/ GpuStop
=============================================================================
