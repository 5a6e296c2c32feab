------------------------------ MODULE MCParts -------------------------------
(***************************************************************************)
(* Instances for TLC of the parts of the kernel that run alone: the disk   *)
(* driver, of which this module has the variables and whose callers share  *)
(* nothing else, and the sequential code of lists, hash tables, bitmaps,   *)
(* the display, the program loader, command lines, the sectors of a file,  *)
(* formatting and the rest of the library.  They share no state.  An       *)
(* execution is of the one that part names: the disk driver's variables    *)
(* stay as they are at first when it is another, and those of the others   *)
(* are None.                                                               *)
(***************************************************************************)
EXTENDS Disk, Sequences

CONSTANTS X, Y, Space, Nul, Garbage

VARIABLES part,
          lNext, lPrev,
          hElemCnt, hBuckets, hCall,
          pAt, pPhnum, pSeg, pPagedir, pHand, pTaken, pContent, pLoaded, pEsp, pPanic,
          bUsed, bDisk, bInode, bFull, bLost, bCalls, bDead,
          aCall,
          cLine, cAt, cFn, cSave, cToken, cMem, cEsp, cArgv,
          fCall,
          mBitCnt, mBits, mCall,
          sFb, sCx, sCy, sInited, sHigh, sLow, sLast

listVars   == <<lNext, lPrev>>
hashVars   == <<hElemCnt, hBuckets, hCall>>
loaderVars == <<pAt, pPhnum, pSeg, pPagedir, pHand, pTaken, pContent, pLoaded, pEsp, pPanic>>
blocksVars == <<bUsed, bDisk, bInode, bFull, bLost, bCalls, bDead>>
lineVars   == <<cLine, cAt, cFn, cSave, cToken, cMem, cEsp, cArgv>>
bitmapVars == <<mBitCnt, mBits, mCall>>
screenVars == <<sFb, sCx, sCy, sInited, sHigh, sLow, sLast>>
partsVars == <<part, vars, listVars, hashVars, loaderVars, blocksVars, aCall, lineVars,
               fCall, bitmapVars, screenVars>>

-----------------------------------------------------------------------------
\* Four elements of two keys, in two lists.
ListElem == {"elem"} \X (2 .. 5)
L == INSTANCE List WITH
       Elem <- ListElem, Listno <- {1, 2}, Key <- [e \in ListElem |-> e[2] \div 2],
       Nil <- None, next <- lNext, prev <- lPrev

\* Five elements; the fifth equals the first, the fourth has its hash.
HashElem == {"elem"} \X (1 .. 5)
H == INSTANCE Hash WITH
       Elem <- HashElem, Key <- [e \in HashElem |-> IF e[2] = 5 THEN 1 ELSE e[2]],
       HashFn <- [k \in 1 .. 4 |-> IF k < 4 THEN k ELSE 1],
       MinBuckets <- 1, BestElemsPerBucket <- 1, Nil <- None,
       elemCnt <- hElemCnt, buckets <- hBuckets, call <- hCall

\* Five pages of two bytes for the user, three for the kernel.
Phdr == {[type |-> "ignored"], [type |-> "refused"]} \cup
        [type : {"load"}, offset : {0, 1, 2}, vaddr : {1, 2, 3, 4, 7},
         filesz : {0, 1, 3}, memsz : {0, 1, 3, 15}, write : BOOLEAN]
P == INSTANCE Loader WITH
       PgSize <- 2, PtSize <- 2, AddrSize <- 16, PhysBase <- 10, FileLength <- 4,
       MaxPhnum <- 2, Phdr <- Phdr, Frame <- 1 .. 9, Nil <- None,
       at <- pAt, phnum <- pPhnum, seg <- pSeg, pagedir <- pPagedir,
       hand <- pHand, taken <- pTaken, content <- pContent, loaded <- pLoaded,
       esp <- pEsp, panic <- pPanic

B == INSTANCE Blocks WITH
       DirectCnt <- 2, IndirectCnt <- 3, SectorSize <- 2, Sector <- 1 .. 9,
       Foreign <- {2, 5}, MaxCalls <- 5, Junk <- Garbage, Nil <- None,
       used <- bUsed, disk <- bDisk, inode <- bInode, full <- bFull,
       lost <- bLost, calls <- bCalls, dead <- bDead

\* Words of four bits, so that all pairs can be divided.
A == INSTANCE Library WITH
       W <- 4, DivCalls <- 0 .. 255, Value <- {0, 1, 2}, MaxLen <- 4,
       LoopBits <- 8, FirstBit <- 3, Freq <- 5, Denom <- 40, Kilo <- 4,
       call <- aCall

C == INSTANCE CommandLine WITH
       Char <- {X, Y}, Blank <- Space, Nul <- Nul, MaxLine <- 6, PgSize <- 6,
       PhysBase <- 64, StackSize <- 32, Word <- 4, MaxArgs <- 2, Nil <- None,
       line <- cLine, at <- cAt, fn <- cFn, save <- cSave, token <- cToken,
       mem <- cMem, esp <- cEsp, argv <- cArgv

\* Integers of five bits; the fields are wider and narrower than what they hold, and
\* the precisions longer and shorter than the buffer.
Num(how, n) == [how |-> how, n |-> n]
F == INSTANCE Format WITH
       W <- 5, BufSize <- 8, Null <- Nul, Flags <- {"-", "+", " ", "#", "0", "'"},
       Widths <- {Num("digits", 0), Num("digits", 5), Num("star", -5)},
       Precisions <- {Num("none", -1), Num("digits", 3), Num("star", 9), Num("star", 0)},
       Types <- {"", "hh", "ll"}, Values <- {0, -1, 1000},
       Strings <- {<<>>, <<"a", "b", "a", "b">>}, call <- fCall

\* A bitmap that fills a word and a half, and an empty one.
M == INSTANCE Bitmap WITH
       ElemBits <- 2, BitCnts <- {0, 3}, bitCnt <- mBitCnt, bits <- mBits, call <- mCall

S == INSTANCE Screen WITH
       ColCnt <- 3, RowCnt <- 3, TabSize <- 2, Byte <- 4, Char <- {X}, Space <- Space,
       fb <- sFb, cx <- sCx, cy <- sCy, inited <- sInited, high <- sHigh, low <- sLow,
       last <- sLast

ASSUME PartsAssumption == DiskAssumption /\ M!BitmapAssumption /\ S!ScreenAssumption

-----------------------------------------------------------------------------
NoList == lNext = None /\ lPrev = None
NoHash == hElemCnt = None /\ hBuckets = None /\ hCall = None
NoLoader == /\ pAt = None /\ pPhnum = None /\ pSeg = None /\ pPagedir = None
            /\ pHand = None /\ pTaken = None /\ pContent = None /\ pLoaded = None
            /\ pEsp = None /\ pPanic = None
NoBlocks == /\ bUsed = None /\ bDisk = None /\ bInode = None /\ bFull = None
            /\ bLost = None /\ bCalls = None /\ bDead = None
NoLibrary == aCall = None
NoLine == /\ cLine = None /\ cAt = None /\ cFn = None /\ cSave = None
          /\ cToken = None /\ cMem = None /\ cEsp = None /\ cArgv = None

NoFormat == fCall = None
NoBitmap == mBitCnt = None /\ mBits = None /\ mCall = None
NoScreen == /\ sFb = None /\ sCx = None /\ sCy = None /\ sInited = None
            /\ sHigh = None /\ sLow = None /\ sLast = None
Parts == {"disk", "list", "hash", "loader", "blocks", "library", "line",
          "format", "bitmap", "screen"}

PartsInit ==
  /\ part \in Parts
  /\ Init /\ (part # "disk" => kind = [d \in Dev |-> "none"])
  /\ IF part = "list" THEN L!Init ELSE NoList
  /\ IF part = "hash" THEN H!Init ELSE NoHash
  /\ IF part = "loader" THEN P!Init ELSE NoLoader
  /\ IF part = "blocks" THEN B!Init ELSE NoBlocks
  /\ IF part = "library" THEN A!Init ELSE NoLibrary
  /\ IF part = "line" THEN C!Init ELSE NoLine
  /\ IF part = "format" THEN F!Init ELSE NoFormat
  /\ IF part = "bitmap" THEN M!Init ELSE NoBitmap
  /\ IF part = "screen" THEN S!Init ELSE NoScreen

\* A step of part p leaves the variables of the others alone.
Only(p) ==
  /\ UNCHANGED part
  /\ IF p = "disk" THEN TRUE ELSE UNCHANGED vars
  /\ IF p = "list" THEN TRUE ELSE UNCHANGED listVars
  /\ IF p = "hash" THEN TRUE ELSE UNCHANGED hashVars
  /\ IF p = "loader" THEN TRUE ELSE UNCHANGED loaderVars
  /\ IF p = "blocks" THEN TRUE ELSE UNCHANGED blocksVars
  /\ IF p = "library" THEN TRUE ELSE UNCHANGED aCall
  /\ IF p = "line" THEN TRUE ELSE UNCHANGED lineVars
  /\ IF p = "format" THEN TRUE ELSE UNCHANGED fCall
  /\ IF p = "bitmap" THEN TRUE ELSE UNCHANGED bitmapVars
  /\ IF p = "screen" THEN TRUE ELSE UNCHANGED screenVars

PartsNext ==
  \/ part = "disk"    /\ Next /\ Only("disk")
  \/ part = "list"    /\ L!Next /\ Only("list")
  \/ part = "hash"    /\ H!Next /\ Only("hash")
  \/ part = "loader"  /\ P!Next /\ Only("loader")
  \/ part = "blocks"  /\ B!Next /\ Only("blocks")
  \/ part = "library" /\ A!Next /\ Only("library")
  \/ part = "line"    /\ C!Next /\ Only("line")
  \/ part = "format"  /\ F!Next /\ Only("format")
  \/ part = "bitmap"  /\ M!Next /\ Only("bitmap")
  \/ part = "screen"  /\ S!Next /\ Only("screen")

\* The disk answers, its interrupts are handled when they are on, start-up goes on,
\* and a thread that can go on does so in the end.  What keeps it from going on is the
\* disk or the lock of the channel, and lock_release() hands that lock to nobody: a
\* thread that waits for it gets it for certain only if it stays free.
StartUp == ResetChannel \/ \E d \in Dev : CheckDeviceType(d)

PartsFairness ==
  /\ WF_vars(part = "disk" /\ Device)
  /\ WF_vars(part = "disk" /\ InterruptHandler)
  /\ WF_vars(part = "disk" /\ StartUp)
  /\ \A t \in Thread : WF_vars(part = "disk" /\ Operate(t))

PartsSpec == PartsInit /\ [][PartsNext]_partsVars /\ PartsFairness

-----------------------------------------------------------------------------
\* The start-up finds its disks and a disk request is answered, or the kernel panics,
\* or other threads' requests are answered without end: a thread that asks again and
\* again may take the channel's lock before each time the one it woke runs.
DiskAnswered ==
  \A t \in Thread : \/ (part = "disk" /\ Asks(t)) ~> (part = "disk" => Over(t))
                    \/ []<><<part = "disk" /\ OtherAnswered(t)>>_partsVars

\* A program starts with the memory its executable asks for and the words of its
\* command line, and one that ends or cannot be loaded keeps no page.
StartsRight ==
  /\ part = "loader" => P!ImageRight
  /\ part = "line" => C!ArgumentsRight

\* Division, sorting, searching, copying, formatting, the first approximation of
\* loops_per_tick and the loops of a delay come out as their comments say.  Nothing is
\* claimed of what timer_calibrate() makes of the lower bits, nor of a field whose
\* width is a negative star under the flag 0: there they do not.
LibraryRight ==
  /\ part = "library" => A!LibraryRight
  /\ part = "format" => F!FormatRight

\* No two sectors of a file are the same, nor are they anybody else's, and growth
\* moves none.
BlocksRight == [][part = "blocks" => B!CallRight]_blocksVars

\* Each operation of list.c does to the elements what list.h says, and leaves a
\* list that reads the same backwards; a hash table is a set, whatever rehash() does,
\* and so is a bitmap; a character changes its place on the screen and no other.
OperationsRight ==
  [][/\ part = "list" => L!OperationRight
     /\ part = "hash" => H!OperationRight
     /\ part = "bitmap" => M!OperationRight
     /\ part = "screen" => S!OperationRight]_<<listVars, hashVars, bitmapVars, screenVars>>

=============================================================================
