----------------------------- MODULE JpegDecode -----------------------------
(***************************************************************************)
(* One JPEG picture: a caller (DumpJpeg, or ChallengeThumbnailChunk) loads *)
(* the data, JpegToDib decodes it into a DIB row by row, and four things   *)
(* have to be given back on every way out: the caller's data, libjpeg's    *)
(* object, the ICC profile and, unless it is returned, the DIB.            *)
(*                                                                         *)
(* There are four ways out.  Memory can be short, and JpegToDib cleans up  *)
(* and returns NULL; libjpeg can report an error, and my_error_exit        *)
(* destroys the object and jumps back to setjmp; the code can fault, and   *)
(* the caller's __except catches that; or the picture is complete.         *)
(*                                                                         *)
(* JmpBuffer is taken to be this activation's own; Viewer is about when it *)
(* is not.                                                                 *)
(***************************************************************************)
EXTENDS Naturals

CONSTANTS
  Word,      \* size of the address space of a DWORD (2^32 in the code)
  Rows,      \* heights of pictures to look at
  Widths,    \* lengths of a row of a DIB to look at (uIncrement)
  Headers,   \* sizes of the header with its palette to look at
  Profiles   \* sizes of an ICC profile to look at

ASSUME WordAssumption == Word \in Nat \ {0}
ASSUME ShapeAssumption ==
  /\ Rows \subseteq Nat \ {0} /\ Widths \subseteq Nat \ {0}
  /\ Headers \subseteq Nat \ {0} /\ Profiles \subseteq Nat \ {0}

VARIABLES
  pc,           \* what is done next
  data,         \* is the caller's copy of the file allocated?
  jpeg,         \* libjpeg's object: "none", "live" or "destroyed"
  bNeedDestroy, \* does cleanup_jpeg_to_dib have to destroy it?
  destroys,     \* history: how often it was destroyed
  profile,      \* the ICC profile: "none", "live" or "freed"
  dib,          \* the DIB: "none", "live" or "freed"
  locked,       \* is the DIB locked?
  hDib,         \* is JpegToDib's local not NULL?
  shape,        \* rows, width, header and profile of this picture
  size,         \* bytes allocated for the DIB
  bFlipImage,   \* are the rows stored from top to bottom?
  scanline,     \* output_scanline
  written,      \* history: the rows of the DIB that have been written
  embedded,     \* has the profile been copied into the DIB?
  result,       \* what JpegToDib returned: "none", "dib" or "null"
  lost,         \* history: has the jump lost the value of hDib?
  faulted       \* history: has the code faulted?

object  == <<jpeg, bNeedDestroy, destroys>>
picture == <<shape, size, bFlipImage, scanline, written, embedded>>
memory  == <<data, object, profile, dib, locked>>
history == <<lost, faulted>>
vars == <<pc, memory, hDib, picture, result, history>>

NoShape == [rows |-> 0, width |-> 0, header |-> 0, profile |-> 0]

Init ==
  /\ pc = "load" /\ data = FALSE
  /\ jpeg = "none" /\ bNeedDestroy = FALSE /\ destroys = 0
  /\ profile = "none" /\ dib = "none" /\ locked = FALSE /\ hDib = FALSE
  /\ shape = NoShape /\ size = 0 /\ bFlipImage \in BOOLEAN
  /\ scanline = 0 /\ written = {} /\ embedded = FALSE
  /\ result = "none" /\ lost = FALSE /\ faulted = FALSE

-----------------------------------------------------------------------------
(* The caller reads the file, or the chunk, into memory of its own.         *)
LoadData ==
  /\ pc = "load"
  /\ pc' = "create" /\ data' = TRUE
  /\ UNCHANGED <<object, profile, dib, locked, hDib, picture, result, history>>

LoadFails ==
  /\ pc = "load"
  /\ pc' = "over"
  /\ UNCHANGED <<memory, hDib, picture, result, history>>

(* It frees them again, whatever JpegToDib returned.                        *)
FreeData ==
  /\ pc = "returned"
  /\ pc' = "over" /\ data' = FALSE
  /\ UNCHANGED <<object, profile, dib, locked, hDib, picture, result, history>>

-----------------------------------------------------------------------------
Create ==
  /\ pc = "create"
  /\ pc' = "header" /\ jpeg' = "live" /\ bNeedDestroy' = TRUE
  /\ UNCHANGED <<data, destroys, profile, dib, locked, hDib, picture, result, history>>

ReadHeader ==
  /\ pc = "header"
  /\ pc' = "profile"
  /\ \E r \in Rows, w \in Widths, h \in Headers :
       shape' = [rows |-> r, width |-> w, header |-> h, profile |-> 0]
  /\ UNCHANGED <<memory, hDib, size, bFlipImage, scanline, written, embedded, result,
                 history>>

(* read_icc_profile allocates the profile; a CMYK picture's is not read.    *)
ReadProfile ==
  /\ pc = "profile"
  /\ pc' = "start"
  /\ \/ UNCHANGED <<profile, shape>>
     \/ profile' = "live" /\ \E n \in Profiles : shape' = [shape EXCEPT !.profile = n]
  /\ UNCHANGED <<data, object, dib, locked, hDib, size, bFlipImage, scanline, written,
                 embedded, result, history>>

StartDecompress ==
  /\ pc = "start"
  /\ pc' = "allocate"
  /\ UNCHANGED <<memory, hDib, picture, result, history>>

(* All sizes are DWORDs.                                                    *)
DibSize == (shape.header + shape.width * shape.rows + shape.profile) % Word

AllocateDib ==
  /\ pc = "allocate"
  /\ pc' = "lock"
  /\ dib' = "live" /\ hDib' = TRUE /\ size' = DibSize
  /\ UNCHANGED <<data, object, profile, locked, shape, bFlipImage, scanline, written,
                 embedded, result, history>>

LockDib ==
  /\ pc = "lock"
  /\ pc' = "rows" /\ locked' = TRUE
  /\ UNCHANGED <<data, object, profile, dib, hDib, picture, result, history>>

(* A DIB is stored from bottom to top unless it is to be flipped.           *)
(* (Mutant: the row below is taken.)                                        *)
RowBelow == IF bFlipImage THEN scanline ELSE shape.rows - scanline
Row == IF bFlipImage THEN scanline ELSE (shape.rows - 1) - scanline

MoreRows == scanline < shape.rows

ReadScanline ==
  /\ pc = "rows" /\ MoreRows
  /\ written' = written \cup {Row} /\ scanline' = scanline + 1
  /\ UNCHANGED <<pc, memory, hDib, shape, size, bFlipImage, embedded, result, history>>

(* Behind the last row the profile is copied into the DIB.                  *)
EmbedProfile ==
  /\ pc = "rows" /\ ~MoreRows
  /\ pc' = "finish"
  /\ embedded' = (profile = "live")
  /\ locked' = FALSE
  /\ UNCHANGED <<data, object, profile, dib, hDib, shape, size, bFlipImage, scanline,
                 written, result, history>>

FinishDecompress ==
  /\ pc = "finish"
  /\ pc' = "complete"
  /\ UNCHANGED <<memory, hDib, picture, result, history>>

-----------------------------------------------------------------------------
(* cleanup_jpeg_to_dib: the DIB is released as well when the caller has one.*)
(* (Mutant: the profile is forgotten.)                                      *)
CleanUpButProfile(release) ==
  /\ UNCHANGED profile
  /\ IF bNeedDestroy THEN jpeg' = "destroyed" /\ destroys' = destroys + 1
                     ELSE UNCHANGED <<jpeg, destroys>>
  /\ IF release THEN dib' = "freed" /\ locked' = FALSE ELSE UNCHANGED <<dib, locked>>
  /\ UNCHANGED <<data, bNeedDestroy>>

CleanUp(release) ==
  /\ profile' = IF profile = "live" THEN "freed" ELSE profile
  /\ IF bNeedDestroy THEN jpeg' = "destroyed" /\ destroys' = destroys + 1
                     ELSE UNCHANGED <<jpeg, destroys>>
  /\ IF release THEN dib' = "freed" /\ locked' = FALSE ELSE UNCHANGED <<dib, locked>>
  /\ UNCHANGED <<data, bNeedDestroy>>

Return(value) == pc' = "returned" /\ result' = value

(* The picture is complete.                                                 *)
ReturnDib ==
  /\ pc = "complete"
  /\ CleanUp(FALSE)
  /\ Return("dib")
  /\ UNCHANGED <<hDib, picture, history>>

(* GlobalAlloc or GlobalLock fails.                                         *)
OutOfMemory ==
  /\ pc \in {"allocate", "lock"}
  /\ CleanUp(hDib)
  /\ Return("null")
  /\ UNCHANGED <<hDib, picture, history>>

(* libjpeg calls back: the message is shown, the object destroyed.          *)
(* (Mutant: and its flag is left set.)                                      *)
Working == {"create", "header", "profile", "start", "rows", "finish"}
CallsLibrary == pc \in Working /\ (pc = "rows" => MoreRows)

ErrorExitKeepingFlag ==
  /\ CallsLibrary
  /\ pc' = "jump"
  /\ IF jpeg = "live" THEN jpeg' = "destroyed" /\ destroys' = destroys + 1
                      ELSE UNCHANGED <<jpeg, destroys>>
  /\ UNCHANGED <<bNeedDestroy, data, profile, dib, locked, hDib, picture, result, history>>

ErrorExit ==
  /\ CallsLibrary
  /\ pc' = "jump"
  /\ IF jpeg = "live" THEN jpeg' = "destroyed" /\ destroys' = destroys + 1
                      ELSE UNCHANGED <<jpeg, destroys>>
  /\ bNeedDestroy' = FALSE
  /\ UNCHANGED <<data, profile, dib, locked, hDib, picture, result, history>>

(* longjmp.  hDib is a local that is not volatile: if it was changed since  *)
(* setjmp, it has its last value or the one it had then, NULL.              *)
Jump ==
  /\ pc = "jump"
  /\ pc' = "jumped"
  /\ hDib' \in {hDib, FALSE}
  /\ lost' = (hDib # hDib')
  /\ UNCHANGED <<memory, picture, result, faulted>>

(* (Mutant: what there is of the picture is returned.)                      *)
ReturnFromJumpWithDib ==
  /\ pc = "jumped"
  /\ CleanUp(FALSE)
  /\ Return(IF hDib THEN "dib" ELSE "null")
  /\ UNCHANGED <<hDib, picture, history>>

ReturnFromJump ==
  /\ pc = "jumped"
  /\ CleanUp(hDib)
  /\ Return("null")
  /\ UNCHANGED <<hDib, picture, history>>

(* The caller's __except: JpegToDib is left without any cleanup.            *)
Fault ==
  /\ pc \in Working
  /\ faulted' = TRUE
  /\ Return("null")
  /\ UNCHANGED <<memory, hDib, picture, lost>>

Step ==
  \/ LoadData \/ FreeData
  \/ Create \/ ReadHeader \/ ReadProfile \/ StartDecompress
  \/ AllocateDib \/ LockDib \/ ReadScanline \/ EmbedProfile \/ FinishDecompress
  \/ ReturnDib \/ Jump \/ ReturnFromJump

Failure == LoadFails \/ OutOfMemory \/ ErrorExit \/ Fault

Next == Step \/ Failure

Spec == Init /\ [][Next]_vars

-----------------------------------------------------------------------------
TypeOK ==
  /\ pc \in Working \cup {"load", "allocate", "lock", "complete", "jump", "jumped", "returned",
                          "over"}
  /\ data \in BOOLEAN
  /\ jpeg \in {"none", "live", "destroyed"} /\ bNeedDestroy \in BOOLEAN /\ destroys \in Nat
  /\ profile \in {"none", "live", "freed"}
  /\ dib \in {"none", "live", "freed"} /\ locked \in BOOLEAN /\ hDib \in BOOLEAN
  /\ shape \in [rows : Nat, width : Nat, header : Nat, profile : Nat]
  /\ size \in 0..(Word - 1) /\ bFlipImage \in BOOLEAN
  /\ scanline \in Nat /\ written \subseteq Nat /\ embedded \in BOOLEAN
  /\ result \in {"none", "dib", "null"} /\ lost \in BOOLEAN /\ faulted \in BOOLEAN

(* As long as the sizes have not overflowed, every row lies between the     *)
(* palette and the place kept for the profile, and all of them inside the   *)
(* memory that was allocated; and they are written while it is locked.      *)
Fits == shape.header + shape.width * shape.rows + shape.profile < Word
RowsInside ==
  Fits => \A r \in written :
    /\ r < shape.rows
    /\ shape.header + (r + 1) * shape.width + shape.profile <= size

(* A picture that is returned is complete: every row has been decoded, also *)
(* when the rows are stored from bottom to top, its profile is in it, and   *)
(* it is neither locked nor freed.                                          *)
PictureComplete ==
  result = "dib" =>
    /\ written = {r \in 0..shape.rows : r < shape.rows}
    /\ embedded <=> profile # "none"
    /\ dib = "live" /\ ~locked

(* All of a picture is in its DIB, and nothing outside of it.               *)
PictureInDib == RowsInside /\ PictureComplete

(* libjpeg's object is destroyed at most once, by my_error_exit or by       *)
(* cleanup_jpeg_to_dib, and neither it nor the DIB is used afterwards.      *)
ReleasedOnce ==
  /\ destroys <= 1
  /\ pc \in Working \ {"create"} => jpeg = "live"
  /\ pc \in {"lock", "rows", "finish", "complete"} => dib = "live"

(* Whatever fails, nothing is left behind but the DIB that was returned --  *)
(* unless the code has faulted, or the jump has lost the DIB's handle.      *)
NothingLeft ==
  pc = "over" /\ ~faulted =>
    /\ ~data
    /\ jpeg # "live" /\ profile # "live"
    /\ dib = "live" => result = "dib" \/ lost

(* Between them, everything is given back, and once.                        *)
GivenBackOnce == ReleasedOnce /\ NothingLeft

(* In the dialog a picture is decoded by a batch: the mapping to Viewer,    *)
(* for a thumbnail ("map") or a JPEG file ("jpeg") that is dumped alone.    *)
Dialog(media) == INSTANCE Viewer WITH
  MAX_FILES <- 1, MaxDrop <- 0, MaxDumps <- 1, MaxPosted <- 0, MaxDepth <- 1,
  mode <- "running", queue <- <<>>, offered <- 1, bAboutBox <- FALSE,
  depth <- 1,
  stack <- [i \in 1..1 |->
              [kind |-> "batch",
               pc   |-> CASE pc = "load"                  -> "image"
                          [] pc \in {"jump", "jumped"}    -> "jump"
                          [] pc \in {"returned", "over"}  -> "next"
                          [] OTHER                        -> "decode",
               left |-> 0, dump |-> 1, media |-> media]],
  latest <- 1, uidOf <- 0, enviOf <- 0, envi <- "none", tmx <- FALSE, dedi <- FALSE,
  thumbOf <- IF result = "dib" THEN 1 ELSE 0, bitmapOf <- 0,
  titleOf <- IF result = "null" /\ media = "jpeg" THEN 1 ELSE 0,
  jmpOf <- IF pc = "load" \/ (pc = "over" /\ result = "none") THEN 0 ELSE 1,
  boxed <- FALSE, overtaken <- FALSE

(* However decoding ends, for the dialog it is what Viewer says: there is a *)
(* new picture when one was completed and none otherwise, libjpeg is not    *)
(* left by a jump unless it has reported an error, and it is not called     *)
(* again behind one.                                                        *)
StepsInDialog ==
  \A media \in {"map", "jpeg"} :
    UNCHANGED Dialog(media)!vars \/ Dialog(media)!Next
DecodeAsInDialog == [][StepsInDialog]_vars
=============================================================================
