--------------------------- MODULE JpegDecodeProofs ---------------------------
(***************************************************************************)
(* What TLAPS proves of the thumbnail's picture.  Of JpegDecode, for       *)
(* pictures and profiles of any size and any width of a DWORD: types, that *)
(* nothing is released twice or used afterwards, that nothing is left      *)
(* behind, that rows stay inside the DIB as long as its size fits, and     *)
(* that a returned picture is complete.  Of Pictures and BitmapFile, for   *)
(* pictures of any size and bitmap files of any header, number of colours  *)
(* and length: that every block is freed, that the bits are found where    *)
(* the file has them, and that every pixel keeps its place and colours.    *)
(***************************************************************************)
EXTENDS MCJpegDecode, Integers, Sequences, TLAPS

(* The flags of TypeOK, apart.                                              *)
FlagType ==
  /\ data \in BOOLEAN /\ bNeedDestroy \in BOOLEAN /\ locked \in BOOLEAN /\ hDib \in BOOLEAN
  /\ bFlipImage \in BOOLEAN /\ embedded \in BOOLEAN /\ lost \in BOOLEAN
  /\ faulted \in BOOLEAN

(* libjpeg's object exists, and is known to need destroying, from Create to *)
(* the first of the four ways out.                                          *)
ObjectInv ==
  /\ pc \in {"load", "create"} => jpeg = "none" /\ bNeedDestroy = FALSE /\ destroys = 0
  /\ pc \in {"header", "profile", "start", "allocate", "lock", "rows", "finish", "complete"}
       => jpeg = "live" /\ bNeedDestroy = TRUE /\ destroys = 0
  /\ pc \in {"jump", "jumped"} => jpeg # "live" /\ bNeedDestroy = FALSE
  /\ destroys <= 1
  /\ pc \in {"returned", "over"} /\ faulted = FALSE => jpeg # "live"

(* The DIB is there exactly when JpegToDib's local has its handle, until a  *)
(* jump loses it; only the ways out free anything.                          *)
MemoryInv ==
  /\ pc \in {"load", "over"} => data = FALSE
  /\ faulted = TRUE => pc \in {"returned", "over"}
  /\ pc \in {"load", "create", "header", "profile", "start", "allocate"} => dib = "none"
  /\ pc \in {"load", "create", "header", "profile"} => profile = "none"
  /\ pc \in {"lock", "rows", "finish", "complete"} => dib = "live"
  /\ pc \notin {"jumped", "returned", "over"} => (hDib = TRUE <=> dib = "live")
  /\ pc = "jumped" => (hDib = TRUE => dib = "live") /\ (dib = "live" /\ hDib = FALSE => lost = TRUE)
  /\ pc \notin {"returned", "over"} => profile # "freed" /\ dib # "freed" /\ result = "none"
  /\ pc \in {"returned", "over"} /\ faulted = FALSE =>
       /\ profile # "live"
       /\ dib = "live" => result = "dib" \/ lost = TRUE

(* What has been written are the first rows in the direction of storing;    *)
(* the size is that of the shape from the moment it is allocated.           *)
Filled == {r \in 0..shape.rows :
             r < shape.rows /\ (IF bFlipImage THEN r < scanline ELSE shape.rows - scanline <= r)}
RowInv ==
  /\ scanline <= shape.rows
  /\ pc \in {"load", "create", "header", "profile", "start", "allocate", "lock"} => scanline = 0
  /\ pc \in {"finish", "complete"} => scanline = shape.rows
  /\ written = Filled
  /\ pc \in {"lock", "rows", "finish", "complete"} \/ scanline > 0 => size = DibSize

(* Behind the last row the DIB is unlocked and has its profile, and so it   *)
(* is returned.                                                             *)
ResultInv ==
  /\ pc \in {"finish", "complete"} => locked = FALSE /\ embedded = (profile = "live")
  /\ result = "dib" =>
       /\ pc \in {"returned", "over"} /\ scanline = shape.rows
       /\ embedded = (profile # "none") /\ dib = "live" /\ locked = FALSE

IInv == TypeOK /\ ObjectInv /\ MemoryInv /\ RowInv /\ ResultInv

-----------------------------------------------------------------------------
(* Sizes.                                                                   *)
LEMMA DibSizeType ==
  ASSUME TypeOK
  PROVE  DibSize \in 0..(Word - 1)
<1> DEFINE sum == shape.header + shape.width * shape.rows + shape.profile
<1>1. shape.width \in Nat /\ shape.rows \in Nat /\ shape.header \in Nat /\ shape.profile \in Nat
  BY DEF TypeOK
<1>2. shape.width * shape.rows \in Nat
  BY <1>1
<1>3. sum \in Nat
  BY <1>1, <1>2
<1>4. Word \in Nat /\ Word > 0
  BY WordAssumption
<1> HIDE DEF sum
<1>5. sum % Word \in 0..(Word - 1)
  BY <1>3, <1>4
<1> QED
  BY <1>5 DEF DibSize, sum

(* One more row of a DIB that has it fits into the DIB.                     *)
LEMMA RowsOfWidth ==
  ASSUME NEW r \in Nat, NEW n \in Nat, NEW w \in Nat, r < n
  PROVE  (r + 1) * w <= w * n
<1> DEFINE k == n - (r + 1)
<1>1. k \in Nat /\ n = (r + 1) + k
  OBVIOUS
<1> HIDE DEF k
<1>2. w * n = (r + 1) * w + k * w
  BY <1>1
<1>3. k * w \in Nat /\ (r + 1) * w \in Nat
  BY <1>1
<1> QED
  BY <1>2, <1>3

-----------------------------------------------------------------------------
(* Flags.                                                                   *)
LEMMA FlagStep ==
  FlagType /\ [Next]_vars => FlagType'
<1> SUFFICES ASSUME FlagType, [Next]_vars PROVE FlagType'
  OBVIOUS
<1> USE DEF FlagType, object, picture, memory, history
<1>1. CASE LoadData
  BY <1>1, Zenon DEF LoadData
<1>2. CASE LoadFails
  BY <1>2, Zenon DEF LoadFails
<1>3. CASE FreeData
  BY <1>3, Zenon DEF FreeData
<1>4. CASE Create
  BY <1>4, Zenon DEF Create
<1>5. CASE ReadHeader
  BY <1>5, Zenon DEF ReadHeader
<1>6. CASE ReadProfile
  BY <1>6, Zenon DEF ReadProfile
<1>7. CASE StartDecompress
  BY <1>7, Zenon DEF StartDecompress
<1>8. CASE AllocateDib
  BY <1>8, Zenon DEF AllocateDib
<1>9. CASE LockDib
  BY <1>9, Zenon DEF LockDib
<1>10. CASE ReadScanline
  BY <1>10, Zenon DEF ReadScanline
<1>11. CASE EmbedProfile
  BY <1>11, Zenon DEF EmbedProfile
<1>12. CASE FinishDecompress
  BY <1>12, Zenon DEF FinishDecompress
<1>13. CASE ReturnDib
  BY <1>13, Zenon DEF ReturnDib, CleanUp, Return
<1>14. CASE OutOfMemory
  BY <1>14, Zenon DEF OutOfMemory, CleanUp, Return
<1>15. CASE ErrorExit
  BY <1>15, Zenon DEF ErrorExit
<1>16. CASE Jump
  BY <1>16, Zenon DEF Jump
<1>17. CASE ReturnFromJump
  BY <1>17, Zenon DEF ReturnFromJump, CleanUp, Return
<1>18. CASE Fault
  BY <1>18, Zenon DEF Fault, Return
<1>19. CASE UNCHANGED vars
  BY <1>19, Zenon DEF vars
<1> QED
  BY <1>1, <1>2, <1>3, <1>4, <1>5, <1>6, <1>7, <1>8, <1>9, <1>10, <1>11,
     <1>12, <1>13, <1>14, <1>15, <1>16, <1>17, <1>18, <1>19
  DEF Next, Step, Failure

(* Types.                                                                   *)
LEMMA DecodeTypeStep ==
  TypeOK /\ [Next]_vars => TypeOK'
<1> SUFFICES ASSUME TypeOK, [Next]_vars PROVE TypeOK'
  OBVIOUS
<1> USE DEF TypeOK, Working, object, picture, memory, history
<1>f. FlagType'
  BY FlagStep DEF TypeOK, FlagType
<1> USE DEF FlagType
<1>1. CASE LoadData
  BY <1>f, <1>1 DEF LoadData
<1>2. CASE LoadFails
  BY <1>f, <1>2 DEF LoadFails
<1>3. CASE FreeData
  BY <1>f, <1>3 DEF FreeData
<1>4. CASE Create
  BY <1>f, <1>4 DEF Create
<1>5. CASE ReadHeader
  <2>1. shape' \in [rows : Nat, width : Nat, header : Nat, profile : Nat]
    BY <1>f, <1>5, ShapeAssumption DEF ReadHeader
  <2> QED
    BY <1>f, <1>5, <2>1 DEF ReadHeader
<1>6. CASE ReadProfile
  <2>1. shape' \in [rows : Nat, width : Nat, header : Nat, profile : Nat]
    BY <1>f, <1>6, ShapeAssumption DEF ReadProfile
  <2> QED
    BY <1>f, <1>6, <2>1 DEF ReadProfile
<1>7. CASE StartDecompress
  BY <1>f, <1>7 DEF StartDecompress
<1>8. CASE AllocateDib
  <2>1. size' \in 0..(Word - 1)
    BY <1>f, <1>8, DibSizeType DEF AllocateDib
  <2> QED
    BY <1>f, <1>8, <2>1 DEF AllocateDib
<1>9. CASE LockDib
  BY <1>f, <1>9 DEF LockDib
<1>10. CASE ReadScanline
  <2>1. Row \in Nat
    BY <1>f, <1>10 DEF ReadScanline, Row, MoreRows
  <2> QED
    BY <1>f, <1>10, <2>1 DEF ReadScanline
<1>11. CASE EmbedProfile
  BY <1>f, <1>11 DEF EmbedProfile, MoreRows
<1>12. CASE FinishDecompress
  BY <1>f, <1>12 DEF FinishDecompress
<1>13. CASE ReturnDib
  BY <1>f, <1>13 DEF ReturnDib, CleanUp, Return
<1>14. CASE OutOfMemory
  BY <1>f, <1>14 DEF OutOfMemory, CleanUp, Return
<1>15. CASE ErrorExit
  BY <1>f, <1>15 DEF ErrorExit, CallsLibrary, MoreRows
<1>16. CASE Jump
  BY <1>f, <1>16 DEF Jump
<1>17. CASE ReturnFromJump
  BY <1>f, <1>17 DEF ReturnFromJump, CleanUp, Return
<1>18. CASE Fault
  BY <1>f, <1>18 DEF Fault, Return
<1>19. CASE UNCHANGED vars
  BY <1>f, <1>19 DEF vars
<1> QED
  BY <1>1, <1>2, <1>3, <1>4, <1>5, <1>6, <1>7, <1>8, <1>9, <1>10, <1>11,
     <1>12, <1>13, <1>14, <1>15, <1>16, <1>17, <1>18, <1>19
  DEF Next, Step, Failure

(* The object is destroyed by the callback or by the clean-up, never both.  *)
LEMMA ObjectStep ==
  TypeOK /\ ObjectInv /\ MemoryInv /\ [Next]_vars => ObjectInv'
<1> SUFFICES ASSUME TypeOK /\ ObjectInv /\ MemoryInv, [Next]_vars PROVE ObjectInv'
  OBVIOUS
<1> USE DEF ObjectInv, TypeOK, MemoryInv, object, picture, memory, history
<1>1. CASE LoadData
  BY <1>1 DEF LoadData
<1>2. CASE LoadFails
  BY <1>2 DEF LoadFails
<1>3. CASE FreeData
  BY <1>3 DEF FreeData
<1>4. CASE Create
  BY <1>4 DEF Create
<1>5. CASE ReadHeader
  BY <1>5 DEF ReadHeader
<1>6. CASE ReadProfile
  BY <1>6 DEF ReadProfile
<1>7. CASE StartDecompress
  BY <1>7 DEF StartDecompress
<1>8. CASE AllocateDib
  BY <1>8 DEF AllocateDib, DibSize
<1>9. CASE LockDib
  BY <1>9 DEF LockDib
<1>10. CASE ReadScanline
  BY <1>10 DEF ReadScanline, Row, MoreRows
<1>11. CASE EmbedProfile
  BY <1>11 DEF EmbedProfile, MoreRows
<1>12. CASE FinishDecompress
  BY <1>12 DEF FinishDecompress
<1>13. CASE ReturnDib
  BY <1>13 DEF ReturnDib, CleanUp, Return
<1>14. CASE OutOfMemory
  BY <1>14 DEF OutOfMemory, CleanUp, Return
<1>15. CASE ErrorExit
  BY <1>15 DEF ErrorExit, CallsLibrary, MoreRows, Working
<1>16. CASE Jump
  BY <1>16 DEF Jump
<1>17. CASE ReturnFromJump
  BY <1>17 DEF ReturnFromJump, CleanUp, Return
<1>18. CASE Fault
  BY <1>18 DEF Fault, Working, Return
<1>19. CASE UNCHANGED vars
  BY <1>19 DEF vars
<1> QED
  BY <1>1, <1>2, <1>3, <1>4, <1>5, <1>6, <1>7, <1>8, <1>9, <1>10, <1>11,
     <1>12, <1>13, <1>14, <1>15, <1>16, <1>17, <1>18, <1>19
  DEF Next, Step, Failure

(* Everything is given back on the way out that is taken.                   *)
LEMMA MemoryStep ==
  TypeOK /\ ObjectInv /\ MemoryInv /\ [Next]_vars => MemoryInv'
<1> SUFFICES ASSUME TypeOK /\ ObjectInv /\ MemoryInv, [Next]_vars PROVE MemoryInv'
  OBVIOUS
<1> USE DEF MemoryInv, TypeOK, ObjectInv, object, picture, memory, history
<1>1. CASE LoadData
  BY <1>1 DEF LoadData
<1>2. CASE LoadFails
  BY <1>2 DEF LoadFails
<1>3. CASE FreeData
  BY <1>3 DEF FreeData
<1>4. CASE Create
  BY <1>4 DEF Create
<1>5. CASE ReadHeader
  BY <1>5 DEF ReadHeader
<1>6. CASE ReadProfile
  BY <1>6 DEF ReadProfile
<1>7. CASE StartDecompress
  BY <1>7 DEF StartDecompress
<1>8. CASE AllocateDib
  BY <1>8 DEF AllocateDib, DibSize
<1>9. CASE LockDib
  BY <1>9 DEF LockDib
<1>10. CASE ReadScanline
  BY <1>10 DEF ReadScanline, Row, MoreRows
<1>11. CASE EmbedProfile
  BY <1>11 DEF EmbedProfile, MoreRows
<1>12. CASE FinishDecompress
  BY <1>12 DEF FinishDecompress
<1>13. CASE ReturnDib
  BY <1>13 DEF ReturnDib, CleanUp, Return
<1>14. CASE OutOfMemory
  BY <1>14 DEF OutOfMemory, CleanUp, Return
<1>15. CASE ErrorExit
  BY <1>15 DEF ErrorExit, CallsLibrary, MoreRows, Working
<1>16. CASE Jump
  BY <1>16 DEF Jump
<1>17. CASE ReturnFromJump
  BY <1>17 DEF ReturnFromJump, CleanUp, Return
<1>18. CASE Fault
  BY <1>18 DEF Fault, Working, Return
<1>19. CASE UNCHANGED vars
  BY <1>19 DEF vars
<1> QED
  BY <1>1, <1>2, <1>3, <1>4, <1>5, <1>6, <1>7, <1>8, <1>9, <1>10, <1>11,
     <1>12, <1>13, <1>14, <1>15, <1>16, <1>17, <1>18, <1>19
  DEF Next, Step, Failure

(* One row more, and it is the next one.                                    *)
LEMMA RowStep ==
  TypeOK /\ RowInv /\ [Next]_vars => RowInv'
<1> SUFFICES ASSUME TypeOK /\ RowInv, [Next]_vars PROVE RowInv'
  OBVIOUS
<1> USE DEF RowInv, Filled, DibSize, TypeOK, object, picture, memory, history
<1>1. CASE LoadData
  BY <1>1 DEF LoadData
<1>2. CASE LoadFails
  BY <1>2 DEF LoadFails
<1>3. CASE FreeData
  BY <1>3 DEF FreeData
<1>4. CASE Create
  BY <1>4 DEF Create
<1>5. CASE ReadHeader
  <2>1. PICK r \in Rows, w \in Widths, h \in Headers :
             shape' = [rows |-> r, width |-> w, header |-> h, profile |-> 0]
    BY <1>5 DEF ReadHeader
  <2>2. shape'.rows \in Nat /\ scanline = 0 /\ scanline' = 0 /\ written' = {} /\ pc' = "profile"
    BY <1>5, <2>1, ShapeAssumption DEF ReadHeader
  <2>3. written' = Filled'
    BY <1>5, <2>2 DEF ReadHeader
  <2> QED
    BY <2>2, <2>3 DEF ReadHeader
<1>6. CASE ReadProfile
  BY <1>6 DEF ReadProfile
<1>7. CASE StartDecompress
  BY <1>7 DEF StartDecompress
<1>8. CASE AllocateDib
  BY <1>8 DEF AllocateDib
<1>9. CASE LockDib
  BY <1>9 DEF LockDib
<1>10. CASE ReadScanline
  BY <1>10 DEF ReadScanline, Row, MoreRows
<1>11. CASE EmbedProfile
  BY <1>11 DEF EmbedProfile, MoreRows
<1>12. CASE FinishDecompress
  BY <1>12 DEF FinishDecompress
<1>13. CASE ReturnDib
  BY <1>13 DEF ReturnDib, CleanUp, Return
<1>14. CASE OutOfMemory
  BY <1>14 DEF OutOfMemory, CleanUp, Return
<1>15. CASE ErrorExit
  BY <1>15 DEF ErrorExit, CallsLibrary, MoreRows, Working
<1>16. CASE Jump
  BY <1>16 DEF Jump
<1>17. CASE ReturnFromJump
  BY <1>17 DEF ReturnFromJump, CleanUp, Return
<1>18. CASE Fault
  BY <1>18 DEF Fault, Working, Return
<1>19. CASE UNCHANGED vars
  BY <1>19 DEF vars
<1> QED
  BY <1>1, <1>2, <1>3, <1>4, <1>5, <1>6, <1>7, <1>8, <1>9, <1>10, <1>11,
     <1>12, <1>13, <1>14, <1>15, <1>16, <1>17, <1>18, <1>19
  DEF Next, Step, Failure

(* What is returned.                                                        *)
LEMMA ResultStep ==
  TypeOK /\ MemoryInv /\ RowInv /\ ResultInv /\ [Next]_vars => ResultInv'
<1> SUFFICES ASSUME TypeOK /\ MemoryInv /\ RowInv /\ ResultInv, [Next]_vars PROVE ResultInv'
  OBVIOUS
<1> USE DEF ResultInv, TypeOK, MemoryInv, RowInv, object, picture, memory, history
<1>1. CASE LoadData
  BY <1>1 DEF LoadData
<1>2. CASE LoadFails
  BY <1>2 DEF LoadFails
<1>3. CASE FreeData
  BY <1>3 DEF FreeData
<1>4. CASE Create
  BY <1>4 DEF Create
<1>5. CASE ReadHeader
  BY <1>5 DEF ReadHeader
<1>6. CASE ReadProfile
  BY <1>6 DEF ReadProfile
<1>7. CASE StartDecompress
  BY <1>7 DEF StartDecompress
<1>8. CASE AllocateDib
  BY <1>8 DEF AllocateDib, DibSize
<1>9. CASE LockDib
  BY <1>9 DEF LockDib
<1>10. CASE ReadScanline
  BY <1>10 DEF ReadScanline, Row, MoreRows
<1>11. CASE EmbedProfile
  BY <1>11 DEF EmbedProfile, MoreRows
<1>12. CASE FinishDecompress
  BY <1>12 DEF FinishDecompress
<1>13. CASE ReturnDib
  BY <1>13 DEF ReturnDib, CleanUp, Return
<1>14. CASE OutOfMemory
  BY <1>14 DEF OutOfMemory, CleanUp, Return
<1>15. CASE ErrorExit
  BY <1>15 DEF ErrorExit, CallsLibrary, MoreRows, Working
<1>16. CASE Jump
  BY <1>16 DEF Jump
<1>17. CASE ReturnFromJump
  BY <1>17 DEF ReturnFromJump, CleanUp, Return
<1>18. CASE Fault
  BY <1>18 DEF Fault, Working, Return
<1>19. CASE UNCHANGED vars
  BY <1>19 DEF vars
<1> QED
  BY <1>1, <1>2, <1>3, <1>4, <1>5, <1>6, <1>7, <1>8, <1>9, <1>10, <1>11,
     <1>12, <1>13, <1>14, <1>15, <1>16, <1>17, <1>18, <1>19
  DEF Next, Step, Failure

-----------------------------------------------------------------------------
LEMMA DecodeInit == Init => IInv
<1> SUFFICES ASSUME Init PROVE IInv
  OBVIOUS
<1>1. FlagType
  BY Zenon DEF Init, FlagType
<1>2. TypeOK
  BY <1>1, WordAssumption DEF Init, FlagType, TypeOK, NoShape, Working
<1>3. ObjectInv /\ MemoryInv
  <2>1. bNeedDestroy = FALSE /\ hDib = FALSE /\ faulted = FALSE /\ data = FALSE
    BY DEF Init
  <2>2. pc = "load" /\ jpeg = "none" /\ destroys = 0 /\ profile = "none" /\ dib = "none"
        /\ result = "none"
    BY DEF Init
  <2> QED
    BY <2>1, <2>2 DEF ObjectInv, MemoryInv
<1>4. ResultInv
  BY DEF Init, ResultInv
<1>5. RowInv
  BY DEF Init, RowInv, Filled, NoShape
<1> QED
  BY <1>2, <1>3, <1>4, <1>5 DEF IInv

LEMMA DecodeStep == IInv /\ [Next]_vars => IInv'
<1> SUFFICES ASSUME IInv, [Next]_vars PROVE IInv'
  OBVIOUS
<1>1. TypeOK'
  BY DecodeTypeStep DEF IInv
<1>2. ObjectInv' /\ MemoryInv'
  BY ObjectStep, MemoryStep DEF IInv
<1>3. RowInv' /\ ResultInv'
  BY RowStep, ResultStep DEF IInv
<1> QED
  BY <1>1, <1>2, <1>3 DEF IInv

LEMMA DecodeInvariant == Spec => []IInv
<1> QED
  BY DecodeInit, DecodeStep, PTL DEF Spec

-----------------------------------------------------------------------------
(* Every variable of JpegToDib and of its callbacks keeps its type.         *)
THEOREM DecodeTypeCorrect == Spec => []TypeOK
<1>1. IInv => TypeOK
  BY DEF IInv
<1> QED
  BY <1>1, DecodeInvariant, PTL

(* my_error_exit and cleanup_jpeg_to_dib never destroy the object twice,    *)
(* and neither it nor the DIB is used after it was given back.              *)
THEOREM NeverReleasedTwice == Spec => []ReleasedOnce
<1>1. IInv => ReleasedOnce
  BY DEF IInv, ObjectInv, MemoryInv, ReleasedOnce, Working
<1> QED
  BY <1>1, DecodeInvariant, PTL

(* Whatever fails, JpegToDib and its caller leave nothing behind but the    *)
(* picture, unless an exception or a lost local prevents it.                *)
THEOREM NothingEverLeft == Spec => []NothingLeft
<1>1. IInv => NothingLeft
  BY DEF IInv, TypeOK, ObjectInv, MemoryInv, NothingLeft
<1> QED
  BY <1>1, DecodeInvariant, PTL

(* Everything that JpegToDib and its caller hold is given back, and once.   *)
THEOREM EverythingGivenBackOnce == Spec => []GivenBackOnce
<1>1. ReleasedOnce /\ NothingLeft => GivenBackOnce
  BY DEF GivenBackOnce
<1> QED
  BY <1>1, NeverReleasedTwice, NothingEverLeft, PTL

(* As long as the sum of its sizes fits a DWORD, every decoded row lies in  *)
(* the memory of the DIB, before the place of the profile.                  *)
THEOREM RowsAlwaysInside == Spec => []RowsInside
<1>1. IInv => RowsInside
  <2> SUFFICES ASSUME IInv, Fits, NEW r \in written
               PROVE  /\ r < shape.rows
                      /\ shape.header + (r + 1) * shape.width + shape.profile <= size
    BY DEF RowsInside
  <2> DEFINE all == shape.width * shape.rows
  <2>1. /\ shape.width \in Nat /\ shape.rows \in Nat
        /\ shape.header \in Nat /\ shape.profile \in Nat /\ scanline \in Nat
    BY DEF IInv, TypeOK
  <2>2. r \in Nat /\ r < shape.rows /\ scanline > 0
    BY <2>1 DEF IInv, RowInv, Filled
  <2>3. all \in Nat /\ (r + 1) * shape.width \in Nat
    BY <2>1, <2>2
  <2>4. (r + 1) * shape.width <= all
    BY <2>1, <2>2, RowsOfWidth
  <2>5. size = (shape.header + all + shape.profile) % Word
    BY <2>2 DEF IInv, RowInv, DibSize
  <2>6. shape.header + all + shape.profile < Word
    BY DEF Fits
  <2> HIDE DEF all
  <2>7. size = shape.header + all + shape.profile
    BY <2>1, <2>3, <2>5, <2>6, WordAssumption
  <2> DEFINE part == (r + 1) * shape.width
  <2>8. part \in Nat /\ part <= all
    BY <2>3, <2>4
  <2> HIDE DEF part
  <2>9. shape.header + part + shape.profile <= size
    BY <2>1, <2>3, <2>7, <2>8
  <2> QED
    BY <2>2, <2>9 DEF part
<1> QED
  BY <1>1, DecodeInvariant, PTL

(* A picture that JpegToDib returns has all of its rows, stored in either   *)
(* direction, and its profile, and is neither locked nor freed.             *)
THEOREM PictureAlwaysComplete == Spec => []PictureComplete
<1>1. IInv => PictureComplete
  <2> SUFFICES ASSUME IInv, result = "dib"
               PROVE  /\ written = {r \in 0..shape.rows : r < shape.rows}
                      /\ embedded <=> profile # "none"
                      /\ dib = "live" /\ ~locked
    BY DEF PictureComplete
  <2>1. scanline = shape.rows /\ shape.rows \in Nat /\ written = Filled
    BY DEF IInv, TypeOK, RowInv, ResultInv
  <2>2. written = {r \in 0..shape.rows : r < shape.rows}
    BY <2>1 DEF Filled
  <2>3. (embedded <=> profile # "none") /\ dib = "live" /\ ~locked
    BY DEF IInv, TypeOK, ResultInv
  <2> QED
    BY <2>2, <2>3
<1> QED
  BY <1>1, DecodeInvariant, PTL

(* All of a picture is in its DIB, and nothing outside of it.               *)
THEOREM PictureAlwaysInDib == Spec => []PictureInDib
<1>1. RowsInside /\ PictureComplete => PictureInDib
  BY DEF PictureInDib
<1> QED
  BY <1>1, RowsAlwaysInside, PictureAlwaysComplete, PTL

-----------------------------------------------------------------------------
(* The dialog.                                                              *)
(* JpegToDib has no result until it returns, and then it has one.           *)
Answered ==
  /\ pc \notin {"returned", "over"} => result = "none"
  /\ pc = "returned" => result \in {"dib", "null"}

LEMMA AnsweredStep == IInv /\ Answered /\ [Next]_vars => Answered'
<1> SUFFICES ASSUME IInv, Answered, [Next]_vars PROVE Answered'
  OBVIOUS
<1>1. IInv'
  BY DecodeStep
<1>2. (pc \notin {"returned", "over"} => result = "none")'
  BY <1>1 DEF IInv, MemoryInv
<1>3. (pc = "returned" => result \in {"dib", "null"})'
  <2>1. CASE ReturnDib \/ OutOfMemory \/ ReturnFromJump \/ Fault
    BY <2>1 DEF ReturnDib, OutOfMemory, ReturnFromJump, Fault, Return
  <2>2. CASE LoadData \/ LoadFails \/ FreeData \/ Create \/ ReadHeader \/ ReadProfile \/ StartDecompress
    BY <2>2 DEF LoadData, LoadFails, FreeData, Create, ReadHeader, ReadProfile, StartDecompress
  <2>3. CASE \/ AllocateDib \/ LockDib \/ ReadScanline \/ EmbedProfile \/ FinishDecompress
             \/ Jump \/ ErrorExit
    BY <2>3 DEF AllocateDib, LockDib, ReadScanline, EmbedProfile, FinishDecompress, Jump, ErrorExit
  <2>4. CASE UNCHANGED vars
    BY <2>4 DEF vars, Answered
  <2> QED
    BY <2>1, <2>2, <2>3, <2>4 DEF Next, Step, Failure
<1> QED
  BY <1>2, <1>3 DEF Answered

LEMMA Undisturbed ==
  ASSUME NEW media, UNCHANGED <<pc, result>>
  PROVE  UNCHANGED Dialog(media)!vars
BY DEF Dialog!vars, Dialog!frameVars, Dialog!panelVars

(* While libjpeg is at work, and behind a jump until JpegToDib returns.     *)
Decoding == Working \cup {"allocate", "lock", "complete"}
LEMMA DecodingOn ==
  ASSUME NEW media, UNCHANGED result,
         \/ pc \in Decoding /\ pc' \in Decoding
         \/ pc = "jump" /\ pc' = "jumped"
         \/ pc = "returned" /\ pc' = "over" /\ result # "none"
  PROVE  UNCHANGED Dialog(media)!vars
BY DEF Decoding, Working, Dialog!vars, Dialog!frameVars, Dialog!panelVars

LEMMA StartInDialog ==
  ASSUME NEW media \in {"map", "jpeg"}, pc = "load", pc' = "create", result = "none",
         UNCHANGED result
  PROVE  Dialog(media)!StartJpeg
BY DEF Dialog!StartJpeg, Dialog!At, Dialog!Top, Dialog!Goto, Dialog!pictureFrame

LEMMA SkipInDialog ==
  ASSUME NEW media \in {"map", "jpeg"}, pc = "load", pc' = "over", result = "none",
         UNCHANGED result
  PROVE  Dialog(media)!SkipPicture
BY DEF Dialog!SkipPicture, Dialog!At, Dialog!Top, Dialog!Goto, Dialog!pictureFrame

LEMMA ErrorInDialog ==
  ASSUME NEW media \in {"map", "jpeg"}, pc \in Decoding, pc' = "jump", result = "none",
         UNCHANGED result
  PROVE  Dialog(media)!ReportError
BY DEF Decoding, Working, Dialog!ReportError, Dialog!At, Dialog!Top, Dialog!Goto, Dialog!panelVars

LEMMA JumpInDialog ==
  ASSUME NEW media \in {"map", "jpeg"}, pc = "jumped", pc' = "returned", result = "none",
         result' = "null"
  PROVE  Dialog(media)!Jump
BY DEF Dialog!Jump, Dialog!At, Dialog!Top, Dialog!Goto, Dialog!NoDib, Dialog!NoPicture,
       Dialog!MarkAsUnsupported

LEMMA AbandonInDialog ==
  ASSUME NEW media \in {"map", "jpeg"}, pc \in Decoding, pc' = "returned", result = "none",
         result' = "null"
  PROVE  Dialog(media)!AbandonJpeg
BY DEF Decoding, Working, Dialog!AbandonJpeg, Dialog!At, Dialog!Top, Dialog!Goto, Dialog!NoDib,
       Dialog!NoPicture, Dialog!MarkAsUnsupported, Dialog!pictureFrame

LEMMA FinishInDialog ==
  ASSUME NEW media \in {"map", "jpeg"}, pc \in Decoding, pc' = "returned", result = "none",
         result' = "dib"
  PROVE  Dialog(media)!FinishJpeg
<1>1. Dialog(media)!At("decode") /\ Dialog(media)!Top.media = media
  BY DEF Decoding, Working, Dialog!At, Dialog!Top
<1>2. Dialog(media)!ReplaceThumbnail(1, FALSE)
  BY DEF Dialog!ReplaceThumbnail
<1>3. Dialog(media)!Top.dump = 1
  BY DEF Dialog!Top
<1>4. Dialog(media)!Goto("next")
  BY DEF Decoding, Working, Dialog!Goto
<1>5. UNCHANGED <<Dialog(media)!pictureFrame, IF pc = "load" \/ (pc = "over" /\ result = "none") THEN 0 ELSE 1>>
  BY DEF Decoding, Working, Dialog!pictureFrame
<1> QED
  BY <1>1, <1>2, <1>3, <1>4, <1>5 DEF Dialog!FinishJpeg

LEMMA DecodeDialogStep ==
  ASSUME IInv, Answered, [Next]_vars
  PROVE  StepsInDialog
<1> SUFFICES ASSUME NEW media \in {"map", "jpeg"}
             PROVE  [Dialog(media)!Next]_(Dialog(media)!vars)
  BY DEF StepsInDialog
<1>1. pc \notin {"returned", "over"} => result = "none"
  BY DEF Answered
<1>2. CASE LoadData
  <2>1. pc = "load" /\ pc' = "create" /\ UNCHANGED result
    BY <1>2 DEF LoadData
  <2> QED
    BY <1>1, <2>1, StartInDialog DEF Dialog!Next, Dialog!Program
<1>3. CASE LoadFails
  <2>1. pc = "load" /\ pc' = "over" /\ UNCHANGED result
    BY <1>3 DEF LoadFails
  <2> QED
    BY <1>1, <2>1, SkipInDialog DEF Dialog!Next, Dialog!Program
<1>4. CASE ErrorExit
  <2>1. pc \in Decoding /\ pc' = "jump" /\ UNCHANGED result /\ result = "none"
    BY <1>1, <1>4 DEF ErrorExit, CallsLibrary, Decoding, Working
  <2> QED
    BY <2>1, ErrorInDialog DEF Dialog!Next, Dialog!Program
<1>5. CASE ReturnFromJump
  <2>1. pc = "jumped" /\ pc' = "returned" /\ result = "none" /\ result' = "null"
    BY <1>1, <1>5 DEF ReturnFromJump, Return
  <2> QED
    BY <2>1, JumpInDialog DEF Dialog!Next, Dialog!Program
<1>6. CASE OutOfMemory \/ Fault
  <2>1. pc \in Decoding /\ pc' = "returned" /\ result = "none" /\ result' = "null"
    BY <1>1, <1>6 DEF OutOfMemory, Fault, Return, Decoding, Working
  <2> QED
    BY <2>1, AbandonInDialog DEF Dialog!Next, Dialog!Program
<1>7. CASE ReturnDib
  <2>1. pc \in Decoding /\ pc' = "returned" /\ result = "none" /\ result' = "dib"
    BY <1>1, <1>7 DEF ReturnDib, Return, Decoding
  <2> QED
    BY <2>1, FinishInDialog DEF Dialog!Next, Dialog!Program
<1>8. CASE Create \/ ReadHeader \/ ReadProfile \/ StartDecompress \/ AllocateDib \/ LockDib
           \/ ReadScanline \/ EmbedProfile \/ FinishDecompress
  <2>1. pc \in Decoding /\ pc' \in Decoding /\ UNCHANGED result
    BY <1>8 DEF Create, ReadHeader, ReadProfile, StartDecompress, AllocateDib, LockDib,
                ReadScanline, EmbedProfile, FinishDecompress, Decoding, Working
  <2> QED
    BY <2>1, DecodingOn
<1>9. CASE Jump \/ FreeData
  <2>1. \/ pc = "jump" /\ pc' = "jumped" /\ UNCHANGED result
        \/ pc = "returned" /\ pc' = "over" /\ UNCHANGED result /\ result # "none"
    BY <1>9 DEF Jump, FreeData, Answered
  <2> QED
    BY <2>1, DecodingOn
<1>10. CASE UNCHANGED vars
  BY <1>10, Undisturbed DEF vars
<1> QED
  BY <1>2, <1>3, <1>4, <1>5, <1>6, <1>7, <1>8, <1>9, <1>10 DEF Next, Step, Failure

(* However JpegToDib is left, for the dialog it is one of the ways that     *)
(* Viewer knows, for a thumbnail and for a JPEG file.                       *)
THEOREM DecodeImplementsDialog == Spec => DecodeAsInDialog
<1>1. Init => Answered
  BY DEF Init, Answered
<1>2. IInv /\ Answered /\ [Next]_vars => Answered'
  BY AnsweredStep
<1>3. IInv /\ Answered /\ [Next]_vars => StepsInDialog
  BY DecodeDialogStep
<1>4. Spec => []Answered
  BY <1>1, <1>2, DecodeInvariant, PTL DEF Spec
<1> QED
  BY <1>3, <1>4, DecodeInvariant, PTL DEF Spec, DecodeAsInDialog

-----------------------------------------------------------------------------
(* BitmapFile: whichever section is missing, the block is freed once or     *)
(* becomes the thumbnail.                                                   *)
BmpBlockInv ==
  /\ bmpPc \in {"file", "array", "allocate"} => owner = "none" /\ allocated = 0 /\ shown = "none"
  /\ bmpPc \in {"lock", "read", "header", "masks", "colours", "gap", "realloc", "relock",
                "profile", "tags", "exit"}
       => owner = "DumpBitmap" /\ allocated = 1 /\ shown = "none"
  /\ bmpPc = "done" =>
       \/ owner = "none" /\ allocated = 0 /\ shown \in {"failed", "unsupported"}
       \/ owner = "thumbnail" /\ allocated = 1 /\ shown = "shown"
  /\ bmpPc \in {"file", "array", "allocate", "lock", "read", "header", "masks", "colours", "gap",
                "realloc", "relock", "profile", "tags", "exit", "done"}

LEMMA BmpBlockStep == BmpBlockInv /\ [Bmp!Next]_bmpVars => BmpBlockInv'
<1> SUFFICES ASSUME BmpBlockInv, [Bmp!Next]_bmpVars PROVE BmpBlockInv'
  OBVIOUS
<1> USE DEF BmpBlockInv, Bmp!Goto, Bmp!Return, Bmp!FreeAndReturn, Bmp!FreeDib, Bmp!block
<1>1. CASE UNCHANGED bmpVars
  BY <1>1 DEF bmpVars
<1>2. CASE Bmp!ReadFileHeader
  BY <1>2 DEF Bmp!ReadFileHeader
<1>3. CASE Bmp!ReadArrayHeader
  BY <1>3 DEF Bmp!ReadArrayHeader
<1>4. CASE Bmp!AllocateDib
  BY <1>4 DEF Bmp!AllocateDib
<1>5. CASE Bmp!LockDib
  BY <1>5 DEF Bmp!LockDib
<1>6. CASE Bmp!ReadDib
  BY <1>6 DEF Bmp!ReadDib
<1>7. CASE Bmp!DumpHeader
  BY <1>7 DEF Bmp!DumpHeader
<1>8. CASE Bmp!DumpColorMasks
  BY <1>8 DEF Bmp!DumpColorMasks
<1>9. CASE Bmp!DumpColors
  BY <1>9 DEF Bmp!DumpColors
<1>10. CASE Bmp!CheckGap
  BY <1>10 DEF Bmp!CheckGap
<1>11. CASE Bmp!ReAlloc
  BY <1>11 DEF Bmp!ReAlloc
<1>12. CASE Bmp!MoveBits
  BY <1>12 DEF Bmp!MoveBits
<1>13. CASE Bmp!DumpProfile
  BY <1>13 DEF Bmp!DumpProfile
<1>14. CASE Bmp!DumpTags
  BY <1>14 DEF Bmp!DumpTags
<1>15. CASE Bmp!Exit
  BY <1>15 DEF Bmp!Exit
<1> QED
  BY <1>1, <1>2, <1>3, <1>4, <1>5, <1>6, <1>7, <1>8, <1>9, <1>10, <1>11, <1>12, <1>13,
     <1>14, <1>15 DEF Bmp!Next

(* Pictures: what may be allocated at each place.                           *)
Unseen == alphas \ {0} = {} \/ alphas \ {255} = {}
LoadInv ==
  /\ picPc = "load" => held = {}
  /\ picPc \in {"read", "decode"} => held = {"lpData"}
  /\ picPc = "decode" => picFile.format # "icon"
  /\ picPc \in {"allocate", "lock", "rows"} =>
       held \subseteq {"lpData"} \cup (IF picFile.format = "icon" THEN {} ELSE {"lpBits"})
  /\ picPc = "section" => held \subseteq {"lpData"}
  /\ picPc \in {"load", "read", "decode", "allocate", "lock", "rows", "section"} => alphas = {}
BlendInv ==
  /\ picPc \in {"blend", "blended"} => held \subseteq {"lpData", "hbmpDib"}
  /\ picPc = "blend" => "hbmpDib" \in held
  /\ picPc = "blended" /\ "hbmpDib" \notin held => alphas = {}
SaveInv ==
  /\ picPc \in {"save", "buffer"} => held \subseteq {"hbmpDib", "hNewDib"}
  /\ picPc \in {"png", "encode"}  => held \subseteq {"hbmpDib", "hNewDib", "lpRGBA"}
  /\ picPc = "write" => held \subseteq {"hbmpDib", "hNewDib", "lpRGBA", "lpPNG"}
  /\ picPc = "done" =>
       held \subseteq {"hbmpDib"} \cup (IF picFile.format = "icon" THEN {"hDib"} ELSE {})
  /\ picPc \in {"save", "buffer", "png", "encode", "write", "done"} =>
       ("hbmpDib" \in held <=> ~Unseen)
HasDibInv ==
  /\ picPc \in {"load", "read", "decode", "allocate"} => ~hasDib
  /\ picPc \in {"lock", "rows", "section", "blend", "blended", "save", "buffer", "png", "encode",
                "write"} => hasDib
  /\ ~hasDib => alphas = {} /\ saved = FALSE
  /\ picPc # "done" => saved = FALSE
PicBlockInv ==
  /\ LoadInv /\ BlendInv /\ SaveInv /\ HasDibInv /\ hasDib \in BOOLEAN
  /\ picPc \in {"load", "read", "decode", "allocate", "lock", "rows", "section", "blend",
                "blended", "save", "buffer", "png", "encode", "write", "done"}

LEMMA PicBlockStep == PicBlockInv /\ [Pic!Next]_picVars => PicBlockInv'
<1> SUFFICES ASSUME PicBlockInv, [Pic!Next]_picVars PROVE PicBlockInv'
  OBVIOUS
<1> USE DEF PicBlockInv, LoadInv, BlendInv, SaveInv, HasDibInv, Unseen, Pic!Goto, Pic!NoPicture,
            Pic!MoreRows, Pic!EndOfRows, Pic!NextRow, Pic!shape, Pic!buffers, Pic!Return,
            Pic!FreedBlocks
<1>1. CASE UNCHANGED picVars
  BY <1>1 DEF picVars
<1>2. CASE Pic!Load
  BY <1>2 DEF Pic!Load
<1>3. CASE Pic!ReadFile
  BY <1>3 DEF Pic!ReadFile
<1>4. CASE Pic!Decode
  BY <1>4 DEF Pic!Decode
<1>5. CASE Pic!AllocateDib
  <2>1. /\ picPc = "allocate" /\ alphas = {} /\ hasDib = FALSE /\ saved = FALSE
        /\ held \subseteq {"lpData"} \cup (IF picFile.format = "icon" THEN {} ELSE {"lpBits"})
    BY <1>5 DEF Pic!AllocateDib
  <2>2. UNCHANGED <<picFile, alphas, saved>>
    BY <1>5 DEF Pic!AllocateDib
  <2>3. CASE picPc' = "lock" /\ hasDib' = TRUE /\ UNCHANGED held
    BY ONLY <2>1, <2>2, <2>3 DEF PicBlockInv, LoadInv, BlendInv, SaveInv, HasDibInv, Unseen
  <2>4. CASE picPc' = "done" /\ held' = held \ {"lpBits", "lpData"} /\ UNCHANGED hasDib
    <3>1. held' = {}
      BY <2>1, <2>4
    <3> QED
      BY ONLY <2>1, <2>2, <2>4, <3>1 DEF PicBlockInv, LoadInv, BlendInv, SaveInv, HasDibInv, Unseen
  <2>5. \/ picPc' = "lock" /\ hasDib' = TRUE /\ UNCHANGED held
        \/ picPc' = "done" /\ held' = held \ {"lpBits", "lpData"} /\ UNCHANGED hasDib
    BY <1>5 DEF Pic!AllocateDib
  <2> QED
    BY <2>3, <2>4, <2>5
<1>6. CASE Pic!LockDib
  <2>1. /\ picPc = "lock" /\ alphas = {} /\ hasDib = TRUE /\ saved = FALSE
        /\ held \subseteq {"lpData"} \cup (IF picFile.format = "icon" THEN {} ELSE {"lpBits"})
    BY <1>6 DEF Pic!LockDib
  <2>2. UNCHANGED <<picFile, alphas, saved>>
    BY <1>6 DEF Pic!LockDib
  <2>3. CASE picPc' = "rows" /\ UNCHANGED <<held, hasDib>>
    BY ONLY <2>1, <2>2, <2>3 DEF PicBlockInv, LoadInv, BlendInv, SaveInv, HasDibInv, Unseen
  <2>4. CASE picPc' = "done" /\ hasDib' = FALSE /\ held' = held \ {"lpBits", "lpData"}
    <3>1. held' = {}
      BY <2>1, <2>4
    <3> QED
      BY ONLY <2>1, <2>2, <2>4, <3>1 DEF PicBlockInv, LoadInv, BlendInv, SaveInv, HasDibInv, Unseen
  <2>5. CASE /\ picPc' = "done" /\ hasDib' = FALSE /\ picFile.format = "icon"
             /\ held' = (held \ {"lpData"}) \cup {"hDib"}
    <3>a. held \subseteq {"lpData"}
      BY <2>1, <2>5
    <3>b. held \ {"lpData"} = {}
      BY <3>a
    <3>1. held' = {"hDib"}
      BY <2>5, <3>b
    <3> QED
      BY ONLY <2>1, <2>2, <2>5, <3>1 DEF PicBlockInv, LoadInv, BlendInv, SaveInv, HasDibInv, Unseen
  <2>6. \/ picPc' = "rows" /\ UNCHANGED <<held, hasDib>>
        \/ picPc' = "done" /\ hasDib' = FALSE /\ held' = held \ {"lpBits", "lpData"}
        \/ /\ picPc' = "done" /\ hasDib' = FALSE /\ picFile.format = "icon"
           /\ held' = (held \ {"lpData"}) \cup {"hDib"}
    BY ONLY <1>6 DEF Pic!LockDib, Pic!Goto, Pic!NoPicture
  <2> QED
    BY ONLY <2>3, <2>4, <2>5, <2>6
<1>7. CASE Pic!DecodeRow
  BY <1>7 DEF Pic!DecodeRow
<1>8. CASE Pic!Decoded
  BY <1>8 DEF Pic!Decoded
<1>9. CASE Pic!CreateDIBSection
  BY <1>9 DEF Pic!CreateDIBSection
<1>10. CASE Pic!BlendRow
  BY <1>10 DEF Pic!BlendRow
<1>11. CASE Pic!BlendedAll
  BY <1>11 DEF Pic!BlendedAll
<1>12. CASE Pic!Blended
  BY <1>12 DEF Pic!Blended
<1>13. CASE Pic!SaveConverted
  BY <1>13 DEF Pic!SaveConverted
<1>14. CASE Pic!Save
  BY <1>14 DEF Pic!Save
<1>15. CASE Pic!SaveFails
  BY <1>15 DEF Pic!SaveFails
<1>16. CASE Pic!AllocateBuffer
  BY <1>16 DEF Pic!AllocateBuffer
<1>17. CASE Pic!PngRow
  BY <1>17 DEF Pic!PngRow
<1>18. CASE Pic!Encode
  BY <1>18 DEF Pic!Encode
<1>19. CASE Pic!Encoded
  BY <1>19 DEF Pic!Encoded
<1>20. CASE Pic!Write
  BY <1>20 DEF Pic!Write
<1> QED
  BY <1>1, <1>2, <1>3, <1>4, <1>5, <1>6, <1>7, <1>8, <1>9, <1>10, <1>11, <1>12, <1>13, <1>14, <1>15, <1>16, <1>17, <1>18, <1>19, <1>20
  DEF Pic!Next

(* At the beginning nothing is allocated, but for a given DIB.              *)
LEMMA BlocksStart == PicturesInit => BmpBlockInv /\ PicBlockInv
<1> SUFFICES ASSUME PicturesInit PROVE BmpBlockInv /\ PicBlockInv
  OBVIOUS
<1>1. BmpBlockInv
  <2>1. CASE NoBitmap
    BY <2>1 DEF NoBitmap, BmpBlockInv
  <2>2. CASE Bmp!Init
    BY <2>2 DEF Bmp!Init, BmpBlockInv
  <2> QED
    BY <2>1, <2>2 DEF PicturesInit
<1>2. PicBlockInv
  <2>1. CASE NoPicture
    BY <2>1 DEF NoPicture, PicBlockInv, LoadInv, BlendInv, SaveInv, HasDibInv, Unseen
  <2>2. CASE Pic!Init
    <3>1. /\ alphas = {} /\ held = {} /\ saved = FALSE
          /\ \/ picPc = "section" /\ hasDib = TRUE
             \/ picPc = "load" /\ hasDib = FALSE
      BY <2>2 DEF Pic!Init
    <3> QED
      BY ONLY <3>1 DEF PicBlockInv, LoadInv, BlendInv, SaveInv, HasDibInv, Unseen
  <2> QED
    BY <2>1, <2>2 DEF PicturesInit
<1> QED
  BY <1>1, <1>2

(* The invariants are what is to be shown.                                  *)
LEMMA BlocksGivenBack == BmpBlockInv /\ PicBlockInv => BlocksFreed
<1> SUFFICES ASSUME BmpBlockInv, PicBlockInv PROVE BlocksFreed
  OBVIOUS
<1>1. Bmp!GivenBack
  BY DEF BmpBlockInv, Bmp!GivenBack
<1>2. Pic!GivenBack
  <2>1. picPc = "done" =>
          held \subseteq {"hbmpDib"} \cup (IF picFile.format = "icon" THEN {"hDib"} ELSE {})
    BY DEF PicBlockInv, SaveInv
  <2>2. picPc \notin {"section", "blend", "blended"} => ("hbmpDib" \in held <=> ~Unseen)
    <3>1. CASE picPc \in {"load", "read", "decode", "allocate", "lock", "rows"}
      BY <3>1 DEF PicBlockInv, LoadInv, Unseen
    <3>2. CASE picPc \in {"save", "buffer", "png", "encode", "write", "done"}
      BY <3>2 DEF PicBlockInv, SaveInv
    <3> QED
      BY <3>1, <3>2 DEF PicBlockInv
  <2>3. /\ picPc \notin {"load", "read", "decode", "allocate", "done"} => hasDib
        /\ ~hasDib => alphas = {} /\ ~saved
    BY DEF PicBlockInv, HasDibInv
  <2> QED
    BY <2>1, <2>2, <2>3 DEF Pic!GivenBack, Unseen
<1> QED
  BY <1>1, <1>2 DEF BlocksFreed

(* Whatever picture or bitmap file is read, however far the reading, the    *)
(* blending and the saving come, every block but the DIB and a copy that is *)
(* worth drawing is freed, none twice.                                      *)
THEOREM BlocksAlwaysFreed == PicturesSpec => []BlocksFreed
<1>1. PicturesInit => BmpBlockInv /\ PicBlockInv
  BY BlocksStart
<1>2. /\ BmpBlockInv /\ PicBlockInv
      /\ [PicturesNext]_<<vars, picVars, bmpVars>>
      => (BmpBlockInv /\ PicBlockInv)'
  <2> SUFFICES ASSUME BmpBlockInv, PicBlockInv, [PicturesNext]_<<vars, picVars, bmpVars>>
               PROVE  BmpBlockInv' /\ PicBlockInv'
    OBVIOUS
  <2>1. [Bmp!Next]_bmpVars /\ [Pic!Next]_picVars
    BY DEF PicturesNext
  <2> QED
    BY <2>1, BmpBlockStep, PicBlockStep
<1>3. BmpBlockInv /\ PicBlockInv => BlocksFreed
  BY BlocksGivenBack
<1> QED
  BY <1>1, <1>2, <1>3, PTL DEF PicturesSpec

-----------------------------------------------------------------------------
(* BitmapFile: where the picture's bits are, the functions find them.       *)
Few(p) == p \in Nat /\ 1 <= p /\ p <= 4096
LEMMA FewColours ==
  ASSUME NEW b \in 1..12
  PROVE  Few(2^b)
<1>1. \/ b = 1 \/ b = 2 \/ b = 3 \/ b = 4 \/ b = 5 \/ b = 6
      \/ b = 7 \/ b = 8 \/ b = 9 \/ b = 10 \/ b = 11 \/ b = 12
  OBVIOUS
<1>2. /\ Few(2^1) /\ Few(2^2) /\ Few(2^3) /\ Few(2^4) /\ Few(2^5) /\ Few(2^6)
      /\ Few(2^7) /\ Few(2^8) /\ Few(2^9) /\ Few(2^10) /\ Few(2^11) /\ Few(2^12)
  BY DEF Few
<1> QED
  BY ONLY <1>1, <1>2, Zenon

NumColours(n, h, b, u) ==
  /\ n \in Nat
  /\ h # Bmp!Core /\ u \in 1..Bmp!MaxColors => n = u
  /\ n <= Bmp!MaxColors
  /\ u = 0 /\ b \notin 1..12 => n = 0
LEMMA ColourFacts ==
  ASSUME NEW h \in Nat, NEW b \in Nat, NEW u \in Nat
  PROVE  NumColours(Bmp!DibNumColorsOf(h, b, u), h, b, u)
<1>1. CASE h # Bmp!Core /\ u \in 1..Bmp!MaxColors
  BY <1>1 DEF NumColours, Bmp!DibNumColorsOf, Bmp!MaxColors
<1>2. CASE ~(h # Bmp!Core /\ u \in 1..Bmp!MaxColors) /\ b \in 1..12
  <2>1. PICK p : p = 2^b /\ Few(p)
    BY <1>2, FewColours, Zenon
  <2>2. Bmp!DibNumColorsOf(h, b, u) = p
    BY <1>2, <2>1 DEF Bmp!DibNumColorsOf
  <2> QED
    BY <1>2, <2>1, <2>2 DEF NumColours, Bmp!MaxColors, Few
<1>3. CASE ~(h # Bmp!Core /\ u \in 1..Bmp!MaxColors) /\ b \notin 1..12
  BY <1>3 DEF NumColours, Bmp!DibNumColorsOf, Bmp!MaxColors
<1> QED
  BY <1>1, <1>2, <1>3

(* The places of a file, with the numbers they are calculated from.         *)
Mask(f)  == Bmp!ColorMasksSizeOf(f.header, f.compression)
Entry(f) == Bmp!EntrySize(f.header)
FileFacts(f) ==
  /\ f.header \in Nat /\ f.bits \in Nat /\ f.clrUsed \in Nat /\ f.gap \in Int
  /\ Mask(f) \in Nat /\ Entry(f) \in Nat /\ Entry(f) = IF f.header = Bmp!Core THEN 3 ELSE 4
  /\ Bmp!BitsIn(f) \in Nat
  /\ Bmp!BitsIn(f) = f.header + Mask(f) + Bmp!DibNumColorsOf(f.header, f.bits, f.clrUsed) * Entry(f) + f.gap
  /\ Bmp!Length(f) \in Int /\ Bmp!Length(f) < Bmp!Huge
  /\ f.says # "offset" => f.gap = 0
  /\ f.says \in {"offset", "nothing", "nonsense"}

(* What is true of every bitmap file.                                       *)
LEMMA FilesHave ==
  ASSUME BitmapAssumption
  PROVE  \A f \in Bmp!Files : FileFacts(f)
<1> SUFFICES ASSUME NEW f \in Bmp!Files PROVE FileFacts(f)
  OBVIOUS
<1>1. /\ f.header \in Nat /\ f.bits \in Nat /\ f.clrUsed \in Nat /\ f.gap \in Int
      /\ f.profileSize \in Nat /\ f.tags \in Nat /\ f.ends \in Bmp!Ends
      /\ f.says \in {"offset", "nothing", "nonsense"}
      /\ f.says # "offset" => f.gap = 0
      /\ Bmp!Offset(f.header, f.bits, f.clrUsed, f.compression) + f.gap >= f.header
  <2>1. /\ f.header \in HeaderSizes /\ f.bits \in BitCounts /\ f.clrUsed \in ClrUsed
        /\ f.gap \in Gaps \cup {-n : n \in Overlaps}
        /\ f.profileSize \in ProfileSizes /\ f.tags \in TagCounts /\ f.ends \in Bmp!Ends
        /\ f.says \in {"offset", "nothing", "nonsense"}
    BY DEF Bmp!Files
  <2>2. /\ f.says # "offset" => f.gap = 0
        /\ Bmp!Offset(f.header, f.bits, f.clrUsed, f.compression) + f.gap >= f.header
    BY DEF Bmp!Files
  <2>3. f.gap \in Int
    <3>0. PICK g : g = f.gap
      OBVIOUS
    <3>a. Gaps \subseteq Nat
      BY DEF BitmapAssumption
    <3>1. CASE f.gap \in Gaps
      <4>0. g \in Gaps
        BY <3>0, <3>1
      <4>1. g \in Int
        BY ONLY <3>a, <4>0
      <4> QED
        BY ONLY <3>0, <4>1
    <3>2. CASE f.gap \in {-n : n \in Overlaps}
      <4>1. PICK n \in Overlaps : f.gap = -n
        BY <3>2
      <4>2. n \in Nat
        BY DEF BitmapAssumption
      <4> QED
        BY ONLY <4>1, <4>2
    <3> QED
      BY <2>1, <3>1, <3>2
  <2>4. f.header \in Nat /\ f.bits \in Nat /\ f.clrUsed \in Nat /\ f.profileSize \in Nat /\ f.tags \in Nat
    BY <2>1 DEF BitmapAssumption
  <2> QED
    BY ONLY <2>1, <2>2, <2>3, <2>4
<1>2. Mask(f) \in Nat /\ Entry(f) \in Nat /\ Entry(f) = IF f.header = Bmp!Core THEN 3 ELSE 4
  BY DEF Mask, Entry, Bmp!ColorMasksSizeOf, Bmp!EntrySize
<1>3. PICK N \in Nat : N = Bmp!DibNumColorsOf(f.header, f.bits, f.clrUsed)
  BY <1>1, ColourFacts DEF NumColours
<1>4. Bmp!Offset(f.header, f.bits, f.clrUsed, f.compression) = f.header + Mask(f) + N * Entry(f)
  BY <1>3 DEF Bmp!Offset, Mask, Entry
<1>5. N * Entry(f) \in Nat
  BY <1>2, <1>3
<1>6. Bmp!BitsIn(f) = f.header + Mask(f) + N * Entry(f) + f.gap /\ Bmp!BitsIn(f) \in Nat
  BY <1>1, <1>2, <1>4, <1>5 DEF Bmp!BitsIn
<1>7. Bmp!Length(f) \in Int
  BY <1>1, <1>6 DEF Bmp!Length, Bmp!ProfileData, Bmp!Ends, Bmp!Core, BitmapAssumption
<1> QED
  BY <1>1, <1>2, <1>3, <1>6, <1>7 DEF FileFacts, BitmapAssumption

(* The number of colours, as a function of biClrUsed, and what follows.     *)
OffsetOf(f, c) == Bmp!Offset(f.header, f.bits, c, f.compression)
ColoursOf(f, c) == Bmp!DibNumColorsOf(f.header, f.bits, c)

(* The offset of the bits, as a sum.                                        *)
LEMMA OffsetIs ==
  ASSUME NEW f, FileFacts(f), NEW c \in Nat
  PROVE  /\ NumColours(ColoursOf(f, c), f.header, f.bits, c)
         /\ OffsetOf(f, c) = f.header + Mask(f) + ColoursOf(f, c) * Entry(f)
         /\ OffsetOf(f, c) \in Nat
<1>1. PICK h \in Nat, b \in Nat : h = f.header /\ b = f.bits
  BY DEF FileFacts
<1>2. NumColours(ColoursOf(f, c), h, b, c)
  BY <1>1, ColourFacts DEF ColoursOf
<1>3. PICK n \in Nat : n = ColoursOf(f, c)
  BY <1>2 DEF NumColours
<1>4. PICK m \in Nat, e \in Nat : m = Mask(f) /\ e = Entry(f)
  BY DEF FileFacts
<1>5. OffsetOf(f, c) = h + m + n * e
  BY <1>1, <1>3, <1>4 DEF OffsetOf, ColoursOf, Mask, Entry, Bmp!Offset
<1>6. h + m + n * e \in Nat
  OBVIOUS
<1> QED
  BY <1>1, <1>2, <1>3, <1>4, <1>5, <1>6

(* Without gap the bits are where the offset says; a gap of whole entries   *)
(* is made up for by as many colours.                                       *)
Even(f, c) ==
  \/ f.gap = 0
  \/ /\ f.gap < 0 /\ (f.gap % 4 = 0 \/ f.header = Bmp!Core)
     /\ -f.gap < 4 * ColoursOf(f, f.clrUsed)
  \/ /\ f.gap > 0 /\ f.gap % 4 = 0 /\ f.header # Bmp!Core
     /\ c <= Bmp!MaxColors
Counted(f) == f.gap > 0 => f.clrUsed > 0 \/ f.bits \notin 1..12
Lands(f, c) == Even(f, c) /\ Counted(f) => OffsetOf(f, c) = Bmp!BitsIn(f)

(* Where the file has the bits: the gap behind its colour table.            *)
LEMMA FileOffset ==
  ASSUME NEW f, FileFacts(f)
  PROVE  Bmp!BitsIn(f) = OffsetOf(f, f.clrUsed) + f.gap
<1>1. PICK u \in Nat : u = f.clrUsed
  BY DEF FileFacts
<1>2. OffsetOf(f, u) = f.header + Mask(f) + ColoursOf(f, u) * Entry(f)
  BY OffsetIs
<1> QED
  BY <1>1, <1>2 DEF FileFacts, ColoursOf

(* Without gap.                                                             *)
LEMMA NoGapLands ==
  ASSUME NEW f, FileFacts(f), f.gap = 0
  PROVE  Lands(f, f.clrUsed)
<1>1. PICK u \in Nat, o \in Nat : u = f.clrUsed /\ o = OffsetOf(f, u)
  <2>1. PICK u \in Nat : u = f.clrUsed
    BY DEF FileFacts
  <2>2. OffsetOf(f, u) \in Nat
    BY OffsetIs
  <2> QED
    BY <2>1, <2>2
<1> QED
  BY <1>1, FileOffset DEF Lands

(* With a gap of whole entries, and as many colours more.                   *)
LEMMA GapLands ==
  ASSUME NEW f, FileFacts(f), f.gap > 0, f.header >= Bmp!Info
  PROVE  Lands(f, f.clrUsed + f.gap \div 4)
<1>1. PICK u \in Nat, g \in Nat \ {0}, h \in Nat, b \in Nat :
        u = f.clrUsed /\ g = f.gap /\ h = f.header /\ b = f.bits
  <2>1. PICK g : g = f.gap
    OBVIOUS
  <2>2. g \in Int /\ g > 0
    BY <2>1 DEF FileFacts
  <2> QED
    BY <2>1, <2>2 DEF FileFacts
<1>2. PICK q \in Nat : q = g \div 4
  BY <1>1
<1>3. u + q \in Nat
  OBVIOUS
<1>4. SUFFICES ASSUME Even(f, u + q), Counted(f) PROVE OffsetOf(f, u + q) = Bmp!BitsIn(f)
  BY <1>1, <1>2 DEF Lands
<1>5. h # Bmp!Core /\ Entry(f) = 4 /\ g = 4 * q /\ q > 0
  <2>1. g % 4 = 0 /\ f.header # Bmp!Core
    BY <1>1, <1>4 DEF Even
  <2>2. g = 4 * q /\ q > 0
    BY <1>2, <2>1
  <2> QED
    BY <1>1, <2>1, <2>2 DEF FileFacts
<1>6. u <= Bmp!MaxColors /\ u + q <= Bmp!MaxColors /\ (u > 0 \/ b \notin 1..12)
  <2>1. ~(g = 0) /\ ~(g < 0)
    OBVIOUS
  <2>2. u + q <= Bmp!MaxColors /\ (u > 0 \/ b \notin 1..12)
    BY <1>1, <1>4, <2>1 DEF Even, Counted
  <2> QED
    BY <2>2 DEF Bmp!MaxColors
<1>7. NumColours(ColoursOf(f, u), h, b, u) /\ NumColours(ColoursOf(f, u + q), h, b, u + q)
  BY <1>1, <1>3, OffsetIs
<1>8. ColoursOf(f, u + q) = u + q
  BY <1>5, <1>6, <1>7 DEF NumColours, Bmp!MaxColors
<1>9. ColoursOf(f, u) = u
  BY <1>5, <1>6, <1>7 DEF NumColours, Bmp!MaxColors
<1>10. PICK m \in Nat : m = Mask(f)
  BY DEF FileFacts
<1>11. OffsetOf(f, u) = h + m + u * 4 /\ OffsetOf(f, u + q) = h + m + (u + q) * 4
  BY <1>1, <1>3, <1>5, <1>8, <1>9, <1>10, OffsetIs
<1>12. Bmp!BitsIn(f) = OffsetOf(f, u) + g
  BY <1>1, FileOffset
<1> QED
  BY ONLY <1>5, <1>11, <1>12, u \in Nat, q \in Nat, g \in Nat \ {0}, h \in Nat, m \in Nat

(* With bits that begin in the table, and as many colours less.             *)
LEMMA OverlapLands ==
  ASSUME NEW f, FileFacts(f), f.gap < 0, NEW q, q = (-f.gap) \div 4,
         f.header = Bmp!Core => ColoursOf(f, f.clrUsed) = 0
  PROVE  Lands(f, IF ColoursOf(f, f.clrUsed) > q THEN ColoursOf(f, f.clrUsed) - q ELSE f.clrUsed)
<1>1. PICK u \in Nat, g \in Nat \ {0}, h \in Nat, b \in Nat :
        u = f.clrUsed /\ f.gap = -g /\ h = f.header /\ b = f.bits
  <2>1. PICK g : g = f.gap
    OBVIOUS
  <2>2. g \in Int /\ g < 0
    BY <2>1 DEF FileFacts
  <2>3. -g \in Nat \ {0} /\ g = -(-g)
    BY <2>2
  <2> QED
    BY <2>1, <2>3 DEF FileFacts
<1>2. q \in Nat /\ q = g \div 4
  <2>1. -(-g) = g
    OBVIOUS
  <2> QED
    BY <1>1, <2>1
<1>3. NumColours(ColoursOf(f, u), h, b, u)
  BY <1>1, OffsetIs
<1>4. PICK n \in Nat : n = ColoursOf(f, u)
  BY <1>3 DEF NumColours
<1>5. PICK c : c = IF n > q THEN n - q ELSE u
  OBVIOUS
<1>6. SUFFICES ASSUME Even(f, c), Counted(f) PROVE OffsetOf(f, c) = Bmp!BitsIn(f)
  BY <1>1, <1>4, <1>5 DEF Lands
<1>7. g < 4 * n /\ ((-g) % 4 = 0 \/ h = Bmp!Core)
  <2>1. -(-g) = g /\ -g < 0 /\ -g # 0 /\ ~(-g > 0)
    OBVIOUS
  <2> QED
    BY <1>1, <1>4, <1>6, <2>1 DEF Even
<1>8. h # Bmp!Core /\ Entry(f) = 4 /\ g = 4 * q
  <2>1. h # Bmp!Core
    BY <1>1, <1>4, <1>7
  <2>2. (-g) % 4 = 0
    BY <1>7, <2>1
  <2>3. g = 4 * q
    BY <1>2, <2>2
  <2> QED
    BY <1>1, <2>1, <2>3 DEF FileFacts
<1>9. c = n - q /\ c \in Nat /\ c > 0 /\ c <= n
  BY <1>2, <1>5, <1>7, <1>8
<1>10. n <= Bmp!MaxColors
  BY <1>3, <1>4 DEF NumColours
<1>11. ColoursOf(f, c) = c
  <2>1. NumColours(ColoursOf(f, c), h, b, c)
    BY <1>1, <1>9, OffsetIs
  <2>a. n <= 4096
    BY ONLY <1>10 DEF Bmp!MaxColors
  <2>b. c \in Nat /\ 0 < c /\ c <= n
    BY ONLY <1>9
  <2>2. c \in 1..4096
    BY ONLY <2>a, <2>b, n \in Nat
  <2>3. c \in 1..Bmp!MaxColors
    BY ONLY <2>2 DEF Bmp!MaxColors
  <2> QED
    BY <1>8, <2>1, <2>3 DEF NumColours
<1>12. PICK m \in Nat : m = Mask(f)
  BY DEF FileFacts
<1>13. OffsetOf(f, u) = h + m + n * 4 /\ OffsetOf(f, c) = h + m + c * 4
  BY <1>1, <1>4, <1>8, <1>9, <1>11, <1>12, OffsetIs
<1>14. Bmp!BitsIn(f) = OffsetOf(f, u) - g
  <2>1. Bmp!BitsIn(f) = OffsetOf(f, u) + (-g)
    BY <1>1, FileOffset
  <2>2. OffsetOf(f, u) \in Nat
    BY OffsetIs
  <2> QED
    BY <2>1, <2>2
<1> QED
  BY ONLY <1>2, <1>8, <1>9, <1>13, <1>14, n \in Nat, g \in Nat \ {0}, h \in Nat, m \in Nat

(* What the file header says of the bits' place, and what becomes of it.    *)
HeadSize(f) == IF f.array THEN 2 * Bmp!FileHeader ELSE Bmp!FileHeader
OffBitsOf(f) == CASE f.says = "offset"   -> HeadSize(f) + Bmp!BitsIn(f)
                  [] f.says = "nothing"  -> 0
                  [] f.says = "nonsense" -> 1
AsFile ==
  /\ colours = file.clrUsed /\ offBits = OffBitsOf(file)
  /\ bitsAt = Bmp!BitsIn(file) /\ cleared = {}
Overlapped ==
  file.header = Bmp!Core /\ file.says = "offset" /\ file.gap < 0
    /\ Bmp!Length(file) >= Bmp!BitsIn(file)
Placed ==
  /\ bitsAt \in Int /\ bmpSize \in Int
  /\ bmpSize - bitsAt = Bmp!Length(file) - Bmp!BitsIn(file)
  /\ bitsAt <= bmpSize
  /\ \A place \in cleared : place < bitsAt
  /\ Even(file, colours) /\ Counted(file) => OffsetOf(file, colours) = bitsAt
BmpPlaceInv ==
  \/ bmpPc = "done" /\ shown # "shown"
  \/ /\ file \in Bmp!Files
     /\ bmpPc \in {"file", "array", "allocate", "lock", "read", "header", "masks", "colours",
                   "gap", "realloc", "relock"} => AsFile
     /\ bmpPc \in {"lock", "read", "header", "masks", "colours", "gap", "realloc"}
          => bmpSize = Bmp!Length(file)
     /\ bmpPc \in {"masks", "colours", "gap"} => file.header \in Bmp!Supported \ {Bmp!Info2}
     /\ bmpPc \in {"realloc", "relock"} => Overlapped
     /\ bmpPc = "relock" => bmpSize = Bmp!Length(file) - file.gap
     /\ bmpPc \in {"profile", "tags", "exit", "done"} => Placed
     /\ bmpPc \in {"file", "array", "allocate", "lock", "read", "header", "masks", "colours",
                   "gap", "realloc", "relock", "profile", "tags", "exit", "done"}

PlaceUnmoved == UNCHANGED <<file, bmpSize, colours, offBits, bitsAt, cleared>>
LEMMA PlaceKept ==
  ASSUME PlaceUnmoved
  PROVE  /\ AsFile => AsFile'
         /\ Overlapped => Overlapped'
         /\ Placed => Placed'
  BY DEF PlaceUnmoved, AsFile, OffBitsOf, HeadSize, Overlapped, Placed, Even, Counted, OffsetOf, ColoursOf

(* At the beginning.                                                        *)
LEMMA BmpPlaceStart ==
  /\ NoBitmap => BmpPlaceInv
  /\ Bmp!Init => BmpPlaceInv
<1>1. NoBitmap => BmpPlaceInv
  BY DEF NoBitmap, BmpPlaceInv
<1>2. Bmp!Init => BmpPlaceInv
  BY DEF Bmp!Init, BmpPlaceInv, AsFile, OffBitsOf, HeadSize, Bmp!dwFileHeaderSize
<1> QED
  BY <1>1, <1>2

(* The gap, by its sign: what the code compares is what it is.              *)
LEMMA GapKnown ==
  ASSUME FileFacts(file), AsFile, bmpSize = Bmp!Length(file), ~Bmp!TooShort
  PROVE  /\ Bmp!Length(file) >= Bmp!BitsIn(file)
         /\ offBits > Bmp!dwOffBits => offBits - Bmp!dwOffBits = file.gap /\ file.gap > 0
         /\ offBits \in {0, Bmp!dwOffBits} => file.gap = 0
         /\ offBits # 0 /\ offBits < Bmp!dwOffBits =>
              file.says = "offset" /\ file.gap < 0 /\ Bmp!dwOffBits - offBits = -file.gap
<1>0. PICK f : f = file
  OBVIOUS
<1>1. PICK at \in Nat, o \in Nat, g \in Int, len \in Int, head \in Nat :
        at = Bmp!BitsIn(f) /\ o = OffsetOf(f, f.clrUsed) /\ g = f.gap
          /\ len = Bmp!Length(f) /\ head = HeadSize(f) /\ head >= 14
  <2>1. OffsetOf(file, file.clrUsed) \in Nat
    BY OffsetIs DEF FileFacts
  <2>2. HeadSize(file) \in Nat /\ HeadSize(file) >= 14
    BY DEF HeadSize, Bmp!FileHeader
  <2> QED
    BY <1>0, <2>1, <2>2 DEF FileFacts
<1>2. at = o + g
  BY <1>0, <1>1, FileOffset
<1>3. Bmp!dwOffBits = head + o /\ Bmp!dwFileHeaderSize = head
  BY <1>0, <1>1 DEF AsFile, Bmp!dwOffBits, Bmp!dwFileHeaderSize, Bmp!DibBitsOffset, OffsetOf, HeadSize
<1>4. offBits = CASE f.says = "offset" -> head + at [] f.says = "nothing" -> 0 [] f.says = "nonsense" -> 1
  BY <1>0, <1>1 DEF AsFile, OffBitsOf
<1>5. f.says \in {"offset", "nothing", "nonsense"} /\ (f.says # "offset" => g = 0) /\ len < Bmp!Huge
  BY <1>0, <1>1 DEF FileFacts
<1>6. ~(Bmp!Less(IF offBits # 0 THEN offBits ELSE head + o, head) > len)
  BY <1>0, <1>1, <1>3 DEF Bmp!TooShort
<1>7. CASE f.says = "offset"
  <2>1. offBits = head + at
    BY <1>4, <1>7
  <2>2. Bmp!Less(head + at, head) = at
    BY <1>0, <1>1 DEF Bmp!Less
  <2>3. len >= at
    BY ONLY <1>0, <1>1, <1>6, <2>1, <2>2, at \in Nat, len \in Int, head \in Nat
  <2> QED
    BY <1>0, <1>1, <1>2, <1>3, <1>7, <2>1, <2>3
<1>8. CASE f.says = "nothing"
  <2>1. offBits = 0 /\ g = 0 /\ at = o
    BY <1>2, <1>4, <1>5, <1>8
  <2>2. Bmp!Less(head + o, head) = o
    BY <1>0, <1>1 DEF Bmp!Less
  <2>3. len >= at
    BY <1>6, <2>1, <2>2
  <2> QED
    BY <1>0, <1>1, <1>3, <2>1, <2>3
<1>9. CASE f.says = "nonsense"
  <2>1. offBits = 1
    BY <1>4, <1>9
  <2>2. Bmp!Less(1, head) = Bmp!Huge
    BY <1>0, <1>1 DEF Bmp!Less
  <2>3. Bmp!Huge \in Nat
    BY DEF Bmp!Huge
  <2> QED
    BY <1>5, <1>6, <2>1, <2>2, <2>3
<1> QED
  BY <1>5, <1>7, <1>8, <1>9

(* The colours that CheckGap declares make the offset what the bits' is.    *)
LEMMA GapPlaces ==
  ASSUME FileFacts(file), AsFile, bmpSize = Bmp!Length(file),
         file.header \in Bmp!Supported \ {Bmp!Info2}, Bmp!CheckGap, bmpPc' = "profile"
  PROVE  Placed'
<1>1. /\ ~Bmp!TooShort
      /\ UNCHANGED <<file, bmpSize, offBits, bitsAt, cleared>>
      /\ \/ /\ offBits > Bmp!dwOffBits
            /\ colours' = IF file.header >= Bmp!Info
                          THEN colours + (offBits - Bmp!dwOffBits) \div 4 ELSE colours
         \/ offBits \in {0, Bmp!dwOffBits} /\ UNCHANGED colours
         \/ /\ offBits # 0 /\ offBits < Bmp!dwOffBits
            /\ ~(Bmp!DibNumColors > 0 /\ file.header = Bmp!Core)
            /\ colours' = IF Bmp!DibNumColors > (Bmp!dwOffBits - offBits) \div 4
                          THEN Bmp!DibNumColors - (Bmp!dwOffBits - offBits) \div 4 ELSE colours
  BY DEF Bmp!CheckGap, Bmp!Goto, Bmp!FreeAndReturn, Bmp!ColoursWithGap
<1>2. PICK f : f = file
  OBVIOUS
<1>3. PICK c : c = colours'
  OBVIOUS
<1>4. PICK at \in Nat, len \in Int, g \in Int, u \in Nat, h \in Nat :
        at = Bmp!BitsIn(f) /\ len = Bmp!Length(f) /\ g = f.gap /\ u = f.clrUsed /\ h = f.header
  BY <1>2 DEF FileFacts
<1>5. len >= at /\ bmpSize = len /\ bitsAt = at /\ cleared = {} /\ colours = u
  BY <1>1, <1>2, <1>4, GapKnown DEF AsFile
<1>6. SUFFICES Lands(f, c)
  BY <1>1, <1>2, <1>3, <1>4, <1>5 DEF Placed, Lands
<1>7. FileFacts(f)
  BY <1>2
<1>8. CASE offBits > Bmp!dwOffBits
  <2>1. g > 0 /\ offBits - Bmp!dwOffBits = g
    BY <1>1, <1>2, <1>4, <1>8, GapKnown
  <2>2. c = IF h >= Bmp!Info THEN u + g \div 4 ELSE u
    <3>1. ~(offBits \in {0, Bmp!dwOffBits}) /\ ~(offBits < Bmp!dwOffBits)
      <4>1. g # 0 /\ ~(g < 0)
        BY <2>1
      <4> QED
        BY <1>1, <1>2, <1>4, <1>8, <4>1, GapKnown DEF Bmp!dwOffBits
    <3> QED
      BY <1>1, <1>2, <1>3, <1>4, <1>5, <2>1, <3>1
  <2>3. CASE h >= Bmp!Info
    BY <1>4, <1>7, <2>1, <2>2, <2>3, GapLands
  <2>4. CASE ~(h >= Bmp!Info)
    <3>1. h = Bmp!Core
      BY <1>2, <1>4, <2>4 DEF Bmp!Supported, Bmp!Core, Bmp!Info, Bmp!V2, Bmp!V3, Bmp!Info2, Bmp!V4, Bmp!V5
    <3> QED
      BY <1>4, <2>1, <3>1 DEF Lands, Even
  <2> QED
    BY <2>3, <2>4
<1>9. CASE offBits \in {0, Bmp!dwOffBits} /\ c = u
  <2>1. f.gap = 0
    BY <1>1, <1>2, <1>9, GapKnown
  <2> QED
    BY <1>4, <1>7, <1>9, <2>1, NoGapLands
<1>10. CASE /\ offBits # 0 /\ offBits < Bmp!dwOffBits
            /\ ~(Bmp!DibNumColors > 0 /\ file.header = Bmp!Core)
            /\ c = IF Bmp!DibNumColors > (Bmp!dwOffBits - offBits) \div 4
                   THEN Bmp!DibNumColors - (Bmp!dwOffBits - offBits) \div 4 ELSE colours
  <2>1. f.gap < 0 /\ Bmp!dwOffBits - offBits = -f.gap
    BY <1>1, <1>2, <1>10, GapKnown
  <2>2. Bmp!DibNumColors = ColoursOf(f, f.clrUsed)
    BY <1>2, <1>4, <1>5 DEF Bmp!DibNumColors, ColoursOf
  <2>3. ColoursOf(f, f.clrUsed) \in Nat
    BY <1>4, <1>7, OffsetIs DEF NumColours
  <2>4. f.header = Bmp!Core => ColoursOf(f, f.clrUsed) = 0
    BY <1>2, <1>10, <2>2, <2>3
  <2>5. PICK q : q = (-f.gap) \div 4
    OBVIOUS
  <2>6. c = IF ColoursOf(f, f.clrUsed) > q THEN ColoursOf(f, f.clrUsed) - q ELSE f.clrUsed
    BY <1>4, <1>5, <1>10, <2>1, <2>2, <2>5
  <2> QED
    BY <1>7, <2>1, <2>4, <2>5, <2>6, OverlapLands
<1> QED
  BY <1>1, <1>3, <1>5, <1>8, <1>9, <1>10

(* Bits that are moved begin behind the colour table, and what was there is *)
(* before them.                                                             *)
LEMMA MovePlaces ==
  ASSUME FileFacts(file), AsFile, Overlapped, bmpSize = Bmp!Length(file) - file.gap,
         Bmp!MoveBits, bmpPc' = "profile"
  PROVE  Placed'
<1>1. /\ bitsAt' = Bmp!dwOffBits - Bmp!dwFileHeaderSize
      /\ cleared' = (offBits - Bmp!dwFileHeaderSize)..(bitsAt' - 1)
      /\ UNCHANGED <<file, bmpSize, colours>>
  BY DEF Bmp!MoveBits, Bmp!Goto, Bmp!FreeAndReturn
<1>2. PICK f : f = file
  OBVIOUS
<1>3. PICK at \in Nat, len \in Int, g \in Int, u \in Nat :
        at = Bmp!BitsIn(f) /\ len = Bmp!Length(f) /\ g = f.gap /\ u = f.clrUsed
  BY <1>2 DEF FileFacts
<1>4. PICK o \in Nat : o = OffsetOf(f, u)
  BY <1>2, <1>3, OffsetIs
<1>5. at = o + g /\ len >= at /\ colours = u /\ bmpSize = len - g
  BY <1>2, <1>3, <1>4, FileOffset DEF AsFile, Overlapped
<1>6. bitsAt' = o
  <2>1. PICK head \in Nat : head = Bmp!dwFileHeaderSize
    BY DEF Bmp!dwFileHeaderSize, Bmp!FileHeader
  <2>2. Bmp!dwOffBits = head + o
    BY <1>2, <1>4, <1>5, <2>1 DEF Bmp!dwOffBits, Bmp!DibBitsOffset, OffsetOf
  <2> QED
    BY <1>1, <2>1, <2>2
<1>7. offBits - Bmp!dwFileHeaderSize \in Int
  <2>1. offBits = HeadSize(file) + at
    BY <1>2, <1>3 DEF AsFile, OffBitsOf, Overlapped
  <2> QED
    BY <2>1 DEF HeadSize, Bmp!dwFileHeaderSize, Bmp!FileHeader
<1>8. \A place \in cleared' : place < o
  BY <1>1, <1>6, <1>7
<1>9. bmpSize' - o = len - at /\ o <= bmpSize' /\ bmpSize' \in Int
  BY <1>1, <1>5
<1> QED
  BY <1>1, <1>2, <1>3, <1>4, <1>5, <1>6, <1>8, <1>9 DEF Placed

(* No step of DumpBitmap loses the bits.                                    *)
LEMMA BmpPlaceStep ==
  ASSUME BitmapAssumption
  PROVE  BmpPlaceInv /\ [Bmp!Next]_bmpVars => BmpPlaceInv'
<1> SUFFICES ASSUME BmpPlaceInv, [Bmp!Next]_bmpVars PROVE BmpPlaceInv'
  OBVIOUS
<1> USE DEF Bmp!Goto, Bmp!Return, Bmp!FreeAndReturn, Bmp!FreeDib, Bmp!block, Bmp!contents
<1>1. CASE UNCHANGED bmpVars
  <2>1. PlaceUnmoved /\ UNCHANGED <<bmpPc, shown>>
    BY <1>1 DEF bmpVars, PlaceUnmoved
  <2> QED
    BY <2>1, PlaceKept DEF BmpPlaceInv, PlaceUnmoved
<1>2. CASE ~UNCHANGED bmpVars /\ bmpPc = "done"
  BY <1>2 DEF Bmp!Next, Bmp!ReadFileHeader, Bmp!ReadArrayHeader, Bmp!AllocateDib, Bmp!LockDib,
    Bmp!ReadDib, Bmp!DumpHeader, Bmp!DumpColorMasks, Bmp!DumpColors, Bmp!CheckGap, Bmp!ReAlloc,
    Bmp!MoveBits, Bmp!DumpProfile, Bmp!DumpTags, Bmp!Exit
<1> SUFFICES ASSUME Bmp!Next, bmpPc # "done" PROVE BmpPlaceInv'
  BY <1>1, <1>2
<1>3. FileFacts(file)
  BY FilesHave DEF BmpPlaceInv
<1>4. PlaceUnmoved => /\ AsFile => AsFile'
                      /\ Overlapped => Overlapped'
                      /\ Placed => Placed'
  BY PlaceKept
<1>5. CASE Bmp!ReadFileHeader
  BY <1>4, <1>5 DEF Bmp!ReadFileHeader, BmpPlaceInv, PlaceUnmoved
<1>6. CASE Bmp!ReadArrayHeader
  BY <1>4, <1>6 DEF Bmp!ReadArrayHeader, BmpPlaceInv, PlaceUnmoved
<1>7. CASE Bmp!AllocateDib
  <2>1. AsFile'
    BY <1>7 DEF Bmp!AllocateDib, BmpPlaceInv, AsFile, OffBitsOf, HeadSize
  <2> QED
    BY <1>7, <2>1 DEF Bmp!AllocateDib, BmpPlaceInv
<1>8. CASE Bmp!LockDib
  BY <1>4, <1>8 DEF Bmp!LockDib, BmpPlaceInv, PlaceUnmoved
<1>9. CASE Bmp!ReadDib
  BY <1>4, <1>9 DEF Bmp!ReadDib, BmpPlaceInv, PlaceUnmoved
<1>10. CASE Bmp!DumpHeader
  BY <1>4, <1>10 DEF Bmp!DumpHeader, BmpPlaceInv, PlaceUnmoved
<1>11. CASE Bmp!DumpColorMasks
  BY <1>4, <1>11 DEF Bmp!DumpColorMasks, BmpPlaceInv, PlaceUnmoved
<1>12. CASE Bmp!DumpColors
  BY <1>4, <1>12 DEF Bmp!DumpColors, BmpPlaceInv, PlaceUnmoved
<1>13. CASE Bmp!CheckGap
  <2>1. AsFile /\ bmpSize = Bmp!Length(file) /\ file.header \in Bmp!Supported \ {Bmp!Info2}
        /\ file \in Bmp!Files
    BY <1>13 DEF Bmp!CheckGap, BmpPlaceInv
  <2>2. CASE bmpPc' = "profile"
    <3>1. Placed'
      BY <1>3, <1>13, <2>1, <2>2, GapPlaces
    <3> QED
      BY <1>13, <2>1, <2>2, <3>1 DEF Bmp!CheckGap, BmpPlaceInv
  <2>3. CASE bmpPc' = "realloc"
    <3>1. /\ ~Bmp!TooShort /\ offBits # 0 /\ offBits < Bmp!dwOffBits /\ file.header = Bmp!Core
          /\ PlaceUnmoved
      BY <1>13, <2>3 DEF Bmp!CheckGap, PlaceUnmoved
    <3>2. Overlapped
      BY <1>3, <2>1, <3>1, GapKnown DEF Overlapped
    <3> QED
      BY <1>4, <2>1, <2>3, <3>1, <3>2 DEF BmpPlaceInv, PlaceUnmoved
  <2>4. CASE bmpPc' = "done" /\ shown' # "shown"
    BY <2>4 DEF BmpPlaceInv
  <2> QED
    BY <1>13, <2>2, <2>3, <2>4 DEF Bmp!CheckGap
<1>14. CASE Bmp!ReAlloc
  <2>1. AsFile /\ bmpSize = Bmp!Length(file) /\ Overlapped /\ file \in Bmp!Files
    BY <1>14 DEF Bmp!ReAlloc, BmpPlaceInv
  <2>2. CASE bmpPc' = "relock"
    <3>1. AsFile' /\ Overlapped'
      BY <1>14, <2>1 DEF Bmp!ReAlloc, AsFile, OffBitsOf, HeadSize, Overlapped
    <3>2. Bmp!dwOffBits - offBits = -file.gap
      <4>1. PICK f : f = file
        OBVIOUS
      <4>2. PICK at \in Nat, o \in Nat, g \in Int, head \in Nat :
              at = Bmp!BitsIn(f) /\ o = OffsetOf(f, f.clrUsed) /\ g = f.gap /\ head = HeadSize(f)
        <5>1. OffsetOf(f, f.clrUsed) \in Nat
          BY <1>3, <4>1, OffsetIs DEF FileFacts
        <5>2. HeadSize(f) \in Nat
          BY DEF HeadSize, Bmp!FileHeader
        <5> QED
          BY <1>3, <4>1, <5>1, <5>2 DEF FileFacts
      <4>3. at = o + g
        BY <1>3, <4>1, <4>2, FileOffset
      <4>4. offBits = head + at
        BY <2>1, <4>1, <4>2 DEF AsFile, OffBitsOf, Overlapped
      <4>5. Bmp!dwOffBits = head + o
        BY <2>1, <4>1, <4>2 DEF AsFile, Bmp!dwOffBits, Bmp!dwFileHeaderSize, HeadSize,
          Bmp!DibBitsOffset, OffsetOf
      <4> QED
        BY <4>1, <4>2, <4>3, <4>4, <4>5
    <3>3. bmpSize' = Bmp!Length(file) - file.gap
      <4>1. PICK f : f = file
        OBVIOUS
      <4>2. PICK len \in Int, g \in Int : len = Bmp!Length(f) /\ g = f.gap
        BY <1>3, <4>1 DEF FileFacts
      <4>3. bmpSize' = bmpSize + (Bmp!dwOffBits - offBits)
        BY <1>14 DEF Bmp!ReAlloc
      <4> QED
        BY <2>1, <3>2, <4>1, <4>2, <4>3
    <3> QED
      BY <1>14, <2>1, <2>2, <3>1, <3>3 DEF Bmp!ReAlloc, BmpPlaceInv
  <2> QED
    BY <1>14, <2>2 DEF Bmp!ReAlloc, BmpPlaceInv
<1>15. CASE Bmp!MoveBits
  <2>1. /\ AsFile /\ Overlapped /\ bmpSize = Bmp!Length(file) - file.gap
        /\ file \in Bmp!Files
    BY <1>15 DEF Bmp!MoveBits, BmpPlaceInv
  <2>2. CASE bmpPc' = "profile"
    <3>1. Placed'
      BY <1>3, <1>15, <2>1, <2>2, MovePlaces
    <3> QED
      BY <1>15, <2>1, <2>2, <3>1 DEF Bmp!MoveBits, BmpPlaceInv
  <2> QED
    BY <1>15, <2>2 DEF Bmp!MoveBits, BmpPlaceInv
<1>16. CASE Bmp!DumpProfile
  BY <1>4, <1>16 DEF Bmp!DumpProfile, BmpPlaceInv, PlaceUnmoved
<1>17. CASE Bmp!DumpTags
  BY <1>4, <1>17 DEF Bmp!DumpTags, BmpPlaceInv, PlaceUnmoved
<1>18. CASE Bmp!Exit
  BY <1>4, <1>18 DEF Bmp!Exit, BmpPlaceInv, PlaceUnmoved
<1> QED
  BY <1>5, <1>6, <1>7, <1>8, <1>9, <1>10, <1>11, <1>12, <1>13, <1>14, <1>15, <1>16, <1>17, <1>18
     DEF Bmp!Next

(* A row ends before the rows do.                                           *)
LEMMA RowEnd ==
  ASSUME NEW s \in Nat, NEW H \in Nat, NEW L \in Nat, s < H
  PROVE  /\ s * L \in Nat /\ H * L \in Nat
         /\ s * L + L <= H * L
<1>1. PICK k \in Nat : H = s + 1 + k
  <2>1. H - s - 1 \in Nat /\ H = s + 1 + (H - s - 1)
    OBVIOUS
  <2> QED
    BY <2>1
<1>2. k * L \in Nat /\ s * L \in Nat
  OBVIOUS
<1>3. H * L = s * L + L + k * L
  BY <1>1
<1> QED
  BY <1>2, <1>3

(* The row and the place in it, from the place in the block.                *)
LEMMA RowAndPlace ==
  ASSUME NEW s \in Nat, NEW L \in Nat \ {0}, NEW r \in Nat, r < L
  PROVE  (s * L + r) \div L = s /\ (s * L + r) % L = r
<1>1. PICK a \in Nat : a = s * L + r
  <2>1. s * L \in Nat
    OBVIOUS
  <2> QED
    BY <2>1
<1>2. PICK q \in Nat, m \in Nat : q = a \div L /\ m = a % L /\ m < L /\ a = q * L + m
  <2>1. a \div L \in Nat /\ a % L \in Nat /\ a % L < L /\ a = (a \div L) * L + (a % L)
    OBVIOUS
  <2> QED
    BY <2>1
<1>3. ~(q < s)
  BY <1>1, <1>2, RowEnd
<1>4. ~(s < q)
  BY <1>1, <1>2, RowEnd
<1>5. q = s
  BY <1>3, <1>4
<1> QED
  BY <1>1, <1>2, <1>5

(* A block of n bytes.                                                      *)
Block(b, n) == DOMAIN b = 1..n /\ Len(b) = n

(* What is read has as many bytes as are asked for, whatever stands there.  *)
LEMMA BytesAre ==
  ASSUME NEW b, NEW at \in Int, NEW n \in Nat
  PROVE  /\ Block(Pic!Bytes(b, at, n), n)
         /\ \A i \in 1..n : Pic!Bytes(b, at, n)[i] = Pic!ByteAt(b, at + i - 1)
<1>1. Pic!Bytes(b, at, n) = [i \in 1..n |-> Pic!ByteAt(b, at + i - 1)]
  BY DEF Pic!Bytes
<1>2. PICK s : s = [i \in 1..n |-> Pic!ByteAt(b, at + i - 1)]
  OBVIOUS
<1>3. DOMAIN s = 1..n /\ \A i \in 1..n : s[i] = Pic!ByteAt(b, at + i - 1)
  BY ONLY <1>2
<1>4. Len(s) = n
  BY ONLY <1>3, n \in Nat
<1> QED
  BY ONLY <1>1, <1>2, <1>3, <1>4 DEF Block

(* A new block.                                                             *)
LEMMA ZerosAre ==
  ASSUME NEW n \in Nat
  PROVE  Block(Pic!Memory(n), n)
<1>1. PICK s : s = Pic!Memory(n)
  OBVIOUS
<1>2. DOMAIN s = 1..n
  BY ONLY <1>1 DEF Pic!Memory
<1>3. Len(s) = n
  BY ONLY <1>2, n \in Nat
<1> QED
  BY ONLY <1>1, <1>2, <1>3 DEF Block

PutOf(p, b, n, at, s, k) ==
  /\ Block(p, n)
  /\ \A i \in 1..n : p[i] = IF i - at \in 1..k THEN s[i - at] ELSE b[i]
LEMMA PutIs ==
  ASSUME NEW b, NEW n \in Nat, Block(b, n), NEW at \in Nat, NEW s, NEW k \in Nat, Block(s, k)
  PROVE  PutOf(Pic!Put(b, at, s), b, n, at, s, k)
<1>1. PICK p : p = Pic!Put(b, at, s)
  OBVIOUS
<1>2. DOMAIN p = 1..n /\ \A i \in 1..n : p[i] = IF i - at \in 1..k THEN s[i - at] ELSE b[i]
  BY <1>1 DEF Block, Pic!Put
<1>3. Len(p) = n
  BY ONLY <1>2, n \in Nat
<1> QED
  BY ONLY <1>1, <1>2, <1>3 DEF Block, PutOf

(* A row of L bytes that is put at its place, and all other rows.           *)
RowPut(p, b, n, r, L, s) ==
  /\ Block(p, n)
  /\ \A i \in 1..L : Pic!ByteAt(p, r * L + i - 1) = s[i]
  /\ \A i \in Nat : i < r * L \/ i >= r * L + L => Pic!ByteAt(p, i) = Pic!ByteAt(b, i)
LEMMA PutRow ==
  ASSUME NEW b, NEW n \in Nat, Block(b, n), NEW r \in Nat, NEW L \in Nat,
         r * L + L <= n, NEW s, Block(s, L)
  PROVE  RowPut(Pic!Put(b, r * L, s), b, n, r, L, s)
<1>1. PICK at \in Nat : at = r * L
  <2>1. r * L \in Nat
    OBVIOUS
  <2> QED
    BY <2>1
<1>2. PICK p : p = Pic!Put(b, at, s)
  OBVIOUS
<1>3. Block(p, n) /\ \A i \in 1..n : p[i] = IF i - at \in 1..L THEN s[i - at] ELSE b[i]
  <2>1. PutOf(Pic!Put(b, at, s), b, n, at, s, L)
    BY PutIs
  <2> QED
    BY <1>2, <2>1 DEF PutOf
<1>4. ASSUME NEW i \in 1..L PROVE Pic!ByteAt(p, at + i - 1) = s[i]
  <2>1. at + i - 1 < n /\ at + i \in 1..n /\ (at + i) - at = i /\ (at + i - 1) + 1 = at + i
    BY <1>1
  <2>2. p[at + i] = s[i]
    BY <1>3, <2>1
  <2> QED
    BY <1>3, <2>1, <2>2 DEF Block, Pic!ByteAt
<1>5. ASSUME NEW i \in Nat, i < at \/ i >= at + L PROVE Pic!ByteAt(p, i) = Pic!ByteAt(b, i)
  <2>1. CASE i < n
    <3>1. i + 1 \in 1..n /\ ~((i + 1) - at \in 1..L)
      BY <1>1, <1>5, <2>1
    <3>2. p[i + 1] = b[i + 1]
      BY <1>3, <3>1
    <3> QED
      BY <1>3, <2>1, <3>2 DEF Block, Pic!ByteAt
  <2>2. CASE ~(i < n)
    BY <1>3, <2>2 DEF Block, Pic!ByteAt
  <2> QED
    BY <2>1, <2>2
<1> QED
  BY <1>1, <1>2, <1>3, <1>4, <1>5 DEF RowPut

(* The colours of a pixel: at most four, none of them the name of something *)
(* else.                                                                    *)
Palette(cols, n) ==
  /\ n \in {1, 2, 3, 4} /\ DOMAIN cols = 1..n /\ Len(cols) = n
  /\ \A c \in 1..n : cols[c] # "zero" /\ cols[c] # "outside"

(* The colours of a pixel are as many as its bytes.                         *)
LEMMA Palettes ==
  /\ Palette(<<"Y", "M", "C", "K">>, 4) /\ Palette(<<"B", "G", "R", "A">>, 4)
  /\ Palette(<<"R", "G", "B", "A">>, 4) /\ Palette(<<"R", "G", "B", "opaque">>, 4)
  /\ Palette(<<"R", "G", "B">>, 3) /\ Palette(<<"B", "G", "R">>, 3)
  /\ Palette(<<"low", "high">>, 2) /\ Palette(<<"index">>, 1)
  BY DEF Palette

(* A byte of a pixel is inside the row.                                     *)
LEMMA PixelPlace ==
  ASSUME NEW W \in Nat, NEW n \in {1, 2, 3, 4}, NEW x \in 0..(W - 1), NEW c \in 1..n
  PROVE  /\ x * n + c \in 1..(W * n)
         /\ (x * n + c - 1) \div n = x /\ 1 + ((x * n + c - 1) % n) = c
         /\ x * n \in Nat /\ W * n \in Nat
<1>1. CASE n = 1
  BY <1>1
<1>2. CASE n = 2
  BY <1>2
<1>3. CASE n = 3
  BY <1>3
<1>4. CASE n = 4
  BY <1>4
<1> QED
  BY <1>1, <1>2, <1>3, <1>4

(* What a byte may say, a row of bytes that is to be stored, and the rows   *)
(* of a block.  A row that a fault has left out, or that is not stored yet, *)
(* is filled with zeros.                                                    *)
Gone == -1
Meant(x, y, k, cut) ==
  IF y = Gone THEN {Pic!Zero} \cup (IF k = "opaque" THEN {Pic!Opaque} ELSE {})
  ELSE IF k = "opaque" THEN {Pic!Opaque}
  ELSE {<<x, y, k>>} \cup (IF cut > 0 THEN {Pic!Outside} ELSE {})
RowSays(s, w, y, cols, n, cut) ==
  \A x \in 0..(w - 1), c \in 1..n : s[x * n + c] \in Meant(x, y, cols[c], cut)
RowIn(b, t, L, w, y, cols, n, cut) ==
  \A x \in 0..(w - 1), c \in 1..n :
    Pic!ByteAt(b, t * L + (x * n + c) - 1) \in Meant(x, y, cols[c], cut)
RowsIn(b, rows, L, w, ys, cols, n, cut) ==
  \A t \in 0..(rows - 1) : RowIn(b, t, L, w, ys[t], cols, n, cut)

(* Each row of the block is the one that belongs there or left out; the     *)
(* first ones, as many as are sure, are there.                              *)
InPlace(zs, h, ys, sure) ==
  \A t \in 0..(h - 1) : zs[t] \in {ys[t], Gone} /\ (t < sure => zs[t] = ys[t])
Present(b, sure, h, L, w, ys, cols, n, cut) ==
  \E zs : RowsIn(b, h, L, w, zs, cols, n, cut) /\ InPlace(zs, h, ys, sure)

(* Where all rows are, and where fewer are sure to be.                      *)
LEMMA AllPresent ==
  ASSUME NEW b, NEW h \in Nat, NEW L, NEW w, NEW ys, NEW cols, NEW n, NEW cut,
         RowsIn(b, h, L, w, ys, cols, n, cut)
  PROVE  Present(b, h, h, L, w, ys, cols, n, cut)
<1>1. InPlace(ys, h, ys, h)
  BY DEF InPlace
<1> QED
  BY <1>1 DEF Present
LEMMA FewerPresent ==
  ASSUME NEW b, NEW h \in Nat, NEW L, NEW w, NEW ys, NEW cols, NEW n, NEW cut, NEW sure,
         Present(b, sure, h, L, w, ys, cols, n, cut)
  PROVE  Present(b, 0, h, L, w, ys, cols, n, cut)
<1>1. PICK zs : RowsIn(b, h, L, w, zs, cols, n, cut) /\ InPlace(zs, h, ys, sure)
  BY DEF Present
<1>2. InPlace(zs, h, ys, 0)
  <2>1. \A t \in 0..(h - 1) : ~(t < 0)
    OBVIOUS
  <2> QED
    BY <1>1, <2>1 DEF InPlace
<1> QED
  BY <1>1, <1>2 DEF Present

(* A byte of a row is within the row.                                       *)
LEMMA ByteOfRow ==
  ASSUME NEW h \in Nat, NEW t \in 0..(h - 1), NEW L \in Nat, NEW w \in Nat,
         NEW n \in {1, 2, 3, 4}, w * n <= L, NEW x \in 0..(w - 1), NEW c \in 1..n
  PROVE  /\ x * n + c \in 1..L /\ t * L \in Nat /\ h * L \in Nat
         /\ t * L + (x * n + c) - 1 \in Nat
         /\ t * L + (x * n + c) - 1 < t * L + L /\ t * L + L <= h * L
<1>1. x * n + c \in 1..(w * n) /\ w * n \in Nat
  BY PixelPlace
<1>2. PICK k \in 1..L : k = x * n + c
  <2>1. x * n + c \in 1..L
    BY <1>1
  <2> QED
    BY <2>1
<1>3. t \in Nat /\ t < h
  OBVIOUS
<1>4. t * L \in Nat /\ h * L \in Nat /\ t * L + L <= h * L
  BY <1>3, RowEnd
<1>5. PICK p \in Nat : p = t * L
  BY <1>4
<1>6. p + k - 1 \in Nat /\ p + k - 1 < p + L
  OBVIOUS
<1> QED
  BY <1>2, <1>4, <1>5, <1>6

(* In a new block, all rows are still to come.                              *)
LEMMA NothingPresent ==
  ASSUME NEW len \in Nat, NEW h \in Nat, NEW L \in Nat, h * L <= len, NEW w \in Nat,
         NEW n \in {1, 2, 3, 4}, w * n <= L, NEW ys, NEW cols, NEW cut
  PROVE  Present(Pic!Memory(len), 0, h, L, w, ys, cols, n, cut)
<1>1. PICK b : b = Pic!Memory(len)
  OBVIOUS
<1>2. Block(b, len)
  BY <1>1, ZerosAre
<1>3. \A i \in 1..len : b[i] = Pic!Zero
  BY <1>1 DEF Pic!Memory
<1>4. PICK zs : zs = [t \in 0..(h - 1) |-> Gone]
  OBVIOUS
<1>5. ASSUME NEW t \in 0..(h - 1), NEW x \in 0..(w - 1), NEW c \in 1..n
      PROVE  Pic!ByteAt(b, t * L + (x * n + c) - 1) \in Meant(x, zs[t], cols[c], cut)
  <2>1. PICK at \in Nat : at = t * L + (x * n + c) - 1 /\ at < len
    <3>1. /\ t * L + (x * n + c) - 1 \in Nat
          /\ t * L + (x * n + c) - 1 < t * L + L /\ t * L + L <= h * L
          /\ t * L \in Nat /\ h * L \in Nat
      BY ByteOfRow
    <3>2. PICK at \in Nat : at = t * L + (x * n + c) - 1
      BY <3>1
    <3>3. at < len
      BY <3>1, <3>2
    <3> QED
      BY <3>2, <3>3
  <2>2. at + 1 \in 1..len /\ at < Len(b)
    BY <1>2, <2>1 DEF Block
  <2>3. Pic!ByteAt(b, at) = Pic!Zero
    BY <1>3, <2>2 DEF Pic!ByteAt
  <2>4. zs[t] = Gone
    BY <1>4
  <2> QED
    BY <2>1, <2>3, <2>4 DEF Meant
<1>6. RowsIn(b, h, L, w, zs, cols, n, cut)
  BY <1>5 DEF RowsIn, RowIn
<1>7. InPlace(zs, h, ys, 0)
  <2>1. \A t \in 0..(h - 1) : ~(t < 0) /\ zs[t] = Gone
    BY <1>4
  <2> QED
    BY <2>1 DEF InPlace
<1> QED
  BY <1>1, <1>6, <1>7 DEF Present

(* A row that is stored takes the place of the one that was there.          *)
OneMore(zs, h, r, z) == [t \in 0..(h - 1) |-> IF t = r THEN z ELSE zs[t]]
LEMMA RowsGrow ==
  ASSUME NEW b, NEW len \in Nat, Block(b, len), NEW h \in Nat, NEW r \in 0..(h - 1),
         NEW L \in Nat, r * L + L <= len,
         NEW s, Block(s, L), NEW w \in Nat, NEW cols, NEW n \in {1, 2, 3, 4}, w * n <= L,
         NEW zs, NEW z, NEW cut, RowSays(s, w, z, cols, n, cut),
         RowsIn(b, h, L, w, zs, cols, n, cut)
  PROVE  /\ Block(Pic!Put(b, r * L, s), len)
         /\ RowsIn(Pic!Put(b, r * L, s), h, L, w, OneMore(zs, h, r, z), cols, n, cut)
<1>1. PICK p : p = Pic!Put(b, r * L, s)
  OBVIOUS
<1>2. /\ Block(p, len)
      /\ \A i \in 1..L : Pic!ByteAt(p, r * L + i - 1) = s[i]
      /\ \A i \in Nat : i < r * L \/ i >= r * L + L => Pic!ByteAt(p, i) = Pic!ByteAt(b, i)
  <2>1. r \in Nat
    OBVIOUS
  <2>2. RowPut(Pic!Put(b, r * L, s), b, len, r, L, s)
    BY <2>1, PutRow
  <2> QED
    BY <1>1, <2>2 DEF RowPut
<1>3. ASSUME NEW t \in 0..(h - 1), NEW x \in 0..(w - 1), NEW c \in 1..n
      PROVE  Pic!ByteAt(p, t * L + (x * n + c) - 1)
               \in Meant(x, OneMore(zs, h, r, z)[t], cols[c], cut)
  <2>1. PICK k \in 1..L : k = x * n + c
    BY ByteOfRow
  <2>2. CASE t = r
    <3>1. OneMore(zs, h, r, z)[t] = z
      BY <2>2 DEF OneMore
    <3> QED
      BY <1>2, <2>1, <2>2, <3>1 DEF RowSays
  <2>3. CASE t # r
    <3>1. OneMore(zs, h, r, z)[t] = zs[t]
      BY <2>3 DEF OneMore
    <3>2. PICK a \in Nat : a = t * L
      BY ByteOfRow
    <3>3. PICK q \in Nat : q = r * L
      OBVIOUS
    <3>4. a + L <= q \/ q + L <= a
      <4>1. CASE t < r
        BY <3>2, <3>3, <4>1, RowEnd
      <4>2. CASE r < t
        BY <3>2, <3>3, <4>2, RowEnd
      <4> QED
        BY <2>3, <4>1, <4>2
    <3>5. a + k - 1 \in Nat /\ (a + k - 1 < q \/ a + k - 1 >= q + L)
      BY <3>4
    <3>6. Pic!ByteAt(p, a + k - 1) = Pic!ByteAt(b, a + k - 1)
      BY <1>2, <3>3, <3>5
    <3> QED
      BY <2>1, <3>1, <3>2, <3>6 DEF RowsIn, RowIn
  <2> QED
    BY <2>2, <2>3
<1>4. RowsIn(p, h, L, w, OneMore(zs, h, r, z), cols, n, cut)
  BY <1>3 DEF RowsIn, RowIn
<1> QED
  BY <1>1, <1>2, <1>4

(* One more row in a block whose rows are L bytes apart: the one that       *)
(* belongs there, or none.                                                  *)
Stored(p, b, len, r, h, L, w, ys, z, cols, n, cut) ==
  /\ Block(p, len)
  /\ Present(b, 0, h, L, w, ys, cols, n, cut) => Present(p, 0, h, L, w, ys, cols, n, cut)
  /\ z = ys[r] /\ Present(b, r, h, L, w, ys, cols, n, cut)
       => Present(p, r + 1, h, L, w, ys, cols, n, cut)
LEMMA RowStored ==
  ASSUME NEW b, NEW len \in Nat, Block(b, len), NEW h \in Nat, NEW r \in 0..(h - 1),
         NEW L \in Nat, r * L + L <= len,
         NEW s, NEW w \in Nat, NEW cols, NEW n \in Nat, n \in {1, 2, 3, 4}, w * n <= L,
         NEW ys, NEW z, NEW cut,
         Block(s, L), RowSays(s, w, z, cols, n, cut), z \in {ys[r], Gone}
  PROVE  Stored(Pic!Put(b, r * L, s), b, len, r, h, L, w, ys, z, cols, n, cut)
<1>1. PICK p : p = Pic!Put(b, r * L, s)
  OBVIOUS
<1>2. Block(p, len)
  <2>1. r \in Nat
    OBVIOUS
  <2>2. RowPut(Pic!Put(b, r * L, s), b, len, r, L, s)
    BY <2>1, PutRow
  <2> QED
    BY <1>1, <2>2 DEF RowPut
<1>0. ASSUME NEW zs, RowsIn(b, h, L, w, zs, cols, n, cut)
      PROVE  RowsIn(Pic!Put(b, r * L, s), h, L, w, OneMore(zs, h, r, z), cols, n, cut)
  <2>1. n \in {1, 2, 3, 4} /\ r * L + L <= len /\ w * n <= L /\ Block(b, len) /\ Block(s, L)
        /\ RowSays(s, w, z, cols, n, cut)
    OBVIOUS
  <2> QED
    BY <1>0, <2>1, RowsGrow
<1>3. ASSUME NEW sure, NEW more, Present(b, sure, h, L, w, ys, cols, n, cut),
             \A t \in 0..(h - 1) : t < more => (t # r /\ t < sure) \/ (t = r /\ z = ys[r])
      PROVE  Present(p, more, h, L, w, ys, cols, n, cut)
  <2>1. PICK zs : RowsIn(b, h, L, w, zs, cols, n, cut) /\ InPlace(zs, h, ys, sure)
    BY <1>3 DEF Present
  <2>2. PICK new : new = OneMore(zs, h, r, z)
    OBVIOUS
  <2>3. RowsIn(p, h, L, w, new, cols, n, cut)
    BY <1>0, <1>1, <2>1, <2>2
  <2>4. \A t \in 0..(h - 1) : new[t] = IF t = r THEN z ELSE zs[t]
    BY <2>2 DEF OneMore
  <2>5. InPlace(new, h, ys, more)
    BY <1>3, <2>1, <2>4 DEF InPlace
  <2> QED
    BY <2>3, <2>5 DEF Present
<1>4. \A t \in 0..(h - 1) : ~(t < 0) /\ (t < r + 1 => (t # r /\ t < r) \/ t = r)
  OBVIOUS
<1>5. Present(b, 0, h, L, w, ys, cols, n, cut) => Present(p, 0, h, L, w, ys, cols, n, cut)
  BY <1>3, <1>4
<1>6. z = ys[r] /\ Present(b, r, h, L, w, ys, cols, n, cut)
        => Present(p, r + 1, h, L, w, ys, cols, n, cut)
  BY <1>3, <1>4
<1> QED
  BY <1>1, <1>2, <1>5, <1>6 DEF Stored

(* The rows of a picture, as they are stored.                               *)
IsRows(b, w, h, L, ys, cols, n) ==
  /\ Block(b, h * L)
  /\ \A s \in 0..(h - 1), x \in 0..(w - 1), c \in 1..n :
       /\ b[s * L + (x * n + c)] = <<x, ys[s], cols[c]>>
       /\ s * L + (x * n + c) \in 1..(h * L)

(* The rows of a picture, as a decoder or a file has them.                  *)
LEMMA RowsAre ==
  ASSUME NEW w \in Nat \ {0}, NEW h \in Nat \ {0}, Pic!W = w, Pic!H = h,
         NEW cols, NEW n, Palette(cols, n), NEW L \in Nat, w * n <= L, NEW ys
  PROVE  IsRows(Pic!RowsOf(ys, cols, L), w, h, L, ys, cols, n)
<1>1. PICK b : b = Pic!RowsOf(ys, cols, L)
  OBVIOUS
<1>2. n \in {1, 2, 3, 4} /\ Len(cols) = n
  BY DEF Palette
<1>3. h * L \in Nat /\ w * n \in Nat
  BY <1>2
<1>4. /\ DOMAIN b = 1..(h * L)
      /\ \A i \in 1..(h * L) :
           (i - 1) % L < w * n =>
             b[i] = <<((i - 1) % L) \div n, ys[(i - 1) \div L], cols[1 + (((i - 1) % L) % n)]>>
  BY <1>1, <1>2 DEF Pic!RowsOf
<1>5. Block(b, h * L)
  <2>1. PICK m \in Nat : m = h * L
    BY <1>3
  <2>2. DOMAIN b = 1..m
    BY <1>4, <2>1
  <2>3. Len(b) = m
    BY ONLY <2>2, m \in Nat
  <2> QED
    BY <2>1, <2>2, <2>3 DEF Block
<1>6. ASSUME NEW s \in 0..(h - 1), NEW x \in 0..(w - 1), NEW c \in 1..n
      PROVE  /\ b[s * L + (x * n + c)] = <<x, ys[s], cols[c]>>
             /\ s * L + (x * n + c) \in 1..(h * L)
  <2>1. PICK k \in 1..(w * n) : k = x * n + c /\ (k - 1) \div n = x /\ 1 + ((k - 1) % n) = c
    BY <1>2, PixelPlace
  <2>2. k \in Nat /\ k - 1 \in Nat /\ k - 1 < L /\ L \in Nat \ {0} /\ k - 1 < w * n /\ k <= L
    BY <1>3, <2>1
  <2>3. s \in Nat /\ s < h /\ s * L \in Nat /\ s * L + L <= h * L
    BY RowEnd
  <2>4. PICK i : i = s * L + k
    OBVIOUS
  <2>5. i \in 1..(h * L) /\ i - 1 = s * L + (k - 1)
    BY <1>3, <2>2, <2>3, <2>4
  <2>6. (i - 1) \div L = s /\ (i - 1) % L = k - 1
    <3>1. PICK j \in Nat : j = k - 1 /\ j < L
      BY <2>2
    <3>2. (s * L + j) \div L = s /\ (s * L + j) % L = j
      BY <2>2, <2>3, <3>1, RowAndPlace
    <3> QED
      BY <2>5, <3>1, <3>2
  <2>7. b[i] = <<(k - 1) \div n, ys[s], cols[1 + ((k - 1) % n)]>>
    BY <1>4, <2>2, <2>5, <2>6
  <2> QED
    BY <2>1, <2>4, <2>5, <2>7
<1> QED
  BY <1>1, <1>5, <1>6 DEF IsRows

(* The bytes of one pixel are recognised as such.                           *)
Said(byte, x, y, k, cut) ==
  IF y = Gone THEN byte = Pic!Zero
  ELSE byte \in {<<x, y, k>>} \cup (IF cut > 0 THEN {Pic!Outside} ELSE {})
PixelBytes(bytes, n, x, y, cols, cut) ==
  /\ bytes = [i \in 1..n |-> bytes[i]]
  /\ \A c \in 1..n : Said(bytes[c], x, y, cols[c], cut)
LEMMA ColourIs ==
  ASSUME NEW cols, NEW n, Palette(cols, n), NEW d, cols = Pic!Colours(d, picFile.cmyk),
         NEW x \in Nat, NEW y \in Int, NEW cut, NEW bytes, PixelBytes(bytes, n, x, y, cols, cut),
         NEW k
  PROVE  Said(Pic!Colour(bytes, d, k), x, y, k, cut)
<1>1. /\ 1 \in 1..n /\ DOMAIN cols = 1..n /\ DOMAIN bytes = 1..n
      /\ \A c \in 1..n : cols[c] # "zero" /\ cols[c] # "outside"
  BY DEF Palette, PixelBytes
<1>2. PICK x1, y1 : x1 = bytes[1][1] /\ y1 = bytes[1][2]
  OBVIOUS
<1>3. Pic!Colour(bytes, d, k) = CASE bytes = [i \in 1..n |-> <<x1, y1, cols[i]>>] -> <<x1, y1, k>>
                                  [] \A i \in 1..n : bytes[i] = Pic!Zero -> Pic!Zero
                                  [] OTHER -> Pic!Outside
  BY <1>1, <1>2 DEF Pic!Colour
<1>0. CASE y = Gone
  <2>1. \A c \in 1..n : bytes[c] = Pic!Zero
    BY <1>0 DEF PixelBytes, Said
  <2>2. bytes # [i \in 1..n |-> <<x1, y1, cols[i]>>]
    <3>1. Pic!Zero # <<x1, y1, cols[1]>>
      BY <1>1 DEF Pic!Zero
    <3> QED
      BY <1>1, <2>1, <3>1
  <2>3. \A i \in 1..n : bytes[i] = Pic!Zero
    BY <2>1
  <2>4. Pic!Colour(bytes, d, k) = Pic!Zero
    BY ONLY <1>3, <2>2, <2>3
  <2> QED
    BY <1>0, <2>4 DEF Said
<1>4. CASE y # Gone /\ \A c \in 1..n : bytes[c] = <<x, y, cols[c]>>
  <2>1. x1 = x /\ y1 = y
    BY <1>1, <1>2, <1>4
  <2>2. bytes = [i \in 1..n |-> <<x1, y1, cols[i]>>]
    BY <1>4, <2>1 DEF PixelBytes
  <2>3. ~(\A i \in 1..n : bytes[i] = Pic!Zero)
    BY <1>1, <1>4 DEF Pic!Zero
  <2>4. Pic!Colour(bytes, d, k) = <<x1, y1, k>>
    BY ONLY <1>3, <2>2, <2>3
  <2> QED
    BY <1>4, <2>1, <2>4 DEF Said
<1>5. CASE y # Gone /\ \E c \in 1..n : bytes[c] # <<x, y, cols[c]>>
  <2>1. PICK c \in 1..n : bytes[c] = Pic!Outside /\ cut > 0
    BY <1>5 DEF PixelBytes, Said
  <2>2. bytes # [i \in 1..n |-> <<x1, y1, cols[i]>>]
    <3>1. Pic!Outside # <<x1, y1, cols[c]>>
      BY <1>1 DEF Pic!Outside
    <3> QED
      BY <2>1, <3>1
  <2>3. ~(\A i \in 1..n : bytes[i] = Pic!Zero)
    BY <2>1 DEF Pic!Zero, Pic!Outside
  <2>4. Pic!Colour(bytes, d, k) = Pic!Outside
    BY ONLY <1>3, <2>2, <2>3
  <2> QED
    BY <1>5, <2>1, <2>4 DEF Said
<1> QED
  BY <1>0, <1>4, <1>5

(* Files, as far as the loops depend on them.                               *)
PictureFacts(f) ==
  /\ f.width \in Nat \ {0} /\ f.height \in Nat \ {0} /\ f.cut \in {0, 1}
  /\ f.format \in {"webp", "dds", "icon", "dib"} /\ f.bits \in {8, 16, 24, 32}
  /\ f.cmyk \in BOOLEAN /\ f.mask \in BOOLEAN /\ f.bFlipImage \in BOOLEAN /\ f.topdown \in BOOLEAN
  /\ f.cmyk => f.bits = 32 /\ ~f.mask
  /\ f.mask => f.bits \in {16, 32}
  /\ f.bits = 8 => f.cut = 0
  /\ f.format # "dib" => f.cut = 0 /\ ~f.cmyk /\ f.topdown = FALSE /\ f.bits \in {24, 32}
  /\ f.format \in {"dds", "icon"} => f.bits = 32
  /\ f.format = "dds" => ~f.bFlipImage

(* The rows of the DIB, of the blended copy and of the file: the first ones *)
(* are sure to be there.                                                    *)
Order(top, h) == [s \in 0..(h - 1) |-> IF top THEN s ELSE (h - 1) - s]
RowLength(f, d) == Pic!WIDTHBYTES(f.width * d)
DibHolds(b, sure, f, d, top) ==
  Present(b, sure, f.height, RowLength(f, d), f.width, Order(top, f.height),
          Pic!Colours(d, f.cmyk), d \div 8, f.cut)
CopyHolds(b, sure, f, top) ==
  Present(b, sure, f.height, f.width * 4, f.width, Order(top, f.height),
          <<"B", "G", "R", "A">>, 4, f.cut)
PngChannels(f, d) ==
  IF d = 24 \/ (d = 32 /\ f.cmyk) \/ (d = 16 /\ ~f.mask) THEN 3 ELSE 4
PngPalette(f, d) ==
  IF PngChannels(f, d) = 3 THEN <<"R", "G", "B">>
  ELSE IF f.mask THEN <<"R", "G", "B", "A">> ELSE <<"R", "G", "B", "opaque">>
PngHolds(b, sure, f, d) ==
  Present(b, sure, f.height, f.width * PngChannels(f, d), f.width, Order(TRUE, f.height),
          PngPalette(f, d), PngChannels(f, d), f.cut)

SizeOf(f, d) == f.height * f.width * (IF d = 16 THEN 4 ELSE d \div 8)

Loading == {"load", "read", "decode", "allocate", "lock", "rows"}
Saving  == {"save", "buffer", "png", "encode", "write", "done"}
DepthInv ==
  \/ bits = picFile.bits /\ topdown = picFile.topdown
  \/ picFile.bits = 8 /\ bits = 24 /\ topdown = FALSE /\ picPc \in Saving
DibInv ==
  /\ picPc \in Loading => picFile.format # "dib"
  /\ picPc \in {"lock", "rows"} =>
       /\ Block(picDib, picFile.height * RowLength(picFile, bits))
       /\ DibHolds(picDib, 0, picFile, bits, topdown)
  /\ picPc = "rows" =>
       /\ row \in 0..picFile.height
       /\ ~picFaulted => DibHolds(picDib, row, picFile, bits, topdown)
  /\ picPc \in {"section", "blend", "blended", "save", "buffer", "png", "encode", "write"} =>
       /\ DibHolds(picDib, 0, picFile, bits, topdown)
       /\ ~picFaulted => DibHolds(picDib, picFile.height, picFile, bits, topdown)
CopyInv ==
  /\ picPc \in Loading \cup {"section"} => "hbmpDib" \notin held
  /\ picPc = "blend" =>
       /\ picFile.mask /\ row \in 0..picFile.height
       /\ Block(hbmpDib, picFile.height * (picFile.width * 4))
       /\ CopyHolds(hbmpDib, 0, picFile, topdown)
       /\ ~picFaulted => CopyHolds(hbmpDib, row, picFile, topdown)
  /\ picPc \in {"blended", "save"} /\ picFile.mask /\ "hbmpDib" \in held =>
       /\ CopyHolds(hbmpDib, 0, picFile, topdown)
       /\ ~picFaulted => CopyHolds(hbmpDib, picFile.height, picFile, topdown)
PngInv ==
  /\ picPc \in {"buffer", "png", "encode", "write"} \/ saved => bits \in {16, 24, 32}
  /\ picPc = "png" =>
       /\ row \in 0..picFile.height
       /\ Block(lpRGBA, SizeOf(picFile, bits))
       /\ PngHolds(lpRGBA, 0, picFile, bits)
       /\ ~picFaulted => PngHolds(lpRGBA, row, picFile, bits)
  /\ picPc \in {"encode", "write"} \/ saved =>
       /\ PngHolds(lpRGBA, 0, picFile, bits)
       /\ ~picFaulted => PngHolds(lpRGBA, picFile.height, picFile, bits)
PixelInv ==
  \/ picPc = "done" /\ ~saved /\ ~overrun
  \/ /\ PictureFacts(picFile) /\ ~overrun /\ (saved => picPc = "done")
     /\ picPc \in Loading \cup {"section", "blend", "blended"} \cup Saving
     /\ DepthInv /\ DibInv /\ CopyInv /\ PngInv

(* What is true of every picture.                                           *)
LEMMA PicturesHave ==
  ASSUME PictureAssumption
  PROVE  \A f \in Pic!Files : PictureFacts(f)
<1> SUFFICES ASSUME NEW f \in Pic!Files PROVE PictureFacts(f)
  OBVIOUS
<1>1. f \in Pic!Picture({"webp"}, {24, 32}, BOOLEAN, {FALSE}, {0}) \cup
            Pic!Picture({"dds"}, {32}, {FALSE}, {FALSE}, {0}) \cup
            Pic!Picture({"icon"}, {32}, {TRUE}, {FALSE}, {0}) \cup
            Pic!Picture({"dib"}, {8, 16, 24, 32}, {FALSE}, BOOLEAN, {0, 1})
      /\ (f.cmyk => f.format = "dib" /\ f.bits = 32 /\ ~f.mask)
      /\ (f.mask => f.bits \in {16, 32})
      /\ (f.bits = 8 => f.cut = 0)
  BY DEF Pic!Files
<1>2. f.width \in PictureWidths /\ f.height \in PictureHeights
  BY <1>1 DEF Pic!Picture
<1>3. f.width \in Nat \ {0} /\ f.height \in Nat \ {0}
  BY <1>2 DEF PictureAssumption
<1>4. f.cmyk \in BOOLEAN /\ f.mask \in BOOLEAN /\ f.bFlipImage \in BOOLEAN /\ f.topdown \in BOOLEAN
  BY <1>1 DEF Pic!Picture
<1>5. CASE f \in Pic!Picture({"webp"}, {24, 32}, BOOLEAN, {FALSE}, {0})
  <2>1. f.format = "webp" /\ f.bits \in {24, 32} /\ f.topdown = FALSE /\ f.cut = 0
    BY <1>5 DEF Pic!Picture
  <2> QED
    BY <1>1, <1>3, <1>4, <2>1 DEF PictureFacts
<1>6. CASE f \in Pic!Picture({"dds"}, {32}, {FALSE}, {FALSE}, {0})
  <2>1. f.format = "dds" /\ f.bits = 32 /\ f.topdown = FALSE /\ f.cut = 0 /\ f.bFlipImage = FALSE
    BY <1>6 DEF Pic!Picture
  <2> QED
    BY <1>1, <1>3, <1>4, <2>1 DEF PictureFacts
<1>7. CASE f \in Pic!Picture({"icon"}, {32}, {TRUE}, {FALSE}, {0})
  <2>1. f.format = "icon" /\ f.bits = 32 /\ f.topdown = FALSE /\ f.cut = 0
    BY <1>7 DEF Pic!Picture
  <2> QED
    BY <1>1, <1>3, <1>4, <2>1 DEF PictureFacts
<1>8. CASE f \in Pic!Picture({"dib"}, {8, 16, 24, 32}, {FALSE}, BOOLEAN, {0, 1})
  <2>1. f.format = "dib" /\ f.bits \in {8, 16, 24, 32} /\ f.cut \in {0, 1}
    BY <1>8 DEF Pic!Picture
  <2> QED
    BY <1>1, <1>3, <1>4, <2>1 DEF PictureFacts
<1> QED
  BY <1>1, <1>5, <1>6, <1>7, <1>8

(* The colours of a DIB, by its number of bits.                             *)
LEMMA DepthPalette ==
  ASSUME NEW d \in {8, 16, 24, 32}, NEW cmyk \in BOOLEAN, cmyk => d = 32
  PROVE  /\ Palette(Pic!Colours(d, cmyk), d \div 8)
         /\ \A c \in 1..(d \div 8) : Pic!Colours(d, cmyk)[c] # "opaque"
<1>1. CASE d = 8
  BY <1>1, Palettes DEF Pic!Colours
<1>2. CASE d = 16
  <2>1. Pic!Colours(d, cmyk) = <<"low", "high">> /\ d \div 8 = 2
    BY <1>2 DEF Pic!Colours
  <2> QED
    BY <2>1, Palettes
<1>3. CASE d = 24
  <2>1. Pic!Colours(d, cmyk) = <<"B", "G", "R">> /\ d \div 8 = 3
    BY <1>3 DEF Pic!Colours
  <2> QED
    BY <2>1, Palettes
<1>4. CASE d = 32 /\ cmyk
  <2>1. Pic!Colours(d, cmyk) = <<"Y", "M", "C", "K">> /\ d \div 8 = 4
    BY <1>4 DEF Pic!Colours
  <2> QED
    BY <2>1, Palettes
<1>5. CASE d = 32 /\ ~cmyk
  <2>1. Pic!Colours(d, cmyk) = <<"B", "G", "R", "A">> /\ d \div 8 = 4
    BY <1>5 DEF Pic!Colours
  <2> QED
    BY <2>1, Palettes
<1> QED
  BY <1>1, <1>2, <1>3, <1>4, <1>5

(* A row of a DIB has space for its pixels.                                 *)
LEMMA RowLengths ==
  ASSUME NEW w \in Nat, NEW d \in {8, 16, 24, 32}
  PROVE  /\ Pic!WIDTHBYTES(w * d) \in Nat /\ w * (d \div 8) <= Pic!WIDTHBYTES(w * d)
         /\ d = 32 => Pic!WIDTHBYTES(w * d) = w * 4
         /\ (d \div 8) * 8 = d /\ w * (d \div 8) \in Nat
<1>1. CASE d = 8
  BY <1>1 DEF Pic!WIDTHBYTES
<1>2. CASE d = 16
  BY <1>2 DEF Pic!WIDTHBYTES
<1>3. CASE d = 24
  BY <1>3 DEF Pic!WIDTHBYTES
<1>4. CASE d = 32
  BY <1>4 DEF Pic!WIDTHBYTES
<1> QED
  BY <1>1, <1>2, <1>3, <1>4

(* Bytes that are cut off read as what stands behind the block.             *)
CutOff(b, cut) == [i \in 1..(Len(b) - cut) |-> b[i]]
NoneOpaque(cols, n) == \A c \in 1..n : cols[c] # "opaque"
LEMMA CutRows ==
  ASSUME NEW b, NEW w \in Nat \ {0}, NEW h \in Nat \ {0}, NEW L \in Nat, NEW ys, NEW cols, NEW n,
         IsRows(b, w, h, L, ys, cols, n), NEW cut, cut \in {0, 1}, n \in {1, 2, 3, 4},
         NoneOpaque(cols, n), \A t \in 0..(h - 1) : ys[t] # Gone
  PROVE  RowsIn(CutOff(b, cut), h, L, w, ys, cols, n, cut)
<1>1. PICK m \in Nat : m = h * L /\ Len(b) = m /\ DOMAIN b = 1..m
  BY DEF IsRows, Block
<1> USE DEF NoneOpaque
<1>2. SUFFICES ASSUME NEW t \in 0..(h - 1), NEW x \in 0..(w - 1), NEW c \in 1..n
               PROVE  Pic!ByteAt(CutOff(b, cut), t * L + (x * n + c) - 1)
                        \in Meant(x, ys[t], cols[c], cut)
  BY DEF RowsIn, RowIn
<1>3. PICK at \in 1..m : at = t * L + (x * n + c) /\ b[at] = <<x, ys[t], cols[c]>>
  <2>1. PICK at : at = t * L + (x * n + c)
    OBVIOUS
  <2>2. b[at] = <<x, ys[t], cols[c]>> /\ at \in 1..(h * L)
    BY <2>1 DEF IsRows
  <2> QED
    BY <1>1, <2>1, <2>2
<1>4. at \in Nat /\ at > 0 /\ at <= m /\ m > 0
  BY <1>3
<1>0. PICK k \in Nat : k = m - cut
  BY <1>4
<1>5. PICK s : s = [i \in 1..k |-> b[i]]
  OBVIOUS
<1>6. Len(s) = k /\ DOMAIN s = 1..k /\ \A i \in 1..k : s[i] = b[i]
  <2>1. DOMAIN s = 1..k /\ \A i \in 1..k : s[i] = b[i]
    BY <1>5
  <2>2. Len(s) = k
    BY ONLY <2>1, k \in Nat
  <2> QED
    BY <2>1, <2>2
<1>7. Pic!ByteAt(s, at - 1) \in Meant(x, ys[t], cols[c], cut)
  <2>1. CASE at - 1 < k
    <3>1. Pic!ByteAt(s, at - 1) = b[at]
      BY <1>4, <1>6, <2>1 DEF Pic!ByteAt
    <3> QED
      BY <1>3, <3>1 DEF Meant
  <2>2. CASE ~(at - 1 < k)
    <3>1. cut > 0
      BY <1>4, <1>0, <2>2
    <3>2. Pic!ByteAt(s, at - 1) = Pic!Outside
      BY <1>6, <2>2 DEF Pic!ByteAt
    <3> QED
      BY <3>1, <3>2 DEF Meant
  <2> QED
    BY <2>1, <2>2
<1>8. CutOff(b, cut) = s
  BY <1>1, <1>0, <1>5 DEF CutOff
<1>9. Pic!ByteAt(CutOff(b, cut), at - 1) \in Meant(x, ys[t], cols[c], cut)
  BY <1>7, <1>8
<1> QED
  BY <1>3, <1>9

(* No row is called what a missing one is.                                  *)
LEMMA OrderRows ==
  ASSUME NEW h \in Nat, NEW top \in BOOLEAN, NEW t \in 0..(h - 1)
  PROVE  Order(top, h)[t] \in 0..(h - 1) /\ Order(top, h)[t] # Gone
<1>1. Order(top, h)[t] \in 0..(h - 1)
  BY DEF Order
<1> QED
  BY <1>1 DEF Gone

(* The order of the rows, as the model has it.                              *)
LEMMA Orders ==
  ASSUME NEW h, Pic!H = h
  PROVE  Pic!UpDown = Order(TRUE, h) /\ Pic!DownUp = Order(FALSE, h)
  BY DEF Pic!UpDown, Pic!DownUp, Order

(* At the beginning, only a given DIB has rows.                             *)
LEMMA PixelStart ==
  ASSUME PictureAssumption
  PROVE  /\ NoPicture => PixelInv
         /\ Pic!Init => PixelInv
<1>1. NoPicture => PixelInv
  BY DEF NoPicture, PixelInv
<1>2. ASSUME Pic!Init PROVE PixelInv
  <2>1. PICK f : f = picFile
    OBVIOUS
  <2>2. PictureFacts(f)
    BY <1>2, <2>1, PicturesHave DEF Pic!Init
  <2>3. CASE f.format # "dib"
    BY <1>2, <2>1, <2>2, <2>3 DEF Pic!Init, PixelInv, DepthInv, DibInv, CopyInv, PngInv, Loading
  <2>4. CASE f.format = "dib"
    <3>1. /\ picPc = "section" /\ bits = f.bits /\ topdown = f.topdown /\ picDib = Pic!GivenDib
          /\ Pic!W = f.width /\ Pic!H = f.height
      BY <1>2, <2>1, <2>4 DEF Pic!Init, Pic!W, Pic!H
    <3>a. PICK cols : cols = Pic!Colours(f.bits, f.cmyk)
      OBVIOUS
    <3>b. PICK d \in {8, 16, 24, 32} : d = f.bits
      BY <2>2 DEF PictureFacts
    <3>c. Palette(cols, d \div 8) /\ \A c \in 1..(d \div 8) : cols[c] # "opaque"
      BY <2>2, <3>a, <3>b, DepthPalette DEF PictureFacts
    <3>d. RowLength(f, d) \in Nat /\ f.width * (d \div 8) <= RowLength(f, d)
      BY <2>2, RowLengths DEF PictureFacts, RowLength
    <3>2. PICK n \in {1, 2, 3, 4}, L \in Nat :
            /\ n = f.bits \div 8 /\ L = RowLength(f, f.bits)
            /\ Palette(cols, n) /\ (\A c \in 1..n : cols[c] # "opaque") /\ f.width * n <= L
      BY <3>b, <3>c, <3>d DEF Palette
    <3>3. PICK b : b = Pic!RowsOf(Order(f.topdown, f.height), cols, L)
      OBVIOUS
    <3>4. IsRows(b, f.width, f.height, L, Order(f.topdown, f.height), cols, n)
      BY <2>2, <3>1, <3>2, <3>3, RowsAre DEF PictureFacts
    <3>5. Pic!GivenDib = [i \in 1..(Len(b) - f.cut) |-> b[i]]
      <4>1. (IF f.topdown THEN Pic!UpDown ELSE Pic!DownUp) = Order(f.topdown, f.height)
        BY <2>2, <3>1, Orders DEF PictureFacts
      <4> QED
        BY <2>1, <3>1, <3>a, <3>2, <3>3, <4>1 DEF Pic!GivenDib, RowLength
    <3>6. /\ DibHolds(picDib, f.height, f, f.bits, f.topdown)
          /\ DibHolds(picDib, 0, f, f.bits, f.topdown)
      <4>1. PICK w \in Nat \ {0}, h \in Nat \ {0}, cut \in {0, 1} :
              w = f.width /\ h = f.height /\ cut = f.cut
        BY <2>2 DEF PictureFacts
      <4>2. PICK ys : ys = Order(f.topdown, f.height)
        OBVIOUS
      <4>3. IsRows(b, w, h, L, ys, cols, n) /\ NoneOpaque(cols, n)
        BY <3>2, <3>4, <4>1, <4>2 DEF NoneOpaque
      <4>4. \A t \in 0..(h - 1) : ys[t] # Gone
        BY <2>2, <4>1, <4>2, OrderRows DEF PictureFacts
      <4>5. RowsIn(CutOff(b, cut), h, L, w, ys, cols, n, cut)
        BY <4>3, <4>4, CutRows
      <4>6. h \in Nat
        OBVIOUS
      <4>7. Present(CutOff(b, cut), h, h, L, w, ys, cols, n, cut)
        BY <4>5, <4>6, AllPresent
      <4>8. Present(CutOff(b, cut), 0, h, L, w, ys, cols, n, cut)
        BY <4>6, <4>7, FewerPresent
      <4> QED
        BY <3>1, <3>a, <3>2, <3>5, <4>1, <4>2, <4>7, <4>8 DEF DibHolds, CutOff
    <3> QED
      BY <1>2, <2>1, <2>2, <2>4, <3>1, <3>6
         DEF Pic!Init, PixelInv, DepthInv, DibInv, CopyInv, PngInv, Loading
  <2> QED
    BY <2>3, <2>4
<1> QED
  BY <1>1, <1>2

(* A pixel of a block, and the colours that come from the picture.          *)
PixelAt(b, at, x, y, cols, n, cut) ==
  \A c \in 1..n : Pic!ByteAt(b, at + c - 1) \in Meant(x, y, cols[c], cut)
Plain(cols, n) == DOMAIN cols = 1..n /\ \A c \in 1..n : cols[c] # "opaque"

(* A row is there, or a fault has left it out; and each row of a block is   *)
(* so, if no fault leaves all of them there.                                *)
Kept(z, y) == z \in {y, Gone} /\ (~picFaulted => z = y)
LEMMA RowsKept ==
  ASSUME NEW b, NEW h \in Nat, NEW L, NEW w, NEW ys, NEW cols, NEW n, NEW cut,
         Present(b, 0, h, L, w, ys, cols, n, cut),
         ~picFaulted => Present(b, h, h, L, w, ys, cols, n, cut)
  PROVE  \E zs : /\ RowsIn(b, h, L, w, zs, cols, n, cut)
                 /\ \A t \in 0..(h - 1) : Kept(zs[t], ys[t])
<1>1. CASE picFaulted
  <2>1. PICK zs : RowsIn(b, h, L, w, zs, cols, n, cut) /\ InPlace(zs, h, ys, 0)
    BY DEF Present
  <2>2. \A t \in 0..(h - 1) : Kept(zs[t], ys[t])
    BY <1>1, <2>1 DEF InPlace, Kept
  <2> QED
    BY <2>1, <2>2
<1>2. CASE ~picFaulted
  <2>1. PICK zs : RowsIn(b, h, L, w, zs, cols, n, cut) /\ InPlace(zs, h, ys, h)
    BY <1>2 DEF Present
  <2>2. \A t \in 0..(h - 1) : t < h
    OBVIOUS
  <2>3. \A t \in 0..(h - 1) : Kept(zs[t], ys[t])
    BY <2>1, <2>2 DEF InPlace, Kept
  <2> QED
    BY <2>1, <2>3
<1> QED
  BY <1>1, <1>2

(* Bytes that are read from a pixel say what the pixel says.                *)
LEMMA MeansIt ==
  ASSUME NEW b, NEW at \in Int, NEW cols, NEW n \in Nat, Plain(cols, n),
         NEW x, NEW y \in Nat, NEW z, Kept(z, y), NEW cut, cut = picFile.cut,
         PixelAt(b, at, x, z, cols, n, cut)
  PROVE  Pic!Means(Pic!Bytes(b, at, n), x, y, cols)
<1> SUFFICES ASSUME NEW c \in 1..n
             PROVE  Pic!Bytes(b, at, n)[c] \in {<<x, y, cols[c]>>} \cup Pic!CutOff \cup Pic!Missing
  BY DEF Pic!Means, Plain
<1>1. Pic!Bytes(b, at, n)[c] = Pic!ByteAt(b, at + c - 1)
  BY BytesAre
<1>2. Pic!Bytes(b, at, n)[c] \in Meant(x, z, cols[c], cut) /\ cols[c] # "opaque"
  BY <1>1 DEF PixelAt, Plain
<1>3. CASE z = Gone
  <2>1. z # y
    BY <1>3 DEF Gone
  <2>2. picFaulted
    BY <2>1 DEF Kept
  <2> QED
    BY <1>2, <1>3, <2>2 DEF Meant, Pic!Missing
<1>4. CASE z # Gone
  <2>1. z = y
    BY <1>4 DEF Kept
  <2> QED
    BY <1>2, <1>4, <2>1 DEF Meant, Pic!CutOff
<1> QED
  BY <1>3, <1>4

(* Where a pixel of a row is, from its row and its column.                  *)
LEMMA PlaceIs ==
  ASSUME NEW t \in Nat, NEW L \in Nat, NEW w \in Nat, NEW n \in Nat, NEW x \in Nat
  PROVE  /\ t * L \in Nat /\ x * n \in Nat /\ (t * w + x) * n \in Nat
         /\ L = w * n => t * L + x * n = (t * w + x) * n
<1>1. PICK p \in Nat, tw \in Nat : p = t * L /\ tw = t * w
  <2>1. t * L \in Nat /\ t * w \in Nat
    OBVIOUS
  <2> QED
    BY <2>1
<1>2. x * n \in Nat /\ (tw + x) * n \in Nat
  OBVIOUS
<1>3. t * (w * n) = tw * n
  BY <1>1
<1>4. (tw + x) * n = tw * n + x * n
  OBVIOUS
<1> QED
  BY <1>1, <1>2, <1>3, <1>4

Place(t, L, x, n) == t * L + x * n
LEMMA PixelIn ==
  ASSUME NEW b, NEW h \in Nat, NEW L \in Nat, NEW w \in Nat, NEW ys, NEW cols, NEW n \in Nat,
         NEW cut, RowsIn(b, h, L, w, ys, cols, n, cut),
         NEW t \in 0..(h - 1), NEW x \in 0..(w - 1)
  PROVE  PixelAt(b, Place(t, L, x, n), x, ys[t], cols, n, cut)
<1>1. PICK p \in Nat, q \in Nat : p = t * L /\ q = x * n
  <2>1. t \in Nat /\ x \in Nat
    OBVIOUS
  <2> QED
    BY <2>1, PlaceIs
<1>2. ASSUME NEW c \in 1..n PROVE Pic!ByteAt(b, p + q + c - 1) \in Meant(x, ys[t], cols[c], cut)
  <2>1. Pic!ByteAt(b, p + (q + c) - 1) \in Meant(x, ys[t], cols[c], cut)
    BY <1>1 DEF RowsIn, RowIn
  <2>2. p + (q + c) - 1 = p + q + c - 1
    OBVIOUS
  <2> QED
    BY <2>1, <2>2
<1> QED
  BY <1>1, <1>2 DEF PixelAt, Place

(* The stored row in which a row of the picture is found.                   *)
LEMMA OrderBack ==
  ASSUME NEW h \in Nat \ {0}, NEW top \in BOOLEAN, NEW y \in 0..(h - 1)
  PROVE  /\ (IF top THEN y ELSE (h - 1) - y) \in 0..(h - 1)
         /\ Order(top, h)[IF top THEN y ELSE (h - 1) - y] = y
  BY DEF Order

(* What the steps of a state's DIB are called.                              *)
DepthFacts(f, d) ==
  /\ d \in {8, 16, 24, 32} /\ (f.cmyk => d = 32) /\ (f.mask => d \in {16, 32}) /\ (d = 8 => f.cut = 0)
LEMMA Depth ==
  ASSUME PictureFacts(picFile), DepthInv
  PROVE  DepthFacts(picFile, bits) /\ topdown \in BOOLEAN
<1>1. PICK d, top : d = bits /\ top = topdown
  OBVIOUS
<1>2. PICK f : f = picFile
  OBVIOUS
<1>3. \/ d = f.bits /\ top = f.topdown
      \/ f.bits = 8 /\ d = 24 /\ top = FALSE
  BY <1>1, <1>2 DEF DepthInv
<1>4. PictureFacts(f)
  BY <1>2
<1>5. CASE d = f.bits /\ top = f.topdown
  BY <1>1, <1>2, <1>4, <1>5 DEF PictureFacts, DepthFacts
<1>6. CASE f.bits = 8 /\ d = 24 /\ top = FALSE
  <2>1. ~f.mask /\ ~f.cmyk
    BY <1>4, <1>6 DEF PictureFacts
  <2>2. DepthFacts(f, d)
    BY <1>6, <2>1 DEF DepthFacts
  <2> QED
    BY <1>1, <1>2, <1>6, <2>2
<1> QED
  BY <1>3, <1>5, <1>6

(* The invariant is what is to be shown.                                    *)
LEMMA PixelsShown ==
  ASSUME PixelInv
  PROVE  Pic!SavedAsShown
<1>1. CASE picPc = "done" /\ ~saved /\ ~overrun
  BY <1>1 DEF Pic!SavedAsShown, Pic!DibAsDecoded, Pic!CopyAsDib, Pic!FileAsDib
<1>2. SUFFICES ASSUME /\ PictureFacts(picFile) /\ ~overrun /\ (saved => picPc = "done")
                      /\ picPc \in Loading \cup {"section", "blend", "blended"} \cup Saving
                      /\ DepthInv /\ DibInv /\ CopyInv /\ PngInv
               PROVE  Pic!DibAsDecoded /\ Pic!CopyAsDib /\ Pic!FileAsDib
  BY <1>1 DEF PixelInv, Pic!SavedAsShown
<1>3. PICK f : f = picFile
  OBVIOUS
<1>4. PICK d \in {8, 16, 24, 32}, top \in BOOLEAN : d = bits /\ top = topdown
  BY <1>2, Depth DEF DepthFacts
<1>5. PICK w \in Nat \ {0}, h \in Nat \ {0}, cut \in {0, 1} :
        w = f.width /\ h = f.height /\ cut = f.cut /\ Pic!W = w /\ Pic!H = h
  BY <1>2, <1>3 DEF PictureFacts, Pic!W, Pic!H
<1>6. DepthFacts(f, d)
  BY <1>2, <1>3, <1>4, Depth
<1>7. Pic!DibAsDecoded
  <2> SUFFICES ASSUME picPc \notin {"load", "read", "decode", "allocate", "lock", "rows", "done"},
                      NEW x \in 0..(w - 1), NEW y \in 0..(h - 1)
               PROVE  Pic!Means(Pic!Pixel0(x, y), x, y, Pic!Colours(bits, picFile.cmyk))
    BY <1>5 DEF Pic!DibAsDecoded
  <2>1. DibHolds(picDib, 0, f, d, top) /\ (~picFaulted => DibHolds(picDib, h, f, d, top))
    BY <1>2, <1>3, <1>4, <1>5 DEF DibInv, Loading, Saving
  <2>2. PICK cols : cols = Pic!Colours(d, f.cmyk)
    OBVIOUS
  <2>3. Palette(cols, d \div 8) /\ \A c \in 1..(d \div 8) : cols[c] # "opaque"
    BY <1>2, <1>3, <1>6, <2>2, DepthPalette DEF DepthFacts, PictureFacts
  <2>4. PICK n \in {1, 2, 3, 4} : n = d \div 8
    BY <2>3 DEF Palette
  <2>5. PICK L \in Nat : L = RowLength(f, d)
    BY <1>5, RowLengths DEF RowLength
  <2>6. PICK t \in 0..(h - 1) : t = (IF top THEN y ELSE (h - 1) - y) /\ Order(top, h)[t] = y
    BY OrderBack
  <2>a. PICK ys : ys = Order(top, h)
    OBVIOUS
  <2>b. Present(picDib, 0, h, L, w, ys, cols, n, cut)
        /\ (~picFaulted => Present(picDib, h, h, L, w, ys, cols, n, cut))
    BY <1>5, <2>1, <2>2, <2>4, <2>5, <2>a DEF DibHolds
  <2>7. PICK zs : /\ RowsIn(picDib, h, L, w, zs, cols, n, cut)
                  /\ \A u \in 0..(h - 1) : Kept(zs[u], ys[u])
    BY <2>b, RowsKept
  <2>c. PICK z : z = zs[t] /\ Kept(z, y)
    BY <2>6, <2>7, <2>a
  <2>8. PixelAt(picDib, t * L + x * n, x, z, cols, n, cut)
    <3>1. PICK at : at = Place(t, L, x, n)
      OBVIOUS
    <3>2. PixelAt(picDib, at, x, zs[t], cols, n, cut)
      <4>1. RowsIn(picDib, h, L, w, zs, cols, n, cut) /\ h \in Nat /\ w \in Nat
        BY <2>7
      <4> QED
        BY ONLY <3>1, <4>1, L \in Nat, n \in Nat, t \in 0..(h - 1), x \in 0..(w - 1), PixelIn
    <3> QED
      BY <2>c, <3>1, <3>2 DEF Place
  <2>9. t * L + x * n \in Int
    <3>1. t \in Nat /\ x \in Nat
      OBVIOUS
    <3>2. t * L \in Nat /\ x * n \in Nat
      BY <3>1, PlaceIs
    <3> QED
      BY <3>2
  <2>10. Pic!Means(Pic!Bytes(picDib, t * L + x * n, n), x, y, cols)
    <3>1. Plain(cols, n) /\ cut = picFile.cut
      BY <1>3, <1>5, <2>3, <2>4 DEF Palette, Plain
    <3>2. y \in Nat /\ n \in Nat
      OBVIOUS
    <3> QED
      BY <2>8, <2>9, <2>c, <3>1, <3>2, MeansIt
  <2>11. Pic!Pixel0(x, y) = Pic!Bytes(picDib, t * L + x * n, n)
    BY <1>3, <1>4, <1>5, <2>4, <2>5, <2>6
       DEF Pic!Pixel0, Pic!Pixel, Pic!dwIncrement, Pic!nBytes, RowLength
  <2> QED
    BY <1>3, <1>4, <2>2, <2>10, <2>11
<1>8. Pic!CopyAsDib
  <2> SUFFICES ASSUME picPc \in {"blended", "save"}, picFile.mask, "hbmpDib" \in held,
                      NEW x \in 0..(w - 1), NEW y \in 0..(h - 1)
               PROVE  Pic!Means(Pic!Bytes(hbmpDib, ((IF topdown THEN y ELSE (Pic!H - 1) - y) * Pic!W + x) * 4, 4),
                                x, y, <<"B", "G", "R", "A">>)
    BY <1>5 DEF Pic!CopyAsDib
  <2>1. CopyHolds(hbmpDib, 0, f, top) /\ (~picFaulted => CopyHolds(hbmpDib, h, f, top))
    BY <1>2, <1>3, <1>4, <1>5 DEF CopyInv
  <2>2. PICK cols : cols = <<"B", "G", "R", "A">>
    OBVIOUS
  <2>3. Palette(cols, 4) /\ \A c \in 1..4 : cols[c] # "opaque"
    BY <2>2, Palettes
  <2>6. PICK t \in 0..(h - 1) : t = (IF top THEN y ELSE (h - 1) - y) /\ Order(top, h)[t] = y
    BY OrderBack
  <2>a. PICK ys : ys = Order(top, h)
    OBVIOUS
  <2>b. Present(hbmpDib, 0, h, w * 4, w, ys, cols, 4, cut)
        /\ (~picFaulted => Present(hbmpDib, h, h, w * 4, w, ys, cols, 4, cut))
    BY <1>5, <2>1, <2>2, <2>a DEF CopyHolds
  <2>7. PICK zs : /\ RowsIn(hbmpDib, h, w * 4, w, zs, cols, 4, cut)
                  /\ \A u \in 0..(h - 1) : Kept(zs[u], ys[u])
    BY <2>b, RowsKept
  <2>c. PICK z : z = zs[t] /\ Kept(z, y)
    BY <2>6, <2>7, <2>a
  <2>8. PICK at \in Nat : at = (t * w + x) * 4 /\ at = t * (w * 4) + x * 4
    <3>1. t \in Nat /\ x \in Nat /\ w * 4 \in Nat
      OBVIOUS
    <3> QED
      BY <3>1, PlaceIs
  <2>9. PixelAt(hbmpDib, at, x, z, cols, 4, cut)
    <3>1. w * 4 \in Nat
      OBVIOUS
    <3>2. PixelAt(hbmpDib, Place(t, w * 4, x, 4), x, zs[t], cols, 4, cut)
      BY <2>7, <3>1, PixelIn
    <3> QED
      BY <2>8, <2>c, <3>2 DEF Place
  <2>10. Pic!Means(Pic!Bytes(hbmpDib, at, 4), x, y, cols)
    <3>1. PICK n \in Nat : n = 4
      OBVIOUS
    <3>2. Plain(cols, n) /\ cut = picFile.cut
      BY <1>3, <1>5, <2>3, <3>1 DEF Palette, Plain
    <3>3. y \in Nat /\ at \in Int /\ PixelAt(hbmpDib, at, x, z, cols, n, cut)
      BY <2>9, <3>1
    <3>4. Pic!Means(Pic!Bytes(hbmpDib, at, n), x, y, cols)
      BY <2>c, <3>2, <3>3, MeansIt
    <3> QED
      BY <3>1, <3>4
  <2> QED
    BY <1>4, <1>5, <2>2, <2>6, <2>8, <2>10
<1>9. Pic!FileAsDib
  <2> SUFFICES ASSUME saved, NEW x \in 0..(w - 1), NEW y \in 0..(h - 1), NEW at,
                      at = (y * w + x) * Pic!nNumChannels
               PROVE  /\ Pic!Means(Pic!Bytes(lpRGBA, at, 3), x, y, <<"R", "G", "B">>)
                      /\ Pic!nNumChannels = 4 =>
                           IF picFile.mask THEN Pic!Means(Pic!Bytes(lpRGBA, at + 3, 1), x, y, <<"A">>)
                             ELSE Pic!ByteAt(lpRGBA, at + 3) \in {Pic!Opaque} \cup Pic!Missing
    BY <1>5 DEF Pic!FileAsDib
  <2>1. PngHolds(lpRGBA, 0, f, d) /\ (~picFaulted => PngHolds(lpRGBA, h, f, d)) /\ d \in {16, 24, 32}
    BY <1>2, <1>3, <1>4, <1>5 DEF PngInv
  <2>2. PICK n \in {3, 4} : n = PngChannels(f, d)
    BY DEF PngChannels
  <2>3. Pic!nNumChannels = n
    <3>1. d = 16 \/ d = 24 \/ d = 32
      BY <2>1
    <3> QED
      BY <1>3, <1>4, <2>2, <3>1 DEF Pic!nNumChannels, Pic!nBytes, PngChannels
  <2>4. PICK cols : cols = PngPalette(f, d)
    OBVIOUS
  <2>a. PICK ys : ys = Order(TRUE, h) /\ ys[y] = y
    <3>1. Order(TRUE, h)[y] = y
      BY DEF Order
    <3> QED
      BY <3>1
  <2>b. Present(lpRGBA, 0, h, w * n, w, ys, cols, n, cut)
        /\ (~picFaulted => Present(lpRGBA, h, h, w * n, w, ys, cols, n, cut))
    BY <1>5, <2>1, <2>2, <2>4, <2>a DEF PngHolds
  <2>5. PICK zs : /\ RowsIn(lpRGBA, h, w * n, w, zs, cols, n, cut)
                  /\ \A u \in 0..(h - 1) : Kept(zs[u], ys[u])
    BY <2>b, RowsKept
  <2>c. PICK z : z = zs[y] /\ Kept(z, y)
    BY <2>5, <2>a
  <2>d. y \in Nat
    OBVIOUS
  <2>6. at \in Nat /\ at = (y * w + x) * n /\ at = y * (w * n) + x * n /\ w * n \in Nat
    <3>1. y \in Nat /\ x \in Nat /\ w * n \in Nat
      OBVIOUS
    <3> QED
      BY <2>3, <3>1, PlaceIs
  <2>7. PixelAt(lpRGBA, at, x, z, cols, n, cut)
    <3>2. n \in Nat
      OBVIOUS
    <3>3. PixelAt(lpRGBA, at, x, zs[y], cols, n, cut)
      <4>1. RowsIn(lpRGBA, h, w * n, w, zs, cols, n, cut) /\ h \in Nat /\ w \in Nat
        BY <2>5
      <4>2. PICK L \in Nat : L = w * n
        BY <2>6
      <4>3. RowsIn(lpRGBA, h, L, w, zs, cols, n, cut) /\ at = Place(y, L, x, n)
        BY <2>6, <4>1, <4>2 DEF Place
      <4> QED
        BY ONLY <3>2, <4>1, <4>3, L \in Nat, y \in 0..(h - 1), x \in 0..(w - 1), PixelIn
    <3> QED
      BY <2>c, <3>3
  <2>8. \A c \in 1..n : Pic!ByteAt(lpRGBA, at + c - 1) \in Meant(x, z, cols[c], cut)
    BY <2>6, <2>7 DEF PixelAt
  <2>9. Pic!Means(Pic!Bytes(lpRGBA, at, 3), x, y, <<"R", "G", "B">>)
    <3>1. PICK rgb : rgb = <<"R", "G", "B">>
      OBVIOUS
    <3>2. Plain(rgb, 3) /\ \A c \in 1..3 : rgb[c] = cols[c]
      BY <2>2, <2>4, <3>1 DEF PngPalette, Plain
    <3>3. PixelAt(lpRGBA, at, x, z, rgb, 3, cut)
      BY <2>2, <2>8, <3>2 DEF PixelAt
    <3>4. Pic!Means(Pic!Bytes(lpRGBA, at, 3), x, y, rgb)
      <4>1. at \in Int /\ cut = picFile.cut
        BY <1>3, <1>5, <2>6
      <4> QED
        BY <2>c, <2>d, <3>2, <3>3, <4>1, MeansIt
    <3> QED
      BY <3>1, <3>4
  <2>10. ASSUME n = 4, f.mask PROVE Pic!Means(Pic!Bytes(lpRGBA, at + 3, 1), x, y, <<"A">>)
    <3>1. PICK a : a = <<"A">>
      OBVIOUS
    <3>2. Plain(a, 1) /\ a[1] = "A" /\ cols[4] = "A"
      BY <2>2, <2>4, <2>10, <3>1 DEF PngPalette, Plain
    <3>3. PixelAt(lpRGBA, at + 3, x, z, a, 1, cut)
      <4>1. Pic!ByteAt(lpRGBA, at + 4 - 1) \in Meant(x, z, cols[4], cut)
        BY <2>8, <2>10
      <4>2. at + 4 - 1 = (at + 3) + 1 - 1
        BY <2>6
      <4> QED
        BY <3>2, <4>1, <4>2 DEF PixelAt
    <3>4. at + 3 \in Int /\ cut = picFile.cut
      BY <1>3, <1>5, <2>6
    <3>5. Pic!Means(Pic!Bytes(lpRGBA, at + 3, 1), x, y, a)
      BY <2>c, <2>d, <3>2, <3>3, <3>4, MeansIt
    <3> QED
      BY <3>1, <3>5
  <2>11. ASSUME n = 4, ~f.mask
         PROVE  Pic!ByteAt(lpRGBA, at + 3) \in {Pic!Opaque} \cup Pic!Missing
    <3>1. cols[4] = "opaque"
      BY <2>2, <2>4, <2>11 DEF PngPalette
    <3>2. Pic!ByteAt(lpRGBA, at + 4 - 1) \in Meant(x, z, cols[4], cut)
      BY <2>8, <2>11
    <3>3. at + 4 - 1 = at + 3
      BY <2>6
    <3>4. PICK byte : byte = Pic!ByteAt(lpRGBA, at + 3)
      OBVIOUS
    <3>5. byte \in Meant(x, z, "opaque", cut)
      BY <3>1, <3>2, <3>3, <3>4
    <3>6. CASE z = Gone
      <4>1. z # y
        BY <2>d, <3>6 DEF Gone
      <4>2. picFaulted
        BY <2>c, <4>1 DEF Kept
      <4>3. byte \in {Pic!Opaque} \cup {Pic!Zero}
        BY <3>5, <3>6 DEF Meant
      <4> QED
        BY <3>4, <4>2, <4>3 DEF Pic!Missing
    <3>7. CASE z # Gone
      <4>1. byte = Pic!Opaque
        BY <3>5, <3>7 DEF Meant
      <4> QED
        BY <3>4, <4>1
    <3> QED
      BY <3>6, <3>7
  <2> QED
    BY <1>3, <2>3, <2>9, <2>10, <2>11
<1> QED
  BY <1>7, <1>8, <1>9

RowReads(s, k, w, y, cols, n) ==
  /\ Block(s, k)
  /\ \A x \in 0..(w - 1), c \in 1..n : s[x * n + c] = <<x, y, cols[c]>>

(* One row of a decoded picture, read with what stands behind it.           *)
LEMMA RowRead ==
  ASSUME NEW b, NEW w \in Nat \ {0}, NEW h \in Nat \ {0}, NEW L \in Nat, NEW ys, NEW cols,
         NEW n \in Nat, n \in {1, 2, 3, 4}, IsRows(b, w, h, L, ys, cols, n),
         NEW s \in 0..(h - 1), NEW k \in Nat, w * n <= k
  PROVE  RowReads(Pic!Bytes(b, s * L, k), k, w, ys[s], cols, n)
<1>1. PICK p \in Nat, m \in Nat : p = s * L /\ m = h * L
  <2>1. s \in Nat /\ s * L \in Nat /\ h * L \in Nat
    OBVIOUS
  <2> QED
    BY <2>1
<1>2. Block(b, m)
  BY <1>1 DEF IsRows
<1>3. PICK bs : bs = Pic!Bytes(b, p, k)
  OBVIOUS
<1>4. Block(bs, k) /\ \A i \in 1..k : bs[i] = Pic!ByteAt(b, p + i - 1)
  BY <1>1, <1>3, BytesAre
<1>5. ASSUME NEW x \in 0..(w - 1), NEW c \in 1..n
      PROVE  bs[x * n + c] = <<x, ys[s], cols[c]>>
  <2>1. x * n + c \in 1..(w * n) /\ w * n \in Nat
    BY PixelPlace
  <2>2. PICK i \in 1..k : i = x * n + c
    BY <2>1
  <2>3. b[p + i] = <<x, ys[s], cols[c]>> /\ p + i \in 1..m
    BY <1>1, <2>2 DEF IsRows
  <2>4. p + i - 1 < m /\ (p + i - 1) + 1 = p + i
    BY <2>3
  <2>5. Pic!ByteAt(b, p + i - 1) = b[p + i]
    BY <1>2, <2>4 DEF Pic!ByteAt, Block
  <2> QED
    BY <1>4, <2>2, <2>3, <2>5
<1> QED
  BY <1>1, <1>3, <1>4, <1>5 DEF RowReads

(* Red and blue of a DDS picture are exchanged.                             *)
LEMMA RedAndBlue ==
  ASSUME NEW w \in Nat, NEW k \in Nat, k = w * 4, NEW s, NEW y, NEW src, NEW dst,
         src = <<"R", "G", "B", "A">>, dst = <<"B", "G", "R", "A">>, RowReads(s, k, w, y, src, 4)
  PROVE  RowReads(Pic!Exchanged(s), k, w, y, dst, 4)
<1>1. Block(s, k) /\ \A x \in 0..(w - 1), c \in 1..4 : s[x * 4 + c] = <<x, y, src[c]>>
  BY DEF RowReads
<1>2. PICK e : e = Pic!Exchanged(s)
  OBVIOUS
<1>3. DOMAIN e = 1..k
      /\ \A i \in 1..k : e[i] = CASE i % 4 = 1 -> s[i + 2] [] i % 4 = 3 -> s[i - 2] [] OTHER -> s[i]
  BY <1>1, <1>2 DEF Pic!Exchanged, Block
<1>4. Block(e, k)
  <2>1. DOMAIN e = 1..k
    BY <1>3
  <2>2. Len(e) = k
    BY ONLY <2>1, k \in Nat
  <2> QED
    BY <2>1, <2>2 DEF Block
<1>5. ASSUME NEW x \in 0..(w - 1), NEW c \in 1..4
      PROVE  e[x * 4 + c] = <<x, y, dst[c]>>
  <2>1. PICK i \in 1..k : i = x * 4 + c
    BY <1>1
  <2>2. CASE c = 1
    <3>1. PICK j \in 1..4 : j = 3
      OBVIOUS
    <3>2. i % 4 = 1 /\ i + 2 = x * 4 + j
      BY SMTT(30), <2>1, <2>2, <3>1
    <3>3. s[x * 4 + j] = <<x, y, src[j]>>
      BY <1>1
    <3>4. e[i] = s[x * 4 + j]
      BY <1>3, <2>1, <3>2
    <3> QED
      BY <2>1, <2>2, <3>1, <3>3, <3>4
  <2>3. CASE c = 2
    <3>1. PICK j \in 1..4 : j = 2
      OBVIOUS
    <3>2. i % 4 = 2 /\ i = x * 4 + j
      BY SMTT(30), <2>1, <2>3, <3>1
    <3>3. s[x * 4 + j] = <<x, y, src[j]>>
      BY <1>1
    <3>4. e[i] = s[x * 4 + j]
      BY <1>3, <2>1, <3>2
    <3> QED
      BY <2>1, <2>3, <3>1, <3>3, <3>4
  <2>4. CASE c = 3
    <3>1. PICK j \in 1..4 : j = 1
      OBVIOUS
    <3>2. i % 4 = 3 /\ i - 2 = x * 4 + j
      BY SMTT(30), <2>1, <2>4, <3>1
    <3>3. s[x * 4 + j] = <<x, y, src[j]>>
      BY <1>1
    <3>4. e[i] = s[x * 4 + j]
      BY <1>3, <2>1, <3>2
    <3> QED
      BY <2>1, <2>4, <3>1, <3>3, <3>4
  <2>5. CASE c = 4
    <3>1. PICK j \in 1..4 : j = 4
      OBVIOUS
    <3>2. i % 4 = 0 /\ i = x * 4 + j
      BY SMTT(30), <2>1, <2>5, <3>1
    <3>3. s[x * 4 + j] = <<x, y, src[j]>>
      BY <1>1
    <3>4. e[i] = s[x * 4 + j]
      BY <1>3, <2>1, <3>2
    <3> QED
      BY <2>1, <2>5, <3>1, <3>3, <3>4
  <2> QED
    BY <2>2, <2>3, <2>4, <2>5
<1> QED
  BY <1>1, <1>2, <1>4, <1>5 DEF RowReads

(* The length of a row, for the decoders.                                   *)
LEMMA Increment ==
  ASSUME PictureFacts(picFile), picFile.format # "dib"
  PROVE  Pic!nIncrement = RowLength(picFile, picFile.bits)
<1>1. PICK f : f = picFile
  OBVIOUS
<1>2. PICK d \in {24, 32}, w \in Nat : d = f.bits /\ w = f.width
  BY <1>1 DEF PictureFacts
<1>3. w * (d \div 8) * 8 = w * d /\ Pic!WIDTHBYTES(w * 32) = w * 4
  <2>1. w * (d \div 8) * 8 = w * d
    BY ONLY d \in {24, 32}, w \in Nat
  <2>2. Pic!WIDTHBYTES(w * 32) = w * 4
    BY RowLengths
  <2> QED
    BY <2>1, <2>2
<1>4. f.format # "webp" => d = 32
  BY <1>1, <1>2 DEF PictureFacts
<1> QED
  BY <1>1, <1>2, <1>3, <1>4 DEF Pic!nIncrement, Pic!W, Pic!Channels, RowLength

(* The row that a decoder gives, with red and blue exchanged if need be.    *)
LEMMA RowDecoded ==
  ASSUME PictureFacts(picFile), picFile.format # "dib", row \in 0..(picFile.height - 1)
  PROVE  /\ Block(Pic!DecodedRow, RowLength(picFile, picFile.bits))
         /\ RowSays(Pic!DecodedRow, picFile.width, Order(FALSE, picFile.height)[row],
                    Pic!Colours(picFile.bits, picFile.cmyk), picFile.bits \div 8, picFile.cut)
<1>1. PICK f, r : f = picFile /\ r = row
  OBVIOUS
<1>2. PICK d \in {24, 32}, w \in Nat \ {0}, h \in Nat \ {0}, flip \in BOOLEAN :
        d = f.bits /\ w = f.width /\ h = f.height /\ flip = f.bFlipImage /\ Pic!W = w /\ Pic!H = h
  BY <1>1 DEF PictureFacts, Pic!W, Pic!H
<1>3. PICK n \in Nat : n = d \div 8 /\ n \in {3, 4} /\ n \in {1, 2, 3, 4} /\ w * n \in Nat
  <2>1. d \div 8 \in {3, 4} /\ w * (d \div 8) \in Nat
    OBVIOUS
  <2> QED
    BY <2>1
<1>4. PICK k \in Nat : k = RowLength(f, d) /\ w * n <= k
  BY <1>2, <1>3, RowLengths DEF RowLength
<1>5. PICK src : src = IF f.format = "dds" THEN <<"R", "G", "B", "A">> ELSE Pic!Colours(d, FALSE)
  OBVIOUS
<1>6. f.format = "dds" => d = 32 /\ n = 4 /\ k = w * 4 /\ ~flip
  <2>1. f.format = "dds" => d = 32 /\ ~flip
    BY <1>1, <1>2 DEF PictureFacts
  <2>2. Pic!WIDTHBYTES(w * 32) = w * 4
    BY RowLengths
  <2> QED
    BY <1>2, <1>3, <1>4, <2>1, <2>2 DEF RowLength
<1>7. Palette(src, n)
  <2>1. CASE f.format = "dds"
    BY <1>5, <1>6, <2>1, Palettes
  <2>2. CASE f.format # "dds"
    BY <1>3, <1>5, <2>2, DepthPalette
  <2> QED
    BY <2>1, <2>2
<1>8. PICK ys : ys = Order(~flip, h)
  OBVIOUS
<1>9. PICK L \in Nat : L = w * n
  BY <1>3
<1>10. PICK b : b = Pic!lpBits
  OBVIOUS
<1>11. IsRows(b, w, h, L, ys, src, n)
  <2>1. IsRows(Pic!RowsOf(ys, src, L), w, h, L, ys, src, n)
    BY <1>2, <1>7, <1>9, RowsAre
  <2>2. (IF flip THEN Pic!DownUp ELSE Pic!UpDown) = ys
    BY <1>2, <1>8, Orders
  <2> QED
    BY <1>1, <1>2, <1>3, <1>5, <1>9, <1>10, <2>1, <2>2 DEF Pic!lpBits, Pic!Channels
<1>12. PICK s \in 0..(h - 1) : s = (IF flip THEN r ELSE (h - 1) - r) /\ ys[s] = Order(FALSE, h)[r]
  <2>1. r \in 0..(h - 1)
    BY <1>1, <1>2
  <2>2. CASE flip
    <3>1. ys = Order(FALSE, h)
      BY <1>8, <2>2
    <3> QED
      BY <2>1, <2>2, <3>1
  <2>3. CASE ~flip
    <3>1. ys = Order(TRUE, h)
      BY <1>8, <2>3
    <3>2. (h - 1) - r \in 0..(h - 1) /\ ys[(h - 1) - r] = (h - 1) - r
      BY <2>1, <3>1 DEF Order
    <3>3. Order(FALSE, h)[r] = (h - 1) - r
      BY <2>1 DEF Order
    <3> QED
      BY <2>3, <3>2, <3>3
  <2> QED
    BY <2>2, <2>3
<1>13. Pic!nSrcPtr = s * L
  <2>1. s * w * n = s * (w * n)
    BY <1>3
  <2> QED
    BY <1>1, <1>2, <1>3, <1>9, <1>12, <2>1 DEF Pic!nSrcPtr, Pic!Channels
<1>14. PICK bs : bs = Pic!Bytes(b, s * L, k)
  OBVIOUS
<1>15. PICK y : y = ys[s] /\ y # Gone
  <2>1. ys[s] # Gone
    BY <1>8, OrderRows
  <2> QED
    BY <2>1
<1>16. RowReads(bs, k, w, y, src, n)
  <2>1. RowReads(Pic!Bytes(b, s * L, k), k, w, ys[s], src, n)
    BY <1>3, <1>4, <1>9, <1>11, RowRead
  <2> QED
    BY <1>14, <1>15, <2>1
<1>17. Pic!DecodedRow = IF f.format = "dds" THEN Pic!Exchanged(bs) ELSE bs
  BY <1>1, <1>2, <1>4, <1>10, <1>13, <1>14, Increment DEF Pic!DecodedRow
<1>18. PICK dst : dst = Pic!Colours(d, FALSE)
  OBVIOUS
<1>19. PICK p : p = Pic!DecodedRow
  OBVIOUS
<1>20. RowReads(p, k, w, y, dst, n)
  <2>1. CASE f.format = "dds"
    <3>1. dst = <<"B", "G", "R", "A">> /\ src = <<"R", "G", "B", "A">>
      BY <1>5, <1>6, <1>18, <2>1 DEF Pic!Colours
    <3>2. RowReads(bs, k, w, y, src, 4) /\ k = w * 4
      BY <1>6, <1>16, <2>1
    <3>3. RowReads(Pic!Exchanged(bs), k, w, y, dst, 4)
      BY <3>1, <3>2, RedAndBlue
    <3> QED
      BY <1>6, <1>17, <1>19, <2>1, <3>3
  <2>2. CASE f.format # "dds"
    BY <1>5, <1>16, <1>17, <1>18, <1>19, <2>2
  <2> QED
    BY <2>1, <2>2
<1>21. \A c \in 1..n : dst[c] # "opaque"
  BY <1>3, <1>18, DepthPalette
<1>22. RowSays(p, w, y, dst, n, f.cut)
  BY <1>15, <1>20, <1>21 DEF RowSays, RowReads, Meant
<1>23. f.cmyk = FALSE
  BY <1>1 DEF PictureFacts
<1> QED
  BY <1>1, <1>2, <1>3, <1>4, <1>12, <1>15, <1>18, <1>19, <1>20, <1>22, <1>23 DEF RowReads

(* A row for the copy or for the file: each colour is taken from the pixel  *)
(* of the DIB's row.                                                        *)
RowGiven(s, k, w, y, cols, n, cut) == Block(s, k) /\ RowSays(s, w, y, cols, n, cut)

(* A row for the copy or the file is as long as it is meant to be.          *)
LEMMA RowComplete ==
  ASSUME PictureFacts(picFile), NEW t, NEW out, NEW m \in Nat, m \in {3, 4}, Palette(out, m)
  PROVE  Block(Pic!Pixels(t, out), picFile.width * m)
<1>1. PICK w \in Nat : w = picFile.width /\ Pic!W = w
  BY DEF PictureFacts, Pic!W
<1>2. PICK k \in Nat : k = w * m
  BY <1>1
<1>3. PICK s : s = Pic!Pixels(t, out)
  OBVIOUS
<1>4. DOMAIN s = 1..k
  BY <1>1, <1>2, <1>3 DEF Pic!Pixels, Palette
<1>5. Len(s) = k
  BY ONLY <1>4, k \in Nat
<1> QED
  BY <1>1, <1>2, <1>3, <1>4, <1>5 DEF Block

(* And it says what the row of the DIB says.                                *)
DibRows(zs) ==
  RowsIn(picDib, picFile.height, RowLength(picFile, bits), picFile.width, zs,
         Pic!Colours(bits, picFile.cmyk), bits \div 8, picFile.cut)
LEMMA RowTaken ==
  ASSUME PictureFacts(picFile), DepthInv, NEW zs, DibRows(zs),
         NEW t \in 0..(picFile.height - 1), zs[t] \in Int,
         NEW out, NEW m \in Nat, m \in {3, 4}, Palette(out, m)
  PROVE  RowGiven(Pic!Pixels(t, out), picFile.width * m, picFile.width, zs[t], out, m, picFile.cut)
<1>1. PICK f : f = picFile
  OBVIOUS
<1>2. PICK d \in {8, 16, 24, 32}, top \in BOOLEAN : d = bits /\ top = topdown
  BY Depth DEF DepthFacts
<1>3. PICK w \in Nat \ {0}, h \in Nat \ {0}, cut \in {0, 1} :
        w = f.width /\ h = f.height /\ cut = f.cut /\ Pic!W = w
  BY <1>1 DEF PictureFacts, Pic!W
<1>4. DepthFacts(f, d) /\ f.cmyk \in BOOLEAN
  BY <1>1, <1>2, Depth DEF PictureFacts
<1>5. PICK cols : cols = Pic!Colours(d, picFile.cmyk)
  OBVIOUS
<1>6. Palette(cols, d \div 8) /\ \A c \in 1..(d \div 8) : cols[c] # "opaque"
  BY <1>1, <1>4, <1>5, DepthPalette DEF DepthFacts
<1>7. PICK n \in Nat : n = d \div 8 /\ n \in {1, 2, 3, 4} /\ d = n * 8
  BY <1>6 DEF Palette
<1>8. PICK L \in Nat : L = RowLength(f, d)
  BY <1>3, RowLengths DEF RowLength
<1>10. RowsIn(picDib, h, L, w, zs, cols, n, cut)
  BY <1>1, <1>2, <1>3, <1>5, <1>7, <1>8 DEF DibRows
<1>11. t \in 0..(h - 1)
  BY <1>1, <1>3
<1>12. PICK y \in Int : y = zs[t]
  OBVIOUS
<1>13. ASSUME NEW x \in 0..(w - 1), NEW k
       PROVE  Said(Pic!Colour(Pic!Pixel(t, x), d, k), x, y, k, cut)
  <2>1. PICK at : at = Place(t, L, x, n)
    OBVIOUS
  <2>2. at \in Int
    <3>1. t \in Nat /\ x \in Nat
      BY <1>11
    <3>2. t * L \in Nat /\ x * n \in Nat
      BY <3>1, PlaceIs
    <3> QED
      BY <2>1, <3>2 DEF Place
  <2>3. PixelAt(picDib, at, x, y, cols, n, cut)
    <3>1. h \in Nat /\ w \in Nat
      OBVIOUS
    <3>2. PixelAt(picDib, Place(t, L, x, n), x, zs[t], cols, n, cut)
      BY ONLY <1>10, <1>11, <3>1, x \in 0..(w - 1), L \in Nat, n \in Nat, PixelIn
    <3> QED
      BY <1>12, <2>1, <3>2
  <2>4. PICK bytes : bytes = Pic!Bytes(picDib, at, n)
    OBVIOUS
  <2>5. Pic!Pixel(t, x) = bytes
    <3>1. Pic!dwIncrement = L /\ Pic!nBytes = n
      BY <1>1, <1>2, <1>3, <1>7, <1>8 DEF Pic!dwIncrement, Pic!nBytes, RowLength
    <3> QED
      BY <2>1, <2>4, <3>1 DEF Pic!Pixel, Place
  <2>6. bytes = [i \in 1..n |-> bytes[i]]
    BY <2>4 DEF Pic!Bytes
  <2>7. \A c \in 1..n : Said(bytes[c], x, y, cols[c], cut)
    <3>1. \A c \in 1..n : bytes[c] = Pic!ByteAt(picDib, at + c - 1)
      BY <2>2, <2>4, BytesAre
    <3> QED
      BY <1>6, <1>7, <2>3, <3>1 DEF PixelAt, Meant, Said
  <2>8. Palette(cols, n) /\ x \in Nat
    BY <1>6, <1>7
  <2> QED
    <3>1. PixelBytes(bytes, n, x, y, cols, cut)
      BY <2>6, <2>7 DEF PixelBytes
    <3>2. Said(Pic!Colour(bytes, d, k), x, y, k, cut)
      BY <1>5, <2>8, <3>1, ColourIs
    <3> QED
      BY <2>5, <3>2
<1>14. PICK s : s = Pic!Pixels(t, out)
  OBVIOUS
<1>15. PICK k \in Nat : k = w * m
  BY <1>3
<1>16. Len(out) = m
  BY DEF Palette
<1>17. DOMAIN s = 1..k
       /\ \A i \in 1..k : s[i] = LET c == out[1 + ((i - 1) % m)]
                                 IN  IF c = "opaque" THEN Pic!Opaque
                                     ELSE Pic!Colour(Pic!Pixel(t, (i - 1) \div m), d, c)
  BY <1>2, <1>3, <1>14, <1>15, <1>16 DEF Pic!Pixels
<1>18. Block(s, k)
  <2>1. DOMAIN s = 1..k
    BY <1>17
  <2>2. Len(s) = k
    BY ONLY <2>1, k \in Nat
  <2> QED
    BY <2>1, <2>2 DEF Block
<1>19. ASSUME NEW x \in 0..(w - 1), NEW c \in 1..m
       PROVE  s[x * m + c] \in Meant(x, y, out[c], cut)
  <2>1. PICK i \in 1..k : i = x * m + c /\ (i - 1) \div m = x /\ 1 + ((i - 1) % m) = c
    <3>1. m \in {1, 2, 3, 4}
      OBVIOUS
    <3> QED
      BY <1>15, <3>1, PixelPlace
  <2>2. s[i] = IF out[c] = "opaque" THEN Pic!Opaque ELSE Pic!Colour(Pic!Pixel(t, x), d, out[c])
    BY <1>17, <2>1
  <2> QED
    BY <1>13, <2>1, <2>2 DEF Meant, Said
<1> QED
  BY <1>1, <1>2, <1>3, <1>12, <1>14, <1>15, <1>18, <1>19 DEF RowGiven, RowSays

(* The rows from which a copy is made.                                      *)
LEMMA DibRowsKept ==
  ASSUME PictureFacts(picFile), DepthInv,
         DibHolds(picDib, 0, picFile, bits, topdown),
         ~picFaulted => DibHolds(picDib, picFile.height, picFile, bits, topdown)
  PROVE  \E zs : /\ DibRows(zs)
                 /\ \A t \in 0..(picFile.height - 1) :
                      Kept(zs[t], Order(topdown, picFile.height)[t]) /\ zs[t] \in Int
<1>1. PICK h \in Nat : h = picFile.height
  BY DEF PictureFacts
<1>2. PICK top \in BOOLEAN : top = topdown
  BY Depth
<1>3. PICK ys : ys = Order(top, h)
  OBVIOUS
<1>4. PICK L, w, cols, n, cut :
        /\ L = RowLength(picFile, bits) /\ w = picFile.width
        /\ cols = Pic!Colours(bits, picFile.cmyk) /\ n = bits \div 8 /\ cut = picFile.cut
  OBVIOUS
<1>5. Present(picDib, 0, h, L, w, ys, cols, n, cut)
      /\ (~picFaulted => Present(picDib, h, h, L, w, ys, cols, n, cut))
  BY <1>1, <1>2, <1>3, <1>4 DEF DibHolds
<1>6. PICK zs : /\ RowsIn(picDib, h, L, w, zs, cols, n, cut)
                /\ \A t \in 0..(h - 1) : Kept(zs[t], ys[t])
  BY <1>5, RowsKept
<1>7. \A t \in 0..(h - 1) : ys[t] \in Int
  BY <1>3, OrderRows
<1>8. \A t \in 0..(h - 1) : zs[t] \in Int
  BY <1>6, <1>7 DEF Kept, Gone
<1>9. DibRows(zs)
  BY <1>1, <1>4, <1>6 DEF DibRows
<1> QED
  BY <1>1, <1>2, <1>3, <1>6, <1>8, <1>9

(* DecodeRow stores one more row of the DIB.                                *)
LEMMA DecodeRowStores ==
  ASSUME PictureFacts(picFile), picFile.format # "dib", bits = picFile.bits, topdown = picFile.topdown,
         ~overrun, row \in 0..picFile.height,
         Block(picDib, picFile.height * RowLength(picFile, bits)), Pic!DecodeRow
  PROVE  /\ row \in 0..(picFile.height - 1)
         /\ Block(picDib', picFile.height * RowLength(picFile, bits)) /\ ~overrun'
         /\ DibHolds(picDib, 0, picFile, bits, topdown) =>
              DibHolds(picDib', 0, picFile, bits, topdown)
         /\ DibHolds(picDib, row, picFile, bits, topdown) =>
              DibHolds(picDib', row + 1, picFile, bits, topdown)
<1>1. PICK f, d, r : f = picFile /\ d = bits /\ r = row
  OBVIOUS
<1>2. PICK w \in Nat, h \in Nat : w = f.width /\ h = f.height /\ Pic!H = h
  BY <1>1 DEF PictureFacts, Pic!H
<1>3. d \in {24, 32} /\ topdown = FALSE
  BY <1>1 DEF PictureFacts
<1>4. r \in 0..h /\ r # h
  BY <1>1, <1>2 DEF Pic!DecodeRow, Pic!MoreRows
<1>5. r \in Nat /\ r < h /\ r \in 0..(h - 1)
  BY <1>4
<1>6. PICK L \in Nat : L = RowLength(f, d) /\ w * (d \div 8) <= L
  BY <1>2, <1>3, RowLengths DEF RowLength
<1>7. PICK n \in Nat : n = d \div 8 /\ n \in {1, 2, 3, 4}
  BY <1>3
<1>8. PICK s : s = Pic!DecodedRow
  OBVIOUS
<1>9. PICK len \in Nat : len = h * L /\ r * L + L <= len
  <2>1. h * L \in Nat
    OBVIOUS
  <2> QED
    BY <1>5, <2>1, RowEnd
<1>10. PICK ys, cols, cut : ys = Order(FALSE, h) /\ cols = Pic!Colours(d, f.cmyk) /\ cut = f.cut
  OBVIOUS
<1>11. Block(s, L) /\ RowSays(s, w, ys[r], cols, n, cut)
  BY <1>1, <1>2, <1>5, <1>6, <1>7, <1>8, <1>10, RowDecoded
<1>12. Block(picDib, len)
  BY <1>1, <1>2, <1>6, <1>9
<1>13. Stored(Pic!Put(picDib, r * L, s), picDib, len, r, h, L, w, ys, ys[r], cols, n, cut)
  BY <1>5, <1>6, <1>7, <1>9, <1>11, <1>12, RowStored
<1>14. Pic!nIncrement = L
  BY <1>1, <1>6, Increment
<1>15. picDib' = Pic!Put(picDib, r * L, s) /\ overrun' = (overrun \/ r * L + Len(s) > Len(picDib))
  BY <1>1, <1>8, <1>14 DEF Pic!DecodeRow, Pic!Writes
<1>16. ~overrun'
  <2>1. Len(s) = L /\ Len(picDib) = len
    BY <1>11, <1>12 DEF Block
  <2>2. PICK p \in Nat : p = r * L
    BY <1>5
  <2>3. ~(p + L > len)
    BY <1>9, <2>2
  <2> QED
    BY <1>15, <2>1, <2>2, <2>3
<1>17. /\ DibHolds(picDib, 0, f, d, FALSE) => DibHolds(picDib', 0, f, d, FALSE)
       /\ DibHolds(picDib, r, f, d, FALSE) => DibHolds(picDib', r + 1, f, d, FALSE)
  BY <1>2, <1>6, <1>7, <1>10, <1>13, <1>15 DEF Stored, DibHolds
<1> QED
  BY <1>1, <1>2, <1>3, <1>5, <1>6, <1>9, <1>13, <1>15, <1>16, <1>17 DEF Stored

(* BlendRow stores one more row of the copy.                                *)
LEMMA BlendRowStores ==
  ASSUME PictureFacts(picFile), DepthInv, ~overrun, row \in 0..picFile.height,
         Block(hbmpDib, picFile.height * (picFile.width * 4)), Pic!BlendRow,
         DibHolds(picDib, 0, picFile, bits, topdown),
         ~picFaulted => DibHolds(picDib, picFile.height, picFile, bits, topdown)
  PROVE  /\ row \in 0..(picFile.height - 1)
         /\ Block(hbmpDib', picFile.height * (picFile.width * 4)) /\ ~overrun'
         /\ CopyHolds(hbmpDib, 0, picFile, topdown) => CopyHolds(hbmpDib', 0, picFile, topdown)
         /\ ~picFaulted' /\ CopyHolds(hbmpDib, row, picFile, topdown) =>
              row' = row + 1 /\ CopyHolds(hbmpDib', row + 1, picFile, topdown)
<1>1. PICK f, r, top : f = picFile /\ r = row /\ top = topdown
  OBVIOUS
<1>2. PICK w \in Nat, h \in Nat : w = f.width /\ h = f.height /\ Pic!H = h /\ Pic!W = w
  BY <1>1 DEF PictureFacts, Pic!H, Pic!W
<1>4. r \in 0..h /\ r # h
  BY <1>1, <1>2 DEF Pic!BlendRow, Pic!MoreRows
<1>5. r \in Nat /\ r < h /\ r \in 0..(h - 1)
  BY <1>4
<1>6. PICK s : s = Pic!Pixels(row, <<"B", "G", "R", "A">>)
  OBVIOUS
<1>7. PICK cols : cols = <<"B", "G", "R", "A">> /\ Palette(cols, 4)
  BY Palettes
<1>8. PICK L \in Nat : L = w * 4
  OBVIOUS
<1>9. Block(s, L)
  BY <1>1, <1>2, <1>6, <1>7, <1>8, RowComplete
<1>10. PICK len \in Nat : len = h * L /\ r * L + L <= len
  <2>1. h * L \in Nat
    OBVIOUS
  <2> QED
    BY <1>5, <2>1, RowEnd
<1>11. PICK ys, cut : ys = Order(top, h) /\ cut = f.cut
  OBVIOUS
<1>12. PICK z : RowSays(s, w, z, cols, 4, cut) /\ Kept(z, ys[r])
  <2>1. PICK zs : /\ DibRows(zs)
                  /\ \A t \in 0..(f.height - 1) : Kept(zs[t], Order(top, f.height)[t]) /\ zs[t] \in Int
    BY <1>1, DibRowsKept
  <2>2. zs[r] \in Int /\ Kept(zs[r], ys[r])
    BY <1>2, <1>5, <1>11, <2>1
  <2>3. RowGiven(Pic!Pixels(r, cols), f.width * 4, f.width, zs[r], cols, 4, f.cut)
    BY <1>1, <1>2, <1>5, <1>7, <2>1, <2>2, RowTaken
  <2> QED
    BY <1>1, <1>2, <1>6, <1>7, <1>11, <2>2, <2>3 DEF RowGiven
<1>13. Block(hbmpDib, len)
  BY <1>1, <1>2, <1>8, <1>10
<1>14. Stored(Pic!Put(hbmpDib, r * L, s), hbmpDib, len, r, h, L, w, ys, z, cols, 4, cut)
  <2>1. PICK n \in Nat : n = 4 /\ n \in {1, 2, 3, 4} /\ w * n <= L
    BY <1>8
  <2>2. Stored(Pic!Put(hbmpDib, r * L, s), hbmpDib, len, r, h, L, w, ys, z, cols, n, cut)
    <3>1. RowSays(s, w, z, cols, n, cut) /\ z \in {ys[r], Gone}
      BY <1>12, <2>1 DEF Kept
    <3> QED
      BY <1>5, <1>9, <1>10, <1>13, <2>1, <3>1, RowStored
  <2> QED
    BY <2>1, <2>2
<1>15. Block(Pic!Put(hbmpDib, r * L, s), len)
  <2>1. RowPut(Pic!Put(hbmpDib, r * L, s), hbmpDib, len, r, L, s)
    BY <1>5, <1>9, <1>10, <1>13, PutRow
  <2> QED
    BY <2>1 DEF RowPut
<1>16. r * w * 4 = r * L
  BY <1>5, <1>8
<1>17. CASE UNCHANGED <<hbmpDib, overrun>> /\ picFaulted'
  BY <1>1, <1>2, <1>5, <1>17
<1>18. CASE /\ hbmpDib' = Pic!Put(hbmpDib, r * L, s)
            /\ overrun' = (overrun \/ r * L + Len(s) > Len(hbmpDib))
            /\ row' = row + 1 /\ UNCHANGED picFaulted
  <2>1. ~overrun'
    <3>1. Len(s) = L /\ Len(hbmpDib) = len
      BY <1>9, <1>13 DEF Block
    <3>2. PICK p \in Nat : p = r * L
      BY <1>5
    <3>3. ~(p + L > len)
      BY <1>10, <3>2
    <3> QED
      BY <1>18, <3>1, <3>2, <3>3
  <2>2. /\ CopyHolds(hbmpDib, 0, f, top) => CopyHolds(hbmpDib', 0, f, top)
        /\ ~picFaulted /\ CopyHolds(hbmpDib, r, f, top) => CopyHolds(hbmpDib', r + 1, f, top)
    <3>1. ~picFaulted => z = ys[r]
      BY <1>12 DEF Kept
    <3> QED
      BY <1>2, <1>7, <1>8, <1>11, <1>14, <1>18, <3>1 DEF Stored, CopyHolds
  <2> QED
    BY <1>1, <1>2, <1>5, <1>8, <1>10, <1>15, <1>18, <2>1, <2>2
<1>19. \/ UNCHANGED <<hbmpDib, overrun>> /\ picFaulted'
       \/ /\ hbmpDib' = Pic!Put(hbmpDib, r * w * 4, s)
          /\ overrun' = (overrun \/ r * w * 4 + Len(s) > Len(hbmpDib))
          /\ row' = row + 1 /\ UNCHANGED picFaulted
  BY <1>1, <1>2, <1>6 DEF Pic!BlendRow, Pic!NextRow, Pic!Writes
<1> QED
  BY <1>16, <1>17, <1>18, <1>19

(* PngRow stores one more row for the encoder.                              *)
LEMMA PngRowStores ==
  ASSUME PictureFacts(picFile), DepthInv, ~overrun, row \in 0..picFile.height, bits \in {16, 24, 32},
         Block(lpRGBA, SizeOf(picFile, bits)), Pic!PngRow,
         DibHolds(picDib, 0, picFile, bits, topdown),
         ~picFaulted => DibHolds(picDib, picFile.height, picFile, bits, topdown)
  PROVE  /\ row \in 0..(picFile.height - 1)
         /\ Block(lpRGBA', SizeOf(picFile, bits)) /\ ~overrun'
         /\ PngHolds(lpRGBA, 0, picFile, bits) => PngHolds(lpRGBA', 0, picFile, bits)
         /\ ~picFaulted' /\ PngHolds(lpRGBA, row, picFile, bits) =>
              row' = row + 1 /\ PngHolds(lpRGBA', row + 1, picFile, bits)
<1>1. PICK f, r, top, d : f = picFile /\ r = row /\ top = topdown /\ d = bits
  OBVIOUS
<1>2. PICK w \in Nat, h \in Nat : w = f.width /\ h = f.height /\ Pic!H = h /\ Pic!W = w
  BY <1>1 DEF PictureFacts, Pic!H, Pic!W
<1>3. d \in {16, 24, 32} /\ top \in BOOLEAN /\ (f.cmyk => d = 32) /\ (f.mask => d \in {16, 32})
  BY <1>1, Depth DEF DepthFacts
<1>4. r \in 0..h /\ r # h
  BY <1>1, <1>2 DEF Pic!PngRow, Pic!MoreRows
<1>5. r \in Nat /\ r < h /\ r \in 0..(h - 1)
  BY <1>4
<1>6. PICK n \in Nat : n = PngChannels(f, d) /\ n \in {3, 4} /\ n \in {1, 2, 3, 4}
  BY DEF PngChannels
<1>7. PICK cols : cols = PngPalette(f, d)
  OBVIOUS
<1>8. Palette(cols, n)
  BY <1>6, <1>7, Palettes DEF PngPalette
<1>9. Pic!nNumChannels = n /\ Pic!PngColours = cols
  <2>1. d = 16 \/ d = 24 \/ d = 32
    BY <1>3
  <2>2. Pic!nNumChannels = n
    BY <1>1, <1>6, <2>1 DEF Pic!nNumChannels, Pic!nBytes, PngChannels
  <2> QED
    BY <1>1, <1>6, <1>7, <2>2 DEF Pic!PngColours, PngPalette
<1>10. PICK t \in 0..(h - 1) : t = Pic!StoredRow /\ Order(top, h)[t] = r
  <2>1. h \in Nat \ {0}
    BY <1>5
  <2>2. Pic!StoredRow = IF top THEN r ELSE (h - 1) - r
    BY <1>1, <1>2 DEF Pic!StoredRow
  <2>3. PICK u : u = IF top THEN r ELSE (h - 1) - r
    OBVIOUS
  <2>4. u \in 0..(h - 1) /\ Order(top, h)[u] = r
    BY <1>3, <1>5, <2>1, <2>3, OrderBack
  <2> QED
    BY <2>2, <2>3, <2>4
<1>11. PICK s : s = Pic!Pixels(t, cols)
  OBVIOUS
<1>12. PICK L \in Nat : L = w * n
  BY <1>6
<1>13. Block(s, L)
  BY <1>1, <1>2, <1>6, <1>8, <1>11, <1>12, RowComplete
<1>14. PICK len \in Nat : len = SizeOf(f, d) /\ r * L + L <= len
  <2>1. PICK a \in Nat : a = h * w
    OBVIOUS
  <2>2. PICK q \in Nat : q = (IF d = 16 THEN 4 ELSE d \div 8) /\ n <= q
    BY <1>3, <1>6 DEF PngChannels
  <2>3. h * L = a * n
    BY <1>12, <2>1
  <2>4. a * n <= a * q /\ a * q \in Nat
    <3>1. PICK z \in Nat : q = n + z
      <4>1. q - n \in Nat /\ q = n + (q - n)
        BY <2>2
      <4> QED
        BY <4>1
    <3>2. a * q = a * n + a * z /\ a * z \in Nat /\ a * n \in Nat
      BY <3>1
    <3> QED
      BY <3>2
  <2>5. r * L + L <= h * L /\ r * L \in Nat
    BY <1>5, RowEnd
  <2>6. SizeOf(f, d) = a * q
    BY <1>2, <2>1, <2>2 DEF SizeOf
  <2> QED
    BY <2>3, <2>4, <2>5, <2>6
<1>15. PICK ys, cut : ys = Order(TRUE, h) /\ cut = f.cut
  OBVIOUS
<1>16. ys[r] = r
  BY <1>5, <1>15 DEF Order
<1>17. PICK z : RowSays(s, w, z, cols, n, cut) /\ Kept(z, ys[r])
  <2>1. PICK zs : /\ DibRows(zs)
                  /\ \A u \in 0..(f.height - 1) : Kept(zs[u], Order(top, f.height)[u]) /\ zs[u] \in Int
    BY <1>1, DibRowsKept
  <2>2. zs[t] \in Int /\ Kept(zs[t], ys[r])
    BY <1>2, <1>10, <1>16, <2>1
  <2>3. RowGiven(Pic!Pixels(t, cols), f.width * n, f.width, zs[t], cols, n, f.cut)
    BY <1>1, <1>2, <1>6, <1>8, <2>1, <2>2, RowTaken
  <2> QED
    BY <1>2, <1>11, <1>15, <2>2, <2>3 DEF RowGiven
<1>18. Block(lpRGBA, len)
  BY <1>1, <1>14
<1>19. Stored(Pic!Put(lpRGBA, r * L, s), lpRGBA, len, r, h, L, w, ys, z, cols, n, cut)
  <2>1. z \in {ys[r], Gone}
    BY <1>17 DEF Kept
  <2> QED
    BY <1>5, <1>6, <1>12, <1>13, <1>14, <1>17, <1>18, <2>1, RowStored
<1>20. Block(Pic!Put(lpRGBA, r * L, s), len)
  <2>1. RowPut(Pic!Put(lpRGBA, r * L, s), lpRGBA, len, r, L, s)
    BY <1>5, <1>13, <1>14, <1>18, PutRow
  <2> QED
    BY <2>1 DEF RowPut
<1>21. r * w * n = r * L
  BY <1>5, <1>12
<1>22. CASE UNCHANGED <<lpRGBA, overrun>> /\ picFaulted'
  BY <1>1, <1>2, <1>5, <1>22
<1>23. CASE /\ lpRGBA' = Pic!Put(lpRGBA, r * L, s)
            /\ overrun' = (overrun \/ r * L + Len(s) > Len(lpRGBA))
            /\ row' = row + 1 /\ UNCHANGED picFaulted
  <2>1. ~overrun'
    <3>1. Len(s) = L /\ Len(lpRGBA) = len
      BY <1>13, <1>18 DEF Block
    <3>2. PICK p \in Nat : p = r * L
      BY <1>5
    <3>3. ~(p + L > len)
      BY <1>14, <3>2
    <3> QED
      BY <1>23, <3>1, <3>2, <3>3
  <2>2. /\ PngHolds(lpRGBA, 0, f, d) => PngHolds(lpRGBA', 0, f, d)
        /\ ~picFaulted /\ PngHolds(lpRGBA, r, f, d) => PngHolds(lpRGBA', r + 1, f, d)
    <3>1. ~picFaulted => z = ys[r]
      BY <1>17 DEF Kept
    <3> QED
      BY <1>2, <1>6, <1>7, <1>12, <1>15, <1>19, <1>23, <3>1 DEF Stored, PngHolds
  <2> QED
    BY <1>1, <1>2, <1>5, <1>14, <1>20, <1>23, <2>1, <2>2
<1>24. \/ UNCHANGED <<lpRGBA, overrun>> /\ picFaulted'
       \/ /\ lpRGBA' = Pic!Put(lpRGBA, r * w * n, s)
          /\ overrun' = (overrun \/ r * w * n + Len(s) > Len(lpRGBA))
          /\ row' = row + 1 /\ UNCHANGED picFaulted
  BY <1>1, <1>2, <1>9, <1>10, <1>11 DEF Pic!PngRow, Pic!NextRow, Pic!Writes
<1> QED
  BY <1>21, <1>22, <1>23, <1>24

(* New blocks.                                                              *)
LEMMA NewDib ==
  ASSUME PictureFacts(picFile), DepthInv, NEW len \in Nat,
         picFile.height * RowLength(picFile, bits) <= len
  PROVE  DibHolds(Pic!Memory(len), 0, picFile, bits, topdown)
<1>1. PICK f, d, top : f = picFile /\ d = bits /\ top = topdown
  OBVIOUS
<1>2. PICK w \in Nat, h \in Nat : w = f.width /\ h = f.height
  BY <1>1 DEF PictureFacts
<1>3. d \in {8, 16, 24, 32}
  BY <1>1, Depth DEF DepthFacts
<1>4. PICK n \in {1, 2, 3, 4} : n = d \div 8
  BY <1>3
<1>5. PICK L \in Nat : L = RowLength(f, d) /\ w * n <= L
  BY <1>2, <1>3, <1>4, RowLengths DEF RowLength
<1>6. Present(Pic!Memory(len), 0, h, L, w, Order(top, h), Pic!Colours(d, f.cmyk), n, f.cut)
  <2>1. h * L <= len
    BY <1>1, <1>2, <1>5
  <2>2. PICK ys : ys = Order(top, h)
    OBVIOUS
  <2>3. PICK cols : cols = Pic!Colours(d, f.cmyk)
    OBVIOUS
  <2>4. Present(Pic!Memory(len), 0, h, L, w, ys, cols, n, f.cut)
    BY <1>5, <2>1, NothingPresent
  <2> QED
    BY <2>2, <2>3, <2>4
<1> QED
  BY <1>1, <1>2, <1>4, <1>5, <1>6 DEF DibHolds
LEMMA NewCopy ==
  ASSUME PictureFacts(picFile), NEW len \in Nat, picFile.height * (picFile.width * 4) <= len
  PROVE  CopyHolds(Pic!Memory(len), 0, picFile, topdown)
<1>1. PICK f, top : f = picFile /\ top = topdown
  OBVIOUS
<1>2. PICK w \in Nat, h \in Nat : w = f.width /\ h = f.height
  BY <1>1 DEF PictureFacts
<1>3. PICK n \in {1, 2, 3, 4} : n = 4
  OBVIOUS
<1>4. PICK L \in Nat : L = w * n /\ w * n <= L
  OBVIOUS
<1>5. Present(Pic!Memory(len), 0, h, L, w, Order(top, h), <<"B", "G", "R", "A">>, n, f.cut)
  BY <1>1, <1>2, <1>3, <1>4, NothingPresent
<1> QED
  BY <1>1, <1>2, <1>3, <1>4, <1>5 DEF CopyHolds
LEMMA NewBuffer ==
  ASSUME PictureFacts(picFile), DepthInv, bits \in {16, 24, 32}, NEW len \in Nat,
         len = SizeOf(picFile, bits)
  PROVE  PngHolds(Pic!Memory(len), 0, picFile, bits)
<1>1. PICK f, d : f = picFile /\ d = bits
  OBVIOUS
<1>2. PICK w \in Nat, h \in Nat : w = f.width /\ h = f.height
  BY <1>1 DEF PictureFacts
<1>3. d \in {16, 24, 32} /\ (f.cmyk => d = 32) /\ (f.mask => d \in {16, 32})
  BY <1>1, Depth DEF DepthFacts
<1>4. PICK n \in {1, 2, 3, 4} : n = PngChannels(f, d) /\ n \in {3, 4}
  BY DEF PngChannels
<1>5. PICK L \in Nat : L = w * n /\ w * n <= L
  BY <1>4
<1>6. h * L <= len
  <2>1. PICK a \in Nat : a = h * w
    OBVIOUS
  <2>2. PICK q \in Nat : q = (IF d = 16 THEN 4 ELSE d \div 8) /\ n <= q
    BY <1>3, <1>4 DEF PngChannels
  <2>3. h * L = a * n
    BY <1>4, <1>5, <2>1
  <2>4. PICK e \in Nat : q = n + e
    <3>1. q - n \in Nat /\ q = n + (q - n)
      BY <2>2
    <3> QED
      BY <3>1
  <2>5. a * q = a * n + a * e /\ a * e \in Nat /\ a * n \in Nat
    BY <2>4
  <2>6. len = a * q
    BY <1>1, <1>2, <2>1, <2>2 DEF SizeOf
  <2> QED
    BY <2>3, <2>5, <2>6
<1>7. Present(Pic!Memory(len), 0, h, L, w, Order(TRUE, h), PngPalette(f, d), n, f.cut)
  <2>1. PICK ys : ys = Order(TRUE, h)
    OBVIOUS
  <2>2. PICK cols : cols = PngPalette(f, d)
    OBVIOUS
  <2>3. Present(Pic!Memory(len), 0, h, L, w, ys, cols, n, f.cut)
    BY <1>5, <1>6, NothingPresent
  <2> QED
    BY <2>1, <2>2, <2>3
<1>8. Present(Pic!Memory(len), 0, f.height, f.width * PngChannels(f, d), f.width,
              Order(TRUE, f.height), PngPalette(f, d), PngChannels(f, d), f.cut)
  BY <1>2, <1>4, <1>5, <1>7
<1> QED
  BY <1>1, <1>8 DEF PngHolds

(* The DIB that SavePngFile makes from one with a palette.                  *)
LEMMA ConvertedHolds ==
  ASSUME PictureFacts(picFile), ~picFile.cmyk
  PROVE  /\ DibHolds(Pic!RowsOf(Pic!DownUp, Pic!Colours(24, FALSE), Pic!WIDTHBYTES(Pic!W * 24)),
                     picFile.height, picFile, 24, FALSE)
         /\ DibHolds(Pic!RowsOf(Pic!DownUp, Pic!Colours(24, FALSE), Pic!WIDTHBYTES(Pic!W * 24)),
                     0, picFile, 24, FALSE)
<1>1. PICK f : f = picFile
  OBVIOUS
<1>2. PICK w \in Nat \ {0}, h \in Nat \ {0} : w = f.width /\ h = f.height /\ Pic!H = h /\ Pic!W = w
  BY <1>1 DEF PictureFacts, Pic!H, Pic!W
<1>3. PICK cols, ys, cut : cols = Pic!Colours(24, FALSE) /\ ys = Order(FALSE, h) /\ cut = f.cut
  OBVIOUS
<1>4. Palette(cols, 3) /\ \A c \in 1..3 : cols[c] # "opaque"
  <2>1. 24 \div 8 = 3
    OBVIOUS
  <2> QED
    BY <1>3, <2>1, DepthPalette
<1>5. PICK L \in Nat : L = Pic!WIDTHBYTES(w * 24) /\ w * 3 <= L
  <2>1. 24 \div 8 = 3
    OBVIOUS
  <2> QED
    BY <2>1, RowLengths
<1>6. PICK b : b = Pic!RowsOf(ys, cols, L)
  OBVIOUS
<1>7. IsRows(b, w, h, L, ys, cols, 3)
  BY <1>2, <1>4, <1>5, <1>6, RowsAre
<1>8. PICK m \in Nat : m = h * L
  OBVIOUS
<1>9. ASSUME NEW t \in 0..(h - 1), NEW x \in 0..(w - 1), NEW c \in 1..3
      PROVE  Pic!ByteAt(b, t * L + (x * 3 + c) - 1) \in Meant(x, ys[t], cols[c], cut)
  <2>1. PICK at \in 1..m : at = t * L + (x * 3 + c) /\ b[at] = <<x, ys[t], cols[c]>>
    BY <1>7, <1>8 DEF IsRows
  <2>2. Len(b) = m
    BY <1>7, <1>8 DEF IsRows, Block
  <2>3. Pic!ByteAt(b, at - 1) = b[at]
    <3>1. PICK i \in Nat : i = at - 1 /\ i + 1 = at /\ i < m
      BY <2>1
    <3>2. Pic!ByteAt(b, i) = b[i + 1]
      BY <2>2, <3>1 DEF Pic!ByteAt
    <3> QED
      BY <3>1, <3>2
  <2>4. ys[t] # Gone
    BY <1>3, OrderRows
  <2> QED
    BY <1>4, <2>1, <2>3, <2>4 DEF Meant
<1>10. Present(b, h, h, L, w, ys, cols, 3, cut) /\ Present(b, 0, h, L, w, ys, cols, 3, cut)
  <2>1. RowsIn(b, h, L, w, ys, cols, 3, cut) /\ h \in Nat
    BY <1>9 DEF RowsIn, RowIn
  <2>2. Present(b, h, h, L, w, ys, cols, 3, cut)
    BY <2>1, AllPresent
  <2>3. Present(b, 0, h, L, w, ys, cols, 3, cut)
    BY <2>1, <2>2, FewerPresent
  <2> QED
    BY <2>2, <2>3
<1>11. Pic!DownUp = ys
  BY <1>2, <1>3, Orders
<1>12. f.cmyk = FALSE /\ 24 \div 8 = 3
  BY <1>1 DEF PictureFacts
<1> QED
  BY <1>1, <1>2, <1>3, <1>5, <1>6, <1>10, <1>11, <1>12 DEF DibHolds, RowLength


(* No step of a picture moves a pixel.                                      *)
LEMMA PixelStep == PixelInv /\ [Pic!Next]_picVars => PixelInv'
<1> SUFFICES ASSUME PixelInv, [Pic!Next]_picVars PROVE PixelInv'
  OBVIOUS
<1> USE DEF Pic!Goto, Pic!NoPicture, Pic!Return, Pic!shape, Pic!buffers, Pic!FreedBlocks, Loading, Saving
<1>1. CASE UNCHANGED picVars
  BY <1>1 DEF picVars, PixelInv, DepthInv, DibInv, CopyInv, PngInv
<1>2. CASE Pic!Next /\ picPc = "done"
  BY <1>2 DEF Pic!Next, Pic!Load, Pic!ReadFile, Pic!Decode, Pic!AllocateDib, Pic!LockDib,
    Pic!DecodeRow, Pic!Decoded, Pic!CreateDIBSection, Pic!BlendRow, Pic!BlendedAll, Pic!Blended,
    Pic!SaveConverted, Pic!Save, Pic!SaveFails, Pic!AllocateBuffer, Pic!PngRow, Pic!Encode,
    Pic!Encoded, Pic!Write, Pic!MoreRows, Pic!EndOfRows
<1>3. CASE Pic!Next /\ picPc # "done"
  <2> USE <1>3
  <2>1. /\ PictureFacts(picFile) /\ ~overrun /\ ~saved
        /\ picPc \in Loading \cup {"section", "blend", "blended"} \cup Saving
        /\ DepthInv /\ DibInv /\ CopyInv /\ PngInv
    BY DEF PixelInv
  <2>2. picFile' = picFile
    BY DEF Pic!Next, Pic!Load, Pic!ReadFile, Pic!Decode, Pic!AllocateDib, Pic!LockDib,
      Pic!DecodeRow, Pic!Decoded, Pic!CreateDIBSection, Pic!BlendRow, Pic!BlendedAll, Pic!Blended,
      Pic!SaveConverted, Pic!Save, Pic!SaveFails, Pic!AllocateBuffer, Pic!PngRow, Pic!Encode,
      Pic!Encoded, Pic!Write
  <2>3. PictureFacts(picFile)'
    BY <2>1, <2>2 DEF PictureFacts
  <2>4. PICK h \in Nat \ {0} : h = picFile.height /\ Pic!H = h
    BY <2>1 DEF PictureFacts, Pic!H
  <2>5. 0 \in 0..h /\ h \in 0..h
    OBVIOUS
  <2>10. CASE Pic!Load
    BY <2>1, <2>2, <2>3, <2>10 DEF Pic!Load, PixelInv, DepthInv, DibInv, CopyInv, PngInv
  <2>11. CASE Pic!ReadFile
    BY <2>1, <2>2, <2>3, <2>11 DEF Pic!ReadFile, PixelInv, DepthInv, DibInv, CopyInv, PngInv
  <2>12. CASE Pic!Decode
    BY <2>1, <2>2, <2>3, <2>12 DEF Pic!Decode, PixelInv, DepthInv, DibInv, CopyInv, PngInv
  <2>13. CASE Pic!AllocateDib
    <3>1. CASE picPc' = "lock"
      <4>1. /\ picPc = "allocate" /\ picDib' = Pic!Memory(Pic!nIncrement * Pic!H)
            /\ UNCHANGED <<picFile, bits, topdown, hbmpDib, lpRGBA, held, saved, picFaulted, overrun>>
        BY <2>13, <3>1 DEF Pic!AllocateDib
      <4>2. bits = picFile.bits /\ picFile.format # "dib"
        BY <2>1, <4>1 DEF DepthInv, DibInv
      <4>3. PICK L \in Nat, n \in Nat : L = RowLength(picFile, bits) /\ n = h * L /\ Pic!nIncrement = L
        <5>1. PICK w \in Nat, d \in {8, 16, 24, 32} : w = picFile.width /\ d = picFile.bits
          BY <2>1 DEF PictureFacts
        <5>2. RowLength(picFile, bits) \in Nat
          BY <4>2, <5>1, RowLengths DEF RowLength
        <5>3. PICK L \in Nat : L = RowLength(picFile, bits)
          BY <5>2
        <5>4. h * L \in Nat
          OBVIOUS
        <5> QED
          BY <2>1, <4>2, <5>3, <5>4, Increment
      <4>4. Block(picDib', n)
        <5>1. Pic!nIncrement * Pic!H = n
          BY <2>4, <4>3
        <5> QED
          BY <4>1, <5>1, ZerosAre
      <4>5. /\ Block(picDib', picFile'.height * RowLength(picFile', bits'))
            /\ DibHolds(picDib', 0, picFile', bits', topdown')
        <5>1. picDib' = Pic!Memory(n)
          BY <2>4, <4>1, <4>3
        <5>2. DibHolds(Pic!Memory(n), 0, picFile, bits, topdown)
          BY <2>1, <2>4, <4>3, NewDib
        <5> QED
          BY <2>2, <2>4, <4>1, <4>3, <4>4, <5>1, <5>2
      <4> QED
        BY <2>1, <2>2, <2>3, <3>1, <4>1, <4>2, <4>5 DEF PixelInv, DepthInv, DibInv, CopyInv, PngInv
    <3>2. CASE picPc' # "lock"
      BY <2>1, <2>13, <3>2 DEF Pic!AllocateDib, PixelInv
    <3> QED
      BY <3>1, <3>2
  <2>14. CASE Pic!LockDib
    BY <2>1, <2>2, <2>3, <2>4, <2>5, <2>14
       DEF Pic!LockDib, PixelInv, DepthInv, DibInv, CopyInv, PngInv
  <2>15. CASE Pic!DecodeRow
    <3>1. /\ picPc = "rows" /\ picPc' = "rows"
          /\ UNCHANGED <<picFile, bits, topdown, hbmpDib, lpRGBA, held, saved>>
          /\ \/ row' = row + 1 /\ UNCHANGED picFaulted
             \/ row' = Pic!H /\ picFaulted'
      BY <2>15 DEF Pic!DecodeRow, Pic!MoreRows, Pic!NextRow
    <3>2. /\ bits = picFile.bits /\ topdown = picFile.topdown /\ picFile.format # "dib"
          /\ row \in 0..picFile.height /\ Block(picDib, picFile.height * RowLength(picFile, bits))
          /\ DibHolds(picDib, 0, picFile, bits, topdown)
          /\ ~picFaulted => DibHolds(picDib, row, picFile, bits, topdown)
          /\ "hbmpDib" \notin held
      BY <2>1, <3>1 DEF DepthInv, DibInv, CopyInv
    <3>3. /\ row \in 0..(picFile.height - 1)
          /\ Block(picDib', picFile.height * RowLength(picFile, bits)) /\ ~overrun'
          /\ DibHolds(picDib, 0, picFile, bits, topdown) =>
               DibHolds(picDib', 0, picFile, bits, topdown)
          /\ DibHolds(picDib, row, picFile, bits, topdown) =>
               DibHolds(picDib', row + 1, picFile, bits, topdown)
      BY <2>1, <2>15, <3>2, DecodeRowStores
    <3>4. row' \in 0..h
      <4>1. PICK r : r = row
        OBVIOUS
      <4>2. r \in 0..(h - 1)
        BY <2>4, <3>3, <4>1
      <4>3. row' = r + 1 \/ row' = h
        BY <2>4, <3>1, <4>1
      <4> QED
        BY <4>2, <4>3
    <3>5. ~picFaulted' => DibHolds(picDib', row', picFile, bits, topdown)
      BY <3>1, <3>2, <3>3
    <3> QED
      BY <2>1, <2>2, <2>3, <2>4, <3>1, <3>2, <3>3, <3>4, <3>5
         DEF PixelInv, DepthInv, DibInv, CopyInv, PngInv
  <2>16. CASE Pic!Decoded
    BY <2>1, <2>2, <2>3, <2>4, <2>16
       DEF Pic!Decoded, Pic!EndOfRows, PixelInv, DepthInv, DibInv, CopyInv, PngInv
  <2>17. CASE Pic!CreateDIBSection
    <3>1. /\ picPc = "section" /\ row' = 0
          /\ UNCHANGED <<picFile, bits, topdown, picDib, lpRGBA, saved, picFaulted, overrun>>
          /\ \/ /\ picPc' = IF picFile.mask THEN "blend" ELSE "blended"
                /\ hbmpDib' = Pic!Memory(Pic!W * Pic!H * 4)
             \/ picPc' = "blended" /\ UNCHANGED held
      BY <2>17 DEF Pic!CreateDIBSection
    <3>2. Block(Pic!Memory(Pic!W * Pic!H * 4), picFile.height * (picFile.width * 4))
      <4>1. PICK w \in Nat : w = picFile.width /\ Pic!W = w
        BY <2>1 DEF PictureFacts, Pic!W
      <4>2. PICK n \in Nat : n = h * (w * 4)
        OBVIOUS
      <4>3. w * h * 4 = n
        BY <4>2
      <4> QED
        BY <2>4, <4>1, <4>2, <4>3, ZerosAre
    <3>3. CopyHolds(Pic!Memory(Pic!W * Pic!H * 4), 0, picFile, topdown)
      <4>1. PICK w \in Nat : w = picFile.width /\ Pic!W = w
        BY <2>1 DEF PictureFacts, Pic!W
      <4>2. PICK n \in Nat : n = h * (w * 4)
        OBVIOUS
      <4>3. w * h * 4 = n
        BY <4>2
      <4>4. CopyHolds(Pic!Memory(n), 0, picFile, topdown)
        BY <2>1, <2>4, <4>1, <4>2, NewCopy
      <4> QED
        BY <2>4, <4>1, <4>3, <4>4
    <3>4. "hbmpDib" \notin held
      BY <2>1, <3>1 DEF CopyInv
    <3>5. CASE picPc' = "blend"
      <4>1. picFile.mask /\ hbmpDib' = Pic!Memory(Pic!W * Pic!H * 4)
        BY <3>1, <3>5
      <4> QED
        BY <2>1, <2>2, <2>3, <2>4, <2>5, <3>1, <3>2, <3>3, <3>5, <4>1
           DEF PixelInv, DepthInv, DibInv, CopyInv, PngInv
    <3>6. CASE picPc' = "blended"
      <4>1. ~picFile.mask \/ "hbmpDib" \notin held'
        BY <3>1, <3>4, <3>6
      <4> QED
        BY <2>1, <2>2, <2>3, <3>1, <3>6, <4>1 DEF PixelInv, DepthInv, DibInv, CopyInv, PngInv
    <3> QED
      BY <3>1, <3>5, <3>6
  <2>18. CASE Pic!BlendRow
    <3>1. /\ picPc = "blend" /\ picPc' = "blend"
          /\ UNCHANGED <<picFile, bits, topdown, picDib, lpRGBA, held, saved>>
          /\ \/ row' = row + 1 /\ UNCHANGED picFaulted
             \/ row' = Pic!H /\ picFaulted'
      BY <2>18 DEF Pic!BlendRow, Pic!MoreRows, Pic!NextRow
    <3>2. /\ picFile.mask /\ row \in 0..picFile.height
          /\ Block(hbmpDib, picFile.height * (picFile.width * 4))
          /\ CopyHolds(hbmpDib, 0, picFile, topdown)
          /\ ~picFaulted => CopyHolds(hbmpDib, row, picFile, topdown)
          /\ DibHolds(picDib, 0, picFile, bits, topdown)
          /\ ~picFaulted => DibHolds(picDib, picFile.height, picFile, bits, topdown)
      BY <2>1, <3>1 DEF DibInv, CopyInv
    <3>3. /\ row \in 0..(picFile.height - 1)
          /\ Block(hbmpDib', picFile.height * (picFile.width * 4)) /\ ~overrun'
          /\ CopyHolds(hbmpDib, 0, picFile, topdown) => CopyHolds(hbmpDib', 0, picFile, topdown)
          /\ ~picFaulted' /\ CopyHolds(hbmpDib, row, picFile, topdown) =>
               row' = row + 1 /\ CopyHolds(hbmpDib', row + 1, picFile, topdown)
      BY <2>1, <2>18, <3>2, BlendRowStores
    <3>4. row' \in 0..h
      <4>1. PICK r : r = row
        OBVIOUS
      <4>2. r \in 0..(h - 1)
        BY <2>4, <3>3, <4>1
      <4>3. row' = r + 1 \/ row' = h
        BY <2>4, <3>1, <4>1
      <4> QED
        BY <4>2, <4>3
    <3>5. ~picFaulted' => ~picFaulted
      BY <3>1
    <3>6. ~picFaulted' => CopyHolds(hbmpDib', row', picFile, topdown)
      BY <3>2, <3>3, <3>5
    <3> QED
      BY <2>1, <2>2, <2>3, <2>4, <3>1, <3>2, <3>3, <3>4, <3>5, <3>6
         DEF PixelInv, DepthInv, DibInv, CopyInv, PngInv
  <2>19. CASE Pic!BlendedAll
    BY <2>1, <2>2, <2>3, <2>4, <2>19
       DEF Pic!BlendedAll, Pic!EndOfRows, PixelInv, DepthInv, DibInv, CopyInv, PngInv
  <2>20. CASE Pic!Blended
    BY <2>1, <2>2, <2>3, <2>20 DEF Pic!Blended, PixelInv, DepthInv, DibInv, CopyInv, PngInv
  <2>21. CASE Pic!SaveConverted
    <3>1. /\ picPc = "save" /\ picPc' = "save" /\ bits < 16 /\ bits' = 24 /\ topdown' = FALSE
          /\ picDib' = Pic!RowsOf(Pic!DownUp, Pic!Colours(24, FALSE), Pic!WIDTHBYTES(Pic!W * 24))
          /\ UNCHANGED <<picFile, hbmpDib, lpRGBA, saved, picFaulted, overrun>>
      BY <2>21 DEF Pic!SaveConverted
    <3>2. picFile.bits = 8 /\ ~picFile.cmyk /\ ~picFile.mask
      <4>1. PICK d : d = bits
        OBVIOUS
      <4>2. PICK e \in {8, 16, 24, 32} : e = picFile.bits
        BY <2>1 DEF PictureFacts
      <4>3. e = 8
        BY <2>1, <3>1, <4>1, <4>2 DEF DepthInv
      <4> QED
        BY <2>1, <4>2, <4>3 DEF PictureFacts
    <3>3. /\ DibHolds(picDib', picFile.height, picFile, 24, FALSE)
          /\ DibHolds(picDib', 0, picFile, 24, FALSE)
      BY <2>1, <3>1, <3>2, ConvertedHolds
    <3> QED
      BY <2>1, <2>2, <2>3, <3>1, <3>2, <3>3 DEF PixelInv, DepthInv, DibInv, CopyInv, PngInv
  <2>22. CASE Pic!Save
    <3>1. /\ picPc = "save" /\ picPc' = "buffer" /\ row' = 0 /\ bits >= 16
          /\ UNCHANGED <<picFile, bits, topdown, picDib, hbmpDib, lpRGBA, saved, picFaulted, overrun>>
      BY <2>22 DEF Pic!Save
    <3>2. bits \in {16, 24, 32}
      <4>1. PICK d \in {8, 16, 24, 32} : d = bits
        BY <2>1, Depth DEF DepthFacts
      <4>2. d >= 16
        BY <3>1, <4>1
      <4> QED
        BY <4>1, <4>2
    <3> QED
      BY <2>1, <2>2, <2>3, <2>4, <3>1, <3>2 DEF PixelInv, DepthInv, DibInv, CopyInv, PngInv
  <2>23. CASE Pic!SaveFails
    BY <2>1, <2>23 DEF Pic!SaveFails, PixelInv
  <2>24. CASE Pic!AllocateBuffer
    <3>1. /\ picPc = "buffer" /\ picPc' = "png" /\ row' = 0 /\ lpRGBA' = Pic!Memory(Pic!lSizeImage)
          /\ UNCHANGED <<picFile, bits, topdown, picDib, hbmpDib, saved, picFaulted, overrun>>
      BY <2>24 DEF Pic!AllocateBuffer
    <3>2. bits \in {16, 24, 32}
      BY <2>1, <3>1 DEF PngInv
    <3>3. Block(lpRGBA', SizeOf(picFile, bits)) /\ PngHolds(lpRGBA', 0, picFile, bits)
      <4>1. PICK w \in Nat, d \in {16, 24, 32} : w = picFile.width /\ Pic!W = w /\ d = bits
        BY <2>1, <3>2 DEF PictureFacts, Pic!W
      <4>2. PICK q \in Nat : q = IF d = 16 THEN 4 ELSE d \div 8
        OBVIOUS
      <4>3. PICK n \in Nat : n = h * w * q
        <5>1. h * w \in Nat
          OBVIOUS
        <5>2. h * w * q \in Nat
          BY <5>1
        <5> QED
          BY <5>2
      <4>4. Pic!lSizeImage = n /\ SizeOf(picFile, bits) = n
        BY <2>4, <4>1, <4>2, <4>3 DEF Pic!lSizeImage, Pic!nBytes, SizeOf
      <4>5. PngHolds(Pic!Memory(n), 0, picFile, bits)
        BY <2>1, <3>2, <4>4, NewBuffer
      <4> QED
        BY <3>1, <4>4, <4>5, ZerosAre
    <3> QED
      BY <2>1, <2>2, <2>3, <2>4, <2>5, <3>1, <3>2, <3>3
         DEF PixelInv, DepthInv, DibInv, CopyInv, PngInv
  <2>25. CASE Pic!PngRow
    <3>1. /\ picPc = "png" /\ picPc' = "png"
          /\ UNCHANGED <<picFile, bits, topdown, picDib, hbmpDib, held, saved>>
          /\ \/ row' = row + 1 /\ UNCHANGED picFaulted
             \/ row' = Pic!H /\ picFaulted'
      BY <2>25 DEF Pic!PngRow, Pic!MoreRows, Pic!NextRow
    <3>2. /\ row \in 0..picFile.height /\ bits \in {16, 24, 32}
          /\ Block(lpRGBA, SizeOf(picFile, bits))
          /\ PngHolds(lpRGBA, 0, picFile, bits)
          /\ ~picFaulted => PngHolds(lpRGBA, row, picFile, bits)
          /\ DibHolds(picDib, 0, picFile, bits, topdown)
          /\ ~picFaulted => DibHolds(picDib, picFile.height, picFile, bits, topdown)
      BY <2>1, <3>1 DEF DibInv, PngInv
    <3>3. /\ row \in 0..(picFile.height - 1)
          /\ Block(lpRGBA', SizeOf(picFile, bits)) /\ ~overrun'
          /\ PngHolds(lpRGBA, 0, picFile, bits) => PngHolds(lpRGBA', 0, picFile, bits)
          /\ ~picFaulted' /\ PngHolds(lpRGBA, row, picFile, bits) =>
               row' = row + 1 /\ PngHolds(lpRGBA', row + 1, picFile, bits)
      BY <2>1, <2>25, <3>2, PngRowStores
    <3>4. row' \in 0..h
      <4>1. PICK r : r = row
        OBVIOUS
      <4>2. r \in 0..(h - 1)
        BY <2>4, <3>3, <4>1
      <4>3. row' = r + 1 \/ row' = h
        BY <2>4, <3>1, <4>1
      <4> QED
        BY <4>2, <4>3
    <3>5. ~picFaulted' => ~picFaulted
      BY <3>1
    <3>6. ~picFaulted' => PngHolds(lpRGBA', row', picFile, bits)
      BY <3>2, <3>3, <3>5
    <3> QED
      BY <2>1, <2>2, <2>3, <2>4, <3>1, <3>2, <3>3, <3>4, <3>5, <3>6
         DEF PixelInv, DepthInv, DibInv, CopyInv, PngInv
  <2>26. CASE Pic!Encode
    BY <2>1, <2>2, <2>3, <2>4, <2>26
       DEF Pic!Encode, Pic!EndOfRows, PixelInv, DepthInv, DibInv, CopyInv, PngInv
  <2>27. CASE Pic!Encoded
    BY <2>1, <2>2, <2>3, <2>27 DEF Pic!Encoded, PixelInv, DepthInv, DibInv, CopyInv, PngInv
  <2>28. CASE Pic!Write
    BY <2>1, <2>2, <2>3, <2>28 DEF Pic!Write, PixelInv, DepthInv, DibInv, CopyInv, PngInv
  <2> QED
    BY <2>10, <2>11, <2>12, <2>13, <2>14, <2>15, <2>16, <2>17, <2>18, <2>19, <2>20, <2>21, <2>22,
       <2>23, <2>24, <2>25, <2>26, <2>27, <2>28 DEF Pic!Next
<1> QED
  BY <1>1, <1>2, <1>3

(* What the invariants say of a thumbnail.                                  *)
LEMMA BitsAreFound ==
  ASSUME BmpPlaceInv, BmpBlockInv
  PROVE  Bmp!BitsFound
<1>1. CASE shown # "shown"
  BY <1>1 DEF Bmp!BitsFound, Bmp!Packed
<1>2. CASE shown = "shown" /\ bmpPc \notin {"profile", "tags", "exit", "done"}
  BY <1>2 DEF BmpBlockInv
<1>3. CASE shown = "shown" /\ bmpPc \in {"profile", "tags", "exit", "done"}
  <2>1. file \in Bmp!Files /\ Placed
    BY <1>3 DEF BmpPlaceInv
  <2>2. Bmp!InEntries /\ (file.gap > 0 => file.clrUsed > 0 \/ file.bits \notin 1..12)
          => Bmp!DibBitsOffset = bitsAt
    BY <2>1 DEF Placed, Even, Counted, ColoursOf, OffsetOf, Bmp!InEntries, Bmp!DibBitsOffset
  <2>3. cleared \cap bitsAt..(bmpSize - 1) = {}
    <3> SUFFICES ASSUME NEW place \in cleared, place \in bitsAt..(bmpSize - 1) PROVE FALSE
      OBVIOUS
    <3> QED
      BY <2>1 DEF Placed
  <2> QED
    BY <2>1, <2>2, <2>3 DEF Placed, Bmp!BitsFound, Bmp!Packed
<1> QED
  BY <1>1, <1>2, <1>3 DEF BmpPlaceInv

(* Both invariants are true at the beginning.                               *)
LEMMA PixelsStart == PicturesInit => BmpPlaceInv /\ PixelInv
<1> SUFFICES ASSUME PicturesInit PROVE BmpPlaceInv /\ PixelInv
  OBVIOUS
<1>1. (NoBitmap \/ Bmp!Init) /\ (NoPicture \/ Pic!Init)
  BY DEF PicturesInit
<1> QED
  BY <1>1, BmpPlaceStart, PixelStart, PictureAssumption

(* Whatever the widths and heights of the pictures: every pixel keeps its   *)
(* column, row and colours until it is saved, or a read that failed has     *)
(* left it out.  Whatever the header, the number of bits and the length of  *)
(* a bitmap file: bits without a gap are found where the file has them; so  *)
(* are those behind a gap, or overlapped by the colours, by as much as      *)
(* whole entries of a table whose length the file states, of at most 4096   *)
(* colours, take.  Of other gaps it only says that moved bits are not       *)
(* overwritten and are within the block (BitmapFile!BitsFound).             *)
THEOREM PixelsAlwaysKept == PicturesSpec => []PixelsKept
<1>1. PicturesInit => BmpBlockInv /\ BmpPlaceInv /\ PixelInv
  BY BlocksStart, PixelsStart
<1>2. /\ BmpBlockInv /\ BmpPlaceInv /\ PixelInv
      /\ [PicturesNext]_<<vars, picVars, bmpVars>>
      => (BmpBlockInv /\ BmpPlaceInv /\ PixelInv)'
  <2> SUFFICES ASSUME BmpBlockInv, BmpPlaceInv, PixelInv,
                      [PicturesNext]_<<vars, picVars, bmpVars>>
               PROVE  BmpBlockInv' /\ BmpPlaceInv' /\ PixelInv'
    OBVIOUS
  <2>1. [Bmp!Next]_bmpVars /\ [Pic!Next]_picVars
    BY DEF PicturesNext
  <2> QED
    BY <2>1, BmpBlockStep, BmpPlaceStep, PixelStep, BitmapAssumption
<1>3. BmpBlockInv /\ BmpPlaceInv /\ PixelInv => PixelsKept
  BY BitsAreFound, PixelsShown DEF PixelsKept
<1> QED
  BY <1>1, <1>2, <1>3, PTL DEF PicturesSpec
=============================================================================
