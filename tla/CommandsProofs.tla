--------------------------- MODULE CommandsProofs ---------------------------
(***************************************************************************)
(* Proofs about Commands, for any number of files, messages, windows and   *)
(* nested handlers: its types, and the seven properties of its run.        *)
(*                                                                         *)
(* A step leaves the stack of handlers as it is, pushes one, returns from  *)
(* the innermost or rewrites it; closing the clipboard changes the lists   *)
(* of pastes besides.  The first lemmas say what each of these does, and   *)
(* the invariance proofs cite them.                                        *)
(***************************************************************************)
EXTENDS Commands, Integers, SequenceTheorems, TLAPS

USE BoundsAssumption

-----------------------------------------------------------------------------
(* The inductive invariant.  Only the innermost handler runs; the others    *)
(* stand in a message loop.                                                 *)
StackInv ==
  /\ Len(stack) <= MaxDepth
  /\ \A i \in 1..Len(stack) : i < Len(stack) => stack[i].pc \in PumpPcs
  /\ boxed = FALSE => \A i \in 1..Len(stack) : stack[i].pc # "box"

(* The name is that of the last dump, and nobody knows of a later one.      *)
InTime(f, n) ==
  /\ f.kind \in {"menu", "copy", "save"} => f.opened <= n
  /\ f.kind = "save" => f.name = f.opened
  /\ f.kind \in {"drop", "paste"} => f.dump <= n

(* Until the file is created, the old one or none is there.                 *)
Untouched(f) == f.pc \in {"prepare", "file"} => f.file \in {"absent", "old"}

(* Only a PNG is converted, and only after the name was chosen.             *)
Converted(f) ==
  f.kind = "save" => /\ f.png = TRUE \/ f.whole = TRUE
                     /\ f.pc = "name" => f.whole = TRUE

(* Without boxes, the picture is that of the last dump or the default one;  *)
(* so is the one a command to save has taken, or of a dump behind it.       *)
OfLatest(f, n) ==
  /\ f.pc = "decode" => f.dump = n
  /\ f.kind = "save" => f.picture.of = 0 \/ (f.opened <= f.picture.of /\ f.picture.of <= n)

Sound(f, n, b) ==
  InTime(f, n) /\ Untouched(f) /\ Converted(f) /\ (b = FALSE => OfLatest(f, n))

HistoryInv ==
  /\ named = latest /\ picture.of <= latest
  /\ boxed = FALSE => picture.of \in {0, latest}
  /\ \A i \in 1..Len(stack) : Sound(stack[i], latest, boxed)
  /\ \A q \in 1..Len(queue) : queue[q].type # "drop" => queue[q].opened <= latest

(* The DIB for the clipboard is ours while the command that made it runs.   *)
DibInv ==
  /\ hNewDib # "twice"
  /\ hNewDib = "ours" => stack # <<>> /\ Top.pc \in {"open", "empty", "set"}
  /\ stack # <<>> /\ Top.pc \in {"open", "empty", "set"} => hNewDib \in {"ours", "none"}

(* Who may copy, as far as no file was dumped since the menu was opened.    *)
(* Before a picture is replaced without such a dump, the handler that does  *)
(* it has waited in a box, and no copy was left to be dispatched.           *)
Copyable  == picture.of # 0 /\ picture.fits
Offers(f) == (f.pc = "menu" /\ "copy" \in f.items) \/ f.pc = "create"
CopyInv ==
  /\ \A q \in 1..Len(queue) : queue[q].type = "copy" /\ queue[q].opened = latest => Copyable
  /\ \A i \in 1..Len(stack) : Offers(stack[i]) /\ stack[i].opened = latest => Copyable
  /\ \A i, j \in 1..Len(stack) :
       i < j /\ stack[i].pc = "menu" /\ stack[j].pc \in {"decode", "box"}
         => stack[i].opened < stack[j].dump
  /\ \A q \in 1..Len(queue) :
       stack # <<>> /\ queue[q].type = "copy" =>
         /\ Top.pc = "decode" => queue[q].opened < latest
         /\ Len(stack) = MaxDepth /\ Top.pc \in {"decode", "box"} => queue[q].opened < Top.dump

IInv == /\ TypeOK /\ StackInv /\ HistoryInv /\ DibInv /\ CopyInv
        /\ ClipboardGivenBack /\ ListHeld /\ OutputIsCurrent
        /\ SavedOrSaid /\ SavedUnderItsName
-----------------------------------------------------------------------------
(* Frames.                                                                  *)
BatchPcs == {"next", "decode", "box"}
SavePcs  == {"name", "prepare", "file", "header", "bits", "failed"}
CopyPcs  == {"create", "open", "empty", "set"}

LEMMA FrameFacts ==
  ASSUME NEW f \in Frame
  PROVE  /\ f.kind \in {"drop", "paste", "menu", "copy", "save", "query"}
         /\ f.pc \in BatchPcs \cup {"menu"} \cup CopyPcs \cup SavePcs \cup {"ask", "prompt"}
         /\ f.kind \in {"drop", "paste"} <=> f.pc \in BatchPcs
         /\ f.kind = "menu" <=> f.pc = "menu"
         /\ f.kind = "copy" <=> f.pc \in CopyPcs
         /\ f.kind = "save" <=> f.pc \in SavePcs
         /\ f.kind = "query" <=> f.pc \in {"ask", "prompt"}
         /\ f.kind \in {"drop", "paste"} => f \in BatchFrame
         /\ f.kind = "menu" => f \in MenuFrame
         /\ f.kind = "copy" => f \in CopyFrame
         /\ f.kind = "save" => f \in SaveFrame
         /\ f.kind = "query" => f \in QueryFrame
<1>1. CASE f \in BatchFrame
  BY <1>1 DEF BatchFrame, BatchPcs, CopyPcs, SavePcs
<1>2. CASE f \in MenuFrame
  BY <1>2 DEF MenuFrame, BatchPcs, CopyPcs, SavePcs
<1>3. CASE f \in CopyFrame
  BY <1>3 DEF CopyFrame, BatchPcs, CopyPcs, SavePcs
<1>4. CASE f \in SaveFrame
  BY <1>4 DEF SaveFrame, BatchPcs, CopyPcs, SavePcs
<1>5. CASE f \in QueryFrame
  BY <1>5 DEF QueryFrame, BatchPcs, CopyPcs, SavePcs
<1> QED
  BY <1>1, <1>2, <1>3, <1>4, <1>5 DEF Frame

(* A frame that is what it was but for the list of a paste.                 *)
Kept(f, g) ==
  /\ g \in Frame /\ g.kind = f.kind /\ g.pc = f.pc
  /\ f.kind # "paste" => g = f
  /\ f.kind = "paste" => g.left = f.left /\ g.dump = f.dump /\ g.window = f.window

(* What a step does to the frames up to the n-th.                           *)
KeptTo(n) == \A i \in 1..n : Kept(stack[i], stack'[i])
SameTo(n) == \A i \in 1..n : stack'[i] = stack[i]

Still     == stack' \in Seq(Frame) /\ Len(stack') = Len(stack) /\ KeptTo(Len(stack))
Pushed(f) == /\ stack' \in Seq(Frame) /\ Len(stack) < MaxDepth
             /\ Len(stack') = Len(stack) + 1 /\ stack'[Len(stack) + 1] = f
             /\ KeptTo(Len(stack))
Returned  == /\ stack' \in Seq(Frame) /\ Len(stack) \in Nat \ {0}
             /\ Len(stack') = Len(stack) - 1 /\ KeptTo(Len(stack) - 1)
Became(f) == /\ stack' \in Seq(Frame) /\ Len(stack) \in Nat \ {0}
             /\ Len(stack') = Len(stack) /\ stack'[Len(stack)] = f
             /\ KeptTo(Len(stack) - 1)

LEMMA KeptSelf == ASSUME NEW f \in Frame PROVE Kept(f, f)
BY DEF Kept

LEMMA StillEffect ==
  ASSUME stack \in Seq(Frame), UNCHANGED stack
  PROVE  Still /\ SameTo(Len(stack))
BY KeptSelf DEF Still, KeptTo, SameTo

LEMMA PushEffect ==
  ASSUME stack \in Seq(Frame), NEW f \in Frame, Push(f)
  PROVE  Pushed(f) /\ SameTo(Len(stack))
<1>1. /\ stack' \in Seq(Frame) /\ Len(stack') = Len(stack) + 1
      /\ Len(stack) < MaxDepth /\ stack'[Len(stack) + 1] = f
      /\ \A i \in 1..Len(stack) : stack'[i] = stack[i]
  BY DEF Push
<1> QED
  BY <1>1, KeptSelf DEF Pushed, KeptTo, SameTo

LEMMA FrontFacts ==
  ASSUME NEW s \in Seq(Frame), s # <<>>
  PROVE  /\ Len(s) \in Nat \ {0}
         /\ Front(s) \in Seq(Frame) /\ Len(Front(s)) = Len(s) - 1
         /\ \A i \in 1..(Len(s) - 1) : Front(s)[i] = s[i]
         /\ Last(s) = s[Len(s)] /\ Last(s) \in Frame
<1>1. Len(s) \in Nat \ {0} /\ \A i \in 1..Len(s) : s[i] \in Frame
  BY EmptySeq
<1>2. 1 \in Int /\ Len(s) - 1 \in Int /\ \A i \in 1..(Len(s) - 1) : s[i] \in Frame
  BY <1>1
<1>3. /\ SubSeq(s, 1, Len(s) - 1) \in Seq(Frame)
      /\ Len(SubSeq(s, 1, Len(s) - 1)) = IF 1 <= Len(s) - 1 THEN (Len(s) - 1) - 1 + 1 ELSE 0
      /\ \A i \in 1..((Len(s) - 1) - 1 + 1) : SubSeq(s, 1, Len(s) - 1)[i] = s[1 + i - 1]
  BY <1>2, SubSeqProperties
<1>4. Len(SubSeq(s, 1, Len(s) - 1)) = Len(s) - 1
  <2> DEFINE n == Len(s) - 1
  <2>1. n \in Nat /\ n - 1 + 1 = n
    BY <1>1
  <2>2. Len(SubSeq(s, 1, n)) = IF 1 <= n THEN n - 1 + 1 ELSE 0
    BY <1>3
  <2> HIDE DEF n
  <2>3. Len(SubSeq(s, 1, n)) = n
    BY <2>1, <2>2
  <2> QED
    BY <2>3 DEF n
<1>5. ASSUME NEW i \in 1..(Len(s) - 1) PROVE SubSeq(s, 1, Len(s) - 1)[i] = s[i]
  BY <1>1, <1>3
<1> QED
  BY <1>1, <1>3, <1>4, <1>5 DEF Front, Last

LEMMA ReturnEffect ==
  ASSUME stack \in Seq(Frame), stack # <<>>, Return
  PROVE  Returned /\ SameTo(Len(stack) - 1)
<1>1. /\ Len(stack) \in Nat \ {0}
      /\ stack' \in Seq(Frame) /\ Len(stack') = Len(stack) - 1
      /\ \A i \in 1..(Len(stack) - 1) : stack'[i] = stack[i] /\ stack[i] \in Frame
  BY FrontFacts DEF Return
<1> QED
  BY <1>1, KeptSelf DEF Returned, KeptTo, SameTo

LEMMA BecomeEffect ==
  ASSUME stack \in Seq(Frame), stack # <<>>, NEW f \in Frame,
         stack' = [stack EXCEPT ![Len(stack)] = f]
  PROVE  Became(f) /\ SameTo(Len(stack) - 1)
<1>1. Len(stack) \in Nat \ {0}
  BY FrontFacts
<1>2. /\ stack' \in Seq(Frame) /\ Len(stack') = Len(stack) /\ stack'[Len(stack)] = f
      /\ \A i \in 1..(Len(stack) - 1) : stack'[i] = stack[i] /\ stack[i] \in Frame
  BY <1>1, ExceptSeq
<1> QED
  BY <1>1, <1>2, KeptSelf DEF Became, KeptTo, SameTo

LEMMA ListsEffect ==
  ASSUME NEW s \in Seq(Frame), NEW valid \in BOOLEAN
  PROVE  /\ Lists(valid, s) \in Seq(Frame) /\ Len(Lists(valid, s)) = Len(s)
         /\ \A i \in 1..Len(s) : Kept(s[i], Lists(valid, s)[i])
         /\ valid => \A i \in 1..Len(s) : Lists(valid, s)[i] = s[i]
<1> DEFINE clear(f) == IF f.kind = "paste" /\ ~valid THEN [f EXCEPT !.list = FALSE] ELSE f
<1>1. ASSUME NEW f \in Frame PROVE clear(f) \in Frame /\ Kept(f, clear(f))
  <2>1. CASE f.kind = "paste" /\ ~valid
    <3>1. f \in BatchFrame
      BY <2>1, FrameFacts
    <3>2. clear(f) = [f EXCEPT !.list = FALSE]
      BY <2>1
    <3>3. clear(f) \in BatchFrame
      BY <3>1, <3>2 DEF BatchFrame
    <3> QED
      BY <2>1, <3>1, <3>2, <3>3 DEF Kept, Frame, BatchFrame
  <2>2. CASE ~(f.kind = "paste" /\ ~valid)
    BY <2>2, KeptSelf
  <2> QED
    BY <2>1, <2>2
<1>2. Lists(valid, s) = [i \in 1..Len(s) |-> clear(s[i])]
  BY DEF Lists
<1>3. \A i \in 1..Len(s) : s[i] \in Frame
  OBVIOUS
<1> HIDE DEF clear
<1>4. Lists(valid, s) \in Seq(Frame) /\ Len(Lists(valid, s)) = Len(s)
  BY <1>1, <1>2, <1>3
<1>5. \A i \in 1..Len(s) : Lists(valid, s)[i] = clear(s[i])
  BY <1>2
<1>6. \A f : valid => clear(f) = f
  BY DEF clear
<1> QED
  BY <1>1, <1>3, <1>4, <1>5, <1>6

(* Returning while the clipboard is closed.                                 *)
LEMMA CloseEffect ==
  ASSUME stack \in Seq(Frame), stack # <<>>, CloseClipboard(Front(stack))
  PROVE  Returned
<1>1. /\ Len(stack) \in Nat \ {0}
      /\ Front(stack) \in Seq(Frame) /\ Len(Front(stack)) = Len(stack) - 1
      /\ \A i \in 1..(Len(stack) - 1) : Front(stack)[i] = stack[i]
  BY FrontFacts
<1>2. stack' = Lists(holder # "dialog", Front(stack))
  BY DEF CloseClipboard
<1>3. /\ stack' \in Seq(Frame) /\ Len(stack') = Len(stack) - 1
      /\ \A i \in 1..(Len(stack) - 1) : Kept(Front(stack)[i], stack'[i])
  BY <1>1, <1>2, ListsEffect
<1> QED
  BY <1>1, <1>3 DEF Returned, KeptTo

-----------------------------------------------------------------------------
(* What the actions do to the stack.                                        *)
LEMMA TopFacts ==
  ASSUME TypeOK, stack # <<>>
  PROVE  Len(stack) \in Nat \ {0} /\ Top = stack[Len(stack)] /\ Top \in Frame
BY FrontFacts DEF TypeOK, Top

PcsOf(kind) == CASE kind \in {"drop", "paste"} -> BatchPcs
                 [] kind = "copy"  -> CopyPcs
                 [] kind = "save"  -> SavePcs
                 [] kind = "query" -> {"ask", "prompt"}
                 [] OTHER          -> {}

(* A frame that differs from another in the place only.                     *)
Moved(f, g) ==
  /\ g \in Frame /\ g.kind = f.kind
  /\ f.kind \in {"drop", "paste"} => /\ g.left = f.left /\ g.dump = f.dump
                                     /\ g.list = f.list /\ g.window = f.window
  /\ f.kind \in {"copy", "save"} => g.opened = f.opened
  /\ f.kind = "save" => /\ g.name = f.name /\ g.picture = f.picture
                        /\ g.png = f.png /\ g.file = f.file /\ g.whole = f.whole
  /\ f.kind = "query" => g.window = f.window

LEMMA MovedFrame ==
  ASSUME NEW f \in Frame, NEW pc \in PcsOf(f.kind)
  PROVE  Moved(f, [f EXCEPT !.pc = pc]) /\ [f EXCEPT !.pc = pc].pc = pc
<1> DEFINE g == [f EXCEPT !.pc = pc]
<1>1. CASE f.kind \in {"drop", "paste"}
  <2>1. f \in BatchFrame /\ pc \in {"next", "decode", "box"}
    BY <1>1, FrameFacts DEF PcsOf, BatchPcs
  <2>2. /\ g \in BatchFrame /\ g.kind = f.kind /\ g.left = f.left /\ g.dump = f.dump
        /\ g.list = f.list /\ g.window = f.window /\ g.pc = pc
    BY <2>1 DEF BatchFrame
  <2> QED
    BY <1>1, <2>2 DEF Moved, Frame
<1>2. CASE f.kind = "copy"
  <2>1. f \in CopyFrame /\ pc \in {"create", "open", "empty", "set"}
    BY <1>2, FrameFacts DEF PcsOf, CopyPcs
  <2>2. g \in CopyFrame /\ g.kind = f.kind /\ g.opened = f.opened /\ g.pc = pc
    BY <2>1 DEF CopyFrame
  <2> QED
    BY <1>2, <2>2 DEF Moved, Frame
<1>3. CASE f.kind = "save"
  <2>1. f \in SaveFrame /\ pc \in {"name", "prepare", "file", "header", "bits", "failed"}
    BY <1>3, FrameFacts DEF PcsOf, SavePcs
  <2>2. /\ g \in SaveFrame /\ g.kind = f.kind /\ g.opened = f.opened /\ g.name = f.name
        /\ g.picture = f.picture /\ g.png = f.png /\ g.file = f.file /\ g.whole = f.whole
        /\ g.pc = pc
    BY <2>1 DEF SaveFrame
  <2> QED
    BY <1>3, <2>2 DEF Moved, Frame
<1>4. CASE f.kind = "query"
  <2>1. f \in QueryFrame /\ pc \in {"ask", "prompt"}
    BY <1>4, FrameFacts DEF PcsOf
  <2>2. g \in QueryFrame /\ g.kind = f.kind /\ g.window = f.window /\ g.pc = pc
    BY <2>1 DEF QueryFrame
  <2> QED
    BY <1>4, <2>2 DEF Moved, Frame
<1>5. CASE f.kind = "menu"
  BY <1>5 DEF PcsOf
<1> QED
  BY <1>1, <1>2, <1>3, <1>4, <1>5, FrameFacts

(* The innermost handler goes to another place.                             *)
MovedTo(pc) == [Top EXCEPT !.pc = pc]
Goes(pc) ==
  /\ Became(MovedTo(pc)) /\ SameTo(Len(stack) - 1)
  /\ Moved(Top, MovedTo(pc)) /\ MovedTo(pc).pc = pc

LEMMA GotoEffect ==
  ASSUME TypeOK, stack # <<>>, NEW pc \in PcsOf(Top.kind), Goto(pc)
  PROVE  Goes(pc)
<1>1. Len(stack) \in Nat \ {0} /\ Top = stack[Len(stack)] /\ Top \in Frame /\ stack \in Seq(Frame)
  BY TopFacts DEF TypeOK
<1>2. Moved(Top, MovedTo(pc)) /\ MovedTo(pc).pc = pc
  BY <1>1, MovedFrame DEF MovedTo
<1>3. MovedTo(pc) \in Frame
  BY <1>2 DEF Moved
<1>4. stack' = [stack EXCEPT ![Len(stack)] = MovedTo(pc)]
  BY <1>1 DEF Goto, MovedTo
<1> QED
  BY <1>1, <1>2, <1>3, <1>4, BecomeEffect DEF Goes

LEMMA BatchTop ==
  ASSUME TypeOK, stack # <<>>, Top.pc \in BatchPcs
  PROVE  Top \in BatchFrame /\ PcsOf(Top.kind) = BatchPcs /\ Top.kind \in {"drop", "paste"}
BY TopFacts, FrameFacts DEF PcsOf

LEMMA CopyTop ==
  ASSUME TypeOK, stack # <<>>, Top.pc \in CopyPcs
  PROVE  Top \in CopyFrame /\ PcsOf(Top.kind) = CopyPcs /\ Top.kind = "copy"
BY TopFacts, FrameFacts DEF PcsOf

LEMMA SaveTop ==
  ASSUME TypeOK, stack # <<>>, Top.pc \in SavePcs
  PROVE  Top \in SaveFrame /\ PcsOf(Top.kind) = SavePcs /\ Top.kind = "save"
BY TopFacts, FrameFacts DEF PcsOf

LEMMA QueryTop ==
  ASSUME TypeOK, stack # <<>>, Top.pc \in {"ask", "prompt"}
  PROVE  Top \in QueryFrame /\ PcsOf(Top.kind) = {"ask", "prompt"} /\ Top.kind = "query"
BY TopFacts, FrameFacts DEF PcsOf

(* The frames that are pushed.                                              *)
LEMMA NewFrames ==
  ASSUME TypeOK
  PROVE  /\ \A kind \in {"drop", "paste"}, n \in Nat :
              /\ Batch(kind, n) \in Frame /\ Batch(kind, n).kind = kind
              /\ Batch(kind, n).pc = "next" /\ Batch(kind, n).dump = 0
              /\ Batch(kind, n).list = TRUE /\ Batch(kind, n).window = window
         /\ \A items \in SUBSET {"copy", "save", "paste"} :
              /\ Menu(items) \in Frame /\ Menu(items).kind = "menu" /\ Menu(items).pc = "menu"
              /\ Menu(items).items = items /\ Menu(items).opened = latest
         /\ \A opened \in Nat :
              /\ Copy(opened) \in Frame /\ Copy(opened).kind = "copy"
              /\ Copy(opened).pc = "create" /\ Copy(opened).opened = opened
         /\ Save \in Frame /\ Save.kind = "save" /\ Save.pc = "name" /\ Save.picture.of = 0
         /\ Save.name = named /\ Save.opened = latest /\ Save.whole = TRUE
         /\ Query \in Frame /\ Query.kind = "query" /\ Query.pc = "ask" /\ Query.window = window
<1>1. window \in Nat /\ latest \in Nat /\ named \in Nat
  BY DEF TypeOK
<1>2. ASSUME NEW kind \in {"drop", "paste"}, NEW n \in Nat PROVE Batch(kind, n) \in BatchFrame
  BY <1>1, <1>2 DEF Batch, BatchFrame
<1>3. ASSUME NEW items \in SUBSET {"copy", "save", "paste"} PROVE Menu(items) \in MenuFrame
  BY <1>1, <1>3 DEF Menu, MenuFrame
<1>4. ASSUME NEW opened \in Nat PROVE Copy(opened) \in CopyFrame
  BY <1>4 DEF Copy, CopyFrame
<1>5. Save \in SaveFrame /\ Save.picture.of = 0
  BY <1>1 DEF Save, SaveFrame, NoPicture, Picture
<1>6. Query \in QueryFrame
  BY <1>1 DEF Query, QueryFrame
<1>7. Save.kind = "save" /\ Save.pc = "name" /\ Save.name = named /\ Save.opened = latest
      /\ Save.whole = TRUE
  BY DEF Save
<1>8. Query.kind = "query" /\ Query.pc = "ask" /\ Query.window = window
  BY DEF Query
<1> QED
  BY <1>2, <1>3, <1>4, <1>5, <1>6, <1>7, <1>8 DEF Frame, Batch, Menu, Copy

Dumping(f, d) == [[[f EXCEPT !.pc = "decode"] EXCEPT !.left = f.left - 1] EXCEPT !.dump = d]

LEMMA DumpingFrame ==
  ASSUME NEW f \in BatchFrame, f.left > 0, NEW d \in Nat
  PROVE  /\ Dumping(f, d) \in BatchFrame
         /\ Dumping(f, d).pc = "decode" /\ Dumping(f, d).dump = d
         /\ Dumping(f, d).kind = f.kind /\ Dumping(f, d).list = f.list
         /\ Dumping(f, d).window = f.window
<1>1. f.left - 1 \in Nat
  BY DEF BatchFrame
<1> QED
  BY <1>1 DEF BatchFrame, Dumping

LEMMA StartDumpEffect ==
  ASSUME TypeOK, StartDump
  PROVE  LET f == Dumping(Top, latest + 1)
         IN  /\ Became(f) /\ SameTo(Len(stack) - 1) /\ Top \in BatchFrame /\ Top.pc = "next"
             /\ f \in BatchFrame /\ f.pc = "decode" /\ f.dump = latest + 1
             /\ f.kind = Top.kind /\ f.list = Top.list /\ f.window = Top.window
<1>1. /\ stack # <<>> /\ Top.pc = "next" /\ Top.left > 0 /\ latest + 1 \in Nat
      /\ stack \in Seq(Frame) /\ Len(stack) \in Nat \ {0} /\ Top = stack[Len(stack)]
      /\ Top \in BatchFrame
  BY TopFacts, BatchTop DEF StartDump, At, TypeOK, BatchPcs
<1>2. stack' = [stack EXCEPT ![Len(stack)] = Dumping(Top, latest + 1)]
  BY <1>1 DEF StartDump, Dumping
<1>3. Dumping(Top, latest + 1) \in Frame
  BY <1>1, DumpingFrame DEF Frame
<1>4. /\ Dumping(Top, latest + 1) \in BatchFrame
      /\ Dumping(Top, latest + 1).pc = "decode" /\ Dumping(Top, latest + 1).dump = latest + 1
      /\ Dumping(Top, latest + 1).kind = Top.kind /\ Dumping(Top, latest + 1).list = Top.list
      /\ Dumping(Top, latest + 1).window = Top.window
  BY ONLY <1>1, DumpingFrame
<1>5. Became(Dumping(Top, latest + 1)) /\ SameTo(Len(stack) - 1)
  BY ONLY <1>1, <1>2, <1>3, BecomeEffect
<1> QED
  BY ONLY <1>1, <1>4, <1>5

(* The new handler that a posted message starts, or none.                   *)
LEMMA DispatchEffect ==
  ASSUME TypeOK, DispatchPosted
  PROVE  /\ AtPump /\ queue # <<>> /\ Head(queue) \in Message /\ queue' = Tail(queue)
         /\ offered' \in Nat
         /\ UNCHANGED <<boxed, pictures, contents, hNewDib, saved, output>>
         /\ \/ \E n \in Nat : Pushed(Batch("drop", n)) /\ UNCHANGED holder
            \/ \E n \in Nat : Pushed(Batch("paste", n)) /\ holder' = "dialog"
            \/ /\ Head(queue).type = "copy" /\ Head(queue).opened \in Nat
               /\ Pushed(Copy(Head(queue).opened)) /\ UNCHANGED holder
            \/ Pushed(Save) /\ UNCHANGED holder
            \/ Still /\ SameTo(Len(stack)) /\ UNCHANGED holder
            \/ Still /\ holder' = "nobody"
<1>1. /\ AtPump /\ queue # <<>> /\ Head(queue) \in Message /\ queue' = Tail(queue)
      /\ UNCHANGED <<boxed, pictures, contents, hNewDib, saved, output>>
      /\ stack \in Seq(Frame) /\ offered \in Nat
  BY DEF DispatchPosted, TypeOK
<1>2. CASE Head(queue).type = "drop"
  <2>1. Push(Batch("drop", Head(queue).files)) /\ UNCHANGED <<holder, offered>>
    BY <1>2 DEF DispatchPosted
  <2>2. Head(queue).files \in Nat
    BY <1>1, <1>2 DEF Message
  <2>3. Pushed(Batch("drop", Head(queue).files))
    BY <1>1, <2>1, <2>2, NewFrames, PushEffect
  <2> QED
    BY <1>1, <2>1, <2>2, <2>3
<1>3. CASE Head(queue).type = "paste"
  <2>1. StartPaste
    BY <1>3 DEF DispatchPosted
  <2>2. CASE UNCHANGED <<holder, stack, offered>>
    BY <1>1, <2>2, StillEffect
  <2>3. CASE holder' = "nobody" /\ stack' = Lists(FALSE, stack) /\ UNCHANGED offered
    BY <1>1, <2>3, ListsEffect DEF Still, KeptTo
  <2>4. ASSUME holder' = "dialog", NEW n \in 1..MaxFiles, offered' = offered + n,
               Push(Batch("paste", n))
        PROVE  Pushed(Batch("paste", n)) /\ n \in Nat /\ offered' \in Nat
    <3>1. n \in Nat
      OBVIOUS
    <3>2. offered' \in Nat
      BY <1>1, <2>4, <3>1
    <3>3. Batch("paste", n) \in Frame
      BY <3>1, NewFrames
    <3> QED
      BY <1>1, <2>4, <3>1, <3>2, <3>3, PushEffect
  <2> QED
    BY <1>1, <2>1, <2>2, <2>3, <2>4 DEF StartPaste
<1>4. CASE Head(queue).type = "copy"
  <2>1. Push(Copy(Head(queue).opened)) /\ UNCHANGED <<holder, offered>>
    BY <1>4 DEF DispatchPosted
  <2>2. Head(queue).opened \in Nat
    BY <1>1, <1>4 DEF Message
  <2>3. Pushed(Copy(Head(queue).opened))
    BY <1>1, <2>1, <2>2, NewFrames, PushEffect
  <2> QED
    BY <1>1, <1>4, <2>1, <2>2, <2>3
<1>5. CASE Head(queue).type = "save"
  <2>1. Push(Save) /\ UNCHANGED <<holder, offered>>
    BY <1>5 DEF DispatchPosted
  <2>2. Pushed(Save)
    BY <1>1, <2>1, NewFrames, PushEffect
  <2> QED
    BY <1>1, <2>1, <2>2
<1> QED
  BY <1>1, <1>2, <1>3, <1>4, <1>5 DEF Message

(* The batches of files.                                                    *)
LEMMA BatchEffect ==
  ASSUME TypeOK
  PROVE  /\ Decode => Top.pc = "decode" /\ Top \in BatchFrame /\ Goes("next")
         /\ ShowBox => Top.pc = "decode" /\ Top \in BatchFrame /\ Goes("box")
         /\ DismissBox => Top.pc = "box" /\ Top \in BatchFrame /\ Goes("decode")
         /\ EndBatch => /\ Top.pc = "next" /\ Top \in BatchFrame /\ Returned
                        /\ \/ Top.kind = "paste" /\ holder' = IF holder = "dialog" THEN "nobody" ELSE holder
                           \/ Top.kind = "drop" /\ UNCHANGED holder /\ SameTo(Len(stack) - 1)
<1>1. ASSUME Decode PROVE Top.pc = "decode" /\ Top \in BatchFrame /\ Goes("next")
  BY <1>1, BatchTop, GotoEffect DEF Decode, At, BatchPcs
<1>2. ASSUME ShowBox PROVE Top.pc = "decode" /\ Top \in BatchFrame /\ Goes("box")
  BY <1>2, BatchTop, GotoEffect DEF ShowBox, At, BatchPcs
<1>3. ASSUME DismissBox PROVE Top.pc = "box" /\ Top \in BatchFrame /\ Goes("decode")
  BY <1>3, BatchTop, GotoEffect DEF DismissBox, At, BatchPcs
<1>4. ASSUME EndBatch
      PROVE  /\ Top.pc = "next" /\ Top \in BatchFrame /\ Returned
             /\ \/ Top.kind = "paste" /\ holder' = IF holder = "dialog" THEN "nobody" ELSE holder
                \/ Top.kind = "drop" /\ UNCHANGED holder /\ SameTo(Len(stack) - 1)
  <2>1. /\ stack # <<>> /\ Top.pc = "next" /\ Top \in BatchFrame /\ Top.kind \in {"drop", "paste"}
        /\ stack \in Seq(Frame)
    BY <1>4, BatchTop DEF EndBatch, At, BatchPcs, TypeOK
  <2>2. CASE Top.kind = "paste"
    <3>1. CloseClipboard(Front(stack))
      BY <1>4, <2>2 DEF EndBatch
    <3> QED
      BY <2>1, <2>2, <3>1, CloseEffect DEF CloseClipboard
  <2>3. CASE Top.kind = "drop"
    <3>1. Return /\ UNCHANGED holder
      BY <1>4, <2>3 DEF EndBatch
    <3> QED
      BY <2>1, <2>3, <3>1, ReturnEffect
  <2> QED
    BY <2>1, <2>2, <2>3
<1> QED
  BY <1>1, <1>2, <1>3, <1>4

LEMMA MenuEffect ==
  ASSUME TypeOK
  PROVE  /\ OpenMenu => /\ Input
                        /\ \E items \in SUBSET {"copy", "save", "paste"} :
                             /\ Pushed(Menu(items))
                             /\ "copy" \in items => picture.of # 0 /\ picture.fits
         /\ \A item : ChooseItem(item) => At("menu") /\ Top \in MenuFrame /\ Returned /\ SameTo(Len(stack) - 1)
         /\ CloseMenu => At("menu") /\ Returned /\ SameTo(Len(stack) - 1)
<1>1. stack \in Seq(Frame) /\ picture \in Picture
  BY DEF TypeOK
<1>2. ASSUME OpenMenu
      PROVE  \E items \in SUBSET {"copy", "save", "paste"} :
               Pushed(Menu(items)) /\ ("copy" \in items => picture.of # 0 /\ picture.fits)
  <2>1. PICK items \in {{}, ItemsOfPicture, IF contents = "files" THEN {"paste"} ELSE {}} :
          Push(Menu(items))
    BY <1>2 DEF OpenMenu
  <2>2. items \in SUBSET {"copy", "save", "paste"}
    BY DEF ItemsOfPicture
  <2>3. "copy" \in items => picture.of # 0 /\ picture.fits
    BY <1>1 DEF ItemsOfPicture, Picture
  <2>4. Pushed(Menu(items))
    BY <1>1, <2>1, <2>2, NewFrames, PushEffect
  <2> QED
    BY <2>2, <2>3, <2>4
<1>3. ASSUME NEW item, ChooseItem(item)
      PROVE  At("menu") /\ Top \in MenuFrame /\ Returned /\ SameTo(Len(stack) - 1)
  <2>1. stack # <<>> /\ Top.pc = "menu" /\ Return
    BY <1>3 DEF ChooseItem, At
  <2>2. Top \in MenuFrame
    BY <2>1, TopFacts, FrameFacts
  <2> QED
    BY <1>1, <2>1, <2>2, ReturnEffect DEF At
<1>4. ASSUME CloseMenu PROVE At("menu") /\ Returned /\ SameTo(Len(stack) - 1)
  BY <1>1, <1>4, ReturnEffect DEF CloseMenu, At
<1> QED
  BY <1>2, <1>3, <1>4 DEF OpenMenu

LEMMA FreeDibEffect ==
  ASSUME FreeDib, hNewDib \in {"ours", "none"}
  PROVE  hNewDib' \in {"freed", "none"}
BY DEF FreeDib

LEMMA CopyEffect ==
  ASSUME TypeOK
  PROVE  /\ CreateDib => /\ Top.pc = "create" /\ Top.kind = "copy"
                         /\ \/ Goes("open") /\ hNewDib' \in {"ours", "none"}
                            \/ Returned /\ SameTo(Len(stack) - 1) /\ UNCHANGED hNewDib
         /\ OpenForDib => /\ Top.pc = "open" /\ Top.kind = "copy"
                          /\ \/ /\ holder = "other" /\ Returned /\ SameTo(Len(stack) - 1)
                                /\ FreeDib /\ UNCHANGED holder
                             \/ Goes("empty") /\ holder' = "dialog" /\ UNCHANGED hNewDib
         /\ EmptyClipboard => /\ Top.pc = "empty" /\ Top.kind = "copy"
                              /\ \/ /\ Returned /\ FreeDib
                                    /\ holder' = IF holder = "dialog" THEN "nobody" ELSE holder
                                 \/ /\ Became(MovedTo("set")) /\ UNCHANGED <<holder, hNewDib>>
                                    /\ Moved(Top, MovedTo("set")) /\ MovedTo("set").pc = "set"
         /\ SetData => /\ Top.pc = "set" /\ Top.kind = "copy" /\ Returned
                       /\ holder' = IF holder = "dialog" THEN "nobody" ELSE holder
                       /\ \/ hNewDib' = "clipboard"
                          \/ hNewDib = "none" /\ UNCHANGED hNewDib
                          \/ FreeDib
<1>1. stack \in Seq(Frame)
  BY DEF TypeOK
<1>2. ASSUME stack # <<>>, Top.pc \in CopyPcs
      PROVE  /\ Top.kind = "copy" /\ \A pc \in CopyPcs : Goto(pc) => Goes(pc)
             /\ Return => Returned /\ SameTo(Len(stack) - 1)
  BY <1>1, <1>2, CopyTop, GotoEffect, ReturnEffect
<1>3. ASSUME CreateDib
      PROVE  /\ Top.pc = "create" /\ Top.kind = "copy"
             /\ \/ Goes("open") /\ hNewDib' \in {"ours", "none"}
                \/ Returned /\ SameTo(Len(stack) - 1) /\ UNCHANGED hNewDib
  BY <1>2, <1>3 DEF CreateDib, At, CopyPcs
<1>4. ASSUME OpenForDib
      PROVE  /\ Top.pc = "open" /\ Top.kind = "copy"
             /\ \/ /\ holder = "other" /\ Returned /\ SameTo(Len(stack) - 1)
                   /\ FreeDib /\ UNCHANGED holder
                \/ Goes("empty") /\ holder' = "dialog" /\ UNCHANGED hNewDib
  BY <1>2, <1>4 DEF OpenForDib, At, CopyPcs
<1>5. ASSUME EmptyClipboard
      PROVE  /\ Top.pc = "empty" /\ Top.kind = "copy"
             /\ \/ /\ Returned /\ FreeDib
                   /\ holder' = IF holder = "dialog" THEN "nobody" ELSE holder
                \/ /\ Became(MovedTo("set")) /\ UNCHANGED <<holder, hNewDib>>
                   /\ Moved(Top, MovedTo("set")) /\ MovedTo("set").pc = "set"
  <2>1. /\ stack # <<>> /\ Top.pc = "empty" /\ Top.kind = "copy"
        /\ Len(stack) \in Nat \ {0} /\ Top = stack[Len(stack)] /\ Top \in Frame
    BY <1>2, <1>5, TopFacts DEF EmptyClipboard, At, CopyPcs
  <2>2. CASE FreeDib /\ CloseClipboard(Front(stack)) /\ UNCHANGED contents
    BY <1>1, <2>1, <2>2, CloseEffect DEF CloseClipboard
  <2>3. CASE /\ contents' = "empty"
             /\ stack' = [Lists(FALSE, stack) EXCEPT ![Len(stack)].pc = "set"]
             /\ UNCHANGED <<holder, hNewDib>>
    <3> DEFINE s == Lists(FALSE, stack)
    <3>1. /\ s \in Seq(Frame) /\ Len(s) = Len(stack)
          /\ \A i \in 1..Len(stack) : Kept(stack[i], s[i])
      BY <1>1, ListsEffect
    <3> HIDE DEF s
    <3>2. s[Len(stack)] = Top
      <4>1. Kept(stack[Len(stack)], s[Len(stack)])
        BY <2>1, <3>1
      <4> QED
        BY <2>1, <4>1 DEF Kept
    <3>3. Moved(Top, MovedTo("set")) /\ MovedTo("set").pc = "set"
      BY <2>1, MovedFrame DEF MovedTo, PcsOf, CopyPcs
    <3>4. MovedTo("set") \in Frame
      BY <3>3 DEF Moved
    <3>5. stack' = [s EXCEPT ![Len(stack)] = MovedTo("set")]
      BY <2>1, <2>3, <3>1, <3>2 DEF MovedTo, s
    <3>6. /\ stack' \in Seq(Frame) /\ Len(stack') = Len(stack)
          /\ stack'[Len(stack)] = MovedTo("set")
          /\ \A i \in 1..(Len(stack) - 1) : stack'[i] = s[i]
      BY <2>1, <3>1, <3>4, <3>5, ExceptSeq
    <3>7. \A i \in 1..(Len(stack) - 1) : Kept(stack[i], stack'[i])
      BY <2>1, <3>1, <3>6
    <3> QED
      BY <2>1, <2>3, <3>3, <3>6, <3>7 DEF Became, KeptTo
  <2> QED
    BY <1>5, <2>1, <2>2, <2>3 DEF EmptyClipboard
<1>6. ASSUME SetData
      PROVE  /\ Top.pc = "set" /\ Top.kind = "copy" /\ Returned
             /\ holder' = IF holder = "dialog" THEN "nobody" ELSE holder
             /\ \/ hNewDib' = "clipboard"
                \/ hNewDib = "none" /\ UNCHANGED hNewDib
                \/ FreeDib
  <2>1. stack # <<>> /\ Top.pc = "set" /\ Top.kind = "copy" /\ CloseClipboard(Front(stack))
    BY <1>2, <1>6 DEF SetData, At, CopyPcs
  <2> QED
    BY <1>1, <1>6, <2>1, CloseEffect DEF SetData, CloseClipboard
<1> QED
  BY <1>3, <1>4, <1>5, <1>6

(* The command to save.                                                     *)
Chosen(f, png, file) ==
  [[[[f EXCEPT !.pc = "prepare"] EXCEPT !.png = png] EXCEPT !.file = file] EXCEPT !.picture = picture]
Prepared(f, whole) == [[f EXCEPT !.pc = "file"] EXCEPT !.whole = whole]
Created(f) == [[f EXCEPT !.pc = IF f.png THEN "bits" ELSE "header"] EXCEPT !.file = "partial"]

LEMMA ChosenFrame ==
  ASSUME NEW f \in SaveFrame, picture \in Picture, NEW png \in BOOLEAN,
         NEW file \in {"absent", "old"}
  PROVE  /\ Chosen(f, png, file) \in SaveFrame /\ Chosen(f, png, file).pc = "prepare"
         /\ Chosen(f, png, file).file = file /\ Chosen(f, png, file).picture = picture
         /\ Chosen(f, png, file).name = f.name /\ Chosen(f, png, file).opened = f.opened
         /\ Chosen(f, png, file).whole = f.whole
BY DEF Chosen, SaveFrame

LEMMA SaveFrames ==
  ASSUME NEW f \in SaveFrame, picture \in Picture
  PROVE  /\ \A png \in BOOLEAN, file \in {"absent", "old"} :
              LET g == Chosen(f, png, file)
              IN  /\ g \in SaveFrame /\ g.pc = "prepare" /\ g.file = file /\ g.picture = picture
                  /\ g.name = f.name /\ g.opened = f.opened /\ g.whole = f.whole
         /\ \A whole \in BOOLEAN :
              LET g == Prepared(f, whole)
              IN  /\ g \in SaveFrame /\ g.pc = "file" /\ g.file = f.file /\ g.picture = f.picture
                  /\ g.name = f.name /\ g.opened = f.opened /\ g.png = f.png /\ g.whole = whole
         /\ LET g == Created(f)
            IN  /\ g \in SaveFrame /\ g.pc \in {"bits", "header"} /\ g.picture = f.picture
                /\ g.name = f.name /\ g.opened = f.opened /\ g.png = f.png /\ g.whole = f.whole
<1>1. ASSUME NEW png \in BOOLEAN, NEW file \in {"absent", "old"}
      PROVE  LET g == Chosen(f, png, file)
             IN  /\ g \in SaveFrame /\ g.pc = "prepare" /\ g.file = file /\ g.picture = picture
                 /\ g.name = f.name /\ g.opened = f.opened /\ g.whole = f.whole
  BY <1>1, ChosenFrame
<1>3. ASSUME NEW whole \in BOOLEAN
      PROVE  LET g == Prepared(f, whole)
             IN  /\ g \in SaveFrame /\ g.pc = "file" /\ g.file = f.file /\ g.picture = f.picture
                 /\ g.name = f.name /\ g.opened = f.opened /\ g.png = f.png /\ g.whole = whole
  BY <1>3 DEF Prepared, SaveFrame
<1>2. LET g == Created(f)
      IN  /\ g \in SaveFrame /\ g.pc \in {"bits", "header"} /\ g.picture = f.picture
          /\ g.name = f.name /\ g.opened = f.opened /\ g.png = f.png /\ g.whole = f.whole
  <2>1. CASE f.png = TRUE
    BY <2>1 DEF Created, SaveFrame
  <2>2. CASE f.png = FALSE
    BY <2>2 DEF Created, SaveFrame
  <2> QED
    BY <2>1, <2>2 DEF SaveFrame
<1> QED
  BY <1>1, <1>2, <1>3

Saving == [file : {"none", "absent", "old", "partial", "complete", "damagedPng",
                   "damagedBmp"},
           told : BOOLEAN, undeleted : BOOLEAN, picture : Nat, name : Nat, overtaken : BOOLEAN]

(* What was converted is ready to be written.                               *)
Readied ==
  /\ \E whole \in BOOLEAN : /\ Top.png \/ whole
                            /\ Became(Prepared(Top, whole))
  /\ SameTo(Len(stack) - 1)

(* A failure tells what is left of the file.                                *)
Told(file, undeleted) == Goes("failed") /\ Ended(file, TRUE, undeleted)

LEMMA SaveEffect ==
  ASSUME TypeOK
  PROVE  /\ \A png \in BOOLEAN, file \in {"absent", "old"} :
              ChooseName(png, file) =>
                /\ Top \in SaveFrame /\ Top.pc = "name"
                /\ Became(Chosen(Top, png, file)) /\ SameTo(Len(stack) - 1)
         /\ CancelName => Top \in SaveFrame /\ Returned /\ SameTo(Len(stack) - 1)
         /\ Prepare => /\ Top \in SaveFrame /\ Top.pc = "prepare"
                       /\ (Readied /\ UNCHANGED saved) \/ Told(Top.file, FALSE)
         /\ CreateFile => /\ Top \in SaveFrame /\ Top.pc = "file"
                          /\ \/ /\ Became(Created(Top)) /\ SameTo(Len(stack) - 1)
                                /\ UNCHANGED saved
                             \/ Told(Top.file, FALSE)
         /\ WriteHeader => /\ Top \in SaveFrame /\ Top.pc = "header"
                           /\ \/ Goes("bits") /\ UNCHANGED saved
                              \/ Told("absent", FALSE) \/ Told("partial", TRUE)
         /\ WriteBits => /\ Top \in SaveFrame /\ Top.pc = "bits"
                         /\ \/ /\ Returned /\ SameTo(Len(stack) - 1)
                               /\ Ended(Result, FALSE, FALSE)
                            \/ Told("absent", FALSE) \/ Told("partial", TRUE)
         /\ DismissFailure => Top \in SaveFrame /\ Returned /\ SameTo(Len(stack) - 1)
<1>1. stack \in Seq(Frame) /\ picture \in Picture
  BY DEF TypeOK
<1>2. ASSUME stack # <<>>, Top.pc \in SavePcs
      PROVE  /\ Top \in SaveFrame /\ \A pc \in SavePcs : Goto(pc) => Goes(pc)
             /\ Return => Returned /\ SameTo(Len(stack) - 1)
             /\ Len(stack) \in Nat \ {0} /\ Top = stack[Len(stack)]
  BY <1>1, <1>2, SaveTop, TopFacts, GotoEffect, ReturnEffect
<1>3. ASSUME NEW png \in BOOLEAN, NEW file \in {"absent", "old"}, ChooseName(png, file)
      PROVE  /\ Top \in SaveFrame /\ Top.pc = "name"
             /\ Became(Chosen(Top, png, file)) /\ SameTo(Len(stack) - 1)
  <2>1. stack # <<>> /\ Top.pc = "name"
    BY <1>3 DEF ChooseName, At
  <2>2. Top \in SaveFrame /\ Len(stack) \in Nat \ {0} /\ Top = stack[Len(stack)]
    BY <1>2, <2>1 DEF SavePcs
  <2>3. stack' = [stack EXCEPT ![Len(stack)] = Chosen(Top, png, file)]
    BY <1>3, <2>2 DEF ChooseName, Chosen
  <2>4. Chosen(Top, png, file) \in Frame
    BY <1>1, <2>2, SaveFrames DEF Frame
  <2> QED
    BY <1>1, <2>1, <2>2, <2>3, <2>4, BecomeEffect
<1>4. ASSUME CancelName PROVE Top \in SaveFrame /\ Returned /\ SameTo(Len(stack) - 1)
  BY <1>2, <1>4 DEF CancelName, At, SavePcs
<1>5. ASSUME Prepare
      PROVE  /\ Top \in SaveFrame /\ Top.pc = "prepare"
             /\ (Readied /\ UNCHANGED saved) \/ Told(Top.file, FALSE)
  <2>1. stack # <<>> /\ Top.pc = "prepare"
    BY <1>5 DEF Prepare, At
  <2>2. /\ Top \in SaveFrame /\ Len(stack) \in Nat \ {0} /\ Top = stack[Len(stack)]
        /\ Goto("failed") => Goes("failed")
    BY <1>2, <2>1 DEF SavePcs
  <2>3. ASSUME NEW whole \in BOOLEAN, Top.png \/ whole, UNCHANGED saved,
               stack' = [stack EXCEPT ![Len(stack)] = [@ EXCEPT !.pc = "file", !.whole = whole]]
        PROVE  Readied /\ UNCHANGED saved
    <3>1. stack' = [stack EXCEPT ![Len(stack)] = Prepared(Top, whole)]
      BY <2>2, <2>3 DEF Prepared
    <3>2. Prepared(Top, whole) \in Frame
      BY <1>1, <2>2, SaveFrames DEF Frame
    <3>3. Became(Prepared(Top, whole)) /\ SameTo(Len(stack) - 1)
      BY <1>1, <2>1, <2>2, <3>1, <3>2, BecomeEffect
    <3> QED
      BY <2>3, <3>3 DEF Readied
  <2>4. CASE Fail(Top.file, FALSE)
    BY <2>1, <2>2, <2>4 DEF Fail, Told
  <2> QED
    BY <1>5, <2>1, <2>2, <2>3, <2>4 DEF Prepare
<1>6. ASSUME CreateFile
      PROVE  /\ Top \in SaveFrame /\ Top.pc = "file"
             /\ \/ /\ Became(Created(Top)) /\ SameTo(Len(stack) - 1)
                   /\ UNCHANGED saved
                \/ Told(Top.file, FALSE)
  <2>1. stack # <<>> /\ Top.pc = "file"
    BY <1>6 DEF CreateFile, At
  <2>2. /\ Top \in SaveFrame /\ Len(stack) \in Nat \ {0} /\ Top = stack[Len(stack)]
        /\ Goto("failed") => Goes("failed")
    BY <1>2, <2>1 DEF SavePcs
  <2>3. CASE /\ stack' = [stack EXCEPT ![Len(stack)] =
                   [@ EXCEPT !.pc = IF Top.png THEN "bits" ELSE "header", !.file = "partial"]]
             /\ UNCHANGED saved
    <3>1. stack' = [stack EXCEPT ![Len(stack)] = Created(Top)]
      BY <2>2, <2>3 DEF Created
    <3>2. Created(Top) \in Frame
      BY <1>1, <2>2, SaveFrames DEF Frame
    <3> QED
      BY <1>1, <2>1, <2>2, <2>3, <3>1, <3>2, BecomeEffect
  <2>4. CASE Fail(Top.file, FALSE)
    BY <2>1, <2>2, <2>4 DEF Fail, Told
  <2> QED
    BY <1>6, <2>3, <2>4 DEF CreateFile
<1>7. ASSUME WriteHeader
      PROVE  /\ Top \in SaveFrame /\ Top.pc = "header"
             /\ \/ Goes("bits") /\ UNCHANGED saved
                \/ Told("absent", FALSE) \/ Told("partial", TRUE)
  BY <1>2, <1>7 DEF WriteHeader, At, SavePcs, WriteFails, Fail, Told
<1>8. ASSUME WriteBits
      PROVE  /\ Top \in SaveFrame /\ Top.pc = "bits"
             /\ \/ /\ Returned /\ SameTo(Len(stack) - 1)
                   /\ Ended(Result, FALSE, FALSE)
                \/ Told("absent", FALSE) \/ Told("partial", TRUE)
  BY <1>2, <1>8 DEF WriteBits, At, SavePcs, WriteFails, Fail, Told
<1>9. ASSUME DismissFailure PROVE Top \in SaveFrame /\ Returned /\ SameTo(Len(stack) - 1)
  BY <1>2, <1>9 DEF DismissFailure, At, SavePcs
<1> QED
  BY <1>3, <1>4, <1>5, <1>6, <1>7, <1>8, <1>9

LEMMA QueryEffect ==
  ASSUME TypeOK
  PROVE  /\ ClickQuery => Input /\ Pushed(Query) /\ SameTo(Len(stack))
         /\ PromptOffline => Top.kind = "query" /\ Goes("prompt")
         /\ GoOnline => Top.kind = "query" /\ Goes("ask")
         /\ EndQuery => Top.kind = "query" /\ Returned /\ SameTo(Len(stack) - 1)
<1>1. stack \in Seq(Frame) /\ Query \in Frame
  BY NewFrames DEF TypeOK
<1>2. ASSUME ClickQuery PROVE Input /\ Pushed(Query) /\ SameTo(Len(stack))
  BY <1>1, <1>2, PushEffect DEF ClickQuery
<1>3. ASSUME PromptOffline PROVE Top.kind = "query" /\ Goes("prompt")
  BY <1>3, QueryTop, GotoEffect DEF PromptOffline, At
<1>4. ASSUME GoOnline PROVE Top.kind = "query" /\ Goes("ask")
  BY <1>4, QueryTop, GotoEffect DEF GoOnline, At
<1>5. ASSUME EndQuery PROVE Top.kind = "query" /\ Returned /\ SameTo(Len(stack) - 1)
  BY <1>1, <1>5, QueryTop, ReturnEffect DEF EndQuery, At
<1> QED
  BY <1>2, <1>3, <1>4, <1>5

(* Messages are only appended, or the first one is dispatched.              *)
LEMMA PostEffect ==
  ASSUME TypeOK, NEW m \in Message, Post(m)
  PROVE  /\ queue' \in Seq(Message) /\ Len(queue') = Len(queue) + 1
         /\ queue'[Len(queue) + 1] = m
         /\ \A q \in 1..Len(queue) : queue'[q] = queue[q]
BY DEF TypeOK, Post

LEMMA TailEffect ==
  ASSUME TypeOK, queue # <<>>, queue' = Tail(queue)
  PROVE  /\ queue' \in Seq(Message) /\ Len(queue') = Len(queue) - 1 /\ Len(queue) \in Nat \ {0}
         /\ Head(queue) = queue[1]
         /\ \A q \in 1..Len(queue') : queue'[q] = queue[q + 1] /\ q + 1 \in 1..Len(queue)
<1>1. queue \in Seq(Message) /\ Len(queue) \in Nat \ {0}
  BY EmptySeq DEF TypeOK
<1> QED
  BY <1>1, HeadTailProperties

(* The message of each action that posts.                                   *)
LEMMA Messages ==
  ASSUME TypeOK
  PROVE  /\ \A n \in 1..MaxFiles : PostDrop(n) =>
              \E m \in Message : m.type = "drop" /\ Post(m) /\ offered' \in Nat
         /\ PostPaste => \E m \in Message : m.type = "paste" /\ m.opened = latest /\ Post(m)
         /\ \A item \in {"copy", "save", "paste"} : ChooseItem(item) =>
              \E m \in Message : /\ m.type = item /\ m.opened = Top.opened /\ Post(m)
                                 /\ item \in Top.items
<1>1. ASSUME NEW n \in 1..MaxFiles, PostDrop(n)
      PROVE  \E m \in Message : m.type = "drop" /\ Post(m) /\ offered' \in Nat
  <2>1. n \in Nat
    OBVIOUS
  <2>2. [type |-> "drop", files |-> n] \in Message
    BY <2>1 DEF Message
  <2>3. offered' \in Nat
    BY <1>1, <2>1 DEF PostDrop, TypeOK
  <2>4. Post([type |-> "drop", files |-> n])
    BY <1>1 DEF PostDrop
  <2> QED
    BY <2>2, <2>3, <2>4
<1>2. ASSUME PostPaste
      PROVE  \E m \in Message : m.type = "paste" /\ m.opened = latest /\ Post(m)
  <2>1. [type |-> "paste", opened |-> latest] \in Message
    BY DEF Message, TypeOK
  <2> QED
    BY <1>2, <2>1 DEF PostPaste
<1>3. ASSUME NEW item \in {"copy", "save", "paste"}, ChooseItem(item)
      PROVE  \E m \in Message : /\ m.type = item /\ m.opened = Top.opened /\ Post(m)
                                /\ item \in Top.items
  <2>1. Top.opened \in Nat
    BY <1>3, MenuEffect DEF MenuFrame
  <2>2. [type |-> item, opened |-> Top.opened] \in Message
    BY <2>1 DEF Message
  <2> QED
    BY <1>3, <2>2 DEF ChooseItem
<1> QED
  BY <1>1, <1>2, <1>3

-----------------------------------------------------------------------------
(* Type correctness.                                                        *)
LEMMA ShapeTypes ==
  ASSUME NEW f, Still \/ Pushed(f) \/ Returned \/ Became(f)
  PROVE  stack' \in Seq(Frame)
BY DEF Still, Pushed, Returned, Became

LEMMA GoesType == ASSUME NEW pc, Goes(pc) PROVE stack' \in Seq(Frame)
BY DEF Goes, Became

LEMMA ReadiedType == ASSUME Readied PROVE stack' \in Seq(Frame)
BY DEF Readied, Became

LEMMA ResultWritten == Result \in Written
BY DEF Result, Written

LEMMA EndedType ==
  ASSUME TypeOK, Top \in SaveFrame, 
         NEW file \in {"absent", "old", "partial", "none"} \cup Written,
         NEW told \in BOOLEAN, NEW undeleted \in BOOLEAN, Ended(file, told, undeleted)
  PROVE  saved' \in Saving /\ saved'.file = file /\ saved'.told = told
         /\ saved'.undeleted = undeleted /\ saved'.picture = Top.picture.of
         /\ saved'.name = Top.name /\ saved'.overtaken = (Top.opened # latest)
<1>1. Top.picture.of \in Nat /\ Top.name \in Nat /\ (Top.opened # latest) \in BOOLEAN
  BY DEF SaveFrame, Picture
<1> QED
  BY <1>1 DEF Ended, Saving, Written

(* A step that changes no more than the handlers and what was saved.        *)
LEMMA FrameType ==
  ASSUME TypeOK, stack' \in Seq(Frame), saved' \in Saving, UNCHANGED saveFrame
  PROVE  TypeOK'
<1>1. /\ UNCHANGED <<queue, offered, boxed, latest, named, picture>>
      /\ UNCHANGED <<holder, contents, hNewDib, window, subclassed>>
  BY DEF saveFrame, pictures, clipboard, output
<1> QED
  BY <1>1 DEF TypeOK, Saving

LEMMA TypeStep == TypeOK /\ [Next]_vars => TypeOK'
<1> SUFFICES ASSUME TypeOK, [Next]_vars PROVE TypeOK'
  OBVIOUS
<1> USE DEF pictures, clipboard, output
<1>s. saved \in Saving /\ hNewDib \in {"none", "ours", "clipboard", "freed", "twice"}
      /\ holder \in {"nobody", "dialog", "other"}
  BY DEF TypeOK, Saving
<1>c. (IF holder = "dialog" THEN "nobody" ELSE holder) \in {"nobody", "dialog", "other"}
  BY <1>s
<1>d. FreeDib => hNewDib' \in {"none", "ours", "clipboard", "freed", "twice"}
  BY DEF FreeDib
<1>1. ASSUME NEW n \in 1..MaxFiles, PostDrop(n) PROVE TypeOK'
  <2>1. queue' \in Seq(Message) /\ offered' \in Nat
    BY <1>1, Messages, PostEffect
  <2> QED
    BY <1>1, <2>1 DEF PostDrop, TypeOK
<1>2. ASSUME PostPaste PROVE TypeOK'
  <2>1. queue' \in Seq(Message)
    BY <1>2, Messages, PostEffect
  <2> QED
    BY <1>2, <2>1 DEF PostPaste, TypeOK
<1>3. ASSUME DispatchPosted PROVE TypeOK'
  <2>1. queue' \in Seq(Message) /\ offered' \in Nat
    BY <1>3, DispatchEffect, TailEffect
  <2>2. stack' \in Seq(Frame) /\ holder' \in {"nobody", "dialog", "other"}
    <3>1. \/ \E f : Pushed(f) /\ UNCHANGED holder
          \/ \E f : Pushed(f) /\ holder' = "dialog"
          \/ Still /\ UNCHANGED holder
          \/ Still /\ holder' = "nobody"
      BY <1>3, DispatchEffect
    <3> QED
      BY <1>s, <3>1, ShapeTypes
  <2>3. UNCHANGED <<boxed, pictures, contents, hNewDib, saved, output>>
    BY <1>3, DispatchEffect
  <2> QED
    BY <2>1, <2>2, <2>3 DEF TypeOK
<1>4. ASSUME OthersOpen \/ OthersReplace \/ OthersClose \/ CopyText PROVE TypeOK'
  <2>1. /\ holder' \in {"nobody", "dialog", "other"}
        /\ contents' \in {"files", "other", "empty", "picture", "promised"}
    BY <1>4 DEF OthersOpen, OthersReplace, OthersClose, CopyText, TypeOK
  <2>2. UNCHANGED <<queue, offered, stack, boxed, pictures, hNewDib, saved, output>>
    BY <1>4 DEF OthersOpen, OthersReplace, OthersClose, CopyText
  <2> QED
    BY <2>1, <2>2 DEF TypeOK
<1>w. ASSUME SetWordWrap PROVE TypeOK'
  <2>1. subclassed' \in BOOLEAN /\ (window' = window + 1 \/ window' = window)
    BY <1>w, Zenon DEF SetWordWrap
  <2>2. window' \in Nat
    BY <2>1 DEF TypeOK
  <2> QED
    BY <1>w, <2>1, <2>2 DEF SetWordWrap, TypeOK
<1>5. ASSUME StartDump PROVE TypeOK'
  <2>1. stack' \in Seq(Frame)
    BY <1>5, StartDumpEffect, ShapeTypes
  <2>2. latest' \in Nat /\ named' \in Nat /\ picture' \in Picture
    BY <1>5 DEF StartDump, TypeOK, NoPicture, Picture
  <2> QED
    BY <1>5, <2>1, <2>2 DEF StartDump, TypeOK
<1>6. ASSUME Decode PROVE TypeOK'
  <2>1. stack' \in Seq(Frame) /\ Top \in BatchFrame
    BY <1>6, BatchEffect, GoesType
  <2>2. picture' \in Picture
    BY <1>6, <2>1 DEF Decode, BatchFrame, Picture, TypeOK
  <2> QED
    BY <1>6, <2>1, <2>2 DEF Decode, TypeOK
<1>7. ASSUME ShowBox \/ DismissBox PROVE TypeOK'
  <2>1. stack' \in Seq(Frame)
    BY <1>7, BatchEffect, GoesType
  <2>2. UNCHANGED <<queue, offered, pictures, clipboard, saved, output>> /\ boxed' \in BOOLEAN
    BY <1>7 DEF ShowBox, DismissBox, TypeOK
  <2> QED
    BY <2>1, <2>2 DEF TypeOK
<1>8. ASSUME EndBatch PROVE TypeOK'
  <2>1. stack' \in Seq(Frame) /\ holder' \in {"nobody", "dialog", "other"}
    BY <1>8, <1>s, <1>c, BatchEffect, ShapeTypes
  <2> QED
    BY <1>8, <2>1 DEF EndBatch, TypeOK
<1>9. ASSUME OpenMenu \/ CloseMenu PROVE TypeOK'
  <2>1. stack' \in Seq(Frame)
    BY <1>9, MenuEffect, ShapeTypes
  <2>2. UNCHANGED saveFrame /\ UNCHANGED saved
    BY <1>9 DEF OpenMenu, CloseMenu, saveFrame
  <2>3. saved' \in Saving
    BY <2>2 DEF TypeOK, Saving
  <2> QED
    BY <2>1, <2>2, <2>3, FrameType
<1>10. ASSUME NEW item \in {"copy", "save", "paste"}, ChooseItem(item) PROVE TypeOK'
  <2>1. stack' \in Seq(Frame) /\ queue' \in Seq(Message)
    BY <1>10, MenuEffect, ShapeTypes, Messages, PostEffect
  <2> QED
    BY <1>10, <2>1 DEF ChooseItem, TypeOK
<1>11. ASSUME CreateDib PROVE TypeOK'
  <2>1. stack' \in Seq(Frame) /\ hNewDib' \in {"none", "ours", "clipboard", "freed", "twice"}
    BY <1>11, <1>s, CopyEffect, GoesType, ShapeTypes
  <2> QED
    BY <1>11, <2>1 DEF CreateDib, copyFrame, TypeOK
<1>12. ASSUME OpenForDib PROVE TypeOK'
  <2>1. /\ stack' \in Seq(Frame) /\ hNewDib' \in {"none", "ours", "clipboard", "freed", "twice"}
        /\ holder' \in {"nobody", "dialog", "other"}
    BY <1>12, <1>s, <1>d, CopyEffect, GoesType, ShapeTypes
  <2> QED
    BY <1>12, <2>1 DEF OpenForDib, copyFrame, TypeOK
<1>13. ASSUME EmptyClipboard PROVE TypeOK'
  <2>1. /\ stack' \in Seq(Frame) /\ hNewDib' \in {"none", "ours", "clipboard", "freed", "twice"}
        /\ holder' \in {"nobody", "dialog", "other"}
    BY <1>13, <1>s, <1>c, <1>d, CopyEffect, ShapeTypes
  <2>2. contents' \in {"files", "other", "empty", "picture", "promised"}
    BY <1>13 DEF EmptyClipboard, TypeOK
  <2> QED
    BY <1>13, <2>1, <2>2 DEF EmptyClipboard, copyFrame, TypeOK
<1>14. ASSUME SetData PROVE TypeOK'
  <2>1. /\ stack' \in Seq(Frame) /\ hNewDib' \in {"none", "ours", "clipboard", "freed", "twice"}
        /\ holder' \in {"nobody", "dialog", "other"}
    BY <1>14, <1>s, <1>c, <1>d, CopyEffect, ShapeTypes
  <2>2. contents' \in {"files", "other", "empty", "picture", "promised"}
    BY <1>14 DEF SetData, TypeOK
  <2> QED
    BY <1>14, <2>1, <2>2 DEF SetData, copyFrame, TypeOK
<1>t. ASSUME Top \in SaveFrame, NEW file \in {"absent", "old", "partial", "none"},
             NEW undeleted \in BOOLEAN, Told(file, undeleted)
      PROVE  stack' \in Seq(Frame) /\ saved' \in Saving
  BY <1>t, GoesType, EndedType DEF Told
<1>15. ASSUME NEW png \in BOOLEAN, NEW file \in {"absent", "old"}, ChooseName(png, file)
       PROVE  TypeOK'
  <2>1. stack' \in Seq(Frame)
    BY <1>15, SaveEffect, ShapeTypes
  <2>2. UNCHANGED saveFrame /\ UNCHANGED saved
    BY <1>15 DEF ChooseName
  <2>3. saved' \in Saving
    BY <2>2 DEF TypeOK, Saving
  <2> QED
    BY <2>1, <2>2, <2>3, FrameType
<1>16. ASSUME CancelName \/ DismissFailure PROVE TypeOK'
  <2>1. stack' \in Seq(Frame)
    BY <1>16, SaveEffect, ShapeTypes
  <2>2. UNCHANGED saveFrame /\ UNCHANGED saved
    BY <1>16 DEF CancelName, DismissFailure
  <2>3. saved' \in Saving
    BY <2>2 DEF TypeOK, Saving
  <2> QED
    BY <2>1, <2>2, <2>3, FrameType
<1>17. ASSUME Prepare \/ CreateFile \/ WriteHeader PROVE TypeOK'
  <2>1. Top \in SaveFrame /\ Top.file \in {"absent", "old", "partial", "none"}
    BY <1>17, SaveEffect DEF SaveFrame
  <2>2. stack' \in Seq(Frame) /\ saved' \in Saving
    BY <1>17, <1>s, <1>t, <2>1, SaveEffect, GoesType, ReadiedType, ShapeTypes
  <2>3. UNCHANGED saveFrame
    BY <1>17 DEF Prepare, CreateFile, WriteHeader
  <2> QED
    BY <2>2, <2>3, FrameType
<1>18. ASSUME WriteBits PROVE TypeOK'
  <2>1. stack' \in Seq(Frame) /\ saved' \in Saving
    BY <1>18, <1>t, SaveEffect, ShapeTypes, EndedType, ResultWritten
  <2>2. UNCHANGED saveFrame
    BY <1>18 DEF WriteBits
  <2> QED
    BY <2>1, <2>2, FrameType
<1>19. ASSUME ClickQuery \/ PromptOffline \/ GoOnline \/ EndQuery PROVE TypeOK'
  <2>1. stack' \in Seq(Frame)
    BY <1>19, QueryEffect, GoesType, ShapeTypes
  <2>2. UNCHANGED saveFrame /\ UNCHANGED saved
    BY <1>19 DEF ClickQuery, PromptOffline, GoOnline, EndQuery, queryFrame, saveFrame
  <2>3. saved' \in Saving
    BY <2>2 DEF TypeOK, Saving
  <2> QED
    BY <2>1, <2>2, <2>3, FrameType
<1>20. ASSUME UNCHANGED vars PROVE TypeOK'
  BY <1>20 DEF vars, TypeOK
<1> QED
  BY <1>1, <1>2, <1>3, <1>4, <1>w, <1>5, <1>6, <1>7, <1>8, <1>9, <1>10, <1>11, <1>12, <1>13,
     <1>14, <1>15, <1>16, <1>17, <1>18, <1>19, <1>20 DEF Next

LEMMA TypeInit == Init => TypeOK
<1> SUFFICES ASSUME Init PROVE TypeOK
  OBVIOUS
<1>1. picture \in Picture /\ saved \in Saving
  BY DEF Init, NoPicture, Picture, NotSaved, Saving
<1>2. queue \in Seq(Message) /\ stack \in Seq(Frame)
  BY EmptySeq DEF Init
<1> QED
  BY <1>1, <1>2 DEF Init, TypeOK, Saving

(* Handlers have the locals of their kind, however deep they nest.          *)
THEOREM CommandsTypeCorrect == Spec => []TypeOK
BY TypeInit, TypeStep, PTL DEF Spec

-----------------------------------------------------------------------------
(* Only the innermost handler runs.                                         *)
LEMMA StackShape ==
  ASSUME TypeOK, StackInv, boxed' = FALSE => boxed = FALSE, NEW f,
         \/ Still
         \/ Pushed(f) /\ AtPump /\ f.pc # "box"
         \/ Returned
         \/ Became(f) /\ (boxed' = FALSE => f.pc # "box")
  PROVE  StackInv'
<1>1. Len(stack) \in Nat /\ (stack # <<>> => Len(stack) \in Nat \ {0} /\ Top = stack[Len(stack)])
  BY TopFacts DEF TypeOK
<1>2. /\ Len(stack) <= MaxDepth
      /\ \A i \in 1..Len(stack) : i < Len(stack) => stack[i].pc \in PumpPcs
      /\ boxed' = FALSE => \A i \in 1..Len(stack) : stack[i].pc # "box"
  BY DEF StackInv
<1>3. CASE Still
  <2>1. Len(stack') = Len(stack) /\ \A i \in 1..Len(stack) : stack'[i].pc = stack[i].pc
    BY ONLY <1>3 DEF Still, KeptTo, Kept
  <2> QED
    BY ONLY <1>2, <2>1 DEF StackInv
<1>4. CASE Pushed(f) /\ AtPump /\ f.pc # "box"
  <2>1. /\ Len(stack') = Len(stack) + 1 /\ Len(stack) < MaxDepth
        /\ stack'[Len(stack) + 1] = f
        /\ \A i \in 1..Len(stack) : stack'[i].pc = stack[i].pc
    BY ONLY <1>4 DEF Pushed, KeptTo, Kept
  <2>2. stack # <<>> => stack[Len(stack)].pc \in PumpPcs
    BY ONLY <1>1, <1>4 DEF AtPump
  <2>3. stack = <<>> => Len(stack) = 0
    OBVIOUS
  <2>4. \A i \in 1..Len(stack) : stack[i].pc \in PumpPcs
    BY ONLY <1>1, <1>2, <2>2, <2>3
  <2>5. Len(stack) + 1 <= MaxDepth
    BY ONLY <1>1, <2>1, BoundsAssumption
  <2>6. \A i \in 1..(Len(stack) + 1) : i \in 1..Len(stack) \/ i = Len(stack) + 1
    BY ONLY <1>1
  <2>7. \A i \in 1..(Len(stack) + 1) : i < Len(stack) + 1 => i \in 1..Len(stack)
    BY ONLY <1>1
  <2>8. \A i \in 1..Len(stack') : i < Len(stack') => stack'[i].pc \in PumpPcs
    BY ONLY <2>1, <2>4, <2>7
  <2>9. boxed' = FALSE => \A i \in 1..Len(stack') : stack'[i].pc # "box"
    BY ONLY <1>2, <1>4, <2>1, <2>6
  <2> QED
    BY ONLY <2>1, <2>5, <2>8, <2>9 DEF StackInv
<1>5. CASE Returned
  <2>1. /\ Len(stack) \in Nat \ {0} /\ Len(stack') = Len(stack) - 1
        /\ \A i \in 1..(Len(stack) - 1) : stack'[i].pc = stack[i].pc
    BY ONLY <1>5 DEF Returned, KeptTo, Kept
  <2>2. /\ Len(stack) - 1 <= MaxDepth
        /\ \A i \in 1..(Len(stack) - 1) : i \in 1..Len(stack) /\ i < Len(stack)
    BY ONLY <1>2, <2>1, BoundsAssumption
  <2> QED
    BY ONLY <1>2, <2>1, <2>2 DEF StackInv
<1>6. CASE Became(f) /\ (boxed' = FALSE => f.pc # "box")
  <2>1. /\ Len(stack') = Len(stack) /\ Len(stack) \in Nat \ {0}
        /\ stack'[Len(stack)] = f
        /\ \A i \in 1..(Len(stack) - 1) : stack'[i].pc = stack[i].pc
    BY ONLY <1>6 DEF Became, KeptTo, Kept
  <2>2. \A i \in 1..Len(stack) : i \in 1..(Len(stack) - 1) \/ i = Len(stack)
    BY ONLY <2>1
  <2>3. \A i \in 1..Len(stack) : i < Len(stack) => i \in 1..(Len(stack) - 1)
    BY ONLY <2>1
  <2>4. \A i \in 1..Len(stack') : i < Len(stack') => stack'[i].pc \in PumpPcs
    BY ONLY <1>2, <2>1, <2>3
  <2>5. boxed' = FALSE => \A i \in 1..Len(stack') : stack'[i].pc # "box"
    BY ONLY <1>2, <1>6, <2>1, <2>2
  <2> QED
    BY ONLY <1>2, <2>1, <2>4, <2>5 DEF StackInv
<1> QED
  BY <1>3, <1>4, <1>5, <1>6

LEMMA GoesShape ==
  ASSUME NEW pc, Goes(pc)
  PROVE  Became(MovedTo(pc)) /\ MovedTo(pc).pc = pc
BY DEF Goes

LEMMA StackStep == TypeOK /\ StackInv /\ [Next]_vars => StackInv'
<1> SUFFICES ASSUME TypeOK, StackInv, [Next]_vars PROVE StackInv'
  OBVIOUS
<1> USE DEF pictures, clipboard, output
<1>s. stack \in Seq(Frame)
  BY DEF TypeOK
<1>u. ASSUME UNCHANGED <<stack, boxed>> PROVE StackInv'
  BY <1>u DEF StackInv
<1>l. ASSUME Still, boxed' = boxed PROVE StackInv'
  BY <1>l, StackShape
<1>p. ASSUME NEW f, Pushed(f), AtPump, f.pc # "box", boxed' = boxed PROVE StackInv'
  BY <1>p, StackShape
<1>r. ASSUME Returned, boxed' = boxed PROVE StackInv'
  BY <1>r, StackShape
<1>b. ASSUME NEW f, Became(f), f.pc # "box", boxed' = boxed PROVE StackInv'
  BY <1>b, StackShape
<1>g. ASSUME NEW pc, Goes(pc), pc # "box", boxed' = boxed PROVE StackInv'
  BY <1>b, <1>g, GoesShape
<1>1. ASSUME \/ \E n \in 1..MaxFiles : PostDrop(n)
             \/ PostPaste \/ OthersOpen \/ OthersReplace \/ OthersClose \/ CopyText \/ SetWordWrap
             \/ UNCHANGED vars
      PROVE  StackInv'
  BY <1>1, <1>u DEF PostDrop, PostPaste, OthersOpen, OthersReplace, OthersClose, CopyText,
     SetWordWrap, vars
<1>2. ASSUME DispatchPosted PROVE StackInv'
  <2>1. AtPump /\ boxed' = boxed
    BY <1>2, DispatchEffect
  <2>2. Still \/ \E f : Pushed(f) /\ f.pc # "box"
    BY <1>2, DispatchEffect, NewFrames
  <2> QED
    BY <2>1, <2>2, <1>l, <1>p
<1>3. ASSUME StartDump PROVE StackInv'
  BY <1>3, <1>b, StartDumpEffect DEF StartDump
<1>4. ASSUME Decode \/ ShowBox \/ DismissBox PROVE StackInv'
  <2>1. CASE Decode
    BY <2>1, <1>g, BatchEffect DEF Decode
  <2>2. CASE ShowBox
    <3>1. Became(MovedTo("box")) /\ boxed' = TRUE
      BY <2>2, BatchEffect, GoesShape DEF ShowBox
    <3> QED
      BY <3>1, StackShape
  <2>3. CASE DismissBox
    BY <2>3, <1>g, BatchEffect DEF DismissBox
  <2> QED
    BY <1>4, <2>1, <2>2, <2>3
<1>5. ASSUME EndBatch PROVE StackInv'
  BY <1>5, <1>r, BatchEffect DEF EndBatch
<1>6. ASSUME OpenMenu PROVE StackInv'
  <2>1. AtPump /\ boxed' = boxed
    BY <1>6, MenuEffect DEF Input, Idle, OpenMenu
  <2>2. \E f : Pushed(f) /\ f.pc # "box"
    BY <1>6, MenuEffect, NewFrames
  <2> QED
    BY <2>1, <2>2, <1>p
<1>7. ASSUME CloseMenu \/ \E item \in {"copy", "save", "paste"} : ChooseItem(item) PROVE StackInv'
  <2>1. Returned /\ boxed' = boxed
    BY <1>7, MenuEffect DEF CloseMenu, ChooseItem
  <2> QED
    BY <2>1, <1>r
<1>8. ASSUME CreateDib \/ OpenForDib \/ EmptyClipboard \/ SetData PROVE StackInv'
  <2>1. boxed' = boxed
    BY <1>8 DEF CreateDib, OpenForDib, EmptyClipboard, SetData, copyFrame
  <2>2. \/ Returned \/ Goes("open") \/ Goes("empty")
        \/ Became(MovedTo("set")) /\ MovedTo("set").pc = "set"
    BY <1>8, CopyEffect
  <2> QED
    BY <2>1, <2>2, <1>r, <1>g, <1>b
<1>9. ASSUME NEW png \in BOOLEAN, NEW file \in {"absent", "old"}, ChooseName(png, file)
      PROVE  StackInv'
  <2>1. Became(Chosen(Top, png, file)) /\ Top \in SaveFrame
    BY <1>9, SaveEffect
  <2>2. Chosen(Top, png, file).pc = "prepare"
    <3>1. picture \in Picture
      BY DEF TypeOK
    <3> QED
      BY <2>1, <3>1, ChosenFrame
  <2> QED
    BY <1>9, <2>1, <2>2, <1>b DEF ChooseName, saveFrame
<1>10. ASSUME CancelName \/ DismissFailure \/ Prepare \/ CreateFile \/ WriteHeader \/ WriteBits
       PROVE  StackInv'
  <2>1. boxed' = boxed
    BY <1>10 DEF CancelName, DismissFailure, Prepare, CreateFile, WriteHeader, WriteBits, saveFrame
  <2>2. \/ Returned \/ Goes("bits") \/ Goes("failed")
        \/ Became(Created(Top)) /\ Top \in SaveFrame
        \/ \E whole \in BOOLEAN : Became(Prepared(Top, whole)) /\ Top \in SaveFrame
    BY <1>10, SaveEffect DEF Told, Readied
  <2>3. Top \in SaveFrame => /\ Created(Top).pc \in {"bits", "header"}
                            /\ \A whole \in BOOLEAN : Prepared(Top, whole).pc = "file"
    <3>1. picture \in Picture
      BY DEF TypeOK
    <3> QED
      BY <3>1, SaveFrames
  <2> QED
    BY <2>1, <2>2, <2>3, <1>r, <1>g, <1>b
<1>11. ASSUME ClickQuery PROVE StackInv'
  <2>1. AtPump /\ Pushed(Query) /\ Query.pc # "box" /\ boxed' = boxed
    BY <1>11, QueryEffect, NewFrames DEF Input, Idle, ClickQuery, queryFrame
  <2> QED
    BY <2>1, <1>p
<1>12. ASSUME PromptOffline \/ GoOnline \/ EndQuery PROVE StackInv'
  <2>1. boxed' = boxed
    BY <1>12 DEF PromptOffline, GoOnline, EndQuery, queryFrame
  <2>2. Returned \/ Goes("prompt") \/ Goes("ask")
    BY <1>12, QueryEffect
  <2> QED
    BY <2>1, <2>2, <1>r, <1>g
<1> QED
  BY <1>1, <1>2, <1>3, <1>4, <1>5, <1>6, <1>7, <1>8, <1>9, <1>10, <1>11, <1>12 DEF Next

-----------------------------------------------------------------------------
(* Names, dumps and pictures.                                               *)
LEMMA KeptSound ==
  ASSUME NEW f \in Frame, NEW g, NEW n, NEW b, Kept(f, g), Sound(f, n, b)
  PROVE  Sound(g, n, b)
<1>1. CASE f.kind = "paste"
  <2>1. g.kind = "paste" /\ g.pc = f.pc /\ g.dump = f.dump
    BY <1>1 DEF Kept
  <2>2. f.pc \in BatchPcs
    BY <1>1, FrameFacts
  <2> QED
    BY <1>1, <2>1, <2>2 DEF Sound, InTime, Untouched, Converted, OfLatest, BatchPcs
<1>2. CASE f.kind # "paste"
  BY <1>2 DEF Kept
<1> QED
  BY <1>1, <1>2

LEMMA SoundShape ==
  ASSUME TypeOK, HistoryInv, latest' = latest, boxed' \in BOOLEAN, boxed' = FALSE => boxed = FALSE,
         NEW f,
         \/ Still
         \/ Pushed(f) /\ Sound(f, latest, boxed')
         \/ Returned
         \/ Became(f) /\ Sound(f, latest, boxed')
  PROVE  \A i \in 1..Len(stack') : Sound(stack'[i], latest', boxed')
<1>1. /\ Len(stack) \in Nat /\ latest \in Nat
      /\ \A i \in 1..Len(stack) : stack[i] \in Frame
  BY DEF TypeOK
<1>2. \A i \in 1..Len(stack) : Sound(stack[i], latest, boxed')
  BY DEF HistoryInv, Sound
<1>3. \A i \in 1..Len(stack) : Kept(stack[i], stack'[i]) => Sound(stack'[i], latest', boxed')
  <2> SUFFICES ASSUME NEW i \in 1..Len(stack), Kept(stack[i], stack'[i])
               PROVE  Sound(stack'[i], latest, boxed')
    OBVIOUS
  <2>1. stack[i] \in Frame /\ Sound(stack[i], latest, boxed')
    BY <1>1, <1>2
  <2> QED
    BY <2>1, KeptSound
<1>4. CASE Still
  BY <1>1, <1>3, <1>4 DEF Still, KeptTo
<1>5. CASE Pushed(f) /\ Sound(f, latest, boxed')
  BY <1>1, <1>3, <1>5 DEF Pushed, KeptTo
<1>6. CASE Returned
  BY <1>1, <1>3, <1>6 DEF Returned, KeptTo
<1>7. CASE Became(f) /\ Sound(f, latest, boxed')
  <2>1. PICK n \in Nat \ {0} : n = Len(stack) /\ n = Len(stack') /\ stack'[n] = f
    BY <1>7 DEF Became
  <2>2. \A i \in 1..(n - 1) : Kept(stack[i], stack'[i])
    BY <1>7, <2>1 DEF Became, KeptTo
  <2>3. ASSUME NEW i \in 1..n PROVE Sound(stack'[i], latest', boxed')
    <3>1. CASE i = n
      BY <1>7, <2>1, <3>1
    <3>2. CASE i \in 1..(n - 1)
      BY <1>3, <2>1, <2>2, <3>2
    <3> QED
      BY <3>1, <3>2
  <2> QED
    BY <2>1, <2>3
<1> QED
  BY <1>4, <1>5, <1>6, <1>7

(* A frame that only moves stays sound, except into these places.           *)
LEMMA MovedSound ==
  ASSUME TypeOK, HistoryInv, stack # <<>>, NEW pc, Moved(Top, MovedTo(pc)), MovedTo(pc).pc = pc,
         Top.kind # "menu", NEW b \in BOOLEAN, b = FALSE => boxed = FALSE,
         pc = "decode" => b # FALSE, pc \notin {"prepare", "file", "name"}
  PROVE  Sound(MovedTo(pc), latest, b)
<1>1. Top \in Frame /\ Sound(Top, latest, boxed)
  BY TopFacts DEF HistoryInv
<1> DEFINE g == MovedTo(pc)
<1>3. g.kind = Top.kind /\ g.pc = pc
  BY DEF Moved
<1>4. InTime(g, latest)
  BY <1>1, <1>3 DEF Sound, Moved, InTime
<1>5. Untouched(g) /\ Converted(g)
  BY <1>1, <1>3 DEF Sound, Moved, Untouched, Converted
<1>6. b = FALSE => OfLatest(g, latest)
  BY <1>1, <1>3 DEF Sound, Moved, OfLatest
<1> QED
  BY <1>4, <1>5, <1>6 DEF Sound

LEMMA SoundStep ==
  ASSUME TypeOK, StackInv, HistoryInv, [Next]_vars
  PROVE  \A i \in 1..Len(stack') : Sound(stack'[i], latest', boxed')
<1> DEFINE Goal == \A i \in 1..Len(stack') : Sound(stack'[i], latest', boxed')
<1> USE DEF pictures, clipboard, output
<1>s. /\ stack \in Seq(Frame) /\ boxed \in BOOLEAN /\ latest \in Nat /\ named = latest
      /\ \A i \in 1..Len(stack) : stack[i] \in Frame /\ Sound(stack[i], latest, boxed)
  BY DEF TypeOK, HistoryInv
<1>t. stack # <<>> => Top \in Frame /\ Sound(Top, latest, boxed)
  BY <1>s, TopFacts
<1>u. ASSUME UNCHANGED <<stack, boxed, latest>> PROVE Goal
  BY <1>s, <1>u
<1>l. ASSUME Still, boxed' = boxed, latest' = latest PROVE Goal
  BY <1>s, <1>l, SoundShape
<1>p. ASSUME NEW f, Pushed(f), Sound(f, latest, boxed), boxed' = boxed, latest' = latest PROVE Goal
  BY <1>s, <1>p, SoundShape
<1>r. ASSUME Returned, boxed' = boxed, latest' = latest PROVE Goal
  BY <1>s, <1>r, SoundShape
<1>b. ASSUME NEW f, Became(f), Sound(f, latest, boxed), boxed' = boxed, latest' = latest PROVE Goal
  BY <1>s, <1>b, SoundShape
<1>g. ASSUME NEW pc, stack # <<>>, Goes(pc), Top.kind # "menu", pc \notin {"decode", "prepare", "file", "name"},
             boxed' = boxed, latest' = latest
      PROVE  Goal
  <2>1. Sound(MovedTo(pc), latest, boxed)
    BY <1>s, <1>g, MovedSound DEF Goes
  <2> QED
    BY <1>b, <1>g, <2>1 DEF Goes
<1> HIDE DEF Goal
<1>1. ASSUME \/ \E n \in 1..MaxFiles : PostDrop(n)
             \/ PostPaste \/ OthersOpen \/ OthersReplace \/ OthersClose \/ CopyText \/ SetWordWrap
             \/ UNCHANGED vars
      PROVE  Goal
  BY <1>1, <1>u DEF PostDrop, PostPaste, OthersOpen, OthersReplace, OthersClose, CopyText,
     SetWordWrap, vars
<1>2. ASSUME DispatchPosted PROVE Goal
  <2>1. boxed' = boxed /\ latest' = latest
    BY <1>2, DispatchEffect
  <2>2. ASSUME NEW kind \in {"drop", "paste"}, NEW n \in Nat
        PROVE  Sound(Batch(kind, n), latest, boxed)
    <3> DEFINE f == Batch(kind, n)
    <3>1. f.kind = kind /\ f.pc = "next" /\ f.dump = 0
      BY DEF Batch
    <3> HIDE DEF f
    <3>2. Sound(f, latest, boxed)
      BY <1>s, <3>1 DEF Sound, InTime, Untouched, Converted, OfLatest
    <3> QED
      BY <3>2 DEF f
  <2>3. ASSUME Head(queue).type = "copy", Head(queue).opened \in Nat
        PROVE  Sound(Copy(Head(queue).opened), latest, boxed)
    <3>1. Head(queue).opened <= latest
      <4>1. queue # <<>> /\ queue \in Seq(Message)
        BY <1>2, DispatchEffect DEF TypeOK
      <4>2. Head(queue) = queue[1] /\ 1 \in 1..Len(queue)
        BY <4>1, HeadTailProperties, EmptySeq
      <4> QED
        BY <2>3, <4>2 DEF HistoryInv
    <3> QED
      BY <2>3, <3>1, NewFrames DEF Sound, InTime, Untouched, Converted, OfLatest
  <2>4. Sound(Save, latest, boxed)
    <3>1. /\ Save.kind = "save" /\ Save.pc = "name" /\ Save.picture.of = 0
          /\ Save.name = latest /\ Save.opened = latest /\ Save.whole = TRUE
      BY <1>s, NewFrames
    <3> QED
      BY <1>s, <3>1 DEF Sound, InTime, Untouched, Converted, OfLatest
  <2>5. CASE \E n \in Nat : Pushed(Batch("drop", n)) \/ Pushed(Batch("paste", n))
    BY <1>p, <2>1, <2>2, <2>5
  <2>6. CASE /\ Head(queue).type = "copy" /\ Head(queue).opened \in Nat
             /\ Pushed(Copy(Head(queue).opened))
    BY <1>p, <2>1, <2>3, <2>6
  <2>7. CASE Pushed(Save)
    BY <1>p, <2>1, <2>4, <2>7
  <2>8. CASE Still
    BY <1>l, <2>1, <2>8
  <2> QED
    BY <1>2, <2>5, <2>6, <2>7, <2>8, DispatchEffect
<1>3. ASSUME StartDump PROVE Goal
  <2> DEFINE f == Dumping(Top, latest + 1)
  <2>1. /\ Became(f) /\ SameTo(Len(stack) - 1)
        /\ f.pc = "decode" /\ f.dump = latest + 1 /\ f \in BatchFrame
    BY <1>3, StartDumpEffect
  <2>2. latest' = latest + 1 /\ latest' \in Nat
    BY <1>s, <1>3 DEF StartDump
  <2> HIDE DEF f
  <2>3. Sound(f, latest', boxed')
    BY <2>1, <2>2 DEF Sound, InTime, Untouched, Converted, OfLatest, BatchFrame
  <2>4. ASSUME NEW i \in 1..(Len(stack) - 1) PROVE Sound(stack'[i], latest', boxed')
    <3>1. stack'[i] = stack[i] /\ i \in 1..Len(stack) /\ i < Len(stack)
      BY <1>s, <2>1 DEF SameTo
    <3>2. stack[i] \in Frame /\ Sound(stack[i], latest, boxed) /\ stack[i].pc \in PumpPcs
      BY <1>s, <3>1 DEF StackInv
    <3>3. boxed' = boxed
      BY <1>3 DEF StartDump
    <3>4. InTime(stack[i], latest')
      <4>1. stack[i].kind \in {"menu", "copy", "save"} => stack[i].opened \in Nat
        BY <3>2, FrameFacts DEF MenuFrame, CopyFrame, SaveFrame
      <4>2. stack[i].kind \in {"drop", "paste"} => stack[i].dump \in Nat
        BY <3>2, FrameFacts DEF BatchFrame
      <4> QED
        BY <1>s, <2>2, <3>2, <4>1, <4>2 DEF Sound, InTime
    <3>5. ASSUME boxed = FALSE PROVE OfLatest(stack[i], latest')
      <4>1. stack[i].kind = "save" => stack[i].opened \in Nat /\ stack[i].picture.of \in Nat
        BY <3>2, FrameFacts DEF SaveFrame, Picture
      <4> QED
        BY <1>s, <2>2, <3>2, <3>5, <4>1 DEF Sound, OfLatest, PumpPcs
    <3> QED
      BY <3>1, <3>2, <3>3, <3>4, <3>5 DEF Sound
  <2>5. Len(stack') = Len(stack) /\ stack'[Len(stack)] = f /\ Len(stack) \in Nat \ {0}
    BY <2>1 DEF Became
  <2> QED
    BY <2>3, <2>4, <2>5 DEF Goal
<1>4. ASSUME Decode PROVE Goal
  <2>1. stack # <<>> /\ Goes("next") /\ Top \in BatchFrame /\ boxed' = boxed /\ latest' = latest
    BY <1>4, BatchEffect DEF Decode, At
  <2>2. Top.kind # "menu"
    BY <2>1 DEF BatchFrame
  <2> QED
    BY <1>g, <2>1, <2>2
<1>5. ASSUME ShowBox PROVE Goal
  <2>1. stack # <<>> /\ Goes("box") /\ Top \in BatchFrame /\ boxed' = TRUE /\ latest' = latest
    BY <1>5, BatchEffect DEF ShowBox, At
  <2>2. Top.kind # "menu"
    BY <2>1 DEF BatchFrame
  <2>3. Sound(MovedTo("box"), latest, boxed')
    BY <2>1, <2>2, MovedSound DEF Goes
  <2>4. Became(MovedTo("box"))
    BY <2>1 DEF Goes
  <2> QED
    BY <2>1, <2>3, <2>4, SoundShape DEF Goal
<1>6. ASSUME DismissBox PROVE Goal
  <2>1. /\ stack # <<>> /\ Goes("decode") /\ Top \in BatchFrame /\ Top.pc = "box"
        /\ boxed' = boxed /\ latest' = latest
    BY <1>6, BatchEffect DEF DismissBox, At
  <2>2. Top.kind # "menu" /\ boxed # FALSE
    <3>1. Len(stack) \in 1..Len(stack) /\ stack[Len(stack)].pc = "box"
      BY <2>1, TopFacts
    <3>2. boxed = FALSE => stack[Len(stack)].pc # "box"
      BY <3>1 DEF StackInv
    <3> QED
      BY <2>1, <3>1, <3>2 DEF BatchFrame
  <2>3. Sound(MovedTo("decode"), latest, boxed)
    BY <1>s, <2>1, <2>2, MovedSound DEF Goes
  <2> QED
    BY <1>b, <2>1, <2>3 DEF Goes
<1>7. ASSUME EndBatch PROVE Goal
  BY <1>7, <1>r, BatchEffect DEF EndBatch
<1>8. ASSUME OpenMenu PROVE Goal
  <2>1. boxed' = boxed /\ latest' = latest
    BY <1>8 DEF OpenMenu
  <2>2. PICK items \in SUBSET {"copy", "save", "paste"} : Pushed(Menu(items))
    BY <1>8, MenuEffect
  <2>3. Sound(Menu(items), latest, boxed)
    BY <1>s, NewFrames DEF Sound, InTime, Untouched, Converted, OfLatest
  <2> QED
    BY <1>p, <2>1, <2>2, <2>3
<1>9. ASSUME CloseMenu \/ \E item \in {"copy", "save", "paste"} : ChooseItem(item) PROVE Goal
  <2>1. Returned /\ boxed' = boxed /\ latest' = latest
    BY <1>9, MenuEffect DEF CloseMenu, ChooseItem
  <2> QED
    BY <2>1, <1>r
<1>10. ASSUME CreateDib \/ OpenForDib \/ EmptyClipboard \/ SetData PROVE Goal
  <2>1. boxed' = boxed /\ latest' = latest /\ stack # <<>> /\ Top.kind = "copy"
    BY <1>10, CopyEffect DEF CreateDib, OpenForDib, EmptyClipboard, SetData, copyFrame, At
  <2>2. Sound(MovedTo("set"), latest, boxed) \/ ~Moved(Top, MovedTo("set")) \/ MovedTo("set").pc # "set"
    BY <1>s, <2>1, MovedSound
  <2>3. \/ Returned \/ Goes("open") \/ Goes("empty")
        \/ Became(MovedTo("set")) /\ Moved(Top, MovedTo("set")) /\ MovedTo("set").pc = "set"
    BY <1>10, CopyEffect
  <2> QED
    BY <2>1, <2>2, <2>3, <1>r, <1>g, <1>b
<1>11. ASSUME NEW png \in BOOLEAN, NEW file \in {"absent", "old"}, ChooseName(png, file)
       PROVE  Goal
  <2> DEFINE f == Chosen(Top, png, file)
  <2>1. Became(f) /\ Top \in SaveFrame /\ picture \in Picture
    BY <1>11, SaveEffect DEF TypeOK
  <2>2. stack # <<>> /\ boxed' = boxed /\ latest' = latest
    BY <1>11 DEF ChooseName, At, saveFrame
  <2>3. /\ f \in SaveFrame /\ f.pc = "prepare" /\ f.file \in {"absent", "old"}
        /\ f.picture = picture /\ f.name = Top.name /\ f.opened = Top.opened
        /\ f.whole = Top.whole
    BY <2>1, ChosenFrame
  <2> HIDE DEF f
  <2>4. Top.kind = "save" /\ f.kind = "save" /\ Top.opened \in Nat
    BY <2>1, <2>3 DEF SaveFrame
  <2>5. InTime(f, latest)
    BY <1>t, <2>2, <2>3, <2>4 DEF Sound, InTime
  <2>8. Converted(f)
    <3>1. Top.pc = "name" /\ f.whole = Top.whole
      BY <1>11, <2>1, <2>3, SaveEffect
    <3> QED
      BY <1>t, <2>2, <2>3, <2>4, <3>1 DEF Sound, Converted
  <2>6. ASSUME boxed = FALSE PROVE OfLatest(f, latest)
    <3>1. picture.of \in {0, latest}
      BY <2>6 DEF HistoryInv
    <3>2. f.opened <= latest
      BY <2>4, <2>5 DEF InTime
    <3> QED
      BY <1>s, <2>3, <3>1, <3>2 DEF OfLatest
  <2>7. Sound(f, latest, boxed)
    BY <2>3, <2>5, <2>6, <2>8 DEF Sound, Untouched
  <2> QED
    BY <1>b, <2>1, <2>2, <2>7
<1>12. ASSUME CancelName \/ DismissFailure \/ Prepare \/ CreateFile \/ WriteHeader \/ WriteBits
       PROVE  Goal
  <2>1. boxed' = boxed /\ latest' = latest /\ stack # <<>> /\ Top \in SaveFrame
    BY <1>12, SaveEffect DEF CancelName, DismissFailure, Prepare, CreateFile, WriteHeader,
       WriteBits, saveFrame, At
  <2>2. Top.kind = "save" /\ picture \in Picture
    BY <2>1 DEF SaveFrame, TypeOK
  <2>3. \/ Returned \/ Goes("bits") \/ Goes("failed") \/ Became(Created(Top))
        \/ Top.pc = "prepare" /\ \E whole \in BOOLEAN :
             (Top.png \/ whole) /\ Became(Prepared(Top, whole))
    BY <1>12, SaveEffect DEF Told, Readied
  <2>5. ASSUME NEW whole \in BOOLEAN, Top.png \/ whole, Top.pc = "prepare"
        PROVE  Sound(Prepared(Top, whole), latest, boxed)
    <3> DEFINE f == Prepared(Top, whole)
    <3>1. /\ f \in SaveFrame /\ f.pc = "file" /\ f.file = Top.file /\ f.picture = Top.picture
          /\ f.name = Top.name /\ f.opened = Top.opened /\ f.png = Top.png /\ f.whole = whole
      BY <2>1, <2>2, SaveFrames
    <3> HIDE DEF f
    <3>2. f.kind = "save" /\ Top.png \in BOOLEAN
      BY <2>1, <3>1 DEF SaveFrame
    <3>3. Converted(f)
      BY <2>5, <3>1, <3>2 DEF Converted
    <3>4. Sound(f, latest, boxed)
      BY <1>t, <2>1, <2>2, <2>5, <3>1, <3>2, <3>3 DEF Sound, InTime, Untouched, OfLatest
    <3> QED
      BY <3>4 DEF f
  <2>4. Sound(Created(Top), latest, boxed)
    <3> DEFINE f == Created(Top)
    <3>1. /\ f \in SaveFrame /\ f.pc \in {"bits", "header"} /\ f.picture = Top.picture
          /\ f.name = Top.name /\ f.opened = Top.opened
          /\ f.png = Top.png /\ f.whole = Top.whole
      BY <2>1, <2>2, SaveFrames
    <3> HIDE DEF f
    <3>2. f.kind = "save"
      BY <3>1 DEF SaveFrame
    <3>3. InTime(f, latest) /\ Untouched(f) /\ (boxed = FALSE => OfLatest(f, latest))
      BY <1>t, <2>1, <2>2, <3>1, <3>2 DEF Sound, InTime, Untouched, OfLatest
    <3>5. Converted(f)
      <4>1. Converted(Top)
        BY <1>t, <2>1 DEF Sound
      <4> QED
        BY <2>2, <3>1, <3>2, <4>1 DEF Converted
    <3>4. Sound(f, latest, boxed)
      BY <3>3, <3>5 DEF Sound
    <3> QED
      BY <3>4 DEF f
  <2> QED
    BY <2>1, <2>2, <2>3, <2>4, <2>5, <1>r, <1>g, <1>b
<1>13. ASSUME ClickQuery PROVE Goal
  <2>1. Pushed(Query) /\ boxed' = boxed /\ latest' = latest
    BY <1>13, QueryEffect DEF ClickQuery, queryFrame
  <2>2. Sound(Query, latest, boxed)
    BY NewFrames DEF Sound, InTime, Untouched, Converted, OfLatest
  <2> QED
    BY <1>p, <2>1, <2>2
<1>14. ASSUME PromptOffline \/ GoOnline \/ EndQuery PROVE Goal
  <2>1. boxed' = boxed /\ latest' = latest /\ stack # <<>> /\ Top.kind = "query"
    BY <1>14, QueryEffect DEF PromptOffline, GoOnline, EndQuery, queryFrame, At
  <2>2. Returned \/ Goes("prompt") \/ Goes("ask")
    BY <1>14, QueryEffect
  <2> QED
    BY <2>1, <2>2, <1>r, <1>g
<1> QED
  BY <1>1, <1>2, <1>3, <1>4, <1>5, <1>6, <1>7, <1>8, <1>9, <1>10, <1>11, <1>12, <1>13, <1>14
     DEF Next, Goal

(* What changes the picture, and what changes the queue.                    *)
LEMMA PictureStep ==
  ASSUME TypeOK, [Next]_vars
  PROVE  \/ UNCHANGED pictures
         \/ StartDump
         \/ Decode /\ UNCHANGED <<latest, named>>
              /\ (picture' = picture \/ \E fits \in BOOLEAN : picture' = [of |-> Top.dump, fits |-> fits])
<1>1. ASSUME Decode
      PROVE  /\ UNCHANGED <<latest, named>>
             /\ (picture' = picture \/ \E fits \in BOOLEAN : picture' = [of |-> Top.dump, fits |-> fits])
  BY <1>1 DEF Decode
<1>2. ASSUME \/ \E n \in 1..MaxFiles : PostDrop(n)
             \/ PostPaste \/ DispatchPosted
             \/ OthersOpen \/ OthersReplace \/ OthersClose \/ CopyText
             \/ ShowBox \/ DismissBox \/ EndBatch
             \/ OpenMenu \/ CloseMenu \/ \E item \in {"copy", "save", "paste"} : ChooseItem(item)
      PROVE  UNCHANGED pictures
  BY <1>2, Zenon DEF PostDrop, PostPaste, DispatchPosted, OthersOpen, OthersReplace, OthersClose, CopyText,
     ShowBox, DismissBox, EndBatch, OpenMenu, CloseMenu, ChooseItem
<1>3. ASSUME CreateDib \/ OpenForDib \/ EmptyClipboard \/ SetData
      PROVE  UNCHANGED pictures
  BY <1>3 DEF CreateDib, OpenForDib, EmptyClipboard, SetData, copyFrame
<1>4. ASSUME \/ \E png \in BOOLEAN, file \in {"absent", "old"} : ChooseName(png, file)
             \/ CancelName \/ Prepare \/ CreateFile \/ WriteHeader \/ WriteBits \/ DismissFailure
      PROVE  UNCHANGED pictures
  BY <1>4 DEF ChooseName, CancelName, Prepare, CreateFile, WriteHeader, WriteBits,
     DismissFailure, saveFrame
<1>5. ASSUME SetWordWrap \/ ClickQuery \/ PromptOffline \/ GoOnline \/ EndQuery \/ UNCHANGED vars
      PROVE  UNCHANGED pictures
  BY <1>5 DEF SetWordWrap, ClickQuery, PromptOffline, GoOnline, EndQuery, queryFrame, vars
<1> QED
  BY <1>1, <1>2, <1>3, <1>4, <1>5 DEF Next

LEMMA QueueStep ==
  ASSUME TypeOK, [Next]_vars
  PROVE  \/ UNCHANGED queue
         \/ DispatchPosted
         \/ \E m \in Message : m.type = "drop" /\ Post(m) /\ UNCHANGED <<stack, pictures, boxed>>
         \/ \E m \in Message : m.type = "paste" /\ m.opened = latest /\ Post(m)
                               /\ UNCHANGED <<stack, pictures, boxed>>
         \/ \E item \in {"copy", "save", "paste"}, m \in Message :
              /\ ChooseItem(item) /\ m.type = item /\ m.opened = Top.opened /\ Post(m)
              /\ item \in Top.items /\ UNCHANGED <<pictures, boxed>>
<1>1. ASSUME NEW n \in 1..MaxFiles, PostDrop(n)
      PROVE  \E m \in Message : m.type = "drop" /\ Post(m) /\ UNCHANGED <<stack, pictures, boxed>>
  <2>1. PICK m \in Message : m.type = "drop" /\ Post(m)
    BY <1>1, Messages
  <2>2. UNCHANGED <<stack, pictures, boxed>>
    BY <1>1 DEF PostDrop
  <2> QED
    BY <2>1, <2>2
<1>2. ASSUME PostPaste
      PROVE  \E m \in Message : m.type = "paste" /\ m.opened = latest /\ Post(m)
                                /\ UNCHANGED <<stack, pictures, boxed>>
  <2>1. PICK m \in Message : m.type = "paste" /\ m.opened = latest /\ Post(m)
    BY <1>2, Messages
  <2>2. UNCHANGED <<stack, pictures, boxed>>
    BY <1>2 DEF PostPaste
  <2> QED
    BY <2>1, <2>2
<1>3. ASSUME NEW item \in {"copy", "save", "paste"}, ChooseItem(item)
      PROVE  \E m \in Message : /\ ChooseItem(item) /\ m.type = item /\ m.opened = Top.opened /\ Post(m)
                                /\ item \in Top.items /\ UNCHANGED <<pictures, boxed>>
  <2>1. PICK m \in Message : m.type = item /\ m.opened = Top.opened /\ Post(m) /\ item \in Top.items
    BY <1>3, Messages
  <2>2. UNCHANGED <<pictures, boxed>>
    BY <1>3 DEF ChooseItem
  <2> QED
    BY <1>3, <2>1, <2>2
<1>4. ASSUME \/ OthersOpen \/ OthersReplace \/ OthersClose \/ CopyText
             \/ StartDump \/ Decode \/ ShowBox \/ DismissBox \/ EndBatch \/ OpenMenu \/ CloseMenu
      PROVE  UNCHANGED queue
  BY <1>4 DEF OthersOpen, OthersReplace, OthersClose, CopyText, StartDump, Decode, ShowBox,
     DismissBox, EndBatch, OpenMenu, CloseMenu
<1>5. ASSUME CreateDib \/ OpenForDib \/ EmptyClipboard \/ SetData
      PROVE  UNCHANGED queue
  BY <1>5 DEF CreateDib, OpenForDib, EmptyClipboard, SetData, copyFrame
<1>6. ASSUME \/ \E png \in BOOLEAN, file \in {"absent", "old"} : ChooseName(png, file)
             \/ CancelName \/ Prepare \/ CreateFile \/ WriteHeader \/ WriteBits \/ DismissFailure
      PROVE  UNCHANGED queue
  BY <1>6 DEF ChooseName, CancelName, Prepare, CreateFile, WriteHeader, WriteBits,
     DismissFailure, saveFrame
<1>7. ASSUME SetWordWrap \/ ClickQuery \/ PromptOffline \/ GoOnline \/ EndQuery \/ UNCHANGED vars
      PROVE  UNCHANGED queue
  BY <1>7 DEF SetWordWrap, ClickQuery, PromptOffline, GoOnline, EndQuery, queryFrame, vars
<1> QED
  BY <1>1, <1>2, <1>3, <1>4, <1>5, <1>6, <1>7 DEF Next

(* A decoder message is never taken back.                                   *)
LEMMA BoxedStep ==
  ASSUME TypeOK, [Next]_vars
  PROVE  boxed' = boxed \/ (ShowBox /\ boxed' = TRUE)
<1>1. ASSUME ShowBox PROVE boxed' = TRUE
  BY <1>1 DEF ShowBox
<1>2. ASSUME \/ \E n \in 1..MaxFiles : PostDrop(n)
             \/ PostPaste \/ DispatchPosted
             \/ OthersOpen \/ OthersReplace \/ OthersClose \/ CopyText
             \/ StartDump \/ Decode \/ DismissBox \/ EndBatch
             \/ OpenMenu \/ CloseMenu \/ \E item \in {"copy", "save", "paste"} : ChooseItem(item)
      PROVE  boxed' = boxed
  BY <1>2, Zenon DEF PostDrop, PostPaste, DispatchPosted, OthersOpen, OthersReplace, OthersClose, CopyText,
     StartDump, Decode, DismissBox, EndBatch, OpenMenu, CloseMenu, ChooseItem
<1>3. ASSUME \/ CreateDib \/ OpenForDib \/ EmptyClipboard \/ SetData
             \/ \E png \in BOOLEAN, file \in {"absent", "old"} : ChooseName(png, file)
             \/ CancelName \/ Prepare \/ CreateFile \/ WriteHeader \/ WriteBits \/ DismissFailure
      PROVE  boxed' = boxed
  BY <1>3, Zenon DEF ChooseName, CancelName, Prepare, CreateFile, WriteHeader, WriteBits,
     DismissFailure, saveFrame, CreateDib, OpenForDib, EmptyClipboard, SetData, copyFrame
<1>4. ASSUME SetWordWrap \/ ClickQuery \/ PromptOffline \/ GoOnline \/ EndQuery \/ UNCHANGED vars
      PROVE  boxed' = boxed
  BY <1>4, Zenon DEF SetWordWrap, ClickQuery, PromptOffline, GoOnline, EndQuery, queryFrame, vars
<1> QED
  BY <1>1, <1>2, <1>3, <1>4, Zenon DEF Next

LEMMA HistoryStep ==
  ASSUME TypeOK, StackInv, HistoryInv, [Next]_vars
  PROVE  HistoryInv'
<1>s. /\ boxed \in BOOLEAN /\ latest \in Nat /\ named = latest /\ picture.of <= latest
      /\ queue \in Seq(Message) /\ picture \in Picture
  BY DEF TypeOK, HistoryInv
<1>t. stack # <<>> => Top \in Frame /\ Sound(Top, latest, boxed)
  BY TopFacts DEF HistoryInv
<1>1. \A i \in 1..Len(stack') : Sound(stack'[i], latest', boxed')
  BY SoundStep
<1>2. named' = latest' /\ picture'.of <= latest' /\ latest <= latest' /\ latest' \in Nat
  <2>1. CASE UNCHANGED pictures
    BY <1>s, <2>1 DEF pictures
  <2>2. CASE StartDump
    BY <1>s, <2>2 DEF StartDump, NoPicture
  <2>3. CASE Decode /\ UNCHANGED <<latest, named>>
              /\ (picture' = picture \/ \E fits \in BOOLEAN : picture' = [of |-> Top.dump, fits |-> fits])
    <3>1. Top.dump <= latest
      <4>1. Top \in BatchFrame /\ stack # <<>>
        BY <2>3, BatchEffect DEF Decode, At
      <4> QED
        BY <1>t, <4>1 DEF Sound, InTime, BatchFrame
    <3> QED
      BY <1>s, <2>3, <3>1
  <2> QED
    BY <2>1, <2>2, <2>3, PictureStep
<1>3. boxed' = FALSE => picture'.of \in {0, latest'}
  <2> SUFFICES ASSUME boxed' = FALSE PROVE picture'.of \in {0, latest'}
    OBVIOUS
  <2>b. boxed = FALSE
    BY BoxedStep
  <2>1. CASE UNCHANGED pictures
    BY <2>b, <2>1 DEF pictures, HistoryInv
  <2>2. CASE StartDump
    BY <2>2 DEF StartDump, NoPicture
  <2>3. CASE Decode /\ UNCHANGED <<latest, named>>
              /\ (picture' = picture \/ \E fits \in BOOLEAN : picture' = [of |-> Top.dump, fits |-> fits])
    <3>1. Top.dump = latest
      <4>1. Top.pc = "decode" /\ stack # <<>>
        BY <2>3 DEF Decode, At
      <4> QED
        BY <1>t, <2>b, <4>1 DEF Sound, OfLatest
    <3>2. picture.of \in {0, latest}
      BY <2>b DEF HistoryInv
    <3> QED
      BY <2>3, <3>1, <3>2
  <2> QED
    BY <2>1, <2>2, <2>3, PictureStep
<1>4. ASSUME NEW q \in 1..Len(queue'), queue'[q].type # "drop" PROVE queue'[q].opened <= latest'
  <2>0. ASSUME NEW o \in Nat, o <= latest PROVE o <= latest'
    BY <1>s, <1>2, <2>0
  <2>q. ASSUME NEW p \in 1..Len(queue), queue[p].type # "drop" PROVE queue[p].opened <= latest'
    <3>1. queue[p] \in Message /\ queue[p].opened <= latest
      BY <1>s, <2>q DEF HistoryInv
    <3>2. queue[p].opened \in Nat
      BY <2>q, <3>1 DEF Message
    <3> QED
      BY <2>0, <3>1, <3>2
  <2>p. ASSUME NEW m \in Message, m.type # "drop" => m.opened <= latest, Post(m)
        PROVE  queue'[q].opened <= latest'
    <3>1. /\ Len(queue') = Len(queue) + 1 /\ queue'[Len(queue) + 1] = m
          /\ \A p \in 1..Len(queue) : queue'[p] = queue[p]
      BY <2>p, PostEffect
    <3>2. CASE q = Len(queue) + 1
      <4>1. m.opened \in Nat
        BY <1>4, <3>1, <3>2 DEF Message
      <4> QED
        BY <1>4, <2>0, <2>p, <3>1, <3>2, <4>1
    <3>3. CASE q \in 1..Len(queue)
      BY <1>4, <2>q, <3>1, <3>3
    <3> QED
      BY <1>s, <3>1, <3>2, <3>3
  <2>1. CASE UNCHANGED queue
    BY <1>4, <2>q, <2>1
  <2>2. CASE DispatchPosted
    <3>1. queue'[q] = queue[q + 1] /\ q + 1 \in 1..Len(queue)
      BY <2>2, DispatchEffect, TailEffect
    <3> QED
      BY <1>4, <2>q, <3>1
  <2>3. CASE \E m \in Message : m.type = "drop" /\ Post(m)
    BY <2>p, <2>3
  <2>4. CASE \E m \in Message : m.type = "paste" /\ m.opened = latest /\ Post(m)
    BY <1>s, <2>p, <2>4
  <2>5. CASE \E item \in {"copy", "save", "paste"}, m \in Message :
              ChooseItem(item) /\ m.opened = Top.opened /\ Post(m)
    <3>1. PICK item \in {"copy", "save", "paste"}, m \in Message :
              ChooseItem(item) /\ m.opened = Top.opened /\ Post(m)
      BY <2>5
    <3>2. Top \in MenuFrame /\ stack # <<>>
      BY <3>1, MenuEffect DEF At
    <3>3. Top.opened <= latest
      BY <1>t, <3>2 DEF Sound, InTime, MenuFrame
    <3> QED
      BY <2>p, <3>1, <3>3
  <2> QED
    BY <2>1, <2>2, <2>3, <2>4, <2>5, QueueStep
<1> QED
  BY <1>1, <1>2, <1>3, <1>4 DEF HistoryInv

-----------------------------------------------------------------------------
(* Saving.                                                                  *)
LEMMA SavedChange ==
  ASSUME TypeOK, HistoryInv, [Next]_vars
  PROVE  \/ UNCHANGED saved
         \/ /\ stack # <<>> /\ Top \in SaveFrame
            /\ \E file \in {"absent", "old", "partial"}, undeleted \in BOOLEAN :
                 (file = "partial" => undeleted) /\ Ended(file, TRUE, undeleted)
         \/ stack # <<>> /\ Top \in SaveFrame /\ Ended(Result, FALSE, FALSE)
<1> DEFINE Failed == \E file \in {"absent", "old", "partial"}, undeleted \in BOOLEAN :
                       (file = "partial" => undeleted) /\ Ended(file, TRUE, undeleted)
<1>f. ASSUME NEW file \in {"absent", "old"}, Told(file, FALSE) PROVE Failed
  BY <1>f DEF Told
<1>g. ASSUME Told("partial", TRUE) PROVE Failed
  BY <1>g DEF Told
<1> HIDE DEF Failed
<1>1. ASSUME Prepare \/ CreateFile
      PROVE  stack # <<>> /\ Top \in SaveFrame /\ (saved' = saved \/ Failed)
  <2>1. stack # <<>> /\ Top \in SaveFrame /\ Top.pc \in {"prepare", "file"}
    BY <1>1, SaveEffect DEF Prepare, CreateFile, At
  <2>2. Top.file \in {"absent", "old"}
    BY <2>1, TopFacts DEF HistoryInv, Sound, Untouched
  <2>3. saved' = saved \/ Told(Top.file, FALSE)
    BY <1>1, SaveEffect
  <2> QED
    BY <2>1, <2>2, <2>3, <1>f
<1>2. ASSUME WriteHeader
      PROVE  stack # <<>> /\ Top \in SaveFrame /\ (saved' = saved \/ Failed)
  <2>1. stack # <<>> /\ Top \in SaveFrame
    BY <1>2, SaveEffect DEF WriteHeader, At
  <2>2. saved' = saved \/ Told("absent", FALSE) \/ Told("partial", TRUE)
    BY <1>2, SaveEffect
  <2> QED
    BY <2>1, <2>2, <1>f, <1>g
<1>3. ASSUME WriteBits
      PROVE  stack # <<>> /\ Top \in SaveFrame /\ (Ended(Result, FALSE, FALSE) \/ Failed)
  <2>1. stack # <<>> /\ Top \in SaveFrame
    BY <1>3, SaveEffect DEF WriteBits, At
  <2>2. Ended(Result, FALSE, FALSE) \/ Told("absent", FALSE) \/ Told("partial", TRUE)
    BY <1>3, SaveEffect
  <2> QED
    BY <2>1, <2>2, <1>f, <1>g
<1>4. ASSUME \/ \E n \in 1..MaxFiles : PostDrop(n)
             \/ PostPaste \/ DispatchPosted
             \/ OthersOpen \/ OthersReplace \/ OthersClose \/ CopyText
             \/ StartDump \/ Decode \/ ShowBox \/ DismissBox \/ EndBatch
             \/ OpenMenu \/ CloseMenu \/ \E item \in {"copy", "save", "paste"} : ChooseItem(item)
      PROVE  saved' = saved
  BY <1>4, Zenon DEF PostDrop, PostPaste, DispatchPosted, OthersOpen, OthersReplace, OthersClose, CopyText,
     StartDump, Decode, ShowBox, DismissBox, EndBatch, OpenMenu, CloseMenu, ChooseItem
<1>5. ASSUME \/ CreateDib \/ OpenForDib \/ EmptyClipboard \/ SetData
             \/ \E png \in BOOLEAN, file \in {"absent", "old"} : ChooseName(png, file)
             \/ CancelName \/ DismissFailure
             \/ SetWordWrap \/ ClickQuery \/ PromptOffline \/ GoOnline \/ EndQuery \/ UNCHANGED vars
      PROVE  saved' = saved
  BY <1>5, Zenon DEF ChooseName, CancelName, DismissFailure, CreateDib, OpenForDib,
     EmptyClipboard, SetData, copyFrame, SetWordWrap, ClickQuery, PromptOffline, GoOnline,
     EndQuery, queryFrame, vars
<1> QED
  BY <1>1, <1>2, <1>3, <1>4, <1>5 DEF Next, Failed

LEMMA SavedStep ==
  ASSUME TypeOK, StackInv, HistoryInv, SavedOrSaid, SavedUnderItsName, [Next]_vars
  PROVE  SavedOrSaid' /\ SavedUnderItsName'
<1>1. CASE UNCHANGED saved
  <2>1. boxed' = FALSE => boxed = FALSE
    BY BoxedStep
  <2>2. SavedOrSaid'
    BY <1>1 DEF SavedOrSaid
  <2>3. SavedUnderItsName'
    BY <1>1, <2>1, Zenon DEF SavedUnderItsName
  <2> QED
    BY <2>2, <2>3
<1>2. ASSUME stack # <<>>, Top \in SaveFrame,
             NEW file \in {"absent", "old", "partial"}, NEW undeleted \in BOOLEAN,
             file = "partial" => undeleted, Ended(file, TRUE, undeleted)
      PROVE  SavedOrSaid' /\ SavedUnderItsName'
  <2>1. saved'.file = file /\ saved'.told = TRUE /\ saved'.undeleted = undeleted
    BY <1>2, EndedType
  <2> QED
    BY <1>2, <2>1 DEF SavedOrSaid, SavedUnderItsName, Written
<1>3. ASSUME stack # <<>>, Top \in SaveFrame, Ended(Result, FALSE, FALSE)
      PROVE  SavedOrSaid' /\ SavedUnderItsName'
  <2>1. /\ saved'.file = Result /\ saved'.told = FALSE
        /\ saved'.picture = Top.picture.of /\ saved'.name = Top.name
        /\ saved'.overtaken = (Top.opened # latest)
    BY <1>3, EndedType, ResultWritten
  <2>2. SavedOrSaid'
    <3>1. Sound(Top, latest, boxed) /\ Top.kind = "save"
      BY <1>3, TopFacts DEF HistoryInv, SaveFrame
    <3>2. Top.png = TRUE \/ Top.whole = TRUE
      BY <3>1 DEF Sound, Converted
    <3>3. Result \in {"complete", "damagedPng"}
      BY <3>2 DEF Result
    <3> QED
      BY <2>1, <3>3 DEF SavedOrSaid, Written
  <2>3. ASSUME saved'.overtaken = FALSE, boxed' = FALSE PROVE saved'.picture \in {0, saved'.name}
    <3>1. boxed = FALSE /\ Top.opened = latest
      BY <2>1, <2>3, BoxedStep
    <3>2. Sound(Top, latest, boxed)
      BY <1>3, TopFacts DEF HistoryInv
    <3>3. /\ Top.kind = "save" /\ Top.picture.of \in Nat /\ latest \in Nat
      BY <1>3 DEF SaveFrame, Picture, TypeOK
    <3>4. /\ Top.name = latest
          /\ Top.picture.of = 0 \/ (latest <= Top.picture.of /\ Top.picture.of <= latest)
      BY <3>1, <3>2, <3>3 DEF Sound, InTime, OfLatest
    <3> QED
      BY <2>1, <3>3, <3>4
  <2> QED
    BY <2>2, <2>3 DEF SavedUnderItsName
<1> QED
  BY <1>1, <1>2, <1>3, SavedChange

-----------------------------------------------------------------------------
(* The clipboard and the DIB that is made for it.                           *)
LEMMA TopAfter ==
  ASSUME TypeOK, StackInv, NEW f
  PROVE  /\ Still => (stack' # <<>> <=> stack # <<>>) /\ (stack # <<>> => (Top.pc)' = Top.pc)
         /\ Pushed(f) \/ Became(f) => stack' # <<>> /\ Top' = f
         /\ Returned => (stack' # <<>> => (Top.pc)' \in PumpPcs)
<1>s. stack \in Seq(Frame)
  BY DEF TypeOK
<1>1. Len(stack) \in Nat /\ stack \in Seq(Frame) /\ (stack # <<>> <=> Len(stack) # 0)
  BY ONLY <1>s, EmptySeq
<1>2. stack' \in Seq(Frame) /\ stack' # <<>> => Len(stack') \in Nat \ {0} /\ Top' = stack'[Len(stack')]
  BY FrontFacts DEF Top
<1>3. stack' \in Seq(Frame) => (stack' # <<>> <=> Len(stack') # 0)
  BY EmptySeq
<1>4. stack # <<>> => Top = stack[Len(stack)]
  BY TopFacts
<1>5. ASSUME Still
      PROVE  (stack' # <<>> <=> stack # <<>>) /\ (stack # <<>> => (Top.pc)' = Top.pc)
  BY <1>1, <1>2, <1>3, <1>4, <1>5 DEF Still, KeptTo, Kept
<1>6. ASSUME Pushed(f) \/ Became(f) PROVE stack' # <<>> /\ Top' = f
  BY <1>1, <1>2, <1>3, <1>6 DEF Pushed, Became
<1>7. ASSUME Returned, stack' # <<>> PROVE (Top.pc)' \in PumpPcs
  <2>a. PICK n \in Nat \ {0}, m \in Nat \ {0} : n = Len(stack) /\ m = Len(stack') /\ m = n - 1
    BY <1>1, <1>2, <1>7 DEF Returned
  <2>b. m \in 1..(n - 1)
    BY <2>a
  <2>c. Kept(stack[m], stack'[m])
    BY <1>7, <2>a, <2>b DEF Returned, KeptTo
  <2>d. stack'[m].pc = stack[m].pc
    BY <2>c DEF Kept
  <2>1. /\ Len(stack') = Len(stack) - 1 /\ Len(stack') \in 1..Len(stack) /\ Len(stack') < Len(stack)
        /\ Top' = stack'[Len(stack')] /\ stack'[Len(stack')].pc = stack[Len(stack')].pc
    BY <1>2, <1>7, <2>a, <2>d DEF Returned
  <2> QED
    BY <2>1 DEF StackInv
<1> QED
  BY <1>5, <1>6, <1>7

(* What the steps do that do not belong to a command to copy.               *)
OpenPcs == {"open", "empty", "set"}
Elsewhere == stack = <<>> \/ Top.kind # "copy"

LEMMA AtPumpElsewhere == ASSUME TypeOK, AtPump PROVE Elsewhere
BY TopFacts, FrameFacts DEF AtPump, PumpPcs, Elsewhere, CopyPcs

LEMMA ForeignStep ==
  ASSUME TypeOK, [Next]_vars
  PROVE  \/ CreateDib \/ OpenForDib \/ EmptyClipboard \/ SetData
         \/ /\ hNewDib' = hNewDib
            /\ \/ UNCHANGED stack
               \/ /\ Elsewhere
                  /\ \/ Still \/ Returned
                     \/ \E f : f.pc \notin OpenPcs /\ (Pushed(f) \/ Became(f))
<1> DEFINE Goal == /\ hNewDib' = hNewDib
                   /\ \/ UNCHANGED stack
                      \/ /\ Elsewhere
                         /\ \/ Still \/ Returned
                            \/ \E f : f.pc \notin OpenPcs /\ (Pushed(f) \/ Became(f))
<1>p. picture \in Picture
  BY DEF TypeOK
<1>g. ASSUME NEW pc, pc \notin OpenPcs, Goes(pc), Elsewhere, hNewDib' = hNewDib PROVE Goal
  BY <1>g, GoesShape
<1>1. ASSUME \/ \E n \in 1..MaxFiles : PostDrop(n)
             \/ PostPaste \/ OthersOpen \/ OthersReplace \/ OthersClose \/ CopyText \/ SetWordWrap
             \/ UNCHANGED vars
      PROVE  Goal
  BY <1>1 DEF PostDrop, PostPaste, OthersOpen, OthersReplace, OthersClose, CopyText,
     SetWordWrap, vars, clipboard
<1>2. ASSUME DispatchPosted PROVE Goal
  <2>1. Elsewhere /\ hNewDib' = hNewDib
    BY <1>2, DispatchEffect, AtPumpElsewhere
  <2>2. Still \/ \E f : f.pc \notin OpenPcs /\ Pushed(f)
    BY <1>2, DispatchEffect, NewFrames DEF OpenPcs
  <2> QED
    BY <2>1, <2>2
<1>3. ASSUME StartDump PROVE Goal
  <2>1. Elsewhere /\ hNewDib' = hNewDib
    BY <1>3, StartDumpEffect DEF Elsewhere, BatchFrame, StartDump, clipboard
  <2>2. \E f : f.pc \notin OpenPcs /\ Became(f)
    BY <1>3, StartDumpEffect DEF OpenPcs
  <2> QED
    BY <2>1, <2>2
<1>4. ASSUME Decode \/ ShowBox \/ DismissBox \/ EndBatch PROVE Goal
  <2>1. Elsewhere /\ hNewDib' = hNewDib
    BY <1>4, BatchEffect DEF Elsewhere, BatchFrame, Decode, ShowBox, DismissBox, EndBatch, clipboard
  <2>2. Returned \/ Goes("next") \/ Goes("box") \/ Goes("decode")
    BY <1>4, BatchEffect
  <2> QED
    BY <2>1, <2>2, <1>g DEF OpenPcs
<1>5. ASSUME OpenMenu PROVE Goal
  <2>1. Elsewhere /\ hNewDib' = hNewDib
    BY <1>5, AtPumpElsewhere DEF OpenMenu, Input, Idle, clipboard
  <2>2. \E f : f.pc \notin OpenPcs /\ Pushed(f)
    BY <1>5, MenuEffect, NewFrames DEF OpenPcs
  <2> QED
    BY <2>1, <2>2
<1>6. ASSUME CloseMenu \/ \E item \in {"copy", "save", "paste"} : ChooseItem(item) PROVE Goal
  <2>1. At("menu") /\ Returned /\ hNewDib' = hNewDib
    BY <1>6, MenuEffect DEF CloseMenu, ChooseItem, clipboard
  <2>2. Elsewhere
    BY <2>1, TopFacts, FrameFacts DEF At, Elsewhere, CopyPcs
  <2> QED
    BY <2>1, <2>2
<1>7. ASSUME \/ \E png \in BOOLEAN, file \in {"absent", "old"} : ChooseName(png, file)
             \/ CancelName \/ DismissFailure \/ Prepare \/ CreateFile \/ WriteHeader \/ WriteBits
      PROVE  Goal
  <2>1. Top \in SaveFrame /\ hNewDib' = hNewDib
    BY <1>7, SaveEffect DEF ChooseName, CancelName, DismissFailure, Prepare, CreateFile,
       WriteHeader, WriteBits, saveFrame, clipboard
  <2>2. Elsewhere
    BY <2>1 DEF Elsewhere, SaveFrame
  <2>3. \/ Returned \/ Goes("bits") \/ Goes("failed") \/ Became(Created(Top))
        \/ \E whole \in BOOLEAN : Became(Prepared(Top, whole))
        \/ \E png \in BOOLEAN, file \in {"absent", "old"} : Became(Chosen(Top, png, file))
    BY <1>7, SaveEffect DEF Told, Readied
  <2>4. /\ Created(Top).pc \notin OpenPcs
        /\ \A whole \in BOOLEAN : Prepared(Top, whole).pc \notin OpenPcs
        /\ \A png \in BOOLEAN, file \in {"absent", "old"} : Chosen(Top, png, file).pc \notin OpenPcs
    BY <1>p, <2>1, SaveFrames DEF OpenPcs
  <2> QED
    BY <2>1, <2>2, <2>3, <2>4, <1>g DEF OpenPcs
<1>8. ASSUME ClickQuery PROVE Goal
  <2>1. Elsewhere /\ hNewDib' = hNewDib
    BY <1>8, AtPumpElsewhere DEF ClickQuery, queryFrame, Input, Idle, clipboard
  <2>2. Query.pc \notin OpenPcs /\ Pushed(Query)
    BY <1>8, QueryEffect, NewFrames DEF OpenPcs
  <2> QED
    BY <2>1, <2>2
<1>9. ASSUME PromptOffline \/ GoOnline \/ EndQuery PROVE Goal
  <2>1. Top.kind = "query" /\ hNewDib' = hNewDib
    BY <1>9, QueryEffect DEF PromptOffline, GoOnline, EndQuery, queryFrame, clipboard
  <2>2. Returned \/ Goes("prompt") \/ Goes("ask")
    BY <1>9, QueryEffect
  <2> QED
    BY <2>1, <2>2, <1>g DEF OpenPcs, Elsewhere
<1> HIDE DEF Goal
<1>10. CreateDib \/ OpenForDib \/ EmptyClipboard \/ SetData \/ Goal
  BY <1>1, <1>2, <1>3, <1>4, <1>5, <1>6, <1>7, <1>8, <1>9 DEF Next
<1> QED
  BY <1>10 DEF Goal

LEMMA DibStep ==
  ASSUME TypeOK, StackInv, DibInv, [Next]_vars
  PROVE  DibInv'
<1>t. /\ stack # <<>> => Top \in Frame
      /\ hNewDib \in {"none", "ours", "clipboard", "freed", "twice"}
  BY TopFacts DEF TypeOK
<1>f. ASSUME NEW f, Pushed(f) \/ Became(f), f.pc \notin OpenPcs, hNewDib' \notin {"ours", "twice"}
      PROVE  DibInv'
  <2>1. stack' # <<>> /\ Top' = f
    BY <1>f, TopAfter
  <2> QED
    BY <1>f, <2>1 DEF DibInv, OpenPcs
<1>r. ASSUME Returned, hNewDib' \notin {"ours", "twice"} PROVE DibInv'
  <2>1. stack' # <<>> => (Top.pc)' \in PumpPcs
    BY <1>r, TopAfter
  <2> QED
    BY <1>r, <2>1 DEF DibInv, PumpPcs
<1>g. ASSUME NEW pc \in OpenPcs, Became(MovedTo(pc)), MovedTo(pc).pc = pc, hNewDib' \in {"ours", "none"}
      PROVE  DibInv'
  <2>1. stack' # <<>> /\ Top' = MovedTo(pc)
    BY <1>g, TopAfter
  <2> QED
    BY <1>g, <2>1 DEF DibInv, OpenPcs
<1>1. CASE CreateDib
  <2>1. stack # <<>> /\ Top.pc = "create"
    BY <1>1 DEF CreateDib, At
  <2>2. hNewDib \notin {"ours", "twice"}
    BY <2>1 DEF DibInv
  <2>3. CASE Goes("open") /\ hNewDib' \in {"ours", "none"}
    BY <1>g, <2>3, GoesShape DEF OpenPcs
  <2>4. CASE Returned /\ UNCHANGED hNewDib
    BY <1>r, <2>2, <2>4
  <2> QED
    BY <1>1, <2>3, <2>4, CopyEffect
<1>o. ASSUME OpenForDib \/ EmptyClipboard \/ SetData PROVE hNewDib \in {"ours", "none"}
  <2>1. stack # <<>> /\ Top.pc \in OpenPcs
    BY <1>o DEF OpenForDib, EmptyClipboard, SetData, At, OpenPcs
  <2> QED
    BY <2>1 DEF DibInv, OpenPcs
<1>2. CASE OpenForDib
  <2>1. CASE Returned /\ FreeDib
    BY <1>o, <1>r, <1>2, <2>1, FreeDibEffect
  <2>2. CASE Goes("empty") /\ UNCHANGED hNewDib
    BY <1>o, <1>g, <1>2, <2>2, GoesShape DEF OpenPcs
  <2> QED
    BY <1>2, <2>1, <2>2, CopyEffect
<1>3. CASE EmptyClipboard
  <2>1. CASE Returned /\ FreeDib
    BY <1>o, <1>r, <1>3, <2>1, FreeDibEffect
  <2>2. CASE Became(MovedTo("set")) /\ MovedTo("set").pc = "set" /\ UNCHANGED hNewDib
    BY <1>o, <1>g, <1>3, <2>2 DEF OpenPcs
  <2> QED
    BY <1>3, <2>1, <2>2, CopyEffect
<1>4. CASE SetData
  <2>1. Returned /\ hNewDib' \notin {"ours", "twice"}
    BY <1>o, <1>4, CopyEffect, FreeDibEffect
  <2> QED
    BY <1>r, <2>1
<1>5. CASE hNewDib' = hNewDib /\ UNCHANGED stack
  BY <1>5 DEF DibInv, Top
<1>6. CASE /\ hNewDib' = hNewDib /\ Elsewhere
           /\ \/ Still \/ Returned
              \/ \E f : f.pc \notin OpenPcs /\ (Pushed(f) \/ Became(f))
  <2>1. stack # <<>> => Top.pc \notin OpenPcs
    BY <1>t, <1>6, FrameFacts DEF Elsewhere, OpenPcs, CopyPcs
  <2>2. hNewDib' \notin {"ours", "twice"}
    BY <1>6, <2>1 DEF DibInv, OpenPcs
  <2>3. CASE Still
    <3>1. (stack' # <<>> <=> stack # <<>>) /\ (stack # <<>> => (Top.pc)' = Top.pc)
      BY <2>3, TopAfter
    <3> QED
      BY <2>1, <2>2, <3>1 DEF DibInv, OpenPcs
  <2> QED
    BY <1>6, <1>f, <1>r, <2>2, <2>3
<1> QED
  BY <1>1, <1>2, <1>3, <1>4, <1>5, <1>6, ForeignStep

Holds(f) == f.kind = "paste" \/ (f.kind = "copy" /\ f.pc \in {"empty", "set"})

LEMMA HolderForm ==
  ASSUME stack' \in Seq(Frame)
  PROVE  ClipboardGivenBack' <=> (holder' = "dialog" => \E i \in 1..Len(stack') : Holds(stack'[i]))
<1>1. DOMAIN stack' = 1..Len(stack')
  OBVIOUS
<1> QED
  BY <1>1 DEF ClipboardGivenBack, Handlers, Holds

LEMMA HolderShape ==
  ASSUME TypeOK, ClipboardGivenBack, NEW f,
         \/ /\ holder' # "dialog" \/ holder' = holder
            /\ \/ Still \/ Pushed(f)
               \/ Returned /\ ~Holds(Top)
               \/ Became(f) /\ (Holds(Top) => Holds(f))
         \/ holder' # "dialog" /\ Returned
         \/ Holds(f) /\ (Pushed(f) \/ Became(f))
  PROVE  ClipboardGivenBack'
<1>1. /\ stack' \in Seq(Frame) /\ Len(stack) \in Nat /\ stack \in Seq(Frame)
      /\ DOMAIN stack = 1..Len(stack)
  BY ShapeTypes DEF TypeOK
<1>2. stack # <<>> => Top = stack[Len(stack)]
  BY TopFacts
<1>3. \A g, h : Kept(g, h) /\ Holds(g) => Holds(h)
  BY DEF Kept, Holds
<1> SUFFICES ASSUME holder' = "dialog" PROVE \E i \in 1..Len(stack') : Holds(stack'[i])
  BY <1>1, HolderForm
<1>4. CASE Holds(f) /\ (Pushed(f) \/ Became(f))
  <2>1. Len(stack') \in 1..Len(stack') /\ stack'[Len(stack')] = f
    BY <1>1, <1>4 DEF Pushed, Became
  <2> QED
    BY <1>4, <2>1
<1>5. CASE /\ holder' = holder
           /\ \/ Still \/ Pushed(f)
              \/ Returned /\ ~Holds(Top)
              \/ Became(f) /\ (Holds(Top) => Holds(f))
  <2>1. PICK i \in 1..Len(stack) : Holds(stack[i])
    BY <1>1, <1>5 DEF ClipboardGivenBack, Handlers, Holds
  <2>2. CASE Still \/ Pushed(f)
    <3>1. i \in 1..Len(stack') /\ Kept(stack[i], stack'[i])
      BY <1>1, <2>2 DEF Still, Pushed, KeptTo
    <3> QED
      BY <1>3, <2>1, <3>1
  <2>3. CASE i = Len(stack)
    <3>1. Holds(Top)
      <4>1. stack # <<>>
        BY <1>1, <2>3
      <4> QED
        BY <1>2, <2>1, <2>3, <4>1
    <3>2. CASE Became(f)
      <4>1. stack'[Len(stack')] = f /\ Len(stack') \in 1..Len(stack')
        BY <3>2 DEF Became
      <4> QED
        BY <1>4, <1>5, <2>2, <3>1, <3>2
    <3> QED
      BY <1>5, <2>2, <3>1, <3>2
  <2>4. CASE i # Len(stack) /\ (Returned \/ Became(f))
    <3>a. i \in 1..Len(stack) /\ i # Len(stack) /\ Len(stack) \in Nat
      BY <1>1, <2>4, Zenon
    <3>0. i \in 1..(Len(stack) - 1)
      BY ONLY <3>a
    <3>1. i \in 1..Len(stack') /\ Kept(stack[i], stack'[i])
      BY <1>1, <2>4, <3>0 DEF Returned, Became, KeptTo
    <3> QED
      BY <1>3, <2>1, <3>1
  <2> QED
    BY <1>5, <2>2, <2>3, <2>4
<1> QED
  BY <1>4, <1>5

LEMMA HolderStep ==
  ASSUME TypeOK, ClipboardGivenBack, [Next]_vars
  PROVE  ClipboardGivenBack'
<1> USE DEF pictures, clipboard, output
<1>s. stack \in Seq(Frame) /\ picture \in Picture
  BY DEF TypeOK
<1>h. (IF holder = "dialog" THEN "nobody" ELSE holder) # "dialog"
  OBVIOUS
<1>l. ASSUME Still, holder' = holder \/ holder' # "dialog" PROVE ClipboardGivenBack'
  BY <1>l, HolderShape
<1>p. ASSUME NEW f, Pushed(f), holder' = holder \/ Holds(f) PROVE ClipboardGivenBack'
  BY <1>p, HolderShape
<1>r. ASSUME Returned, holder' # "dialog" \/ (holder' = holder /\ ~Holds(Top))
      PROVE  ClipboardGivenBack'
  BY <1>r, HolderShape
<1>b. ASSUME NEW f, Became(f), holder' = holder, Holds(Top) => Holds(f) PROVE ClipboardGivenBack'
  BY <1>b, HolderShape
<1>g. ASSUME NEW pc, Goes(pc), holder' = holder, Top.kind # "copy" \/ Top.pc = "create"
      PROVE  ClipboardGivenBack'
  <2>1. Holds(Top) => Holds(MovedTo(pc))
    BY <1>g DEF Goes, Moved, Holds
  <2> QED
    BY <1>b, <1>g, <2>1, GoesShape
<1>1. ASSUME \/ \E n \in 1..MaxFiles : PostDrop(n)
             \/ PostPaste \/ OthersReplace \/ CopyText \/ SetWordWrap
             \/ UNCHANGED vars
      PROVE  ClipboardGivenBack'
  <2>1. Still /\ holder' = holder
    BY <1>s, <1>1, StillEffect DEF PostDrop, PostPaste, OthersReplace, CopyText, SetWordWrap, vars
  <2> QED
    BY <1>l, <2>1
<1>2. ASSUME OthersOpen \/ OthersClose PROVE ClipboardGivenBack'
  <2>1. Still /\ holder' # "dialog"
    BY <1>s, <1>2, StillEffect DEF OthersOpen, OthersClose
  <2> QED
    BY <1>l, <2>1
<1>3. ASSUME DispatchPosted PROVE ClipboardGivenBack'
  <2>1. \A n \in Nat : Holds(Batch("paste", n))
    BY DEF Holds, Batch
  <2>2. \/ \E f : Pushed(f) /\ (holder' = holder \/ Holds(f))
        \/ Still /\ (holder' = holder \/ holder' # "dialog")
    BY <1>3, <2>1, DispatchEffect
  <2> QED
    BY <1>l, <1>p, <2>2
<1>4. ASSUME StartDump PROVE ClipboardGivenBack'
  <2> DEFINE f == Dumping(Top, latest + 1)
  <2>1. Became(f) /\ f.kind = Top.kind /\ Top \in BatchFrame /\ holder' = holder
    BY <1>4, StartDumpEffect DEF StartDump
  <2> HIDE DEF f
  <2>2. Holds(Top) => Holds(f)
    BY <2>1 DEF Holds, BatchFrame
  <2> QED
    BY <1>b, <2>1, <2>2
<1>5. ASSUME Decode \/ ShowBox \/ DismissBox PROVE ClipboardGivenBack'
  <2>1. Top.kind # "copy" /\ holder' = holder
    BY <1>5, BatchEffect DEF BatchFrame, Decode, ShowBox, DismissBox
  <2>2. Goes("next") \/ Goes("box") \/ Goes("decode")
    BY <1>5, BatchEffect
  <2> QED
    BY <1>g, <2>1, <2>2
<1>6. ASSUME EndBatch PROVE ClipboardGivenBack'
  <2>1. /\ Returned
        /\ \/ holder' # "dialog"
           \/ holder' = holder /\ Top.kind = "drop"
    BY <1>6, <1>h, BatchEffect
  <2> QED
    BY <1>r, <2>1 DEF Holds
<1>7. ASSUME OpenMenu PROVE ClipboardGivenBack'
  <2>1. holder' = holder /\ \E f : Pushed(f)
    BY <1>7, MenuEffect DEF OpenMenu
  <2> QED
    BY <1>p, <2>1
<1>8. ASSUME CloseMenu \/ \E item \in {"copy", "save", "paste"} : ChooseItem(item)
      PROVE  ClipboardGivenBack'
  <2>1. At("menu") /\ Returned /\ holder' = holder
    BY <1>8, MenuEffect DEF CloseMenu, ChooseItem
  <2>2. ~Holds(Top)
    BY <2>1, TopFacts, FrameFacts DEF At, Holds
  <2> QED
    BY <1>r, <2>1, <2>2
<1>9. ASSUME CreateDib PROVE ClipboardGivenBack'
  <2>1. Top.pc = "create" /\ Top.kind = "copy" /\ holder' = holder /\ (Goes("open") \/ Returned)
    BY <1>9, CopyEffect DEF CreateDib
  <2> QED
    BY <1>g, <1>r, <2>1 DEF Holds
<1>10. ASSUME OpenForDib PROVE ClipboardGivenBack'
  <2>1. CASE Goes("empty") /\ holder' = "dialog" /\ Top.kind = "copy"
    <3>1. Became(MovedTo("empty")) /\ Holds(MovedTo("empty"))
      BY <2>1 DEF Goes, Moved, Holds
    <3> QED
      BY <3>1, HolderShape
  <2>2. CASE holder = "other" /\ Returned /\ UNCHANGED holder
    BY <1>r, <2>2
  <2> QED
    BY <1>10, <2>1, <2>2, CopyEffect
<1>11. ASSUME EmptyClipboard PROVE ClipboardGivenBack'
  <2>1. CASE Returned /\ holder' = IF holder = "dialog" THEN "nobody" ELSE holder
    BY <1>h, <1>r, <2>1
  <2>2. CASE /\ Became(MovedTo("set")) /\ UNCHANGED holder
             /\ Moved(Top, MovedTo("set")) /\ MovedTo("set").pc = "set" /\ Top.kind = "copy"
    <3>1. Holds(MovedTo("set"))
      BY <2>2 DEF Moved, Holds
    <3> QED
      BY <1>b, <2>2, <3>1
  <2> QED
    BY <1>11, <2>1, <2>2, CopyEffect
<1>12. ASSUME SetData PROVE ClipboardGivenBack'
  BY <1>12, <1>h, <1>r, CopyEffect
<1>13. ASSUME \/ \E png \in BOOLEAN, file \in {"absent", "old"} : ChooseName(png, file)
              \/ CancelName \/ DismissFailure \/ Prepare \/ CreateFile \/ WriteHeader \/ WriteBits
       PROVE  ClipboardGivenBack'
  <2>1. Top \in SaveFrame /\ holder' = holder
    BY <1>13, SaveEffect DEF ChooseName, CancelName, DismissFailure, Prepare, CreateFile,
       WriteHeader, WriteBits, saveFrame
  <2>2. ~Holds(Top) /\ Top.kind # "copy"
    BY <2>1 DEF Holds, SaveFrame
  <2>3. Returned \/ Goes("bits") \/ Goes("failed") \/ \E f : Became(f)
    BY <1>13, SaveEffect DEF Told, Readied
  <2> QED
    BY <1>r, <1>g, <1>b, <2>1, <2>2, <2>3
<1>14. ASSUME ClickQuery PROVE ClipboardGivenBack'
  BY <1>14, <1>p, QueryEffect DEF ClickQuery, queryFrame
<1>15. ASSUME PromptOffline \/ GoOnline \/ EndQuery PROVE ClipboardGivenBack'
  <2>1. Top.kind = "query" /\ holder' = holder
    BY <1>15, QueryEffect DEF PromptOffline, GoOnline, EndQuery, queryFrame
  <2>2. Returned \/ Goes("prompt") \/ Goes("ask")
    BY <1>15, QueryEffect
  <2> QED
    BY <1>r, <1>g, <2>1, <2>2 DEF Holds
<1> QED
  BY <1>1, <1>2, <1>3, <1>4, <1>5, <1>6, <1>7, <1>8, <1>9, <1>10, <1>11, <1>12, <1>13, <1>14, <1>15
     DEF Next

-----------------------------------------------------------------------------
(* As long as no decoder message was shown in a box, a batch is innermost.  *)
LEMMA BatchOnTop ==
  ASSUME TypeOK, StackInv, boxed = FALSE, NEW i \in 1..Len(stack),
         stack[i].kind \in {"drop", "paste"}
  PROVE  i = Len(stack) /\ stack # <<>> /\ Top.pc \notin PumpPcs /\ Top.kind = stack[i].kind
<1>1. stack \in Seq(Frame) /\ stack[i] \in Frame /\ stack # <<>> /\ Len(stack) \in Nat
  BY DEF TypeOK
<1>2. stack[i].pc \in BatchPcs /\ stack[i].pc # "box"
  BY <1>1, FrameFacts DEF StackInv
<1>3. stack[i].pc \notin PumpPcs
  BY <1>2 DEF BatchPcs, PumpPcs
<1>4. i = Len(stack)
  BY <1>1, <1>3 DEF StackInv
<1> QED
  BY <1>1, <1>3, <1>4, TopFacts

(* What is true of a frame that is replaced, and of what is below it.       *)
ListOf(f) == f.kind = "paste" => f.list /\ holder' = "dialog"

LEMMA ListShape ==
  ASSUME TypeOK, StackInv, boxed = FALSE, NEW f,
         \/ AtPump /\ (Still \/ (Pushed(f) /\ ListOf(f)))
         \/ Returned
         \/ Became(f) /\ ListOf(f)
  PROVE  ListHeld'
<1>1. /\ stack' \in Seq(Frame) /\ Len(stack) \in Nat
      /\ \A i \in 1..Len(stack) : stack[i] \in Frame
  BY ShapeTypes DEF TypeOK
<1>2. DOMAIN stack' = 1..Len(stack')
  BY <1>1
<1>3. ASSUME NEW i \in 1..Len(stack), i < Len(stack) \/ AtPump, Kept(stack[i], stack'[i])
      PROVE  stack'[i].kind # "paste"
  <2>1. stack[i].kind = "paste" => i = Len(stack) /\ stack # <<>> /\ Top.pc \notin PumpPcs
    BY BatchOnTop
  <2>2. stack[i].kind # "paste"
    BY <1>1, <1>3, <2>1 DEF AtPump
  <2> QED
    BY <1>3, <2>2 DEF Kept
<1>4. ASSUME NEW i \in 1..Len(stack'), stack'[i].kind = "paste"
      PROVE  stack'[i].list /\ holder' = "dialog"
  <2>1. CASE AtPump /\ Still
    BY <1>3, <1>4, <2>1 DEF Still, KeptTo
  <2>2. CASE AtPump /\ Pushed(f) /\ ListOf(f)
    <3>1. i \in 1..Len(stack) \/ i = Len(stack) + 1
      BY <1>1, <2>2 DEF Pushed
    <3> QED
      BY <1>3, <1>4, <2>2, <3>1 DEF Pushed, KeptTo, ListOf
  <2>3. CASE Returned
    <3>1. i \in 1..(Len(stack) - 1) /\ i \in 1..Len(stack) /\ i < Len(stack)
      BY <1>1, <2>3 DEF Returned
    <3> QED
      BY <1>3, <1>4, <2>3, <3>1 DEF Returned, KeptTo
  <2>4. CASE Became(f) /\ ListOf(f)
    <3>1. i = Len(stack) \/ (i \in 1..(Len(stack) - 1) /\ i \in 1..Len(stack) /\ i < Len(stack))
      BY <1>1, <2>4 DEF Became
    <3> QED
      BY <1>3, <1>4, <2>4, <3>1 DEF Became, KeptTo, ListOf
  <2> QED
    BY <2>1, <2>2, <2>3, <2>4
<1> QED
  BY <1>2, <1>4 DEF ListHeld, Handlers

LEMMA ListStep ==
  ASSUME TypeOK, StackInv, ListHeld, [Next]_vars
  PROVE  ListHeld'
<1> USE DEF pictures, clipboard, output
<1> SUFFICES ASSUME boxed' = FALSE PROVE ListHeld'
  BY DEF ListHeld
<1>s. /\ stack \in Seq(Frame) /\ picture \in Picture /\ boxed = FALSE
      /\ DOMAIN stack = 1..Len(stack)
  <2>1. boxed = FALSE
    BY BoxedStep
  <2>2. stack \in Seq(Frame) /\ picture \in Picture
    BY DEF TypeOK
  <2>3. DOMAIN stack = 1..Len(stack)
    BY <2>2
  <2> QED
    BY <2>1, <2>2, <2>3
<1>t. stack # <<>> => Top \in Frame /\ (Top.kind = "paste" => Top.list /\ holder = "dialog")
  BY <1>s, TopFacts DEF ListHeld, Handlers
<1>u. ASSUME UNCHANGED <<stack, holder>> PROVE ListHeld'
  BY <1>s, <1>u DEF ListHeld, Handlers
<1>l. ASSUME AtPump, Still PROVE ListHeld'
  BY <1>s, <1>l, ListShape
<1>p. ASSUME NEW f, AtPump, Pushed(f), ListOf(f) PROVE ListHeld'
  BY <1>s, <1>p, ListShape
<1>r. ASSUME Returned PROVE ListHeld'
  BY <1>s, <1>r, ListShape
<1>b. ASSUME NEW f, Became(f), ListOf(f) PROVE ListHeld'
  BY <1>s, <1>b, ListShape
<1>g. ASSUME NEW pc, Goes(pc), Top.kind \in {"copy", "save", "query"} PROVE ListHeld'
  <2>1. ListOf(MovedTo(pc))
    BY <1>g DEF Goes, Moved, ListOf
  <2> QED
    BY <1>b, <1>g, <2>1, GoesShape
<1>1. ASSUME \/ \E n \in 1..MaxFiles : PostDrop(n)
             \/ PostPaste \/ OthersReplace \/ CopyText \/ SetWordWrap
             \/ UNCHANGED vars
      PROVE  ListHeld'
  BY <1>1, <1>u DEF PostDrop, PostPaste, OthersReplace, CopyText, SetWordWrap, vars
<1>2. ASSUME OthersOpen \/ OthersClose PROVE ListHeld'
  <2>1. holder # "dialog" /\ stack' = stack
    BY <1>2 DEF OthersOpen, OthersClose
  <2>2. \A i \in 1..Len(stack) : stack[i].kind # "paste"
    BY <1>s, <2>1 DEF ListHeld, Handlers
  <2> QED
    BY <1>s, <2>1, <2>2 DEF ListHeld, Handlers
<1>3. ASSUME DispatchPosted PROVE ListHeld'
  <2>1. AtPump
    BY <1>3, DispatchEffect
  <2>2. /\ \A n \in Nat : ListOf(Batch("drop", n))
        /\ holder' = "dialog" => \A n \in Nat : ListOf(Batch("paste", n))
        /\ \A o : ListOf(Copy(o))
        /\ ListOf(Save)
    BY DEF ListOf, Batch, Copy, Save
  <2>3. Still \/ \E f : Pushed(f) /\ ListOf(f)
    BY <1>3, <2>2, DispatchEffect
  <2> QED
    BY <1>l, <1>p, <2>1, <2>3
<1>4. ASSUME StartDump PROVE ListHeld'
  <2> DEFINE f == Dumping(Top, latest + 1)
  <2>1. Became(f) /\ f.kind = Top.kind /\ f.list = Top.list /\ stack # <<>> /\ holder' = holder
    BY <1>4, StartDumpEffect DEF StartDump, At
  <2> HIDE DEF f
  <2>2. ListOf(f)
    BY <1>t, <2>1 DEF ListOf
  <2> QED
    BY <1>b, <2>1, <2>2
<1>5. ASSUME Decode \/ ShowBox \/ DismissBox PROVE ListHeld'
  <2>1. stack # <<>> /\ Top \in BatchFrame /\ holder' = holder
    BY <1>5, BatchEffect DEF Decode, ShowBox, DismissBox, At
  <2>2. PICK pc \in {"next", "box", "decode"} : Goes(pc)
    BY <1>5, BatchEffect
  <2>3. ListOf(MovedTo(pc))
    BY <1>t, <2>1, <2>2 DEF Goes, Moved, ListOf, BatchFrame
  <2> QED
    BY <1>b, <2>2, <2>3, GoesShape
<1>6. ASSUME EndBatch PROVE ListHeld'
  BY <1>6, <1>r, BatchEffect
<1>7. ASSUME OpenMenu PROVE ListHeld'
  <2>1. AtPump
    BY <1>7 DEF OpenMenu, Input, Idle
  <2>2. \E items : Pushed(Menu(items))
    BY <1>7, MenuEffect
  <2>3. \A items : ListOf(Menu(items))
    BY DEF ListOf, Menu
  <2> QED
    BY <1>p, <2>1, <2>2, <2>3
<1>8. ASSUME CloseMenu \/ \E item \in {"copy", "save", "paste"} : ChooseItem(item)
      PROVE  ListHeld'
  BY <1>8, <1>r, MenuEffect
<1>9. ASSUME CreateDib \/ OpenForDib \/ EmptyClipboard \/ SetData PROVE ListHeld'
  <2>1. Top.kind = "copy"
    BY <1>9, CopyEffect
  <2>2. ListOf(MovedTo("set")) \/ ~Moved(Top, MovedTo("set"))
    BY <2>1 DEF Moved, ListOf
  <2>3. \/ Returned \/ Goes("open") \/ Goes("empty")
        \/ Became(MovedTo("set")) /\ Moved(Top, MovedTo("set"))
    BY <1>9, CopyEffect
  <2> QED
    BY <1>r, <1>g, <1>b, <2>1, <2>2, <2>3
<1>10. ASSUME \/ \E png \in BOOLEAN, file \in {"absent", "old"} : ChooseName(png, file)
              \/ CancelName \/ DismissFailure \/ Prepare \/ CreateFile \/ WriteHeader \/ WriteBits
       PROVE  ListHeld'
  <2>1. Top \in SaveFrame
    BY <1>10, SaveEffect
  <2>2. Top.kind = "save"
    BY <2>1 DEF SaveFrame
  <2>3. \/ Returned \/ Goes("bits") \/ Goes("failed") \/ Became(Created(Top))
        \/ \E whole \in BOOLEAN : Became(Prepared(Top, whole))
        \/ \E png \in BOOLEAN, file \in {"absent", "old"} : Became(Chosen(Top, png, file))
    BY <1>10, SaveEffect DEF Told, Readied
  <2>4. /\ Created(Top) \in SaveFrame
        /\ \A whole \in BOOLEAN : Prepared(Top, whole) \in SaveFrame
        /\ \A png \in BOOLEAN, file \in {"absent", "old"} : Chosen(Top, png, file) \in SaveFrame
    BY <1>s, <2>1, SaveFrames
  <2>5. \A f \in SaveFrame : ListOf(f)
    BY DEF ListOf, SaveFrame
  <2> QED
    BY <1>r, <1>g, <1>b, <2>2, <2>3, <2>4, <2>5
<1>11. ASSUME ClickQuery PROVE ListHeld'
  <2>1. AtPump /\ Pushed(Query) /\ ListOf(Query)
    BY <1>11, QueryEffect DEF Input, Idle, ListOf, Query
  <2> QED
    BY <1>p, <2>1
<1>12. ASSUME PromptOffline \/ GoOnline \/ EndQuery PROVE ListHeld'
  <2>1. Top.kind = "query" /\ (Returned \/ Goes("prompt") \/ Goes("ask"))
    BY <1>12, QueryEffect
  <2> QED
    BY <1>r, <1>g, <2>1
<1> QED
  BY <1>1, <1>2, <1>3, <1>4, <1>5, <1>6, <1>7, <1>8, <1>9, <1>10, <1>11, <1>12 DEF Next

-----------------------------------------------------------------------------
(* The output window.                                                       *)
Sees(f) == f.kind \in {"drop", "paste", "query"} => f.window = window

LEMMA WindowShape ==
  ASSUME TypeOK, OutputIsCurrent, boxed = FALSE, window' = window, NEW f,
         Still \/ Returned \/ (Pushed(f) /\ Sees(f)) \/ (Became(f) /\ Sees(f))
  PROVE  OutputIsCurrent'
<1>1. /\ stack' \in Seq(Frame) /\ Len(stack) \in Nat
      /\ DOMAIN stack = 1..Len(stack)
  BY ShapeTypes DEF TypeOK
<1>2. DOMAIN stack' = 1..Len(stack')
  BY <1>1
<1>3. \A i \in 1..Len(stack) : Sees(stack[i])
  BY <1>1 DEF OutputIsCurrent, Handlers, Sees
<1>4. ASSUME NEW i \in 1..Len(stack), Kept(stack[i], stack'[i]) PROVE Sees(stack'[i])
  BY <1>3, <1>4 DEF Kept, Sees
<1>5. ASSUME NEW i \in 1..Len(stack') PROVE Sees(stack'[i])
  <2>1. CASE Still
    BY <1>4, <2>1 DEF Still, KeptTo
  <2>2. CASE Pushed(f) /\ Sees(f)
    BY <1>1, <1>4, <2>2 DEF Pushed, KeptTo
  <2>3. CASE Returned
    BY <1>1, <1>4, <2>3 DEF Returned, KeptTo
  <2>4. CASE Became(f) /\ Sees(f)
    BY <1>1, <1>4, <2>4 DEF Became, KeptTo
  <2> QED
    BY <2>1, <2>2, <2>3, <2>4
<1> QED
  BY <1>2, <1>5 DEF OutputIsCurrent, Handlers, Sees

(* Where the user can reach the dialog, nobody who prints is waiting.       *)
LEMMA NobodyPrints ==
  ASSUME TypeOK, StackInv, boxed = FALSE, Input, NEW i \in 1..Len(stack)
  PROVE  stack[i].kind \notin {"drop", "paste", "query"}
<1>1. /\ AtPump /\ DialogEnabled /\ stack[i] \in Frame /\ stack # <<>> /\ Len(stack) \in Nat
      /\ DOMAIN stack = 1..Len(stack)
  BY DEF Input, Idle, TypeOK
<1>2. stack[i].kind \notin {"drop", "paste"}
  <2>1. stack[i].kind \in {"drop", "paste"} => Top.pc \notin PumpPcs
    BY BatchOnTop
  <2> QED
    BY <1>1, <2>1 DEF AtPump
<1>3. stack[i].kind # "query"
  <2>1. stack[i].kind = "query" => stack[i].pc \in {"ask", "prompt"}
    BY <1>1, FrameFacts
  <2>2. stack[i].pc # "prompt"
    BY <1>1 DEF DialogEnabled, OwnedPcs
  <2>3. stack[i].pc \in PumpPcs
    <3>1. CASE i < Len(stack)
      BY <3>1 DEF StackInv
    <3>2. CASE i = Len(stack)
      BY <1>1, <3>2, TopFacts DEF AtPump
    <3>3. i < Len(stack) \/ i = Len(stack)
      <4>1. i \in 1..Len(stack) /\ Len(stack) \in Nat
        BY <1>1, Zenon
      <4> QED
        BY ONLY <4>1
    <3> QED
      BY <3>1, <3>2, <3>3
  <2> QED
    BY <2>1, <2>2, <2>3 DEF PumpPcs
<1> QED
  BY <1>2, <1>3

LEMMA OutputStep ==
  ASSUME TypeOK, StackInv, OutputIsCurrent, [Next]_vars
  PROVE  OutputIsCurrent'
<1> USE DEF pictures, clipboard, output
<1> SUFFICES ASSUME boxed' = FALSE PROVE OutputIsCurrent'
  BY DEF OutputIsCurrent
<1>s. boxed = FALSE
  BY BoxedStep
<1>d. stack \in Seq(Frame) /\ DOMAIN stack = 1..Len(stack) /\ picture \in Picture
  BY DEF TypeOK
<1>t. stack # <<>> => Top \in Frame /\ Sees(Top)
  BY <1>s, <1>d, TopFacts DEF OutputIsCurrent, Handlers, Sees
<1>l. ASSUME Still, window' = window PROVE OutputIsCurrent'
  BY <1>s, <1>l, WindowShape
<1>p. ASSUME NEW f, Pushed(f), Sees(f), window' = window PROVE OutputIsCurrent'
  BY <1>s, <1>p, WindowShape
<1>r. ASSUME Returned, window' = window PROVE OutputIsCurrent'
  BY <1>s, <1>r, WindowShape
<1>b. ASSUME NEW f, Became(f), Sees(f), window' = window PROVE OutputIsCurrent'
  BY <1>s, <1>b, WindowShape
<1>g. ASSUME NEW pc, Goes(pc), stack # <<>>, window' = window PROVE OutputIsCurrent'
  <2>1. Sees(MovedTo(pc))
    BY <1>t, <1>g DEF Goes, Moved, Sees
  <2> QED
    BY <1>b, <1>g, <2>1, GoesShape
<1>1. ASSUME \/ \E n \in 1..MaxFiles : PostDrop(n)
             \/ PostPaste \/ OthersOpen \/ OthersReplace \/ OthersClose \/ CopyText
             \/ UNCHANGED vars
      PROVE  OutputIsCurrent'
  <2>1. Still /\ window' = window
    BY <1>d, <1>1, StillEffect DEF PostDrop, PostPaste, OthersOpen, OthersReplace, OthersClose,
       CopyText, vars
  <2> QED
    BY <1>l, <2>1
<1>2. ASSUME SetWordWrap PROVE OutputIsCurrent'
  <2>1. Input /\ stack' = stack
    BY <1>2 DEF SetWordWrap
  <2>2. \A i \in 1..Len(stack) : stack[i].kind \notin {"drop", "paste", "query"}
    BY <1>s, <2>1, NobodyPrints
  <2> QED
    BY <1>d, <2>1, <2>2 DEF OutputIsCurrent, Handlers
<1>3. ASSUME DispatchPosted PROVE OutputIsCurrent'
  <2>1. window' = window
    BY <1>3, DispatchEffect
  <2>2. /\ \A kind \in {"drop", "paste"}, n \in Nat : Sees(Batch(kind, n))
        /\ \A o : Sees(Copy(o))
        /\ Sees(Save)
    BY DEF Sees, Batch, Copy, Save
  <2>3. Still \/ \E f : Pushed(f) /\ Sees(f)
    BY <1>3, <2>2, DispatchEffect
  <2> QED
    BY <1>l, <1>p, <2>1, <2>3
<1>4. ASSUME StartDump PROVE OutputIsCurrent'
  <2> DEFINE f == Dumping(Top, latest + 1)
  <2>1. /\ Became(f) /\ f.kind = Top.kind /\ f.window = Top.window
        /\ stack # <<>> /\ window' = window
    BY <1>4, StartDumpEffect DEF StartDump, At
  <2> HIDE DEF f
  <2>2. Sees(f)
    BY <1>t, <2>1 DEF Sees
  <2> QED
    BY <1>b, <2>1, <2>2
<1>5. ASSUME Decode \/ ShowBox \/ DismissBox \/ EndBatch PROVE OutputIsCurrent'
  <2>1. stack # <<>> /\ window' = window
    BY <1>5 DEF Decode, ShowBox, DismissBox, EndBatch, At
  <2>2. Returned \/ Goes("next") \/ Goes("box") \/ Goes("decode")
    BY <1>5, BatchEffect
  <2> QED
    BY <1>r, <1>g, <2>1, <2>2
<1>6. ASSUME OpenMenu PROVE OutputIsCurrent'
  <2>1. window' = window /\ \E items : Pushed(Menu(items))
    BY <1>6, MenuEffect DEF OpenMenu
  <2>2. \A items : Sees(Menu(items))
    BY DEF Sees, Menu
  <2> QED
    BY <1>p, <2>1, <2>2
<1>7. ASSUME CloseMenu \/ \E item \in {"copy", "save", "paste"} : ChooseItem(item)
      PROVE  OutputIsCurrent'
  <2>1. Returned /\ window' = window
    BY <1>7, MenuEffect DEF CloseMenu, ChooseItem
  <2> QED
    BY <1>r, <2>1
<1>8. ASSUME CreateDib \/ OpenForDib \/ EmptyClipboard \/ SetData PROVE OutputIsCurrent'
  <2>1. Top.kind = "copy" /\ stack # <<>> /\ window' = window
    BY <1>8, CopyEffect DEF CreateDib, OpenForDib, EmptyClipboard, SetData, copyFrame, At
  <2>2. Sees(MovedTo("set")) \/ ~Moved(Top, MovedTo("set"))
    BY <2>1 DEF Moved, Sees
  <2>3. \/ Returned \/ Goes("open") \/ Goes("empty")
        \/ Became(MovedTo("set")) /\ Moved(Top, MovedTo("set"))
    BY <1>8, CopyEffect
  <2> QED
    BY <1>r, <1>g, <1>b, <2>1, <2>2, <2>3
<1>9. ASSUME \/ \E png \in BOOLEAN, file \in {"absent", "old"} : ChooseName(png, file)
             \/ CancelName \/ DismissFailure \/ Prepare \/ CreateFile \/ WriteHeader \/ WriteBits
      PROVE  OutputIsCurrent'
  <2>1. Top \in SaveFrame /\ stack # <<>> /\ window' = window
    BY <1>9, SaveEffect DEF ChooseName, CancelName, DismissFailure, Prepare, CreateFile,
       WriteHeader, WriteBits, saveFrame, At
  <2>2. \/ Returned \/ Goes("bits") \/ Goes("failed") \/ Became(Created(Top))
        \/ \E whole \in BOOLEAN : Became(Prepared(Top, whole))
        \/ \E png \in BOOLEAN, file \in {"absent", "old"} : Became(Chosen(Top, png, file))
    BY <1>9, SaveEffect DEF Told, Readied
  <2>3. /\ Created(Top) \in SaveFrame
        /\ \A whole \in BOOLEAN : Prepared(Top, whole) \in SaveFrame
        /\ \A png \in BOOLEAN, file \in {"absent", "old"} : Chosen(Top, png, file) \in SaveFrame
    BY <1>d, <2>1, SaveFrames
  <2>4. \A f \in SaveFrame : Sees(f)
    BY DEF Sees, SaveFrame
  <2> QED
    BY <1>r, <1>g, <1>b, <2>1, <2>2, <2>3, <2>4
<1>10. ASSUME ClickQuery PROVE OutputIsCurrent'
  <2>1. Pushed(Query) /\ Sees(Query) /\ window' = window
    BY <1>10, QueryEffect DEF ClickQuery, queryFrame, Sees, Query
  <2> QED
    BY <1>p, <2>1
<1>11. ASSUME PromptOffline \/ GoOnline \/ EndQuery PROVE OutputIsCurrent'
  <2>1. /\ stack # <<>> /\ window' = window
        /\ Returned \/ Goes("prompt") \/ Goes("ask")
    BY <1>11, QueryEffect DEF PromptOffline, GoOnline, EndQuery, queryFrame, At
  <2> QED
    BY <1>r, <1>g, <2>1
<1> QED
  BY <1>1, <1>2, <1>3, <1>4, <1>5, <1>6, <1>7, <1>8, <1>9, <1>10, <1>11 DEF Next

-----------------------------------------------------------------------------
(* A copy finds its picture.                                                *)
Dumps == {"decode", "box"}
Plain(f) ==
  /\ UNCHANGED pictures
  /\ \/ Still \/ Returned
     \/ /\ Pushed(f) \/ Became(f)
        /\ f.pc \notin Dumps /\ (Offers(f) /\ f.opened = latest => Copyable)

(* The steps but those of a dump.                                           *)
LEMMA PlainStep ==
  ASSUME TypeOK, CopyInv, [Next]_vars
  PROVE  StartDump \/ Decode \/ ShowBox \/ DismissBox \/ \E f : Plain(f)
<1>d. stack \in Seq(Frame) /\ picture \in Picture
  BY DEF TypeOK
<1>l. ASSUME Still, UNCHANGED pictures PROVE \E f : Plain(f)
  BY <1>l DEF Plain
<1>r. ASSUME Returned, UNCHANGED pictures PROVE \E f : Plain(f)
  BY <1>r DEF Plain
<1>b. ASSUME NEW f, Pushed(f) \/ Became(f), f.pc \notin Dumps,
             Offers(f) /\ f.opened = latest => Copyable, UNCHANGED pictures
      PROVE  \E g : Plain(g)
  BY <1>b DEF Plain
<1>g. ASSUME NEW pc, Goes(pc), pc \notin {"decode", "box", "menu", "create"}, UNCHANGED pictures
      PROVE  \E f : Plain(f)
  <2>1. /\ MovedTo(pc).pc \notin Dumps /\ ~Offers(MovedTo(pc))
        /\ Became(MovedTo(pc))
    BY <1>g DEF Goes, Offers, Dumps
  <2> QED
    BY <1>b, <1>g, <2>1
<1>1. ASSUME \/ \E n \in 1..MaxFiles : PostDrop(n)
             \/ PostPaste \/ OthersOpen \/ OthersReplace \/ OthersClose \/ CopyText \/ SetWordWrap
             \/ UNCHANGED vars
      PROVE  \E f : Plain(f)
  <2>1. Still /\ UNCHANGED pictures
    BY <1>d, <1>1, StillEffect DEF PostDrop, PostPaste, OthersOpen, OthersReplace, OthersClose,
       CopyText, SetWordWrap, vars
  <2> QED
    BY <1>l, <2>1
<1>2. ASSUME DispatchPosted PROVE \E f : Plain(f)
  <2>1. UNCHANGED pictures
    BY <1>2, DispatchEffect
  <2>2. ASSUME NEW n \in Nat, Pushed(Batch("drop", n)) \/ Pushed(Batch("paste", n))
        PROVE  \E f : Plain(f)
    <3>1. \A kind \in {"drop", "paste"} : Batch(kind, n).pc = "next"
      BY DEF Batch
    <3>2. \A kind \in {"drop", "paste"} : Batch(kind, n).pc \notin Dumps /\ ~Offers(Batch(kind, n))
      BY <3>1 DEF Offers, Dumps
    <3> QED
      BY <1>b, <2>1, <2>2, <3>2
  <2>3. ASSUME Head(queue).type = "copy", Head(queue).opened \in Nat, Pushed(Copy(Head(queue).opened))
        PROVE  \E f : Plain(f)
    <3>1. queue # <<>> /\ queue \in Seq(Message)
      BY <1>2, DispatchEffect DEF TypeOK
    <3>2. Head(queue) = queue[1] /\ 1 \in 1..Len(queue)
      BY <3>1, HeadTailProperties, EmptySeq
    <3>3. Head(queue).opened = latest => Copyable
      BY <2>3, <3>2 DEF CopyInv
    <3>4. Copy(Head(queue).opened).pc = "create" /\ Copy(Head(queue).opened).opened = Head(queue).opened
      BY <2>3, NewFrames
    <3> QED
      BY <1>b, <2>1, <2>3, <3>3, <3>4 DEF Dumps
  <2>4. ASSUME Pushed(Save) PROVE \E f : Plain(f)
    <3>1. Save.pc \notin Dumps /\ ~Offers(Save)
      BY NewFrames DEF Offers, Dumps
    <3> QED
      BY <1>b, <2>1, <2>4, <3>1
  <2> QED
    BY <1>2, <1>l, <2>1, <2>2, <2>3, <2>4, DispatchEffect
<1>3. ASSUME EndBatch PROVE \E f : Plain(f)
  BY <1>3, <1>r, BatchEffect DEF EndBatch
<1>4. ASSUME OpenMenu PROVE \E f : Plain(f)
  <2>1. PICK items \in SUBSET {"copy", "save", "paste"} :
          Pushed(Menu(items)) /\ ("copy" \in items => picture.of # 0 /\ picture.fits)
    BY <1>4, MenuEffect
  <2>2. Menu(items).pc = "menu" /\ Menu(items).items = items
    BY NewFrames
  <2>3. Menu(items).pc \notin Dumps /\ (Offers(Menu(items)) => Copyable)
    BY <2>1, <2>2 DEF Offers, Dumps, Copyable
  <2> QED
    BY <1>4, <1>b, <2>1, <2>3 DEF OpenMenu
<1>5. ASSUME CloseMenu \/ \E item \in {"copy", "save", "paste"} : ChooseItem(item)
      PROVE  \E f : Plain(f)
  <2>1. Returned /\ UNCHANGED pictures
    BY <1>5, MenuEffect DEF CloseMenu, ChooseItem
  <2> QED
    BY <1>r, <2>1
<1>6. ASSUME CreateDib \/ OpenForDib \/ EmptyClipboard \/ SetData PROVE \E f : Plain(f)
  <2>1. UNCHANGED pictures
    BY <1>6 DEF CreateDib, OpenForDib, EmptyClipboard, SetData, copyFrame
  <2>2. \/ Returned \/ Goes("open") \/ Goes("empty")
        \/ Became(MovedTo("set")) /\ MovedTo("set").pc = "set"
    BY <1>6, CopyEffect
  <2>3. MovedTo("set").pc = "set" => MovedTo("set").pc \notin Dumps /\ ~Offers(MovedTo("set"))
    BY DEF Offers, Dumps
  <2> QED
    BY <1>r, <1>g, <1>b, <2>1, <2>2, <2>3
<1>7. ASSUME \/ \E png \in BOOLEAN, file \in {"absent", "old"} : ChooseName(png, file)
             \/ CancelName \/ DismissFailure \/ Prepare \/ CreateFile \/ WriteHeader \/ WriteBits
      PROVE  \E f : Plain(f)
  <2>1. Top \in SaveFrame /\ UNCHANGED pictures
    BY <1>7, SaveEffect DEF ChooseName, CancelName, DismissFailure, Prepare, CreateFile,
       WriteHeader, WriteBits, saveFrame
  <2>2. \/ Returned \/ Goes("bits") \/ Goes("failed") \/ Became(Created(Top))
        \/ \E whole \in BOOLEAN : Became(Prepared(Top, whole))
        \/ \E png \in BOOLEAN, file \in {"absent", "old"} : Became(Chosen(Top, png, file))
    BY <1>7, SaveEffect DEF Told, Readied
  <2>3. /\ Created(Top) \in SaveFrame
        /\ \A whole \in BOOLEAN : Prepared(Top, whole) \in SaveFrame
        /\ \A png \in BOOLEAN, file \in {"absent", "old"} : Chosen(Top, png, file) \in SaveFrame
    BY <1>d, <2>1, SaveFrames
  <2>4. \A f \in SaveFrame : f.pc \notin Dumps /\ ~Offers(f)
    BY DEF Offers, Dumps, SaveFrame
  <2> QED
    BY <1>r, <1>g, <1>b, <2>1, <2>2, <2>3, <2>4
<1>8. ASSUME ClickQuery \/ PromptOffline \/ GoOnline \/ EndQuery PROVE \E f : Plain(f)
  <2>1. UNCHANGED pictures
    BY <1>8 DEF ClickQuery, PromptOffline, GoOnline, EndQuery, queryFrame
  <2>2. Returned \/ Goes("prompt") \/ Goes("ask") \/ Pushed(Query)
    BY <1>8, QueryEffect
  <2>3. Query.pc \notin Dumps /\ ~Offers(Query)
    BY NewFrames DEF Offers, Dumps
  <2> QED
    BY <1>r, <1>g, <1>b, <2>1, <2>2, <2>3
<1> QED
  BY <1>1, <1>2, <1>3, <1>4, <1>5, <1>6, <1>7, <1>8 DEF Next

(* A message to copy was waiting before, or the menu that posted it closes. *)
LEMMA CopyMessages ==
  ASSUME TypeOK, CopyInv, [Next]_vars, NEW q \in 1..Len(queue'), queue'[q].type = "copy"
  PROVE  \/ \E p \in 1..Len(queue) : queue'[q] = queue[p]
         \/ Returned /\ UNCHANGED pictures /\ (queue'[q].opened = latest => Copyable)
<1>1. queue \in Seq(Message) /\ Len(queue) \in Nat
  BY DEF TypeOK
<1>p. ASSUME NEW m \in Message, Post(m)
      PROVE  queue'[q] = m \/ \E p \in 1..Len(queue) : queue'[q] = queue[p]
  <2>1. /\ Len(queue') = Len(queue) + 1 /\ queue'[Len(queue) + 1] = m
        /\ \A p \in 1..Len(queue) : queue'[p] = queue[p]
    BY <1>p, PostEffect
  <2>2. q \in 1..Len(queue) \/ q = Len(queue) + 1
    BY <1>1, <2>1
  <2> QED
    BY <2>1, <2>2
<1>2. CASE UNCHANGED queue
  BY <1>2
<1>3. CASE DispatchPosted
  BY <1>3, DispatchEffect, TailEffect
<1>4. CASE \E m \in Message : m.type \in {"drop", "paste"} /\ Post(m)
  BY <1>4, <1>p
<1>5. CASE \E item \in {"copy", "save", "paste"}, m \in Message :
             /\ ChooseItem(item) /\ m.type = item /\ m.opened = Top.opened /\ Post(m)
             /\ item \in Top.items /\ UNCHANGED <<pictures, boxed>>
  <2>1. PICK item \in {"copy", "save", "paste"}, m \in Message :
             /\ ChooseItem(item) /\ m.type = item /\ m.opened = Top.opened /\ Post(m)
             /\ item \in Top.items /\ UNCHANGED <<pictures, boxed>>
    BY <1>5
  <2>2. Returned /\ At("menu")
    BY <2>1, MenuEffect
  <2>3. Len(stack) \in 1..Len(stack) /\ Top = stack[Len(stack)] /\ Top.pc = "menu"
    BY <2>2, TopFacts DEF At
  <2>4. "copy" \in Top.items /\ Top.opened = latest => Copyable
    BY <2>3 DEF CopyInv, Offers
  <2> QED
    BY <1>p, <2>1, <2>2, <2>4
<1> QED
  BY <1>2, <1>3, <1>4, <1>5, QueueStep

LEMMA PlainCopy ==
  ASSUME TypeOK, StackInv, CopyInv, [Next]_vars, NEW f, Plain(f)
  PROVE  CopyInv'
<1>1. /\ stack' \in Seq(Frame) /\ Len(stack) \in Nat /\ MaxDepth \in Nat
      /\ latest' = latest /\ picture' = picture /\ stack \in Seq(Frame)
      /\ \A i \in 1..Len(stack) : stack[i] \in Frame
  BY ShapeTypes DEF TypeOK, Plain, pictures
<1>2. Copyable' <=> Copyable
  BY <1>1 DEF Copyable
<1>k. ASSUME NEW i \in 1..Len(stack), Kept(stack[i], stack'[i])
      PROVE  /\ stack'[i].pc = stack[i].pc
             /\ stack[i].pc \in Dumps => stack'[i].dump = stack[i].dump
             /\ stack[i].pc \in {"menu", "create"} => stack'[i] = stack[i]
             /\ Offers(stack'[i]) /\ stack'[i].opened = latest => Copyable
             /\ stack[i].pc = "menu" => stack'[i].opened = stack[i].opened
  <2>1. stack'[i].pc = stack[i].pc
    BY <1>k DEF Kept
  <2>2. stack[i].pc \in Dumps => stack'[i].dump = stack[i].dump
    BY <1>1, <1>k, FrameFacts DEF Kept
  <2>3. stack[i].pc \in {"menu", "create"} => stack'[i] = stack[i]
    BY <1>1, <1>k, FrameFacts DEF Kept, BatchPcs
  <2>4. Offers(stack'[i]) => stack'[i] = stack[i]
    BY <2>1, <2>3 DEF Offers
  <2>5. Offers(stack'[i]) /\ stack'[i].opened = latest => Copyable
    BY <2>4 DEF CopyInv
  <2> QED
    BY <2>1, <2>2, <2>3, <2>5
<1>i. ASSUME NEW i \in 1..Len(stack')
      PROVE  \/ i \in 1..Len(stack) /\ Kept(stack[i], stack'[i])
             \/ /\ stack'[i] = f /\ f.pc \notin Dumps
                /\ Offers(f) /\ f.opened = latest => Copyable
  <2>1. CASE Still
    BY <2>1 DEF Still, KeptTo
  <2>2. CASE Pushed(f) /\ f.pc \notin Dumps /\ (Offers(f) /\ f.opened = latest => Copyable)
    BY <1>1, <2>2 DEF Pushed, KeptTo
  <2>3. CASE Returned
    BY <1>1, <2>3 DEF Returned, KeptTo
  <2>4. CASE Became(f) /\ f.pc \notin Dumps /\ (Offers(f) /\ f.opened = latest => Copyable)
    BY <1>1, <2>4 DEF Became, KeptTo
  <2> QED
    BY <2>1, <2>2, <2>3, <2>4 DEF Plain
<1>3. ASSUME NEW q \in 1..Len(queue'), queue'[q].type = "copy", queue'[q].opened = latest
      PROVE  Copyable
  BY <1>3, CopyMessages DEF CopyInv
<1>4. ASSUME NEW i \in 1..Len(stack'), Offers(stack'[i]), stack'[i].opened = latest
      PROVE  Copyable
  BY <1>4, <1>i, <1>k
<1>5. ASSUME NEW i \in 1..Len(stack'), NEW j \in 1..Len(stack'), i < j,
             stack'[i].pc = "menu", stack'[j].pc \in Dumps
      PROVE  stack'[i].opened < stack'[j].dump
  <2>1. j \in 1..Len(stack) /\ Kept(stack[j], stack'[j])
    BY <1>5, <1>i
  <2>2. stack[j].pc \in Dumps /\ stack'[j].dump = stack[j].dump
    BY <1>5, <1>k, <2>1
  <2>3. i \in 1..Len(stack) /\ Kept(stack[i], stack'[i])
    <3>1. i \in 1..(Len(stack) - 1)
      BY <1>1, <1>5, <2>1
    <3>2. i \in 1..Len(stack)
      BY <1>1, <3>1
    <3>3. CASE Still
      BY <3>2, <3>3 DEF Still, KeptTo
    <3>4. CASE Pushed(f)
      BY <3>2, <3>4 DEF Pushed, KeptTo
    <3>5. CASE Returned \/ Became(f)
      BY <3>1, <3>2, <3>5 DEF Returned, Became, KeptTo
    <3> QED
      BY <3>3, <3>4, <3>5 DEF Plain
  <2>4. stack[i].pc = "menu" /\ stack'[i].opened = stack[i].opened
    BY <1>5, <1>k, <2>3
  <2> QED
    BY <1>5, <2>1, <2>2, <2>3, <2>4 DEF CopyInv, Dumps
<1>6. ASSUME NEW q \in 1..Len(queue'), stack' # <<>>, queue'[q].type = "copy"
      PROVE  /\ (Top.pc)' = "decode" => queue'[q].opened < latest
             /\ Len(stack') = MaxDepth /\ (Top.pc)' \in Dumps => queue'[q].opened < (Top.dump)'
  <2>1. CASE Still
    <3>1. stack # <<>> /\ Len(stack) \in 1..Len(stack) /\ Len(stack') = Len(stack)
      BY <1>1, <1>6, <2>1, EmptySeq DEF Still
    <3>2. Top = stack[Len(stack)] /\ Top' = stack'[Len(stack)]
      BY <1>1, <1>6, <3>1, FrontFacts DEF Top
    <3>3. (Top.pc)' = Top.pc /\ (Top.pc \in Dumps => (Top.dump)' = Top.dump)
      BY <1>k, <2>1, <3>1, <3>2 DEF Still, KeptTo
    <3>4. \E p \in 1..Len(queue) : queue'[q] = queue[p]
      <4>1. ~Returned
        BY <1>1, <3>1 DEF Returned
      <4> QED
        BY <1>6, <4>1, CopyMessages
    <3> QED
      BY <1>6, <3>1, <3>3, <3>4 DEF CopyInv, Dumps
  <2>2. CASE Returned
    <3>1. (Top.pc)' \in PumpPcs
      BY <1>6, <2>2, TopAfter
    <3>2. Len(stack') # MaxDepth
      <4>1. Len(stack') = Len(stack) - 1 /\ Len(stack) <= MaxDepth
        BY <2>2 DEF Returned, StackInv
      <4> QED
        BY <1>1, <4>1
    <3> QED
      BY <3>1, <3>2 DEF PumpPcs
  <2>3. CASE (Pushed(f) \/ Became(f)) /\ f.pc \notin Dumps
    BY <2>3, TopAfter DEF Dumps
  <2> QED
    BY <2>1, <2>2, <2>3 DEF Plain
<1> QED
  BY <1>1, <1>2, <1>3, <1>4, <1>5, <1>6 DEF CopyInv, Dumps

LEMMA DumpCopy ==
  ASSUME TypeOK, StackInv, HistoryInv, CopyInv, StartDump \/ Decode \/ ShowBox \/ DismissBox
  PROVE  CopyInv'
<1> USE DEF pictures
<1> DEFINE n == Len(stack)
<1>1. /\ stack # <<>> /\ queue' = queue /\ Top \in BatchFrame /\ Top.kind \in {"drop", "paste"}
      /\ n \in Nat \ {0} /\ n \in 1..n /\ Top = stack[n] /\ Top.dump \in Nat /\ latest \in Nat
  <2>1. stack # <<>> /\ queue' = queue /\ Top \in BatchFrame
    BY StartDumpEffect, BatchEffect DEF StartDump, Decode, ShowBox, DismissBox, At
  <2> QED
    BY <2>1, TopFacts DEF TypeOK, BatchFrame
<1>2. Top.dump <= latest
  BY <1>1 DEF HistoryInv, Sound, InTime
<1>3. PICK g : /\ Became(g) /\ SameTo(n - 1)
               /\ StartDump => g.pc = "decode" /\ g.dump = latest + 1
               /\ Decode => g.pc = "next"
               /\ ShowBox => g.pc = "box" /\ g.dump = Top.dump
               /\ DismissBox => g.pc = "decode" /\ g.dump = Top.dump
  <2>1. CASE StartDump
    <3>1. Top.pc = "next"
      BY <2>1 DEF StartDump, At
    <3> QED
      BY <2>1, <3>1, StartDumpEffect DEF Decode, ShowBox, DismissBox, At
  <2>2. CASE Decode
    <3>1. /\ Became(MovedTo("next")) /\ SameTo(n - 1) /\ MovedTo("next").pc = "next"
          /\ Top.pc = "decode"
      BY <1>1, <2>2, BatchEffect DEF Goes
    <3>2. ~StartDump /\ ~DismissBox
      BY <3>1 DEF StartDump, DismissBox, At
    <3>3. ~ShowBox
      <4>1. stack'[n] = MovedTo("next") /\ MovedTo("next").pc = "next"
        BY <3>1 DEF Became
      <4>2. ShowBox => stack'[n] = MovedTo("box") /\ MovedTo("box").pc = "box"
        BY BatchEffect DEF Goes, Became
      <4> QED
        BY <4>1, <4>2
    <3> QED
      BY <3>1, <3>2, <3>3
  <2>3. CASE ShowBox
    <3>1. /\ Became(MovedTo("box")) /\ SameTo(n - 1) /\ MovedTo("box").pc = "box"
          /\ MovedTo("box").dump = Top.dump /\ Top.pc = "decode"
      BY <1>1, <2>3, BatchEffect DEF Goes, Moved
    <3>2. ~StartDump /\ ~DismissBox
      BY <3>1 DEF StartDump, DismissBox, At
    <3>3. ~Decode
      <4>1. stack'[n] = MovedTo("box")
        BY <3>1 DEF Became
      <4>2. Decode => stack'[n] = MovedTo("next") /\ MovedTo("next").pc = "next"
        BY BatchEffect DEF Goes, Became
      <4> QED
        BY <3>1, <4>1, <4>2
    <3> QED
      BY <3>1, <3>2, <3>3
  <2>4. CASE DismissBox
    <3>1. /\ Became(MovedTo("decode")) /\ SameTo(n - 1) /\ MovedTo("decode").pc = "decode"
          /\ MovedTo("decode").dump = Top.dump /\ Top.pc = "box"
      BY <1>1, <2>4, BatchEffect DEF Goes, Moved
    <3>2. ~StartDump /\ ~Decode /\ ~ShowBox
      BY <3>1 DEF StartDump, Decode, ShowBox, At
    <3> QED
      BY <3>1, <3>2
  <2> QED
    BY <2>1, <2>2, <2>3, <2>4
<1>4. /\ stack' \in Seq(Frame) /\ Len(stack') = n /\ stack'[n] = g /\ stack' # <<>> /\ Top' = g
      /\ \A i \in 1..(n - 1) : stack'[i] = stack[i]
  <2>1. stack' # <<>> /\ Top' = g
    BY <1>3, TopAfter
  <2> QED
    BY <1>3, <2>1 DEF Became, SameTo
<1> HIDE DEF n
<1>b. \A i \in 1..n : i # n => i \in 1..(n - 1) /\ i < n
  BY <1>1
<1>5. ASSUME NEW i \in 1..n, i # n
      PROVE  /\ stack'[i] = stack[i] /\ i < n /\ stack[i] \in Frame /\ stack[i].pc \in PumpPcs
             /\ Offers(stack[i]) => stack[i].pc = "menu"
             /\ stack[i].pc = "menu" => stack[i].opened \in Nat /\ stack[i].opened <= latest
  <2>1. i \in 1..(n - 1) /\ i < n
    BY <1>b, <1>5
  <2>2. stack'[i] = stack[i]
    BY <1>4, <2>1
  <2>3. stack[i] \in Frame /\ stack[i].pc \in PumpPcs /\ Sound(stack[i], latest, boxed)
    BY <2>1 DEF n, StackInv, HistoryInv, TypeOK
  <2>4. stack[i].pc = "menu" => stack[i].kind = "menu" /\ stack[i] \in MenuFrame
    BY <2>3, FrameFacts
  <2>5. stack[i].pc = "menu" => stack[i].opened \in Nat /\ stack[i].opened <= latest
    BY <2>3, <2>4 DEF Sound, InTime, MenuFrame
  <2>6. Offers(stack[i]) => stack[i].pc = "menu"
    BY <2>3 DEF Offers, PumpPcs
  <2> QED
    BY <2>1, <2>2, <2>3, <2>5, <2>6
<1>6. ASSUME NEW q \in 1..Len(queue), queue[q].type = "copy"
      PROVE  queue[q].opened \in Nat /\ queue[q].opened <= latest
  <2>1. queue[q] \in Message
    BY DEF TypeOK
  <2> QED
    BY <1>6, <2>1 DEF HistoryInv, Message
<1>7. ~Offers(g)
  BY <1>3 DEF Offers
<1>8. CASE StartDump
  <2>1. g.pc = "decode" /\ g.dump = latest + 1 /\ latest' = latest + 1
    BY <1>3, <1>8 DEF StartDump
  <2>0. ASSUME NEW o \in Nat, o <= latest PROVE o < latest + 1 /\ o # latest + 1
    BY <1>1, <2>0
  <2>2. ASSUME NEW q \in 1..Len(queue), queue[q].type = "copy"
        PROVE  queue[q].opened < latest + 1 /\ queue[q].opened # latest'
    BY <1>6, <2>0, <2>1, <2>2
  <2>3. ASSUME NEW i \in 1..n, Offers(stack'[i]), stack'[i].opened = latest' PROVE FALSE
    <3>1. i # n
      BY <1>4, <1>7, <2>3
    <3> QED
      BY <1>5, <2>0, <2>1, <2>3, <3>1
  <2>4. ASSUME NEW i \in 1..n, NEW j \in 1..n, i < j, stack'[i].pc = "menu",
               stack'[j].pc \in {"decode", "box"}
        PROVE  stack'[i].opened < stack'[j].dump
    <3>1. i # n
      BY <1>1, <2>4
    <3>2. stack'[i] = stack[i] /\ stack[i].opened < latest + 1
      BY <1>5, <2>0, <2>4, <3>1
    <3>3. CASE j = n
      BY <1>4, <2>1, <3>2, <3>3
    <3>4. CASE j # n
      BY <1>5, <2>4, <3>1, <3>4 DEF CopyInv, n
    <3> QED
      BY <3>3, <3>4
  <2> QED
    BY <1>1, <1>4, <2>1, <2>2, <2>3, <2>4 DEF CopyInv
<1>9. CASE Decode
  <2>1. g.pc = "next" /\ latest' = latest /\ Top.pc = "decode"
    BY <1>3, <1>9 DEF Decode, At
  <2>2. ASSUME NEW q \in 1..Len(queue), queue[q].type = "copy" PROVE queue[q].opened # latest'
    <3>1. queue[q].opened < latest
      BY <1>1, <2>1, <2>2 DEF CopyInv
    <3> QED
      BY <1>1, <1>6, <2>1, <2>2, <3>1
  <2>3. ASSUME NEW i \in 1..n, Offers(stack'[i]), stack'[i].opened = latest' PROVE FALSE
    <3>1. i # n
      BY <1>4, <1>7, <2>3
    <3>2. stack[i].pc = "menu" /\ stack[i].opened \in Nat /\ i < n /\ stack[i].opened = latest
      BY <1>5, <2>1, <2>3, <3>1
    <3>3. stack[i].opened < Top.dump
      BY <1>1, <2>1, <3>2 DEF CopyInv, n
    <3> QED
      BY <1>1, <1>2, <3>2, <3>3
  <2>4. ASSUME NEW i \in 1..n, NEW j \in 1..n, i < j, stack'[i].pc = "menu",
               stack'[j].pc \in {"decode", "box"}
        PROVE  stack'[i].opened < stack'[j].dump
    <3>1. i # n /\ j # n
      BY <1>1, <1>4, <2>1, <2>4
    <3> QED
      BY <1>5, <2>4, <3>1 DEF CopyInv, n
  <2> QED
    BY <1>1, <1>4, <2>1, <2>2, <2>3, <2>4 DEF CopyInv
<1>10. CASE ShowBox \/ DismissBox
  <2>1. g.dump = Top.dump /\ latest' = latest /\ picture' = picture /\ Top.pc \in {"decode", "box"}
    BY <1>3, <1>10 DEF ShowBox, DismissBox, At
  <2>2. Copyable' <=> Copyable
    BY <2>1 DEF Copyable
  <2>3. ASSUME NEW i \in 1..n, Offers(stack'[i]), stack'[i].opened = latest' PROVE Copyable
    <3>1. i # n
      BY <1>4, <1>7, <2>3
    <3> QED
      BY <1>5, <2>1, <2>3, <3>1 DEF CopyInv, n
  <2>4. ASSUME NEW i \in 1..n, NEW j \in 1..n, i < j, stack'[i].pc = "menu",
               stack'[j].pc \in {"decode", "box"}
        PROVE  stack'[i].opened < stack'[j].dump
    <3>1. i # n
      BY <1>1, <2>4
    <3>2. CASE j = n
      BY <1>1, <1>4, <1>5, <2>1, <2>4, <3>1, <3>2 DEF CopyInv, n
    <3>3. CASE j # n
      BY <1>5, <2>4, <3>1, <3>3 DEF CopyInv, n
    <3> QED
      BY <3>2, <3>3
  <2>5. ASSUME NEW q \in 1..Len(queue), queue[q].type = "copy", n = MaxDepth
        PROVE  queue[q].opened < g.dump
    BY <1>1, <2>1, <2>5 DEF CopyInv, n
  <2>6. ASSUME NEW q \in 1..Len(queue), queue[q].type = "copy", g.pc = "decode"
        PROVE  queue[q].opened < latest
    <3>1. DismissBox
      BY <1>3, <1>10, <2>6
    <3>2. Top.pc = "box" /\ (queue = <<>> \/ n = MaxDepth)
      BY <3>1 DEF DismissBox, Idle, At, n
    <3>3. n = MaxDepth
      BY <3>2
    <3>4. queue[q].opened < Top.dump
      BY <2>1, <2>5, <2>6, <3>3
    <3> QED
      BY <1>1, <1>2, <1>6, <2>6, <3>4
  <2>7. ASSUME NEW q \in 1..Len(queue), queue[q].type = "copy", queue[q].opened = latest
        PROVE  Copyable
    BY <2>7 DEF CopyInv
  <2> QED
    BY <1>1, <1>4, <2>1, <2>2, <2>3, <2>4, <2>5, <2>6, <2>7 DEF CopyInv
<1> QED
  BY <1>8, <1>9, <1>10

LEMMA CopyStep ==
  ASSUME TypeOK, StackInv, HistoryInv, CopyInv, [Next]_vars
  PROVE  CopyInv'
BY PlainStep, PlainCopy, DumpCopy

-----------------------------------------------------------------------------
(* The invariant, and what follows from it.                                 *)
LEMMA IInit == Init => IInv
<1> SUFFICES ASSUME Init PROVE IInv
  OBVIOUS
<1>1. TypeOK
  BY TypeInit
<1>2. stack = <<>> /\ queue = <<>> /\ Len(stack) = 0 /\ Len(queue) = 0 /\ DOMAIN stack = {}
  BY DEF Init
<1>3. /\ holder = "nobody" /\ hNewDib = "none" /\ latest = 0 /\ named = 0 /\ picture.of = 0
      /\ saved.file = "none" /\ saved.told = FALSE
  BY DEF Init, NoPicture, NotSaved
<1>4. StackInv /\ HistoryInv /\ DibInv /\ CopyInv
  BY <1>2, <1>3 DEF StackInv, HistoryInv, DibInv, CopyInv
<1>5. ClipboardGivenBack /\ ListHeld /\ OutputIsCurrent
  BY <1>2, <1>3 DEF ClipboardGivenBack, ListHeld, OutputIsCurrent, Handlers
<1>6. SavedOrSaid /\ SavedUnderItsName
  BY <1>3 DEF SavedOrSaid, SavedUnderItsName, Written
<1> QED
  BY <1>1, <1>4, <1>5, <1>6 DEF IInv

LEMMA IStep == IInv /\ [Next]_vars => IInv'
<1> SUFFICES ASSUME IInv, [Next]_vars PROVE IInv'
  OBVIOUS
<1>1. TypeOK /\ StackInv /\ HistoryInv
  BY DEF IInv
<1>2. TypeOK' /\ StackInv'
  BY <1>1, TypeStep, StackStep
<1>3. HistoryInv'
  BY <1>1, HistoryStep
<1>4. DibInv' /\ CopyInv'
  BY <1>1, DibStep, CopyStep DEF IInv
<1>5. ClipboardGivenBack' /\ ListHeld' /\ OutputIsCurrent'
  BY <1>1, HolderStep, ListStep, OutputStep DEF IInv
<1>6. SavedOrSaid' /\ SavedUnderItsName'
  BY <1>1, SavedStep DEF IInv
<1> QED
  BY <1>2, <1>3, <1>4, <1>5, <1>6 DEF IInv

LEMMA Invariance == Spec => []IInv
BY IInit, IStep, PTL DEF Spec

(* The clipboard is never left open, through all early returns and however  *)
(* pastes and copies nest.                                                  *)
THEOREM ClipboardAlwaysGivenBack == Spec => []ClipboardGivenBack
<1>1. IInv => ClipboardGivenBack
  BY DEF IInv
<1> QED
  BY <1>1, Invariance, PTL

(* Until a decoder message is shown in a box, a paste keeps the list that   *)
(* it works off: EndBatch alone closes the clipboard.                       *)
THEOREM ListAlwaysHeld == Spec => []ListHeld
<1>1. IInv => ListHeld
  BY DEF IInv
<1> QED
  BY <1>1, Invariance, PTL

(* A paste and a copy keep the clipboard as long as they have to, and no    *)
(* longer.                                                                  *)
THEOREM ClipboardAlwaysKept == Spec => []ClipboardKept
<1>1. ClipboardGivenBack /\ ListHeld => ClipboardKept
  BY DEF ClipboardKept
<1> QED
  BY <1>1, ClipboardAlwaysGivenBack, ListAlwaysHeld, PTL

(* Until then, SetWordWrap never destroys the window that somebody prints   *)
(* to.                                                                      *)
THEOREM OutputAlwaysCurrent == Spec => []OutputIsCurrent
<1>1. IInv => OutputIsCurrent
  BY DEF IInv
<1> QED
  BY <1>1, Invariance, PTL

(* The DIB for the clipboard is freed exactly if the clipboard has not      *)
(* taken it.                                                                *)
THEOREM DibAlwaysOwnedOnce == Spec => []DibOwnedOnce
<1>1. IInv => DibOwnedOnce
  <2> SUFFICES ASSUME IInv PROVE DibOwnedOnce
    OBVIOUS
  <2>1. TypeOK /\ DibInv
    BY DEF IInv
  <2>2. ASSUME hNewDib = "ours" PROVE Handlers({"copy"}) # {}
    <3>1. stack # <<>> /\ Top.pc \in CopyPcs
      BY <2>1, <2>2 DEF DibInv, CopyPcs
    <3>2. Top.kind = "copy" /\ Top = stack[Len(stack)] /\ Len(stack) \in 1..Len(stack)
      BY <2>1, <3>1, CopyTop, TopFacts
    <3>3. DOMAIN stack = 1..Len(stack)
      BY <2>1 DEF TypeOK
    <3> QED
      BY <3>2, <3>3 DEF Handlers
  <2> QED
    BY <2>1, <2>2 DEF DibOwnedOnce, DibInv
<1> QED
  BY <1>1, Invariance, PTL

(* A command to save that does not leave the whole picture says so, and     *)
(* then leaves no part of it that DeleteFile could have removed.            *)
THEOREM AlwaysSavedOrSaid == Spec => []SavedOrSaid
<1>1. IInv => SavedOrSaid
  BY DEF IInv
<1> QED
  BY <1>1, Invariance, PTL

(* Until a decoder message is shown in a box, and unless a file is dumped   *)
(* behind the file dialog, a picture is saved under the name of its file.   *)
THEOREM AlwaysSavedUnderItsName == Spec => []SavedUnderItsName
<1>1. IInv => SavedUnderItsName
  BY DEF IInv
<1> QED
  BY <1>1, Invariance, PTL

(* A copy that was posted by a menu finds a picture that can be copied,     *)
(* unless a file was dumped in between.                                     *)
THEOREM CopyAlwaysFindsPicture == Spec => []CopyFindsPicture
<1>1. IInv => CopyFindsPicture
  <2> SUFFICES ASSUME IInv, At("create"), Top.opened = latest PROVE Copyable
    BY DEF CopyFindsPicture, Copyable
  <2>1. TypeOK /\ CopyInv
    BY DEF IInv
  <2>2. Top = stack[Len(stack)] /\ Len(stack) \in 1..Len(stack) /\ Top.pc = "create"
    BY <2>1, TopFacts DEF At
  <2> QED
    BY <2>1, <2>2 DEF CopyInv, Offers
<1> QED
  BY <1>1, Invariance, PTL

=============================================================================
