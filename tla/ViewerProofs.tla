---------------------------- MODULE ViewerProofs ----------------------------
(***************************************************************************)
(* Proofs about Viewer, for every value of its constants: type             *)
(* correctness and the inductive invariant IInv.                           *)
(*                                                                         *)
(* A step changes the stack of handlers in one of three ways (Push, Return *)
(* and Goto) or rewrites its top; the first lemmas say once what each way  *)
(* does, and the invariance proofs cite them.                              *)
(***************************************************************************)
EXTENDS Viewer, TLAPS

USE BoundsAssumption

-----------------------------------------------------------------------------
(* The stack's part of TypeOK.                                              *)
StackType ==
  /\ depth \in 0..MaxDepth
  /\ stack \in [1..MaxDepth -> Frame]
  /\ \A i \in 1..MaxDepth : i > depth => stack[i] = NoFrame

(* A step that leaves every handler below the top as it was.                *)
RestUnchanged == \A i \in 1..MaxDepth : i < depth => stack'[i] = stack[i]

LEMMA TypeOfStack == TypeOK => StackType
BY DEF TypeOK, StackType

LEMMA FrameFields ==
  ASSUME NEW f \in Frame
  PROVE  /\ f.kind \in {"batch", "tmx", "dedi", "picker", "about", "none"}
         /\ f.pc \in PumpPcs \cup BusyPcs \cup {"idle"}
         /\ f.left \in Nat /\ f.dump \in Nat /\ f.media \in Media
BY DEF Frame

LEMMA NoFrameType ==
  /\ NoFrame \in Frame
  /\ NoFrame.kind = "none" /\ NoFrame.pc = "idle"
BY DEF NoFrame, Activation, Frame, Media

LEMMA ActivationType ==
  ASSUME NEW kind \in {"batch", "tmx", "dedi", "picker", "about"},
         NEW pc \in PumpPcs \cup BusyPcs, NEW left \in Nat
  PROVE  /\ Activation(kind, pc, left) \in Frame
         /\ Activation(kind, pc, left).kind = kind
         /\ Activation(kind, pc, left).pc = pc
BY DEF Activation, Frame, Media

LEMMA PickedType ==
  LET f == Activation("batch", "next", 1)
  IN  f \in Frame /\ f.kind = "batch" /\ f.pc = "next"
BY DEF Activation, Frame, Media, BusyPcs

LEMMA PushEffect ==
  ASSUME NEW frame \in Frame, StackType, Push(frame)
  PROVE  /\ StackType'
         /\ depth' = depth + 1 /\ depth' \in 1..MaxDepth
         /\ stack'[depth'] = frame
         /\ \A i \in 1..MaxDepth : i # depth' => stack'[i] = stack[i]
BY DEF StackType, Push

LEMMA ReturnEffect ==
  ASSUME StackType, depth > 0, Return
  PROVE  /\ StackType'
         /\ depth' = depth - 1 /\ depth' \in 0..MaxDepth
         /\ depth \in 1..MaxDepth /\ stack'[depth] = NoFrame
         /\ \A i \in 1..MaxDepth : i # depth => stack'[i] = stack[i]
BY NoFrameType DEF StackType, Return

(* Rewriting the top of the stack.                                          *)
LEMMA TopEffect ==
  ASSUME StackType, depth > 0, NEW f \in Frame,
         depth' = depth, stack' = [stack EXCEPT ![depth] = f]
  PROVE  /\ StackType'
         /\ depth \in 1..MaxDepth /\ stack'[depth] = f
         /\ \A i \in 1..MaxDepth : i # depth => stack'[i] = stack[i]
BY DEF StackType

LEMMA GotoEffect ==
  ASSUME StackType, depth > 0, NEW pc \in PumpPcs \cup BusyPcs, Goto(pc)
  PROVE  /\ StackType'
         /\ depth' = depth /\ depth \in 1..MaxDepth
         /\ stack'[depth].pc = pc
         /\ stack'[depth].kind = stack[depth].kind
         /\ stack'[depth].left = stack[depth].left
         /\ stack'[depth].dump = stack[depth].dump
         /\ stack'[depth].media = stack[depth].media
         /\ \A i \in 1..MaxDepth : i # depth => stack'[i] = stack[i]
<1> DEFINE f == [stack[depth] EXCEPT !.pc = pc]
<1>1. depth \in 1..MaxDepth /\ stack[depth] \in Frame
  BY DEF StackType
<1>2. f \in Frame /\ f.pc = pc /\ f.kind = stack[depth].kind
      /\ f.left = stack[depth].left /\ f.dump = stack[depth].dump
      /\ f.media = stack[depth].media
  BY <1>1 DEF Frame
<1>3. depth' = depth /\ stack' = [stack EXCEPT ![depth] = f]
  BY DEF Goto
<1> HIDE DEF f
<1> QED BY <1>1, <1>2, <1>3, TopEffect

(* DumpFile's prologue, and the dispatch on the file's format.              *)
LEMMA StartDumpEffect ==
  ASSUME TypeOK, StartDump
  PROVE  /\ StackType'
         /\ depth' = depth /\ depth \in 1..MaxDepth
         /\ stack'[depth].pc = "open"
         /\ stack'[depth].kind = stack[depth].kind
         /\ stack'[depth].dump = latest + 1
         /\ \A i \in 1..MaxDepth : i # depth => stack'[i] = stack[i]
<1> DEFINE f == [[[stack[depth] EXCEPT !.pc = "open"]
                    EXCEPT !.left = Top.left - 1] EXCEPT !.dump = latest + 1]
<1>1. depth > 0 /\ depth \in 1..MaxDepth /\ stack[depth] \in Frame /\ Top.left > 0
  BY DEF TypeOK, StartDump, At
<1>2. Top.left \in Nat /\ Top.left - 1 \in Nat /\ latest + 1 \in Nat
  BY <1>1, FrameFields DEF Top, TypeOK
<1>3. f \in Frame /\ f.pc = "open" /\ f.kind = stack[depth].kind
      /\ f.dump = latest + 1
  BY <1>1, <1>2 DEF Frame, BusyPcs
<1>4. depth' = depth /\ stack' = [stack EXCEPT ![depth] = f]
  BY <1>1 DEF StartDump, TypeOK
<1> HIDE DEF f
<1> QED BY <1>1, <1>3, <1>4, TopEffect, TypeOfStack

LEMMA OpenFileEffect ==
  ASSUME TypeOK, NEW media \in Media, OpenFile(media)
  PROVE  /\ StackType'
         /\ depth' = depth /\ depth \in 1..MaxDepth
         /\ stack'[depth].pc \in {"ids", "image", "next"}
         /\ stack'[depth].kind = stack[depth].kind
         /\ stack'[depth].dump = stack[depth].dump
         /\ \A i \in 1..MaxDepth : i # depth => stack'[i] = stack[i]
<1> DEFINE f == [[stack[depth] EXCEPT !.media = media] EXCEPT !.pc = FirstStep(media)]
<1>1. depth > 0 /\ depth \in 1..MaxDepth /\ stack[depth] \in Frame
  BY DEF TypeOK, OpenFile, At
<1>2. FirstStep(media) \in {"ids", "image", "next"}
  BY DEF Media, FirstStep
<1>3. stack' = [stack EXCEPT ![depth] = f] /\ depth' = depth
  BY <1>1 DEF OpenFile, TypeOK
<1>4. f \in Frame /\ f.pc = FirstStep(media) /\ f.kind = stack[depth].kind
      /\ f.dump = stack[depth].dump
  BY <1>1, <1>2 DEF Frame, BusyPcs
<1> HIDE DEF f
<1> QED BY <1>1, <1>2, <1>3, <1>4, TopEffect, TypeOfStack

-----------------------------------------------------------------------------
(* Type correctness.                                                        *)
LEMMA TypeInit == Init => TypeOK
<1> SUFFICES ASSUME Init PROVE TypeOK
  OBVIOUS
<1>1. [type |-> "cmdline", files |-> 1] \in Message
  BY DEF Message
<1>2. queue \in Seq(Message) /\ offered \in Nat
  <2>1. CASE queue = <<>> /\ offered = 0
    BY <2>1
  <2>2. CASE queue = <<[type |-> "cmdline", files |-> 1]>> /\ offered = 1
    BY <2>2, <1>1
  <2> QED BY <2>1, <2>2 DEF Init
<1>3. /\ mode = "running" /\ depth = 0 /\ stack = [i \in 1..MaxDepth |-> NoFrame]
      /\ latest = 0 /\ uidOf = 0 /\ enviOf = 0 /\ envi = "none"
      /\ thumbOf = 0 /\ bitmapOf = 0 /\ titleOf = 0 /\ jmpOf = 0
      /\ tmx \in BOOLEAN /\ dedi \in BOOLEAN
      /\ boxed \in BOOLEAN /\ overtaken \in BOOLEAN /\ bAboutBox \in BOOLEAN
  BY DEF Init
<1>4. stack \in [1..MaxDepth -> Frame] /\ \A i \in 1..MaxDepth : stack[i] = NoFrame
  BY <1>3, NoFrameType
<1> QED BY <1>2, <1>3, <1>4 DEF TypeOK

LEMMA TypeStep == TypeOK /\ [Next]_vars => TypeOK'
<1> SUFFICES ASSUME TypeOK, [Next]_vars PROVE TypeOK'
  OBVIOUS
<1> USE TypeOfStack DEF panelVars, frameVars
<1>s. ASSUME StackType' PROVE /\ depth' \in 0..MaxDepth
                               /\ stack' \in [1..MaxDepth -> Frame]
                               /\ \A i \in 1..MaxDepth : i > depth' => stack'[i] = NoFrame
  BY <1>s DEF StackType
<1>f. UNCHANGED frameVars => StackType'
  BY DEF TypeOK, StackType
<1>1. ASSUME NEW n \in 1..MaxDrop, PostDrop(n) PROVE TypeOK'
  <2>1. queue' \in Seq(Message)
    BY <1>1 DEF PostDrop, Post, TypeOK, Message
  <2>2. offered' \in Nat
    BY <1>1 DEF PostDrop, Capped, TypeOK
  <2> QED BY <1>1, <2>1, <2>2 DEF PostDrop, TypeOK
<1>2. ASSUME PostPaste PROVE TypeOK'
  <2>1. queue' \in Seq(Message)
    BY <1>2 DEF PostPaste, Post, TypeOK, Message
  <2> QED BY <1>2, <2>1 DEF PostPaste, TypeOK
<1>3. ASSUME DispatchPosted PROVE TypeOK'
  <2>1. queue' \in Seq(Message) /\ Head(queue) \in Message
    BY <1>3 DEF DispatchPosted, TypeOK
  <2>2. ASSUME NEW n \in Nat, StartBatch(n) PROVE StackType'
    <3>1. Capped(n) \in Nat
      BY DEF Capped
    <3>2. Activation("batch", "next", Capped(n)) \in Frame
      BY <3>1, ActivationType DEF BusyPcs
    <3> QED BY <2>2, <3>2, <1>f, PushEffect DEF StartBatch
  <2>3. StackType' /\ offered' \in Nat
    <3>1. CASE Head(queue).type # "paste" /\ StartBatch(Head(queue).files) /\ UNCHANGED offered
      <4>1. Head(queue).files \in Nat
        BY <2>1 DEF Message
      <4> QED BY <3>1, <4>1, <2>2 DEF TypeOK
    <3>2. CASE \E n \in 0..MaxDrop : offered' = offered + Capped(n) /\ StartBatch(n)
      BY <3>2, <2>2 DEF TypeOK, Capped
    <3> QED BY <1>3, <3>1, <3>2 DEF DispatchPosted
  <2> QED BY <1>3, <2>1, <2>3, <1>s DEF DispatchPosted, TypeOK
<1>4. ASSUME StartDump PROVE TypeOK'
  <2>1. StackType'
    BY <1>4, StartDumpEffect
  <2>2. /\ latest' = latest + 1 /\ uidOf' = 0 /\ enviOf' = 0 /\ envi' = "none"
        /\ tmx' \in BOOLEAN /\ dedi' \in BOOLEAN
        /\ thumbOf' = 0 /\ bitmapOf' = 0 /\ titleOf' = 0
        /\ overtaken' \in BOOLEAN
        /\ UNCHANGED <<mode, queue, offered, depth, jmpOf, boxed, bAboutBox>>
    BY <1>4 DEF StartDump, QueryOpen
  <2> QED BY <2>1, <2>2, <1>s DEF TypeOK
<1>5. ASSUME EndBatch PROVE TypeOK'
  BY <1>5, ReturnEffect, <1>s DEF EndBatch, At, TypeOK
<1>6. ASSUME NEW media \in Media, OpenFile(media) PROVE TypeOK'
  BY <1>6, OpenFileEffect, <1>s DEF OpenFile, TypeOK
<1>7. ASSUME NEW hasUid \in BOOLEAN, NEW env \in Envis \cup {"none"}, ReadIds(hasUid, env)
      PROVE  TypeOK'
  <2>1. StackType' /\ Top.dump \in Nat
    BY <1>7, GotoEffect, FrameFields DEF ReadIds, At, BusyPcs, Top, StackType
  <2>2. /\ uidOf' \in Nat /\ enviOf' \in Nat /\ envi' \in Envis \cup {"none"}
    BY <1>7, <2>1 DEF ReadIds, TypeOK
  <2>3. tmx' \in BOOLEAN /\ dedi' \in BOOLEAN
    BY <1>7 DEF ReadIds, TypeOK
  <2> QED BY <1>7, <2>1, <2>2, <2>3, <1>s DEF ReadIds, TypeOK
<1>d. ASSUME depth > 0 PROVE Top.dump \in Nat
  BY <1>d, FrameFields DEF Top, StackType
<1>p. ASSUME NEW owner \in Nat, NEW b \in BOOLEAN,
             \/ ReplaceThumbnail(owner, b) \/ MarkAsUnsupported(owner) \/ NoPicture
      PROVE  thumbOf' \in Nat /\ bitmapOf' \in Nat /\ titleOf' \in Nat
  BY <1>p DEF ReplaceThumbnail, MarkAsUnsupported, NoPicture, TypeOK
<1>n. ASSUME NoDib, depth > 0 PROVE thumbOf' \in Nat /\ bitmapOf' \in Nat /\ titleOf' \in Nat
  BY <1>n, <1>d DEF NoDib, MarkAsUnsupported, NoPicture, TypeOK
<1>g. ASSUME depth > 0, NEW pc \in PumpPcs \cup BusyPcs, Goto(pc) PROVE StackType'
  BY <1>g, GotoEffect
<1>8. ASSUME DecodeImage PROVE TypeOK'
  <2>1. depth > 0 /\ StackType'
    BY <1>8, <1>g DEF DecodeImage, At, BusyPcs
  <2>2. thumbOf' \in Nat /\ bitmapOf' \in Nat /\ titleOf' \in Nat
    BY <1>8, <2>1, <1>d, <1>p DEF DecodeImage
  <2> QED BY <1>8, <2>1, <2>2, <1>s DEF DecodeImage, pictureFrame, TypeOK
<1>9. ASSUME SkipPicture PROVE TypeOK'
  BY <1>9, <1>g, <1>s DEF SkipPicture, At, BusyPcs, pictureFrame, TypeOK
<1>10. ASSUME StartJpeg PROVE TypeOK'
  BY <1>10, <1>g, <1>s, <1>d DEF StartJpeg, At, BusyPcs, pictureFrame, TypeOK
<1>11. ASSUME FinishJpeg PROVE TypeOK'
  <2>1. depth > 0 /\ StackType'
    BY <1>11, <1>g DEF FinishJpeg, At, BusyPcs
  <2>2. thumbOf' \in Nat /\ bitmapOf' \in Nat /\ titleOf' \in Nat
    BY <1>11, <2>1, <1>d, <1>p DEF FinishJpeg
  <2> QED BY <1>11, <2>1, <2>2, <1>s DEF FinishJpeg, pictureFrame, TypeOK
<1>12. ASSUME AbandonJpeg PROVE TypeOK'
  BY <1>12, <1>g, <1>s, <1>n DEF AbandonJpeg, At, BusyPcs, pictureFrame, TypeOK
<1>13. ASSUME ShowTrace PROVE TypeOK'
  BY <1>13, <1>g, <1>s DEF ShowTrace, At, PumpPcs, pictureFrame, TypeOK
<1>14. ASSUME ReportError PROVE TypeOK'
  BY <1>14, <1>g, <1>s DEF ReportError, At, PumpPcs, BusyPcs, pictureFrame, TypeOK
<1>15. ASSUME DismissDecoderBox PROVE TypeOK'
  BY <1>15, <1>g, <1>s DEF DismissDecoderBox, At, BusyPcs, pictureFrame, TypeOK
<1>16. ASSUME Jump PROVE TypeOK'
  <2>1. depth > 0
    BY <1>16 DEF Jump, At
  <2>2. CASE NoDib /\ Goto("next") /\ UNCHANGED mode
    BY <1>16, <2>1, <2>2, <1>g, <1>n, <1>s DEF Jump, BusyPcs, TypeOK
  <2>3. CASE mode' = "crashed" /\ UNCHANGED <<frameVars, thumbOf, bitmapOf, titleOf>>
    BY <1>16, <2>3 DEF Jump, TypeOK
  <2> QED BY <1>16, <2>2, <2>3 DEF Jump
<1>17. ASSUME ClickTmx PROVE TypeOK'
  BY <1>17, ActivationType, PushEffect, <1>s DEF ClickTmx, queryFrame, BusyPcs, TypeOK
<1>18. ASSUME ClickDedimania PROVE TypeOK'
  BY <1>18, ActivationType, PushEffect, <1>s DEF ClickDedimania, queryFrame, BusyPcs, TypeOK
<1>19. ASSUME QuerySucceeds PROVE TypeOK'
  BY <1>19, ReturnEffect, <1>s DEF QuerySucceeds, QueryEnds, At, queryFrame, TypeOK
<1>q. ASSUME depth > 0, QueryFails PROVE TypeOK'
  BY <1>q, ReturnEffect, <1>s DEF QueryFails, queryFrame, TypeOK
<1>20. ASSUME NetworkFails PROVE TypeOK'
  BY <1>20, <1>q DEF NetworkFails, At
<1>21. ASSUME PromptOffline PROVE TypeOK'
  BY <1>21, <1>g, <1>s DEF PromptOffline, At, PumpPcs, queryFrame, TypeOK
<1>22. ASSUME GoOnline PROVE TypeOK'
  BY <1>22, <1>g, <1>s DEF GoOnline, At, BusyPcs, queryFrame, TypeOK
<1>23. ASSUME StayOffline PROVE TypeOK'
  <2>1. CASE QueryFails
    BY <1>23, <2>1, <1>q DEF StayOffline, At
  <2>2. CASE QueryEnds
    BY <1>23, <2>2, ReturnEffect, <1>s DEF StayOffline, QueryEnds, At, queryFrame, TypeOK
  <2> QED BY <1>23, <2>1, <2>2 DEF StayOffline
<1>24. ASSUME ClickOpen PROVE TypeOK'
  BY <1>24, ActivationType, PushEffect, <1>s DEF ClickOpen, PumpPcs, TypeOK
<1>25. ASSUME PickFile PROVE TypeOK'
  <2>1. Activation("batch", "next", 1) \in Frame
    BY PickedType
  <2>2. StackType'
    BY <1>25, <2>1, TopEffect DEF PickFile, At
  <2> QED BY <1>25, <2>2, <1>s DEF PickFile, TypeOK
<1>26. ASSUME CancelPicker PROVE TypeOK'
  BY <1>26, ReturnEffect, <1>s DEF CancelPicker, At, TypeOK
<1>27. ASSUME PressF1 PROVE TypeOK'
  BY <1>27, ActivationType, PushEffect, <1>s DEF PressF1, PumpPcs, TypeOK
<1>28. ASSUME CloseAbout PROVE TypeOK'
  BY <1>28, ReturnEffect, <1>s DEF CloseAbout, At, TypeOK
<1>29. ASSUME CloseDialog PROVE TypeOK'
  BY <1>29 DEF CloseDialog, TypeOK
<1>30. ASSUME Quit PROVE TypeOK'
  BY <1>30 DEF Quit, TypeOK
<1>31. ASSUME UNCHANGED vars PROVE TypeOK'
  BY <1>31 DEF vars, TypeOK
<1> QED BY <1>1, <1>2, <1>3, <1>4, <1>5, <1>6, <1>7, <1>8, <1>9, <1>10, <1>11,
           <1>12, <1>13, <1>14, <1>15, <1>16, <1>17, <1>18, <1>19, <1>20, <1>21,
           <1>22, <1>23, <1>24, <1>25, <1>26, <1>27, <1>28, <1>29, <1>30, <1>31
        DEF Next, User, Program

(* Every variable of the dialog keeps its type, however deep the handlers   *)
(* nest.                                                                    *)
THEOREM TypeCorrect == Spec => []TypeOK
BY TypeInit, TypeStep, PTL DEF Spec

-----------------------------------------------------------------------------
(* StackInv: only the innermost handler runs, and every kind of handler     *)
(* stays within its own control points.                                     *)
LEMMA KindAt ==
  ASSUME TypeOK, StackInv, depth > 0
  PROVE  /\ Top.pc \in {"next", "open", "ids", "image", "decode", "trace", "errbox",
                        "jump"} => Top.kind = "batch"
         /\ Top.pc \in {"ask", "prompt"} => Top.kind \in {"tmx", "dedi"}
         /\ Top.pc = "pick" => Top.kind = "picker"
         /\ Top.pc = "about" => Top.kind = "about"
         /\ Top.kind # "none" /\ Top.pc \in PcsOf(Top.kind)
<1>1. depth \in 1..depth /\ depth \in 1..MaxDepth /\ stack[depth] \in Frame
  BY DEF TypeOK
<1>2. Top.kind # "none" /\ Top.pc \in PcsOf(Top.kind)
      /\ Top.kind \in {"batch", "tmx", "dedi", "picker", "about", "none"}
  BY <1>1, FrameFields DEF StackInv, Top
<1>3. CASE Top.kind = "batch"
  BY <1>2, <1>3 DEF PcsOf
<1>4. CASE Top.kind \in {"tmx", "dedi"}
  BY <1>2, <1>4 DEF PcsOf
<1>5. CASE Top.kind = "picker"
  BY <1>2, <1>5 DEF PcsOf
<1>6. CASE Top.kind = "about"
  BY <1>2, <1>6 DEF PcsOf
<1> QED BY <1>2, <1>3, <1>4, <1>5, <1>6

LEMMA PushStackInv ==
  ASSUME TypeOK, StackInv, NEW frame \in Frame, AtPump, Push(frame),
         frame.kind # "none", frame.pc \in PcsOf(frame.kind)
  PROVE  StackInv'
<1>1. depth = 0 \/ Top.pc \in PumpPcs
  BY DEF AtPump, At
<1>2. StackType
  BY TypeOfStack
<1>3. /\ depth' = depth + 1 /\ depth' \in 1..MaxDepth
      /\ stack'[depth'] = frame
      /\ \A i \in 1..MaxDepth : i # depth' => stack'[i] = stack[i]
  BY <1>2, PushEffect
<1>4. depth \in Nat
  BY DEF TypeOK
<1> QED BY <1>1, <1>3, <1>4 DEF StackInv, Top

LEMMA ReturnStackInv ==
  ASSUME TypeOK, StackInv, depth > 0, Return
  PROVE  /\ StackInv'
         /\ depth' > 0 => Top'.pc \in PumpPcs /\ Top' = stack[depth - 1]
<1>1. /\ depth' = depth - 1 /\ depth' \in 0..MaxDepth
      /\ depth \in 1..MaxDepth /\ stack'[depth] = NoFrame
      /\ \A i \in 1..MaxDepth : i # depth => stack'[i] = stack[i]
  BY TypeOfStack, ReturnEffect
<1>2. NoFrame.pc \in PcsOf(NoFrame.kind)
  BY NoFrameType DEF PcsOf
<1> QED BY <1>1, <1>2 DEF StackInv, Top

(* The top is rewritten and keeps to control points of its kind.            *)
LEMMA TopStackInv ==
  ASSUME TypeOK, StackInv, depth \in 1..MaxDepth, depth' = depth,
         \A i \in 1..MaxDepth : i # depth => stack'[i] = stack[i],
         stack'[depth].kind # "none", stack'[depth].pc \in PcsOf(stack'[depth].kind)
  PROVE  StackInv'
BY DEF StackInv

LEMMA GotoStackInv ==
  ASSUME TypeOK, StackInv, depth > 0, NEW pc \in PumpPcs \cup BusyPcs, Goto(pc),
         pc \in PcsOf(Top.kind)
  PROVE  StackInv'
<1>1. /\ depth' = depth /\ depth \in 1..MaxDepth
      /\ stack'[depth].pc = pc /\ stack'[depth].kind = stack[depth].kind
      /\ \A i \in 1..MaxDepth : i # depth => stack'[i] = stack[i]
  BY TypeOfStack, GotoEffect
<1>2. Top.kind # "none"
  BY KindAt
<1> QED BY <1>1, <1>2, TopStackInv DEF Top

LEMMA StackInvStep == TypeOK /\ StackInv /\ [Next]_vars => StackInv'
<1> SUFFICES ASSUME TypeOK, StackInv, [Next]_vars PROVE StackInv'
  OBVIOUS
<1>u. ASSUME UNCHANGED frameVars PROVE StackInv'
  BY <1>u DEF StackInv, frameVars
<1>b. ASSUME depth > 0, Top.kind = "batch",
             NEW pc \in {"next", "image", "decode", "trace", "errbox", "jump"}, Goto(pc)
      PROVE  StackInv'
  BY <1>b, GotoStackInv DEF PcsOf, PumpPcs, BusyPcs
<1>q. ASSUME depth > 0, Top.kind \in {"tmx", "dedi"}, NEW pc \in {"ask", "prompt"}, Goto(pc)
      PROVE  StackInv'
  BY <1>q, GotoStackInv DEF PcsOf, PumpPcs, BusyPcs
<1>1. ASSUME NEW n \in 1..MaxDrop, PostDrop(n) PROVE StackInv'
  BY <1>1, <1>u DEF PostDrop
<1>2. ASSUME PostPaste PROVE StackInv'
  BY <1>2, <1>u DEF PostPaste
<1>3. ASSUME DispatchPosted PROVE StackInv'
  <2>1. ASSUME NEW n \in Nat, StartBatch(n) PROVE StackInv'
    <3> DEFINE f == Activation("batch", "next", Capped(n))
    <3>1. f \in Frame /\ f.kind = "batch" /\ f.pc = "next"
      BY ActivationType DEF BusyPcs, Capped
    <3>2. f.kind # "none" /\ f.pc \in PcsOf(f.kind)
      BY <3>1 DEF PcsOf
    <3>3. AtPump
      BY <1>3 DEF DispatchPosted
    <3>4. UNCHANGED frameVars \/ Push(f)
      BY <2>1 DEF StartBatch
    <3> HIDE DEF f
    <3> QED BY <3>1, <3>2, <3>3, <3>4, <1>u, PushStackInv
  <2>2. Head(queue).files \in Nat
    <3>1. Head(queue) \in Message
      BY <1>3 DEF DispatchPosted, TypeOK
    <3> QED BY <3>1 DEF Message
  <2>3. \E n \in Nat : StartBatch(n)
    BY <1>3, <2>2 DEF DispatchPosted
  <2> QED BY <2>1, <2>3
<1>4. ASSUME StartDump PROVE StackInv'
  <2>1. depth > 0 /\ Top.kind = "batch"
    BY <1>4, KindAt DEF StartDump, At
  <2> QED BY <1>4, <2>1, StartDumpEffect, TopStackInv DEF PcsOf, Top
<1>5. ASSUME EndBatch PROVE StackInv'
  BY <1>5, ReturnStackInv DEF EndBatch, At
<1>6. ASSUME NEW media \in Media, OpenFile(media) PROVE StackInv'
  <2>1. depth > 0 /\ Top.kind = "batch"
    BY <1>6, KindAt DEF OpenFile, At
  <2> QED BY <1>6, <2>1, OpenFileEffect, TopStackInv DEF PcsOf, Top
<1>7. ASSUME NEW hasUid \in BOOLEAN, NEW env \in Envis \cup {"none"}, ReadIds(hasUid, env)
      PROVE  StackInv'
  BY <1>7, <1>b, KindAt DEF ReadIds, At
<1>8. ASSUME DecodeImage PROVE StackInv'
  BY <1>8, <1>b, KindAt DEF DecodeImage, At
<1>9. ASSUME SkipPicture PROVE StackInv'
  BY <1>9, <1>b, KindAt DEF SkipPicture, At
<1>10. ASSUME StartJpeg PROVE StackInv'
  BY <1>10, <1>b, KindAt DEF StartJpeg, At
<1>11. ASSUME FinishJpeg PROVE StackInv'
  BY <1>11, <1>b, KindAt DEF FinishJpeg, At
<1>12. ASSUME AbandonJpeg PROVE StackInv'
  BY <1>12, <1>b, KindAt DEF AbandonJpeg, At
<1>13. ASSUME ShowTrace PROVE StackInv'
  BY <1>13, <1>b, KindAt DEF ShowTrace, At
<1>14. ASSUME ReportError PROVE StackInv'
  BY <1>14, <1>b, KindAt DEF ReportError, At
<1>15. ASSUME DismissDecoderBox PROVE StackInv'
  BY <1>15, <1>b, KindAt DEF DismissDecoderBox, At
<1>16. ASSUME Jump PROVE StackInv'
  BY <1>16, <1>b, <1>u, KindAt DEF Jump, At
<1>a. ASSUME AtPump, NEW kind \in {"tmx", "dedi", "picker", "about"},
             NEW pc \in PumpPcs \cup BusyPcs, pc \in PcsOf(kind),
             Push(Activation(kind, pc, 0))
      PROVE  StackInv'
  <2> DEFINE f == Activation(kind, pc, 0)
  <2>1. f \in Frame /\ f.kind = kind /\ f.pc = pc
    BY ActivationType
  <2>2. Push(f)
    BY <1>a
  <2> HIDE DEF f
  <2> QED BY <1>a, <2>1, <2>2, PushStackInv
<1>17. ASSUME ClickTmx PROVE StackInv'
  BY <1>17, <1>a DEF ClickTmx, Input, Idle, BusyPcs, PcsOf
<1>18. ASSUME ClickDedimania PROVE StackInv'
  BY <1>18, <1>a DEF ClickDedimania, Input, Idle, BusyPcs, PcsOf
<1>19. ASSUME QuerySucceeds PROVE StackInv'
  BY <1>19, ReturnStackInv DEF QuerySucceeds, QueryEnds, At
<1>20. ASSUME NetworkFails PROVE StackInv'
  BY <1>20, ReturnStackInv DEF NetworkFails, QueryFails, At
<1>21. ASSUME PromptOffline PROVE StackInv'
  BY <1>21, <1>q, KindAt DEF PromptOffline, At
<1>22. ASSUME GoOnline PROVE StackInv'
  BY <1>22, <1>q, KindAt DEF GoOnline, At
<1>23. ASSUME StayOffline PROVE StackInv'
  BY <1>23, ReturnStackInv DEF StayOffline, QueryFails, QueryEnds, At
<1>24. ASSUME ClickOpen PROVE StackInv'
  BY <1>24, <1>a DEF ClickOpen, Input, Idle, PumpPcs, PcsOf
<1>25. ASSUME PickFile PROVE StackInv'
  <2> DEFINE f == Activation("batch", "next", 1)
  <2>1. f \in Frame /\ f.kind = "batch" /\ f.pc = "next"
    BY PickedType
  <2>2. f.kind # "none" /\ f.pc \in PcsOf(f.kind)
    BY <2>1 DEF PcsOf
  <2>3. depth > 0 /\ depth' = depth /\ stack' = [stack EXCEPT ![depth] = f]
    BY <1>25 DEF PickFile, At
  <2> HIDE DEF f
  <2> QED BY <2>1, <2>2, <2>3, TypeOfStack, TopEffect, TopStackInv
<1>26. ASSUME CancelPicker PROVE StackInv'
  BY <1>26, ReturnStackInv DEF CancelPicker, At
<1>27. ASSUME PressF1 PROVE StackInv'
  BY <1>27, <1>a DEF PressF1, Idle, PumpPcs, PcsOf
<1>28. ASSUME CloseAbout PROVE StackInv'
  BY <1>28, ReturnStackInv DEF CloseAbout, At
<1>29. ASSUME CloseDialog PROVE StackInv'
  BY <1>29, <1>u DEF CloseDialog
<1>30. ASSUME Quit PROVE StackInv'
  BY <1>30, <1>u DEF Quit
<1>31. ASSUME UNCHANGED vars PROVE StackInv'
  BY <1>31, <1>u DEF vars
<1> QED BY <1>1, <1>2, <1>3, <1>4, <1>5, <1>6, <1>7, <1>8, <1>9, <1>10, <1>11,
           <1>12, <1>13, <1>14, <1>15, <1>16, <1>17, <1>18, <1>19, <1>20, <1>21,
           <1>22, <1>23, <1>24, <1>25, <1>26, <1>27, <1>28, <1>29, <1>30, <1>31
        DEF Next, User, Program

-----------------------------------------------------------------------------
(* What the next top of the stack is, for the invariants that speak of it.  *)
LEMMA PushTop ==
  ASSUME TypeOK, NEW frame \in Frame, Push(frame)
  PROVE  depth' > 0 /\ Top' = frame
BY PushEffect, TypeOfStack DEF Top

LEMMA GotoTop ==
  ASSUME TypeOK, depth > 0, NEW pc \in PumpPcs \cup BusyPcs, Goto(pc)
  PROVE  depth' > 0 /\ Top'.pc = pc /\ Top'.kind = Top.kind /\ Top'.dump = Top.dump
BY GotoEffect, TypeOfStack DEF Top

(* FreshInv, UnreadInv and IdsOfLatest: a dump that has not reached its picture cannot *)
(* have been overtaken, so what it writes into s_szUid and s_szEnvi is the  *)
(* identity of the file dumped last.                                        *)
IdsInv == FreshInv /\ UnreadInv /\ IdsOfLatest

LEMMA IdsStep == TypeOK /\ StackInv /\ IdsInv /\ [Next]_vars => IdsInv'
<1> SUFFICES ASSUME TypeOK, StackInv, IdsInv, [Next]_vars PROVE IdsInv'
  OBVIOUS
<1> DEFINE Same == UNCHANGED <<latest, uidOf, enviOf, envi>>
           Fresh == FreshInv /\ UnreadInv
<1>i. Same => IdsOfLatest'
  BY DEF IdsInv, IdsOfLatest
<1>f. ASSUME depth' = 0 \/ Top'.pc \notin {"open", "ids", "image"} PROVE Fresh'
  BY <1>f DEF FreshInv, UnreadInv
<1>u. ASSUME UNCHANGED <<frameVars, latest, thumbOf, titleOf, uidOf, envi, tmx, dedi>>
      PROVE  Fresh'
  BY <1>u DEF FreshInv, UnreadInv, Top, frameVars, IdsInv
<1>g. ASSUME depth > 0, NEW pc \in {"next", "decode", "trace", "errbox", "jump", "ask",
             "prompt"}, Goto(pc), Same
      PROVE  IdsInv'
  <2>1. Top'.pc = pc
    BY <1>g, GotoTop DEF PumpPcs, BusyPcs
  <2> QED BY <1>g, <2>1, <1>f, <1>i DEF IdsInv
<1>r. ASSUME depth > 0, Return, Same PROVE IdsInv'
  <2>1. depth' = 0 \/ Top'.pc \in PumpPcs
    BY <1>r, ReturnStackInv, ReturnEffect, TypeOfStack
  <2> QED BY <1>r, <2>1, <1>f, <1>i DEF IdsInv, PumpPcs
<1>p. ASSUME NEW kind \in {"batch", "tmx", "dedi", "picker", "about"},
             NEW pc \in {"next", "ask", "pick", "about"}, NEW left \in Nat,
             Push(Activation(kind, pc, left)), Same
      PROVE  IdsInv'
  <2> DEFINE f == Activation(kind, pc, left)
  <2>1. f \in Frame /\ f.pc = pc
    BY ActivationType DEF PumpPcs, BusyPcs
  <2>2. Push(f)
    BY <1>p
  <2> HIDE DEF f
  <2>3. Top'.pc = pc
    BY <2>1, <2>2, PushTop
  <2> QED BY <1>p, <2>3, <1>f, <1>i DEF IdsInv
<1>1. ASSUME NEW n \in 1..MaxDrop, PostDrop(n) PROVE IdsInv'
  BY <1>1, <1>u, <1>i DEF PostDrop, panelVars, IdsInv
<1>2. ASSUME PostPaste PROVE IdsInv'
  BY <1>2, <1>u, <1>i DEF PostPaste, panelVars, IdsInv
<1>3. ASSUME DispatchPosted PROVE IdsInv'
  <2>1. ASSUME NEW n \in Nat, StartBatch(n) PROVE IdsInv'
    <3>1. Same /\ UNCHANGED <<thumbOf, titleOf, tmx, dedi>> /\ Capped(n) \in Nat
      BY <1>3 DEF DispatchPosted, panelVars, Capped
    <3>2. CASE UNCHANGED frameVars
      BY <3>1, <3>2, <1>u, <1>i DEF IdsInv
    <3>3. CASE Push(Activation("batch", "next", Capped(n)))
      BY <3>1, <3>3, <1>p
    <3> QED BY <2>1, <3>2, <3>3 DEF StartBatch
  <2>2. Head(queue).files \in Nat
    <3>1. Head(queue) \in Message
      BY <1>3 DEF DispatchPosted, TypeOK
    <3> QED BY <3>1 DEF Message
  <2>3. \E n \in Nat : StartBatch(n)
    BY <1>3, <2>2 DEF DispatchPosted
  <2> QED BY <2>1, <2>3
<1>4. ASSUME StartDump PROVE IdsInv'
  <2>1. /\ latest' = latest + 1 /\ uidOf' = 0 /\ enviOf' = 0 /\ envi' = "none"
        /\ thumbOf' = 0 /\ titleOf' = 0 /\ latest \in Nat
    BY <1>4 DEF StartDump, TypeOK
  <2>2. Top'.dump = latest'
    BY <1>4, <2>1, StartDumpEffect DEF Top
  <2>3. tmx' = FALSE /\ dedi' = FALSE
    BY <1>4 DEF StartDump
  <2> QED BY <2>1, <2>2, <2>3 DEF IdsInv, FreshInv, UnreadInv, IdsOfLatest
<1>5. ASSUME EndBatch PROVE IdsInv'
  BY <1>5, <1>r DEF EndBatch, At, panelVars
<1>6. ASSUME NEW media \in Media, OpenFile(media) PROVE IdsInv'
  <2>1. /\ Same /\ UNCHANGED <<thumbOf, titleOf, tmx, dedi>>
        /\ Top.pc = "open" /\ depth > 0
    BY <1>6 DEF OpenFile, panelVars, At
  <2>2. Top'.dump = Top.dump /\ depth' = depth
    BY <1>6, OpenFileEffect DEF Top
  <2> QED BY <2>1, <2>2, <1>i DEF IdsInv, FreshInv, UnreadInv
<1>7. ASSUME NEW hasUid \in BOOLEAN, NEW env \in Envis \cup {"none"}, ReadIds(hasUid, env)
      PROVE  IdsInv'
  <2>1. /\ Top.pc = "ids" /\ depth > 0 /\ UNCHANGED <<latest, thumbOf, titleOf>>
    BY <1>7 DEF ReadIds, At
  <2>2. Top.dump = latest /\ latest > 0 /\ thumbOf = 0 /\ titleOf = 0
    BY <2>1 DEF IdsInv, FreshInv
  <2>3. Top'.dump = Top.dump /\ depth' = depth /\ Top'.pc \in {"image", "next"}
    BY <1>7, <2>1, GotoTop DEF ReadIds, BusyPcs, Goto
  <2>4. FreshInv' /\ UnreadInv'
    BY <2>1, <2>2, <2>3 DEF FreshInv, UnreadInv
  <2>5. IdsOfLatest'
    <3>1. uidOf' \in {latest, uidOf}
      BY <1>7, <2>2 DEF ReadIds
    <3>2. \/ env = "none" /\ UNCHANGED <<enviOf, envi>>
          \/ env # "none" /\ enviOf' = latest /\ envi' = env
      BY <1>7, <2>2 DEF ReadIds
    <3> QED BY <2>1, <2>2, <3>1, <3>2 DEF IdsInv, IdsOfLatest
  <2> QED BY <2>4, <2>5 DEF IdsInv
<1>8. ASSUME DecodeImage PROVE IdsInv'
  BY <1>8, <1>g DEF DecodeImage, At, pictureFrame
<1>9. ASSUME SkipPicture PROVE IdsInv'
  BY <1>9, <1>g DEF SkipPicture, At, pictureFrame
<1>10. ASSUME StartJpeg PROVE IdsInv'
  BY <1>10, <1>g DEF StartJpeg, At, pictureFrame
<1>11. ASSUME FinishJpeg PROVE IdsInv'
  BY <1>11, <1>g DEF FinishJpeg, At, pictureFrame
<1>12. ASSUME AbandonJpeg PROVE IdsInv'
  BY <1>12, <1>g DEF AbandonJpeg, At, pictureFrame
<1>13. ASSUME ShowTrace PROVE IdsInv'
  BY <1>13, <1>g DEF ShowTrace, At, panelVars
<1>14. ASSUME ReportError PROVE IdsInv'
  BY <1>14, <1>g DEF ReportError, At, panelVars
<1>15. ASSUME DismissDecoderBox PROVE IdsInv'
  BY <1>15, <1>g DEF DismissDecoderBox, At, pictureFrame
<1>16. ASSUME Jump PROVE IdsInv'
  <2>1. Same /\ depth > 0 /\ Top.pc = "jump"
    BY <1>16 DEF Jump, At
  <2>2. CASE Goto("next")
    BY <2>1, <2>2, <1>g
  <2>3. CASE UNCHANGED <<frameVars, thumbOf, titleOf>>
    <3>1. Top'.pc = "jump"
      BY <2>1, <2>3 DEF Top, frameVars
    <3> QED BY <2>1, <3>1, <1>f, <1>i DEF IdsInv
  <2> QED BY <1>16, <2>2, <2>3 DEF Jump
<1>17. ASSUME ClickTmx PROVE IdsInv'
  BY <1>17, <1>p DEF ClickTmx, queryFrame
<1>18. ASSUME ClickDedimania PROVE IdsInv'
  BY <1>18, <1>p DEF ClickDedimania, queryFrame
<1>19. ASSUME QuerySucceeds PROVE IdsInv'
  BY <1>19, <1>r DEF QuerySucceeds, QueryEnds, At, queryFrame
<1>20. ASSUME NetworkFails PROVE IdsInv'
  BY <1>20, <1>r DEF NetworkFails, QueryFails, At, queryFrame
<1>21. ASSUME PromptOffline PROVE IdsInv'
  BY <1>21, <1>g DEF PromptOffline, At, queryFrame
<1>22. ASSUME GoOnline PROVE IdsInv'
  BY <1>22, <1>g DEF GoOnline, At, queryFrame
<1>23. ASSUME StayOffline PROVE IdsInv'
  BY <1>23, <1>r DEF StayOffline, QueryFails, QueryEnds, At, queryFrame
<1>24. ASSUME ClickOpen PROVE IdsInv'
  BY <1>24, <1>p DEF ClickOpen, panelVars
<1>25. ASSUME PickFile PROVE IdsInv'
  <2> DEFINE f == Activation("batch", "next", 1)
  <2>1. f \in Frame /\ f.pc = "next"
    BY PickedType
  <2>2. depth > 0 /\ depth' = depth /\ stack' = [stack EXCEPT ![depth] = f] /\ Same
    BY <1>25 DEF PickFile, At, panelVars
  <2> HIDE DEF f
  <2>3. Top'.pc = "next"
    BY <2>1, <2>2, TypeOfStack, TopEffect DEF Top
  <2> QED BY <2>2, <2>3, <1>f, <1>i DEF IdsInv
<1>26. ASSUME CancelPicker PROVE IdsInv'
  BY <1>26, <1>r DEF CancelPicker, At, panelVars
<1>27. ASSUME PressF1 PROVE IdsInv'
  BY <1>27, <1>p DEF PressF1, panelVars
<1>28. ASSUME CloseAbout PROVE IdsInv'
  BY <1>28, <1>r DEF CloseAbout, At, panelVars
<1>29. ASSUME CloseDialog PROVE IdsInv'
  BY <1>29, <1>u, <1>i DEF CloseDialog, panelVars, IdsInv
<1>30. ASSUME Quit PROVE IdsInv'
  BY <1>30, <1>f, <1>i DEF Quit, frameVars, IdsInv
<1>31. ASSUME UNCHANGED vars PROVE IdsInv'
  BY <1>31, <1>u, <1>i DEF vars, panelVars, IdsInv
<1> QED BY <1>1, <1>2, <1>3, <1>4, <1>5, <1>6, <1>7, <1>8, <1>9, <1>10, <1>11,
           <1>12, <1>13, <1>14, <1>15, <1>16, <1>17, <1>18, <1>19, <1>20, <1>21,
           <1>22, <1>23, <1>24, <1>25, <1>26, <1>27, <1>28, <1>29, <1>30, <1>31
        DEF Next, User, Program

-----------------------------------------------------------------------------
(* AboutBoxGuarded and OneQueryAtATime: what kinds of handlers are nested.  *)
KindsInv == AboutBoxGuarded /\ OneQueryAtATime

LEMMA KindsStep == TypeOK /\ StackInv /\ KindsInv /\ [Next]_vars => KindsInv'
<1> SUFFICES ASSUME TypeOK, StackInv, KindsInv, [Next]_vars PROVE KindsInv'
  OBVIOUS
<1> DEFINE Same == bAboutBox' = bAboutBox
           Query(kind) == kind \in {"tmx", "dedi"}
<1>d. depth \in 0..MaxDepth
  BY DEF TypeOK
<1>k. ASSUME Same, depth' = depth,
             \A i \in 1..depth : \/ stack'[i].kind = stack[i].kind
                                 \/ /\ stack[i].kind \notin {"about", "tmx", "dedi"}
                                    /\ stack'[i].kind \notin {"about", "tmx", "dedi"}
      PROVE  KindsInv'
  BY <1>k DEF KindsInv, AboutBoxGuarded, OneQueryAtATime, Querying
<1>u. ASSUME Same, UNCHANGED frameVars PROVE KindsInv'
  BY <1>u, <1>k DEF frameVars
<1>g. ASSUME depth > 0, NEW pc \in PumpPcs \cup BusyPcs, Goto(pc), Same PROVE KindsInv'
  BY <1>g, <1>k, <1>d, GotoEffect, TypeOfStack
<1>r. ASSUME depth > 0, Return, Same, Top.kind # "about" PROVE KindsInv'
  <2>1. /\ depth' = depth - 1 /\ depth \in 1..MaxDepth
        /\ \A i \in 1..MaxDepth : i # depth => stack'[i] = stack[i]
    BY <1>r, ReturnEffect, TypeOfStack
  <2> QED BY <1>r, <2>1, <1>d DEF KindsInv, AboutBoxGuarded, OneQueryAtATime, Querying, Top
<1>e. ASSUME NEW kind \in {"batch", "tmx", "dedi", "picker", "about"},
             NEW pc \in PumpPcs \cup BusyPcs, NEW left \in Nat,
             Push(Activation(kind, pc, left))
      PROVE  /\ depth' = depth + 1 /\ depth' \in 1..MaxDepth
             /\ stack'[depth'].kind = kind
             /\ \A i \in 1..depth : stack'[i] = stack[i]
  <2> DEFINE f == Activation(kind, pc, left)
  <2>1. f \in Frame /\ f.kind = kind
    BY ActivationType
  <2>2. Push(f)
    BY <1>e
  <2> HIDE DEF f
  <2> QED BY <2>1, <2>2, <1>d, PushEffect, TypeOfStack
(* A batch or a file dialog.                                                *)
<1>b. ASSUME NEW kind \in {"batch", "picker"}, NEW pc \in PumpPcs \cup BusyPcs,
             NEW left \in Nat, Push(Activation(kind, pc, left)), Same
      PROVE  KindsInv'
  BY <1>b, <1>d, <1>e DEF KindsInv, AboutBoxGuarded, OneQueryAtATime, Querying
(* A query begins only when the dialog is enabled: no other is open.        *)
<1>q. ASSUME NEW kind \in {"tmx", "dedi"}, Push(Activation(kind, "ask", 0)), Same, Input
      PROVE  KindsInv'
  <2>1. \A i \in 1..depth : ~Query(stack[i].kind)
    <3> SUFFICES ASSUME NEW i \in 1..depth, Query(stack[i].kind) PROVE FALSE
      OBVIOUS
    <3>1. stack[i].pc \in {"ask", "prompt"}
      BY <1>d DEF StackInv, PcsOf
    <3>2. stack[i].pc \in PumpPcs
      BY <1>q, <1>d DEF StackInv, Input, Idle, AtPump, At, Top
    <3> QED BY <3>1, <3>2, <1>q DEF Input, DialogEnabled, OwnedPcs, PumpPcs
  <2>2. /\ depth' = depth + 1 /\ depth' \in 1..MaxDepth /\ stack'[depth'].kind = kind
        /\ \A i \in 1..depth : stack'[i] = stack[i]
    BY <1>q, <1>e DEF BusyPcs
  <2>3. OneQueryAtATime'
    BY <2>1, <2>2, <1>d DEF OneQueryAtATime, Querying
  <2>4. AboutBoxGuarded'
    <3>1. \A i \in 1..depth' : stack'[i].kind = "about" <=> i \in 1..depth /\ stack[i].kind = "about"
      BY <2>2, <1>d
    <3> QED BY <1>q, <2>2, <3>1, <1>d DEF KindsInv, AboutBoxGuarded
  <2> QED BY <2>3, <2>4 DEF KindsInv
<1>1. ASSUME NEW n \in 1..MaxDrop, PostDrop(n) PROVE KindsInv'
  BY <1>1, <1>u DEF PostDrop
<1>2. ASSUME PostPaste PROVE KindsInv'
  BY <1>2, <1>u DEF PostPaste
<1>3. ASSUME DispatchPosted PROVE KindsInv'
  <2>1. ASSUME NEW n \in Nat, StartBatch(n) PROVE KindsInv'
    BY <1>3, <2>1, <1>u, <1>b DEF DispatchPosted, StartBatch, Capped, BusyPcs
  <2>2. Head(queue).files \in Nat
    <3>1. Head(queue) \in Message
      BY <1>3 DEF DispatchPosted, TypeOK
    <3> QED BY <3>1 DEF Message
  <2>3. \E n \in Nat : StartBatch(n)
    BY <1>3, <2>2 DEF DispatchPosted
  <2> QED BY <2>1, <2>3
<1>4. ASSUME StartDump PROVE KindsInv'
  <2>1. Same
    BY <1>4 DEF StartDump
  <2> QED BY <1>4, <2>1, <1>k, <1>d, StartDumpEffect
<1>5. ASSUME EndBatch PROVE KindsInv'
  BY <1>5, <1>r, KindAt DEF EndBatch, At
<1>6. ASSUME NEW media \in Media, OpenFile(media) PROVE KindsInv'
  <2>1. Same
    BY <1>6 DEF OpenFile
  <2> QED BY <1>6, <2>1, <1>k, <1>d, OpenFileEffect
<1>7. ASSUME NEW hasUid \in BOOLEAN, NEW env \in Envis \cup {"none"}, ReadIds(hasUid, env)
      PROVE  KindsInv'
  BY <1>7, <1>g DEF ReadIds, At, BusyPcs
<1>8. ASSUME DecodeImage PROVE KindsInv'
  BY <1>8, <1>g DEF DecodeImage, At, pictureFrame, PumpPcs, BusyPcs
<1>9. ASSUME SkipPicture PROVE KindsInv'
  BY <1>9, <1>g DEF SkipPicture, At, pictureFrame, PumpPcs, BusyPcs
<1>10. ASSUME StartJpeg PROVE KindsInv'
  BY <1>10, <1>g DEF StartJpeg, At, pictureFrame, PumpPcs, BusyPcs
<1>11. ASSUME FinishJpeg PROVE KindsInv'
  BY <1>11, <1>g DEF FinishJpeg, At, pictureFrame, PumpPcs, BusyPcs
<1>12. ASSUME AbandonJpeg PROVE KindsInv'
  BY <1>12, <1>g DEF AbandonJpeg, At, pictureFrame, PumpPcs, BusyPcs
<1>13. ASSUME ShowTrace PROVE KindsInv'
  BY <1>13, <1>g DEF ShowTrace, At, panelVars, PumpPcs, BusyPcs
<1>14. ASSUME ReportError PROVE KindsInv'
  BY <1>14, <1>g DEF ReportError, At, panelVars, PumpPcs, BusyPcs
<1>15. ASSUME DismissDecoderBox PROVE KindsInv'
  BY <1>15, <1>g DEF DismissDecoderBox, At, pictureFrame, PumpPcs, BusyPcs
<1>16. ASSUME Jump PROVE KindsInv'
  BY <1>16, <1>g, <1>u DEF Jump, At, BusyPcs
<1>17. ASSUME ClickTmx PROVE KindsInv'
  BY <1>17, <1>q DEF ClickTmx, queryFrame
<1>18. ASSUME ClickDedimania PROVE KindsInv'
  BY <1>18, <1>q DEF ClickDedimania, queryFrame
<1>19. ASSUME QuerySucceeds PROVE KindsInv'
  BY <1>19, <1>r, KindAt DEF QuerySucceeds, QueryEnds, At, queryFrame
<1>20. ASSUME NetworkFails PROVE KindsInv'
  BY <1>20, <1>r, KindAt DEF NetworkFails, QueryFails, At, queryFrame
<1>21. ASSUME PromptOffline PROVE KindsInv'
  BY <1>21, <1>g DEF PromptOffline, At, PumpPcs, queryFrame
<1>22. ASSUME GoOnline PROVE KindsInv'
  BY <1>22, <1>g DEF GoOnline, At, BusyPcs, queryFrame
<1>23. ASSUME StayOffline PROVE KindsInv'
  BY <1>23, <1>r, KindAt DEF StayOffline, QueryFails, QueryEnds, At, queryFrame
<1>24. ASSUME ClickOpen PROVE KindsInv'
  BY <1>24, <1>b DEF ClickOpen, PumpPcs
<1>25. ASSUME PickFile PROVE KindsInv'
  <2> DEFINE f == Activation("batch", "next", 1)
  <2>1. f \in Frame /\ f.kind = "batch" /\ f.pc = "next"
    BY PickedType
  <2>2. depth > 0 /\ depth' = depth /\ stack' = [stack EXCEPT ![depth] = f] /\ Same
    BY <1>25 DEF PickFile, At
  <2>3. Top.kind = "picker"
    BY <1>25, KindAt DEF PickFile, At
  <2> HIDE DEF f
  <2> QED BY <2>1, <2>2, <2>3, <1>k, <1>d, TypeOfStack, TopEffect DEF Top
<1>26. ASSUME CancelPicker PROVE KindsInv'
  BY <1>26, <1>r, KindAt DEF CancelPicker, At
<1>27. ASSUME PressF1 PROVE KindsInv'
  <2>1. bAboutBox' /\ ~bAboutBox /\ Push(Activation("about", "about", 0))
    BY <1>27 DEF PressF1
  <2>2. \A i \in 1..depth : stack[i].kind # "about"
    BY <2>1 DEF KindsInv, AboutBoxGuarded
  <2> QED BY <2>1, <2>2, <1>d, <1>e DEF KindsInv, AboutBoxGuarded, OneQueryAtATime,
             Querying, PumpPcs
<1>28. ASSUME CloseAbout PROVE KindsInv'
  <2>1. depth > 0 /\ Top.kind = "about" /\ ~bAboutBox' /\ Return
    BY <1>28, KindAt DEF CloseAbout, At
  <2>2. /\ depth' = depth - 1 /\ depth \in 1..MaxDepth
        /\ \A i \in 1..MaxDepth : i # depth => stack'[i] = stack[i]
    BY <2>1, ReturnEffect, TypeOfStack
  <2>3. \A i \in 1..depth : i # depth => stack[i].kind # "about"
    BY <2>1, <2>2 DEF KindsInv, AboutBoxGuarded, Top
  <2> QED BY <2>1, <2>2, <2>3 DEF KindsInv, AboutBoxGuarded, OneQueryAtATime, Querying
<1>29. ASSUME CloseDialog PROVE KindsInv'
  BY <1>29, <1>u DEF CloseDialog
<1>30. ASSUME Quit PROVE KindsInv'
  BY <1>30, <1>u DEF Quit
<1>31. ASSUME UNCHANGED vars PROVE KindsInv'
  BY <1>31, <1>u DEF vars
<1> QED BY <1>1, <1>2, <1>3, <1>4, <1>5, <1>6, <1>7, <1>8, <1>9, <1>10, <1>11,
           <1>12, <1>13, <1>14, <1>15, <1>16, <1>17, <1>18, <1>19, <1>20, <1>21,
           <1>22, <1>23, <1>24, <1>25, <1>26, <1>27, <1>28, <1>29, <1>30, <1>31
        DEF Next, User, Program

-----------------------------------------------------------------------------
(* BitmapOfThumb: the blended copy is replaced with the DIB, or dropped.    *)
LEMMA BitmapStep == BitmapOfThumb /\ [Next]_vars => BitmapOfThumb'
<1> SUFFICES ASSUME BitmapOfThumb, [Next]_vars PROVE BitmapOfThumb'
  OBVIOUS
<1>u. ASSUME UNCHANGED <<thumbOf, bitmapOf>> PROVE BitmapOfThumb'
  BY <1>u DEF BitmapOfThumb
<1>p. ASSUME NEW owner, NEW blended \in BOOLEAN, ReplaceThumbnail(owner, blended)
      PROVE  BitmapOfThumb'
  BY <1>p DEF BitmapOfThumb, ReplaceThumbnail
<1>m. ASSUME NEW owner, MarkAsUnsupported(owner) \/ NoPicture PROVE BitmapOfThumb'
  BY <1>m, <1>u DEF MarkAsUnsupported, NoPicture
<1>1. ASSUME NEW n \in 1..MaxDrop, PostDrop(n) PROVE BitmapOfThumb'
  BY <1>1, <1>u DEF PostDrop, panelVars
<1>2. ASSUME PostPaste PROVE BitmapOfThumb'
  BY <1>2, <1>u DEF PostPaste, panelVars
<1>3. ASSUME DispatchPosted PROVE BitmapOfThumb'
  BY <1>3, <1>u DEF DispatchPosted, panelVars
<1>4. ASSUME StartDump PROVE BitmapOfThumb'
  BY <1>4 DEF StartDump, BitmapOfThumb
<1>5. ASSUME EndBatch PROVE BitmapOfThumb'
  BY <1>5, <1>u DEF EndBatch, panelVars
<1>6. ASSUME NEW media \in Media, OpenFile(media) PROVE BitmapOfThumb'
  BY <1>6, <1>u DEF OpenFile, panelVars
<1>7. ASSUME NEW hasUid \in BOOLEAN, NEW env \in Envis \cup {"none"}, ReadIds(hasUid, env)
      PROVE  BitmapOfThumb'
  BY <1>7, <1>u DEF ReadIds
<1>8. ASSUME DecodeImage PROVE BitmapOfThumb'
  BY <1>8, <1>p, <1>m DEF DecodeImage
<1>9. ASSUME SkipPicture PROVE BitmapOfThumb'
  BY <1>9, <1>u DEF SkipPicture
<1>10. ASSUME StartJpeg PROVE BitmapOfThumb'
  BY <1>10, <1>u DEF StartJpeg
<1>11. ASSUME FinishJpeg PROVE BitmapOfThumb'
  BY <1>11, <1>p DEF FinishJpeg
<1>12. ASSUME AbandonJpeg PROVE BitmapOfThumb'
  BY <1>12, <1>m DEF AbandonJpeg, NoDib
<1>13. ASSUME ShowTrace PROVE BitmapOfThumb'
  BY <1>13, <1>u DEF ShowTrace, panelVars
<1>14. ASSUME ReportError PROVE BitmapOfThumb'
  BY <1>14, <1>u DEF ReportError, panelVars
<1>15. ASSUME DismissDecoderBox PROVE BitmapOfThumb'
  BY <1>15, <1>u DEF DismissDecoderBox
<1>16. ASSUME Jump PROVE BitmapOfThumb'
  BY <1>16, <1>m, <1>u DEF Jump, NoDib
<1>17. ASSUME ClickTmx PROVE BitmapOfThumb'
  BY <1>17, <1>u DEF ClickTmx, queryFrame
<1>18. ASSUME ClickDedimania PROVE BitmapOfThumb'
  BY <1>18, <1>u DEF ClickDedimania, queryFrame
<1>19. ASSUME QuerySucceeds PROVE BitmapOfThumb'
  BY <1>19, <1>u DEF QuerySucceeds, QueryEnds, queryFrame
<1>20. ASSUME NetworkFails PROVE BitmapOfThumb'
  BY <1>20, <1>u DEF NetworkFails, QueryFails, queryFrame
<1>21. ASSUME PromptOffline PROVE BitmapOfThumb'
  BY <1>21, <1>u DEF PromptOffline, queryFrame
<1>22. ASSUME GoOnline PROVE BitmapOfThumb'
  BY <1>22, <1>u DEF GoOnline, queryFrame
<1>23. ASSUME StayOffline PROVE BitmapOfThumb'
  BY <1>23, <1>u DEF StayOffline, QueryFails, QueryEnds, queryFrame
<1>24. ASSUME ClickOpen PROVE BitmapOfThumb'
  BY <1>24, <1>u DEF ClickOpen, panelVars
<1>25. ASSUME PickFile PROVE BitmapOfThumb'
  BY <1>25, <1>u DEF PickFile, panelVars
<1>26. ASSUME CancelPicker PROVE BitmapOfThumb'
  BY <1>26, <1>u DEF CancelPicker, panelVars
<1>27. ASSUME PressF1 PROVE BitmapOfThumb'
  BY <1>27, <1>u DEF PressF1, panelVars
<1>28. ASSUME CloseAbout PROVE BitmapOfThumb'
  BY <1>28, <1>u DEF CloseAbout, panelVars
<1>29. ASSUME CloseDialog PROVE BitmapOfThumb'
  BY <1>29, <1>u DEF CloseDialog, panelVars
<1>30. ASSUME Quit PROVE BitmapOfThumb'
  BY <1>30 DEF Quit, BitmapOfThumb
<1>31. ASSUME UNCHANGED vars PROVE BitmapOfThumb'
  BY <1>31, <1>u DEF vars, panelVars
<1> QED BY <1>1, <1>2, <1>3, <1>4, <1>5, <1>6, <1>7, <1>8, <1>9, <1>10, <1>11,
           <1>12, <1>13, <1>14, <1>15, <1>16, <1>17, <1>18, <1>19, <1>20, <1>21,
           <1>22, <1>23, <1>24, <1>25, <1>26, <1>27, <1>28, <1>29, <1>30, <1>31
        DEF Next, User, Program

(* JpegInv and PictureOfLatest: while the output window takes the     *)
(* decoder's messages, nothing comes between setjmp and the thumbnail.      *)
ActiveInv == JpegInv /\ PictureOfLatest

LEMMA JumpConsequence == TypeOK /\ JpegInv => JumpReturnsUnboxed
BY DEF JpegInv, JumpReturnsUnboxed, JumpReturns, At

(* That a box was shown is not forgotten.                                   *)
LEMMA BoxedStays ==
  ASSUME [Next]_vars, boxed' = FALSE
  PROVE  boxed = FALSE
<1>1. CASE User
  BY <1>1 DEF User, PostDrop, PostPaste, ClickTmx, ClickDedimania, ClickOpen, PickFile,
     CancelPicker, PressF1, CloseAbout, GoOnline, StayOffline, QueryFails, QueryEnds,
     DismissDecoderBox, CloseDialog, queryFrame, pictureFrame
<1>2. CASE Program
  BY <1>2 DEF Program, DispatchPosted, StartDump, EndBatch, OpenFile, ReadIds, DecodeImage,
     SkipPicture, StartJpeg, FinishJpeg, AbandonJpeg, ShowTrace, ReportError, Jump,
     QuerySucceeds, NetworkFails, PromptOffline, Quit, QueryFails, QueryEnds,
     queryFrame, pictureFrame
<1> QED BY <1>1, <1>2 DEF Next, vars

LEMMA ActiveStep ==
  TypeOK /\ StackInv /\ FreshInv /\ ActiveInv /\ [Next]_vars => ActiveInv'
<1> SUFFICES ASSUME TypeOK, StackInv, FreshInv, ActiveInv, [Next]_vars, boxed' = FALSE
             PROVE  ActiveInv'
  BY DEF ActiveInv, JpegInv, PictureOfLatest
<1>b. boxed = FALSE
  BY BoxedStays
<1> DEFINE NoBox == \A i \in 1..depth : stack[i].pc \notin {"trace", "errbox"}
           Held  == depth > 0 /\ Top.pc \in {"decode", "jump"} =>
                      /\ Top.dump = latest /\ jmpOf = latest
                      /\ thumbOf = 0 /\ titleOf = 0
           Same  == UNCHANGED <<latest, thumbOf, titleOf>>
<1>h. NoBox /\ Held /\ PictureOfLatest
  BY <1>b DEF ActiveInv, JpegInv, PictureOfLatest
<1>c. ASSUME NoBox', Held', PictureOfLatest' PROVE ActiveInv'
  BY <1>c DEF ActiveInv, JpegInv, PictureOfLatest
<1>i. Same => PictureOfLatest'
  BY <1>b, <1>h DEF PictureOfLatest
<1>u. ASSUME Same, UNCHANGED frameVars, UNCHANGED jmpOf PROVE ActiveInv'
  BY <1>u, <1>h, <1>i, <1>c DEF frameVars, Top
<1>o. ASSUME depth' = 0 \/ Top'.pc \notin {"decode", "jump"} PROVE Held'
  BY <1>o
<1>d. depth \in 0..MaxDepth
  BY DEF TypeOK
(* A new handler.                                                           *)
<1>p. ASSUME NEW kind \in {"batch", "tmx", "dedi", "picker", "about"},
             NEW pc \in {"next", "ask", "pick", "about"}, NEW left \in Nat,
             Push(Activation(kind, pc, left)), Same
      PROVE  ActiveInv'
  <2> DEFINE f == Activation(kind, pc, left)
  <2>1. f \in Frame /\ f.pc = pc
    BY ActivationType DEF PumpPcs, BusyPcs
  <2>2. Push(f)
    BY <1>p
  <2> HIDE DEF f
  <2>3. Top'.pc = pc
    BY <2>1, <2>2, PushTop
  <2>4. NoBox'
    BY <2>1, <2>2, <1>d, <1>h, PushEffect, TypeOfStack
  <2> QED BY <1>p, <2>3, <2>4, <1>o, <1>i, <1>c
(* A handler ends.                                                          *)
<1>r. ASSUME depth > 0, Return, Same PROVE ActiveInv'
  <2>1. depth' = 0 \/ Top'.pc \in PumpPcs
    BY <1>r, ReturnStackInv, ReturnEffect, TypeOfStack
  <2>2. NoBox'
    BY <1>r, <1>d, <1>h, ReturnEffect, TypeOfStack
  <2> QED BY <1>r, <2>1, <2>2, <1>o, <1>i, <1>c DEF PumpPcs
(* A handler goes on.                                                       *)
<1>n. ASSUME depth > 0, NEW pc \in {"next", "decode", "jump", "image", "ask", "prompt"},
             Goto(pc)
      PROVE  NoBox' /\ depth' > 0 /\ Top'.pc = pc /\ Top'.dump = Top.dump
  <2>1. pc \in PumpPcs \cup BusyPcs
    BY DEF PumpPcs, BusyPcs
  <2> QED BY <1>n, <2>1, <1>d, <1>h, GotoEffect, GotoTop, TypeOfStack
<1>g. ASSUME depth > 0, NEW pc \in {"next", "ask", "prompt", "image"}, Goto(pc), Same
      PROVE  ActiveInv'
  BY <1>g, <1>n, <1>o, <1>i, <1>c
(* The dump that holds the thread delivers its picture, or none.            *)
<1>m. ASSUME depth > 0, Goto("next"), latest' = latest,
             Top.dump = latest, thumbOf = 0, titleOf = 0,
             \/ \E blended \in BOOLEAN : ReplaceThumbnail(Top.dump, blended)
             \/ MarkAsUnsupported(Top.dump)
             \/ NoPicture
      PROVE  ActiveInv'
  <2>1. PictureOfLatest'
    BY <1>m DEF PictureOfLatest, ReplaceThumbnail, MarkAsUnsupported, NoPicture
  <2> QED BY <1>m, <2>1, <1>n, <1>o, <1>c
<1>1. ASSUME NEW n \in 1..MaxDrop, PostDrop(n) PROVE ActiveInv'
  BY <1>1, <1>u DEF PostDrop, panelVars
<1>2. ASSUME PostPaste PROVE ActiveInv'
  BY <1>2, <1>u DEF PostPaste, panelVars
<1>3. ASSUME DispatchPosted PROVE ActiveInv'
  <2>1. ASSUME NEW n \in Nat, StartBatch(n) PROVE ActiveInv'
    BY <1>3, <2>1, <1>u, <1>p DEF DispatchPosted, StartBatch, Capped, panelVars
  <2>2. Head(queue).files \in Nat
    <3>1. Head(queue) \in Message
      BY <1>3 DEF DispatchPosted, TypeOK
    <3> QED BY <3>1 DEF Message
  <2>3. \E n \in Nat : StartBatch(n)
    BY <1>3, <2>2 DEF DispatchPosted
  <2> QED BY <2>1, <2>3
<1>4. ASSUME StartDump PROVE ActiveInv'
  <2>1. thumbOf' = 0 /\ titleOf' = 0
    BY <1>4 DEF StartDump
  <2>2. depth' = depth /\ Top'.pc = "open" /\ NoBox'
    BY <1>4, <1>h, <1>d, StartDumpEffect DEF Top
  <2> QED BY <2>1, <2>2, <1>o, <1>c DEF PictureOfLatest
<1>5. ASSUME EndBatch PROVE ActiveInv'
  BY <1>5, <1>r DEF EndBatch, At, panelVars
<1>6. ASSUME NEW media \in Media, OpenFile(media) PROVE ActiveInv'
  <2>1. Same
    BY <1>6 DEF OpenFile, panelVars
  <2>2. depth' = depth /\ Top'.pc \in {"ids", "image", "next"} /\ NoBox'
    BY <1>6, <1>h, <1>d, OpenFileEffect DEF Top
  <2> QED BY <2>1, <2>2, <1>o, <1>i, <1>c
<1>7. ASSUME NEW hasUid \in BOOLEAN, NEW env \in Envis \cup {"none"}, ReadIds(hasUid, env)
      PROVE  ActiveInv'
  BY <1>7, <1>g DEF ReadIds, At
<1>8. ASSUME DecodeImage PROVE ActiveInv'
  <2>1. depth > 0 /\ Top.dump = latest /\ thumbOf = 0 /\ titleOf = 0
    BY <1>8 DEF DecodeImage, At, FreshInv
  <2> QED BY <1>8, <2>1, <1>m DEF DecodeImage, pictureFrame
<1>9. ASSUME SkipPicture PROVE ActiveInv'
  BY <1>9, <1>g DEF SkipPicture, At, pictureFrame
<1>10. ASSUME StartJpeg PROVE ActiveInv'
  <2>1. depth > 0 /\ Top.dump = latest /\ thumbOf = 0 /\ titleOf = 0
    BY <1>10 DEF StartJpeg, At, FreshInv
  <2>2. Same /\ jmpOf' = latest /\ Goto("decode")
    BY <1>10, <2>1 DEF StartJpeg, pictureFrame
  <2> QED BY <2>1, <2>2, <1>n, <1>i, <1>c
<1>11. ASSUME FinishJpeg PROVE ActiveInv'
  <2>1. depth > 0 /\ Top.dump = latest /\ thumbOf = 0 /\ titleOf = 0
    BY <1>11, <1>h DEF FinishJpeg, At
  <2>2. \E blended \in BOOLEAN : ReplaceThumbnail(Top.dump, blended)
    BY <1>11 DEF FinishJpeg
  <2> QED BY <1>11, <2>1, <2>2, <1>m DEF FinishJpeg, pictureFrame
<1>12. ASSUME AbandonJpeg PROVE ActiveInv'
  <2>1. depth > 0 /\ Top.dump = latest /\ thumbOf = 0 /\ titleOf = 0
    BY <1>12, <1>h DEF AbandonJpeg, At
  <2> QED BY <1>12, <2>1, <1>m DEF AbandonJpeg, NoDib, pictureFrame
<1>13. ASSUME ShowTrace PROVE ActiveInv'
  BY <1>13 DEF ShowTrace
<1>14. ASSUME ReportError PROVE ActiveInv'
  <2>1. depth > 0 /\ Top.pc = "decode" /\ Goto("jump") /\ Same /\ UNCHANGED jmpOf
    BY <1>14 DEF ReportError, At, panelVars
  <2> QED BY <2>1, <1>h, <1>n, <1>i, <1>c
<1>15. ASSUME DismissDecoderBox PROVE ActiveInv'
  BY <1>15, <1>h, <1>d DEF DismissDecoderBox, At, Top
<1>16. ASSUME Jump PROVE ActiveInv'
  <2>1. depth > 0 /\ Top.dump = latest /\ jmpOf = latest /\ thumbOf = 0 /\ titleOf = 0
    BY <1>16, <1>h DEF Jump, At
  <2> QED BY <1>16, <2>1, <1>m DEF Jump, NoDib
<1>17. ASSUME ClickTmx PROVE ActiveInv'
  BY <1>17, <1>p DEF ClickTmx, queryFrame
<1>18. ASSUME ClickDedimania PROVE ActiveInv'
  BY <1>18, <1>p DEF ClickDedimania, queryFrame
<1>19. ASSUME QuerySucceeds PROVE ActiveInv'
  BY <1>19, <1>r DEF QuerySucceeds, QueryEnds, At, queryFrame
<1>20. ASSUME NetworkFails PROVE ActiveInv'
  BY <1>20, <1>r DEF NetworkFails, QueryFails, At, queryFrame
<1>21. ASSUME PromptOffline PROVE ActiveInv'
  BY <1>21, <1>g DEF PromptOffline, At, queryFrame
<1>22. ASSUME GoOnline PROVE ActiveInv'
  BY <1>22, <1>g DEF GoOnline, At, queryFrame
<1>23. ASSUME StayOffline PROVE ActiveInv'
  BY <1>23, <1>r DEF StayOffline, QueryFails, QueryEnds, At, queryFrame
<1>24. ASSUME ClickOpen PROVE ActiveInv'
  BY <1>24, <1>p DEF ClickOpen, panelVars
<1>25. ASSUME PickFile PROVE ActiveInv'
  <2> DEFINE f == Activation("batch", "next", 1)
  <2>1. f \in Frame /\ f.kind = "batch" /\ f.pc = "next"
    BY PickedType
  <2>2. depth > 0 /\ depth' = depth /\ stack' = [stack EXCEPT ![depth] = f] /\ Same
    BY <1>25 DEF PickFile, At, panelVars
  <2> HIDE DEF f
  <2>3. /\ depth \in 1..MaxDepth /\ stack'[depth] = f
        /\ \A i \in 1..MaxDepth : i # depth => stack'[i] = stack[i]
    BY <2>1, <2>2, TypeOfStack, TopEffect
  <2>4. Top'.pc = "next" /\ NoBox'
    BY <2>1, <2>2, <2>3, <1>h, <1>d DEF Top
  <2> QED BY <2>2, <2>4, <1>o, <1>i, <1>c
<1>26. ASSUME CancelPicker PROVE ActiveInv'
  BY <1>26, <1>r DEF CancelPicker, At, panelVars
<1>27. ASSUME PressF1 PROVE ActiveInv'
  BY <1>27, <1>p DEF PressF1, panelVars
<1>28. ASSUME CloseAbout PROVE ActiveInv'
  BY <1>28, <1>r DEF CloseAbout, At, panelVars
<1>29. ASSUME CloseDialog PROVE ActiveInv'
  BY <1>29, <1>u DEF CloseDialog, panelVars
<1>30. ASSUME Quit PROVE ActiveInv'
  <2>1. NoBox' /\ Held'
    BY <1>30, <1>h, <1>d DEF Quit, frameVars
  <2>2. PictureOfLatest'
    BY <1>30, <1>h, <1>b DEF Quit, PictureOfLatest
  <2> QED BY <2>1, <2>2, <1>c
<1>31. ASSUME UNCHANGED vars PROVE ActiveInv'
  BY <1>31, <1>u DEF vars, panelVars
<1> QED BY <1>1, <1>2, <1>3, <1>4, <1>5, <1>6, <1>7, <1>8, <1>9, <1>10, <1>11,
           <1>12, <1>13, <1>14, <1>15, <1>16, <1>17, <1>18, <1>19, <1>20, <1>21,
           <1>22, <1>23, <1>24, <1>25, <1>26, <1>27, <1>28, <1>29, <1>30, <1>31
        DEF Next, User, Program

-----------------------------------------------------------------------------
(* QueryInv and ButtonsTruthful: unless the file dumped last was dumped     *)
(* inside a query, the batches that wait inside one have not begun a file.  *)
OnlineInv == QueryInv /\ ButtonsTruthful

(* Only the start of a dump tells anew whether a query was overtaken.       *)
LEMMA OvertakenByDumps ==
  ASSUME [Next]_vars
  PROVE  StartDump \/ overtaken' = overtaken
<1>1. CASE User
  BY <1>1 DEF User, PostDrop, PostPaste, ClickTmx, ClickDedimania, ClickOpen, PickFile,
     CancelPicker, PressF1, CloseAbout, GoOnline, StayOffline, QueryFails, QueryEnds,
     DismissDecoderBox, CloseDialog, queryFrame, pictureFrame
<1>2. CASE Program
  BY <1>2 DEF Program, DispatchPosted, EndBatch, OpenFile, ReadIds, DecodeImage,
     SkipPicture, StartJpeg, FinishJpeg, AbandonJpeg, ShowTrace, ReportError, Jump,
     QuerySucceeds, NetworkFails, PromptOffline, Quit, QueryFails, QueryEnds,
     queryFrame, pictureFrame
<1> QED BY <1>1, <1>2 DEF Next, vars

(* A batch that has begun a file runs outside every query.                  *)
LEMMA NoQueryAround ==
  ASSUME TypeOK, QueryInv, overtaken = FALSE, depth > 0,
         Top.kind = "batch", Top.pc # "next"
  PROVE  \A i \in 1..depth : ~Querying(i)
<1> SUFFICES ASSUME NEW i \in 1..depth, Querying(i) PROVE FALSE
  OBVIOUS
<1>1. depth \in 1..depth /\ depth \in Nat
  BY DEF TypeOK
<1>2. i # depth
  BY DEF Querying, Top
<1>3. i < depth
  BY <1>1, <1>2
<1> QED BY <1>1, <1>3 DEF QueryInv, Top

LEMMA OnlineStep ==
  TypeOK /\ StackInv /\ IdsInv /\ OnlineInv /\ [Next]_vars => OnlineInv'
<1> SUFFICES ASSUME TypeOK, StackInv, IdsInv, OnlineInv, [Next]_vars, overtaken' = FALSE
             PROVE  OnlineInv'
  BY DEF OnlineInv, QueryInv, ButtonsTruthful
<1> DEFINE Calm == \A i, j \in 1..depth :
                     i < j /\ Querying(i) /\ stack[j].kind = "batch" => stack[j].pc = "next"
           Sound(frame) == /\ frame.kind = "tmx"  => enviOf = latest /\ envi \in TmxEnvis
                           /\ frame.kind = "dedi" => enviOf = latest /\ envi \in DediEnvis
           Truthful == /\ tmx  => enviOf = latest /\ envi \in TmxEnvis
                       /\ dedi => enviOf = latest /\ envi \in DediEnvis
           Track == UNCHANGED <<latest, enviOf, envi>>
           Same  == Track /\ UNCHANGED <<tmx, dedi>>
<1>c. ASSUME Calm', \A i \in 1..depth' : Sound(stack[i])', Truthful' PROVE OnlineInv'
  BY <1>c DEF OnlineInv, QueryInv, ButtonsTruthful
<1>d. depth \in 0..MaxDepth
  BY DEF TypeOK
<1>4. ASSUME StartDump PROVE OnlineInv'
  <2>1. \A i \in 1..depth : ~Querying(i)
    BY <1>4 DEF StartDump, QueryOpen
  <2>2. depth' = depth /\ \A i \in 1..depth' : stack'[i].kind = stack[i].kind
    BY <1>4, <1>d, StartDumpEffect
  <2>3. Truthful'
    BY <1>4 DEF StartDump
  <2>4. \A i \in 1..depth' : ~Querying(i)'
    BY <2>1, <2>2 DEF Querying
  <2>5. Calm'
    BY <2>4
  <2>6. \A i \in 1..depth' : Sound(stack[i])'
    BY <2>4 DEF Querying
  <2> QED BY <2>3, <2>5, <2>6, <1>c
<1> SUFFICES ASSUME ~StartDump PROVE OnlineInv'
  BY <1>4
<1>b. overtaken = FALSE
  BY OvertakenByDumps
<1>h. Calm /\ (\A i \in 1..depth : Sound(stack[i])) /\ Truthful
  BY <1>b DEF OnlineInv, QueryInv, ButtonsTruthful
<1>i. Same => Truthful'
  BY <1>h
<1>u. ASSUME Same, UNCHANGED frameVars PROVE OnlineInv'
  <2>1. Calm' /\ \A i \in 1..depth' : Sound(stack[i])'
    BY <1>u, <1>h DEF frameVars, Querying
  <2> QED BY <1>u, <2>1, <1>i, <1>c
(* A batch that has begun a file holds the thread: no query is open.        *)
<1>n. ASSUME depth > 0, Top.kind = "batch", Top.pc # "next"
      PROVE  \A i \in 1..depth : ~Querying(i)
  BY <1>n, <1>b, NoQueryAround DEF OnlineInv
(* The top goes to another control point of the same kind of handler.       *)
<1>t. ASSUME depth \in 1..MaxDepth, depth' = depth,
             \A i \in 1..MaxDepth : i # depth => stack'[i] = stack[i],
             stack'[depth].kind = stack[depth].kind, Top.pc # "next",
             Track \/ Top.kind = "batch"
      PROVE  Calm' /\ \A i \in 1..depth' : Sound(stack[i])'
  <2>1. \A i \in 1..depth : stack'[i].kind = stack[i].kind
    BY <1>t
  <2>2. CASE Top.kind = "batch"
    <3>1. \A i \in 1..depth' : ~Querying(i)'
      BY <1>t, <2>1, <2>2, <1>n DEF Querying
    <3>2. Calm'
      BY <3>1
    <3>3. \A i \in 1..depth' : Sound(stack[i])'
      BY <3>1 DEF Querying
    <3> QED BY <3>2, <3>3
  <2>3. CASE Top.kind # "batch"
    <3>1. \A i \in 1..depth' : Sound(stack[i])'
      BY <1>t, <2>1, <2>3, <1>h
    <3>2. ASSUME NEW i \in 1..depth, NEW j \in 1..depth,
                 i < j, Querying(i)', stack'[j].kind = "batch"
          PROVE  stack'[j].pc = "next"
      <4>1. Querying(i) /\ stack[j].kind = "batch" /\ j # depth
        BY <3>2, <2>1, <2>3 DEF Querying, Top
      <4>2. stack'[j] = stack[j]
        BY <4>1, <1>t
      <4> QED BY <3>2, <4>1, <4>2, <1>h
    <3>3. Calm'
      BY <3>2, <1>t
    <3> QED BY <3>1, <3>3
  <2> QED BY <2>2, <2>3
<1>g. ASSUME depth > 0, Top.pc # "next", NEW pc \in PumpPcs \cup BusyPcs, Goto(pc), Same
      PROVE  OnlineInv'
  BY <1>g, <1>t, <1>i, <1>c, GotoEffect, TypeOfStack
<1>r. ASSUME depth > 0, Return, Track PROVE Calm' /\ \A i \in 1..depth' : Sound(stack[i])'
  <2>1. depth' = depth - 1 /\ \A i \in 1..depth' : i \in 1..depth /\ stack'[i] = stack[i]
    BY <1>r, <1>d, ReturnEffect, TypeOfStack
  <2>2. Calm'
    BY <2>1, <1>h DEF Querying
  <2>3. \A i \in 1..depth' : Sound(stack[i])'
    BY <1>r, <2>1, <1>h
  <2> QED BY <2>2, <2>3
<1>p. ASSUME NEW kind \in {"batch", "tmx", "dedi", "picker", "about"},
             NEW pc \in {"next", "ask", "pick", "about"}, NEW left \in Nat,
             Push(Activation(kind, pc, left)), Track, kind = "batch" => pc = "next",
             kind = "tmx"  => enviOf = latest /\ envi \in TmxEnvis,
             kind = "dedi" => enviOf = latest /\ envi \in DediEnvis
      PROVE  Calm' /\ \A i \in 1..depth' : Sound(stack[i])'
  <2> DEFINE f == Activation(kind, pc, left)
  <2>1. f \in Frame /\ f.pc = pc /\ f.kind = kind
    BY ActivationType DEF PumpPcs, BusyPcs
  <2>2. Push(f)
    BY <1>p
  <2> HIDE DEF f
  <2>3. /\ depth' = depth + 1 /\ stack'[depth'] = f
        /\ \A i \in 1..MaxDepth : i # depth' => stack'[i] = stack[i]
    BY <2>1, <2>2, PushEffect, TypeOfStack
  <2>4. \A i \in 1..depth' : Sound(stack[i])'
    BY <1>p, <2>1, <2>3, <1>h, <1>d
  <2>5. ASSUME NEW i \in 1..depth', NEW j \in 1..depth',
               i < j, Querying(i)', stack'[j].kind = "batch"
        PROVE  stack'[j].pc = "next"
    <3>1. CASE j = depth'
      BY <3>1, <2>5, <2>1, <2>3, <1>p
    <3>2. CASE j # depth'
      <4>1. i \in 1..depth /\ j \in 1..depth /\ stack'[i] = stack[i] /\ stack'[j] = stack[j]
        BY <3>2, <2>5, <2>3, <1>d
      <4> QED BY <4>1, <2>5, <1>h DEF Querying
    <3> QED BY <3>1, <3>2
  <2> QED BY <2>4, <2>5
<1>1. ASSUME NEW n \in 1..MaxDrop, PostDrop(n) PROVE OnlineInv'
  BY <1>1, <1>u DEF PostDrop, panelVars
<1>2. ASSUME PostPaste PROVE OnlineInv'
  BY <1>2, <1>u DEF PostPaste, panelVars
<1>3. ASSUME DispatchPosted PROVE OnlineInv'
  <2>1. ASSUME NEW n \in Nat, StartBatch(n) PROVE OnlineInv'
    BY <1>3, <2>1, <1>u, <1>p, <1>i, <1>c DEF DispatchPosted, StartBatch, Capped, panelVars
  <2>2. Head(queue).files \in Nat
    <3>1. Head(queue) \in Message
      BY <1>3 DEF DispatchPosted, TypeOK
    <3> QED BY <3>1 DEF Message
  <2>3. \E n \in Nat : StartBatch(n)
    BY <1>3, <2>2 DEF DispatchPosted
  <2> QED BY <2>1, <2>3
<1>5. ASSUME EndBatch PROVE OnlineInv'
  BY <1>5, <1>r, <1>i, <1>c DEF EndBatch, At, panelVars
<1>6. ASSUME NEW media \in Media, OpenFile(media) PROVE OnlineInv'
  <2>1. Same
    BY <1>6 DEF OpenFile, panelVars
  <2>2. depth > 0 /\ Top.pc = "open"
    BY <1>6 DEF OpenFile, At
  <2> QED BY <1>6, <2>1, <2>2, <1>t, <1>i, <1>c, OpenFileEffect
<1>7. ASSUME NEW hasUid \in BOOLEAN, NEW env \in Envis \cup {"none"}, ReadIds(hasUid, env)
      PROVE  OnlineInv'
  <2>1. depth > 0 /\ Top.kind = "batch" /\ Top.pc = "ids" /\ latest' = latest
    BY <1>7, KindAt DEF ReadIds, At
  <2>2. Calm' /\ \A i \in 1..depth' : Sound(stack[i])'
    BY <1>7, <2>1, <1>t, GotoEffect, TypeOfStack DEF ReadIds, BusyPcs
  <2>3. Top.dump = latest /\ envi = "none" /\ tmx = FALSE /\ dedi = FALSE
    BY <2>1 DEF IdsInv, FreshInv, UnreadInv
  <2>4. envi' \in TmxEnvis \cup DediEnvis => enviOf' = latest'
    BY <1>7, <2>1, <2>3 DEF ReadIds, TmxEnvis, DediEnvis
  <2>5. (tmx' => envi' \in TmxEnvis) /\ (dedi' => envi' \in DediEnvis)
    BY <1>7, <2>3 DEF ReadIds
  <2>6. Truthful'
    BY <2>4, <2>5
  <2> QED BY <2>2, <2>6, <1>c
<1>8. ASSUME DecodeImage PROVE OnlineInv'
  BY <1>8, <1>g DEF DecodeImage, At, pictureFrame, PumpPcs, BusyPcs
<1>9. ASSUME SkipPicture PROVE OnlineInv'
  BY <1>9, <1>g DEF SkipPicture, At, pictureFrame, PumpPcs, BusyPcs
<1>10. ASSUME StartJpeg PROVE OnlineInv'
  BY <1>10, <1>g DEF StartJpeg, At, pictureFrame, PumpPcs, BusyPcs
<1>11. ASSUME FinishJpeg PROVE OnlineInv'
  BY <1>11, <1>g DEF FinishJpeg, At, pictureFrame, PumpPcs, BusyPcs
<1>12. ASSUME AbandonJpeg PROVE OnlineInv'
  BY <1>12, <1>g DEF AbandonJpeg, At, pictureFrame, PumpPcs, BusyPcs
<1>13. ASSUME ShowTrace PROVE OnlineInv'
  BY <1>13, <1>g DEF ShowTrace, At, panelVars, PumpPcs, BusyPcs
<1>14. ASSUME ReportError PROVE OnlineInv'
  BY <1>14, <1>g DEF ReportError, At, panelVars, PumpPcs, BusyPcs
<1>15. ASSUME DismissDecoderBox PROVE OnlineInv'
  BY <1>15, <1>g DEF DismissDecoderBox, At, pictureFrame, PumpPcs, BusyPcs
<1>16. ASSUME Jump PROVE OnlineInv'
  BY <1>16, <1>g, <1>u DEF Jump, At, BusyPcs
<1>17. ASSUME ClickTmx PROVE OnlineInv'
  <2>1. /\ tmx /\ tmx' = FALSE /\ dedi' = dedi /\ Track
        /\ Push(Activation("tmx", "ask", 0))
    BY <1>17 DEF ClickTmx, queryFrame
  <2>2. Truthful' /\ enviOf = latest /\ envi \in TmxEnvis
    BY <2>1, <1>h
  <2> QED BY <2>1, <2>2, <1>p, <1>c
<1>18. ASSUME ClickDedimania PROVE OnlineInv'
  <2>1. /\ dedi /\ dedi' = FALSE /\ tmx' = tmx /\ Track
        /\ Push(Activation("dedi", "ask", 0))
    BY <1>18 DEF ClickDedimania, queryFrame
  <2>2. Truthful' /\ enviOf = latest /\ envi \in DediEnvis
    BY <2>1, <1>h
  <2> QED BY <2>1, <2>2, <1>p, <1>c
<1>19. ASSUME QuerySucceeds PROVE OnlineInv'
  BY <1>19, <1>r, <1>i, <1>c DEF QuerySucceeds, QueryEnds, At, queryFrame
<1>q. ASSUME depth > 0, QueryFails PROVE OnlineInv'
  <2>1. Track /\ Return
    BY <1>q DEF QueryFails, queryFrame
  <2>2. Sound(Top)
    BY <1>q, <1>h, <1>d DEF Top
  <2>3. tmx' => tmx \/ Top.kind = "tmx"
    BY <1>q DEF QueryFails
  <2>4. dedi' => dedi \/ Top.kind = "dedi"
    BY <1>q DEF QueryFails
  <2>5. Truthful'
    BY <2>1, <2>2, <2>3, <2>4, <1>h
  <2> QED BY <1>q, <2>1, <2>5, <1>r, <1>c
<1>20. ASSUME NetworkFails PROVE OnlineInv'
  BY <1>20, <1>q DEF NetworkFails, At
<1>21. ASSUME PromptOffline PROVE OnlineInv'
  BY <1>21, <1>g DEF PromptOffline, At, PumpPcs, queryFrame
<1>22. ASSUME GoOnline PROVE OnlineInv'
  BY <1>22, <1>g DEF GoOnline, At, BusyPcs, queryFrame
<1>23. ASSUME StayOffline PROVE OnlineInv'
  BY <1>23, <1>q, <1>r, <1>i, <1>c DEF StayOffline, QueryEnds, At, queryFrame
<1>24. ASSUME ClickOpen PROVE OnlineInv'
  BY <1>24, <1>p, <1>i, <1>c DEF ClickOpen, panelVars
<1>25. ASSUME PickFile PROVE OnlineInv'
  <2> DEFINE f == Activation("batch", "next", 1)
  <2>1. f \in Frame /\ f.kind = "batch" /\ f.pc = "next"
    BY PickedType
  <2>2. depth > 0 /\ depth' = depth /\ stack' = [stack EXCEPT ![depth] = f] /\ Same
    BY <1>25 DEF PickFile, At, panelVars
  <2> HIDE DEF f
  <2>3. /\ depth \in 1..MaxDepth /\ stack'[depth] = f
        /\ \A i \in 1..MaxDepth : i # depth => stack'[i] = stack[i]
    BY <2>1, <2>2, TypeOfStack, TopEffect
  <2>4. \A i \in 1..depth' : Sound(stack[i])'
    BY <2>1, <2>2, <2>3, <1>h, <1>d
  <2>5. ASSUME NEW i \in 1..depth, NEW j \in 1..depth,
               i < j, Querying(i)', stack'[j].kind = "batch"
        PROVE  stack'[j].pc = "next"
    <3>1. CASE j = depth
      BY <3>1, <2>1, <2>3
    <3>2. CASE j # depth
      <4>1. stack'[i] = stack[i] /\ stack'[j] = stack[j]
        BY <3>2, <2>5, <2>3, <1>d
      <4> QED BY <4>1, <2>5, <1>h DEF Querying
    <3> QED BY <3>1, <3>2
  <2>6. Calm'
    BY <2>5, <2>2
  <2> QED BY <2>2, <2>4, <2>6, <1>i, <1>c
<1>26. ASSUME CancelPicker PROVE OnlineInv'
  BY <1>26, <1>r, <1>i, <1>c DEF CancelPicker, At, panelVars
<1>27. ASSUME PressF1 PROVE OnlineInv'
  BY <1>27, <1>p, <1>i, <1>c DEF PressF1, panelVars
<1>28. ASSUME CloseAbout PROVE OnlineInv'
  BY <1>28, <1>r, <1>i, <1>c DEF CloseAbout, At, panelVars
<1>29. ASSUME CloseDialog PROVE OnlineInv'
  BY <1>29, <1>u DEF CloseDialog, panelVars
<1>30. ASSUME Quit PROVE OnlineInv'
  BY <1>30, <1>u DEF Quit
<1>31. ASSUME UNCHANGED vars PROVE OnlineInv'
  BY <1>31, <1>u DEF vars, panelVars
<1> QED BY <1>1, <1>2, <1>3, <1>5, <1>6, <1>7, <1>8, <1>9, <1>10, <1>11,
           <1>12, <1>13, <1>14, <1>15, <1>16, <1>17, <1>18, <1>19, <1>20, <1>21,
           <1>22, <1>23, <1>24, <1>25, <1>26, <1>27, <1>28, <1>29, <1>30, <1>31
        DEF Next, User, Program

-----------------------------------------------------------------------------
(* The inductive invariant, and what follows from it.                       *)
LEMMA InvInit == Init => IInv
<1> SUFFICES ASSUME Init PROVE IInv
  OBVIOUS
<1>1. TypeOK
  BY TypeInit
<1>2. /\ depth = 0 /\ latest = 0 /\ uidOf = 0 /\ enviOf = 0 /\ envi = "none"
      /\ thumbOf = 0 /\ bitmapOf = 0 /\ titleOf = 0 /\ bAboutBox = FALSE
      /\ tmx = FALSE /\ dedi = FALSE
      /\ stack = [i \in 1..MaxDepth |-> NoFrame]
  BY DEF Init
<1>3. StackInv
  BY <1>2, NoFrameType DEF StackInv, PcsOf
<1>4. FreshInv /\ UnreadInv /\ QueryInv /\ JpegInv /\ OneQueryAtATime
  BY <1>2 DEF FreshInv, UnreadInv, QueryInv, JpegInv, OneQueryAtATime
<1>5. AboutBoxGuarded
  BY <1>2 DEF AboutBoxGuarded
<1>6. IdsOfLatest /\ BitmapOfThumb /\ PictureOfLatest
  BY <1>2 DEF IdsOfLatest, BitmapOfThumb, PictureOfLatest, PictureOfLatest
<1>7. ButtonsTruthful
  BY <1>2 DEF ButtonsTruthful
<1>8. JumpReturnsUnboxed
  BY <1>1, <1>4, JumpConsequence
<1> QED BY <1>1, <1>3, <1>4, <1>5, <1>6, <1>7, <1>8 DEF IInv

LEMMA InvStep == IInv /\ [Next]_vars => IInv'
<1> SUFFICES ASSUME IInv, [Next]_vars PROVE IInv'
  OBVIOUS
<1> USE DEF IInv
<1>1. TypeOK'
  BY TypeStep
<1>2. StackInv'
  BY StackInvStep
<1>3. FreshInv' /\ UnreadInv' /\ IdsOfLatest'
  BY IdsStep DEF IdsInv
<1>4. AboutBoxGuarded' /\ OneQueryAtATime'
  BY KindsStep DEF KindsInv
<1>5. BitmapOfThumb'
  BY BitmapStep
<1>6. QueryInv' /\ ButtonsTruthful'
  BY OnlineStep DEF OnlineInv, IdsInv
<1>7. JpegInv' /\ PictureOfLatest'
  BY ActiveStep DEF ActiveInv
<1>8. JumpReturnsUnboxed'
  <2>1. (TypeOK /\ JpegInv => JumpReturnsUnboxed)'
    BY JumpConsequence, PTL
  <2> QED BY <1>1, <1>7, <2>1
<1> QED BY <1>1, <1>2, <1>3, <1>4, <1>5, <1>6, <1>7, <1>8

(* IInv holds in every reachable state, for every bound.                    *)
THEOREM InvariantHolds == Spec => []IInv
BY InvInit, InvStep, PTL DEF Spec

(* What an online query sends is the identity of the file dumped last.      *)
THEOREM IdsAlwaysOfLatest == Spec => []IdsOfLatest
<1>1. IInv => IdsOfLatest
  BY DEF IInv
<1> QED BY <1>1, InvariantHolds, PTL

(* Two online queries never run inside one another, and there is never a    *)
(* second about box.                                                        *)
THEOREM HandlersDoNotDouble == Spec => []NoHandlerTwice
<1>1. IInv => NoHandlerTwice
  BY DEF IInv, NoHandlerTwice
<1> QED BY <1>1, InvariantHolds, PTL

(* The blended copy on display is that of the DIB that is copied and saved. *)
THEOREM BitmapAlwaysOfThumb == Spec => []BitmapOfThumb
<1>1. IInv => BitmapOfThumb
  BY DEF IInv
<1> QED BY <1>1, InvariantHolds, PTL

(* Unless the file dumped last was dumped inside a query, an enabled online *)
(* button belongs to a listed environment of that file.                     *)
THEOREM ButtonsAlwaysTruthful == Spec => []ButtonsTruthful
<1>1. IInv => ButtonsTruthful
  BY DEF IInv
<1> QED BY <1>1, InvariantHolds, PTL

(* As long as decoder messages have found the output window, the picture is *)
(* that of the file dumped last, and never beside an "unsupported" title.   *)
THEOREM PictureAlwaysOfLatest == Spec => []PictureOfLatest
<1>1. IInv => PictureOfLatest
  BY DEF IInv
<1> QED BY <1>1, InvariantHolds, PTL

(* As long as decoder messages have found the output window, a longjmp      *)
(* returns into the activation of JpegToDib that called setjmp.             *)
THEOREM JumpsAlwaysReturn == Spec => []JumpReturnsUnboxed
<1>1. IInv => JumpReturnsUnboxed
  BY DEF IInv
<1> QED BY <1>1, InvariantHolds, PTL

-----------------------------------------------------------------------------
(* Viewer implements TrackPanel, but for dumps inside a query.              *)
LEMMA PanelInit == Init => Panel!Init
<1> SUFFICES ASSUME Init PROVE Panel!Init
  OBVIOUS
<1>1. /\ depth = 0 /\ latest = 0 /\ uidOf = 0 /\ envi = "none"
      /\ tmx = FALSE /\ dedi = FALSE
  BY DEF Init
<1>2. EnabledButtons = {} /\ OpenQueries = {}
  BY <1>1 DEF EnabledButtons, OpenQueries
<1> QED BY <1>1, <1>2 DEF Panel!Init

LEMMA PanelStep ==
  ASSUME IInv, [Next]_vars
  PROVE  [DumpInQuery \/ Panel!Next]_(Panel!panel)
<1> DEFINE Goal == [DumpInQuery \/ Panel!Next]_(Panel!panel)
           Query(kind) == kind \in {"tmx", "dedi"}
           Same == UNCHANGED <<latest, uidOf, envi, tmx, dedi>>
<1> SUFFICES Goal
  OBVIOUS
<1>i. TypeOK /\ StackInv /\ QueryInv /\ OneQueryAtATime /\ depth \in 0..MaxDepth
  BY DEF IInv, TypeOK
<1>s. ASSUME Same, OpenQueries' = OpenQueries PROVE Goal
  BY <1>s DEF Panel!panel, EnabledButtons
(* Steps that leave the open queries as they are.                           *)
<1>k. ASSUME depth' = depth,
             \A i \in 1..depth : \/ stack'[i].kind = stack[i].kind
                                 \/ ~Query(stack[i].kind) /\ ~Query(stack'[i].kind)
      PROVE  OpenQueries' = OpenQueries
  BY <1>k DEF OpenQueries
<1>u. ASSUME Same, UNCHANGED frameVars PROVE Goal
  BY <1>u, <1>s, <1>k DEF frameVars
<1>g. ASSUME depth > 0, NEW pc \in PumpPcs \cup BusyPcs, Goto(pc) PROVE OpenQueries' = OpenQueries
  BY <1>g, <1>i, <1>k, GotoEffect, TypeOfStack
<1>h. ASSUME depth > 0, NEW pc \in PumpPcs \cup BusyPcs, Goto(pc), Same PROVE Goal
  BY <1>h, <1>g, <1>s
<1>r. ASSUME depth > 0, Return, Same, ~Query(Top.kind) PROVE Goal
  <2>1. /\ depth' = depth - 1 /\ depth \in 1..MaxDepth
        /\ \A i \in 1..MaxDepth : i # depth => stack'[i] = stack[i]
    BY <1>r, <1>i, ReturnEffect, TypeOfStack
  <2>2. OpenQueries' = OpenQueries
    BY <1>r, <2>1 DEF OpenQueries, Top
  <2> QED BY <1>r, <2>2, <1>s
<1>e. ASSUME NEW kind \in {"batch", "tmx", "dedi", "picker", "about"},
             NEW pc \in PumpPcs \cup BusyPcs, NEW left \in Nat,
             Push(Activation(kind, pc, left))
      PROVE  /\ depth' = depth + 1 /\ depth' \in 1..MaxDepth
             /\ stack'[depth'].kind = kind
             /\ \A i \in 1..depth : stack'[i] = stack[i]
  <2> DEFINE f == Activation(kind, pc, left)
  <2>1. f \in Frame /\ f.kind = kind
    BY ActivationType
  <2>2. Push(f)
    BY <1>e
  <2> HIDE DEF f
  <2> QED BY <2>1, <2>2, <1>i, PushEffect, TypeOfStack
<1>p. ASSUME NEW kind \in {"batch", "picker", "about"}, NEW pc \in PumpPcs \cup BusyPcs,
             NEW left \in Nat, Push(Activation(kind, pc, left)), Same
      PROVE  Goal
  <2>1. OpenQueries' = OpenQueries
    BY <1>p, <1>e, <1>i DEF OpenQueries
  <2> QED BY <1>p, <2>1, <1>s
(* A query on top is the only one.                                          *)
<1>o. ASSUME depth > 0, NEW b \in {"tmx", "dedi"}, Top.kind = b
      PROVE  /\ \A i \in 1..depth : Querying(i) => i = depth
             /\ OpenQueries = {b}
  <2>1. Querying(depth) /\ depth \in 1..depth
    BY <1>o, <1>i DEF Querying, Top
  <2>2. \A i \in 1..depth : Querying(i) => i = depth
    BY <2>1, <1>i DEF OneQueryAtATime
  <2> QED BY <1>o, <2>1, <2>2 DEF OpenQueries, Querying, Top
(* Input reaches the dialog only if no prompt of a query disables it.       *)
<1>a. ASSUME Input PROVE OpenQueries = {}
  <2> SUFFICES ASSUME NEW i \in 1..depth, Querying(i) PROVE FALSE
    BY DEF OpenQueries, Querying
  <2>1. i \in 1..MaxDepth /\ stack[i].pc \in {"ask", "prompt"}
    BY <1>i DEF StackInv, PcsOf, Querying
  <2>2. stack[i].pc = "ask"
    BY <2>1, <1>a DEF Input, DialogEnabled, OwnedPcs
  <2>3. i = depth /\ Top.pc = "ask" /\ depth > 0
    BY <1>i, <2>2 DEF StackInv, PumpPcs, Top
  <2> QED BY <1>a, <2>3 DEF Input, Idle, AtPump, At, PumpPcs
(* A question is asked.                                                     *)
<1>q. ASSUME NEW b \in {"tmx", "dedi"}, Input, Push(Activation(b, "ask", 0)),
             b \in EnabledButtons, EnabledButtons' = EnabledButtons \ {b},
             UNCHANGED <<latest, uidOf, envi>>
      PROVE  Goal
  <2>1. OpenQueries = {}
    BY <1>q, <1>a
  <2>2. OpenQueries' = {b}
    BY <1>q, <1>e, <1>i, <2>1 DEF OpenQueries, BusyPcs
  <2>3. Panel!Ask(b)
    BY <1>q, <2>1, <2>2 DEF Panel!Ask
  <2> QED BY <2>3 DEF Panel!Next, Panel!Buttons
(* A question is answered, or comes back.                                   *)
<1>w. ASSUME depth > 0, NEW b \in {"tmx", "dedi"}, Top.kind = b, Return,
             EnabledButtons' \in {EnabledButtons, EnabledButtons \cup {b}},
             UNCHANGED <<latest, uidOf, envi>>
      PROVE  Goal
  <2>1. OpenQueries = {b}
    BY <1>w, <1>o
  <2>2. OpenQueries' = {}
    <3>1. \A i \in 1..depth : Querying(i) => i = depth
      BY <1>w, <1>o
    <3>2. /\ depth' = depth - 1
          /\ \A i \in 1..MaxDepth : i # depth => stack'[i] = stack[i]
      BY <1>w, <1>i, ReturnEffect, TypeOfStack
    <3> QED BY <3>1, <3>2, <1>i DEF OpenQueries, Querying
  <2>3. Panel!Answer(b)
    BY <1>w, <2>1, <2>2 DEF Panel!Answer
  <2> QED BY <2>3 DEF Panel!Next, Panel!Buttons
<1>1. ASSUME NEW n \in 1..MaxDrop, PostDrop(n) PROVE Goal
  BY <1>1, <1>u DEF PostDrop, panelVars
<1>2. ASSUME PostPaste PROVE Goal
  BY <1>2, <1>u DEF PostPaste, panelVars
<1>3. ASSUME DispatchPosted PROVE Goal
  <2>1. ASSUME NEW n \in Nat, StartBatch(n) PROVE Goal
    <3>1. Same /\ Capped(n) \in Nat
      BY <1>3 DEF DispatchPosted, panelVars, Capped
    <3>2. CASE UNCHANGED frameVars
      BY <3>1, <3>2, <1>u
    <3>3. CASE Push(Activation("batch", "next", Capped(n)))
      BY <3>1, <3>3, <1>p DEF BusyPcs
    <3> QED BY <2>1, <3>2, <3>3 DEF StartBatch
  <2>2. Head(queue).files \in Nat
    <3>1. Head(queue) \in Message
      BY <1>3, <1>i DEF DispatchPosted, TypeOK
    <3> QED BY <3>1 DEF Message
  <2>3. \E n \in Nat : StartBatch(n)
    BY <1>3, <2>2 DEF DispatchPosted
  <2> QED BY <2>1, <2>3
<1>4. ASSUME StartDump PROVE Goal
  <2>1. OpenQueries' = OpenQueries
    BY <1>4, <1>i, <1>k, StartDumpEffect
  <2>2. CASE QueryOpen
    <3>1. overtaken' = TRUE
      BY <1>4, <2>2 DEF StartDump
    <3>2. OpenQueries # {}
      BY <2>2 DEF QueryOpen, OpenQueries, Querying
    <3> QED BY <2>1, <3>1, <3>2 DEF DumpInQuery
  <2>3. CASE ~QueryOpen
    <3>1. OpenQueries = {}
      BY <2>3 DEF QueryOpen, OpenQueries, Querying
    <3>2. /\ latest' = latest + 1 /\ uidOf' = 0 /\ envi' = "none"
          /\ tmx' = FALSE /\ dedi' = FALSE
      BY <1>4 DEF StartDump
    <3>3. EnabledButtons' = {}
      BY <3>2 DEF EnabledButtons
    <3>4. Panel!Load
      BY <2>1, <3>1, <3>2, <3>3 DEF Panel!Load
    <3> QED BY <3>4 DEF Panel!Next
  <2> QED BY <2>2, <2>3
<1>5. ASSUME EndBatch PROVE Goal
  BY <1>5, <1>i, <1>r, KindAt DEF EndBatch, At, panelVars
<1>6. ASSUME NEW media \in Media, OpenFile(media) PROVE Goal
  <2>1. Same
    BY <1>6 DEF OpenFile, panelVars
  <2> QED BY <1>6, <2>1, <1>i, <1>k, <1>s, OpenFileEffect
<1>7. ASSUME NEW hasUid \in BOOLEAN, NEW env \in Envis \cup {"none"}, ReadIds(hasUid, env)
      PROVE  Goal
  <2>1. depth > 0 /\ Top.kind = "batch" /\ Top.pc = "ids"
    BY <1>7, <1>i, KindAt DEF ReadIds, At
  <2>2. OpenQueries' = OpenQueries
    BY <1>7, <2>1, <1>g DEF ReadIds, BusyPcs
  <2>o. CASE OpenQueries # {}
    <3>1. PICK i \in 1..depth : Querying(i)
      BY <2>o DEF OpenQueries, Querying
    <3>2. overtaken # FALSE
      BY <3>1, <2>1, <1>i, NoQueryAround
    <3>3. overtaken' = TRUE
      BY <3>2, <1>7, <1>i DEF ReadIds, TypeOK
    <3> QED BY <3>3, <2>2, <2>o DEF DumpInQuery
  <2>3. uidOf = 0 /\ envi = "none" /\ tmx = FALSE /\ dedi = FALSE
    BY <2>1 DEF IInv, UnreadInv
  <2>4. envi' = env /\ latest' = latest
    BY <1>7, <2>3 DEF ReadIds
  <2>5. (tmx' <=> envi' \in TmxEnvis) /\ (dedi' <=> envi' \in DediEnvis)
    BY <1>7, <2>3 DEF ReadIds
  <2>6. EnabledButtons' = Panel!ButtonsFor(envi')
    BY <2>5 DEF EnabledButtons, Panel!ButtonsFor, Panel!Buttons
  <2>7. CASE OpenQueries = {}
    <3>1. Panel!Identify
      BY <2>7, <2>2, <2>3, <2>4, <2>6 DEF Panel!Identify
    <3> QED BY <3>1 DEF Panel!Next
  <2> QED BY <2>o, <2>7
<1>8. ASSUME DecodeImage PROVE Goal
  BY <1>8, <1>h DEF DecodeImage, At, pictureFrame, PumpPcs, BusyPcs
<1>9. ASSUME SkipPicture PROVE Goal
  BY <1>9, <1>h DEF SkipPicture, At, pictureFrame, PumpPcs, BusyPcs
<1>10. ASSUME StartJpeg PROVE Goal
  BY <1>10, <1>h DEF StartJpeg, At, pictureFrame, PumpPcs, BusyPcs
<1>11. ASSUME FinishJpeg PROVE Goal
  BY <1>11, <1>h DEF FinishJpeg, At, pictureFrame, PumpPcs, BusyPcs
<1>12. ASSUME AbandonJpeg PROVE Goal
  BY <1>12, <1>h DEF AbandonJpeg, At, pictureFrame, PumpPcs, BusyPcs
<1>13. ASSUME ShowTrace PROVE Goal
  BY <1>13, <1>h DEF ShowTrace, At, panelVars, PumpPcs, BusyPcs
<1>14. ASSUME ReportError PROVE Goal
  BY <1>14, <1>h DEF ReportError, At, panelVars, PumpPcs, BusyPcs
<1>15. ASSUME DismissDecoderBox PROVE Goal
  BY <1>15, <1>h DEF DismissDecoderBox, At, pictureFrame, PumpPcs, BusyPcs
<1>16. ASSUME Jump PROVE Goal
  BY <1>16, <1>h, <1>u DEF Jump, At, BusyPcs
<1>17. ASSUME ClickTmx PROVE Goal
  <2>1. /\ Input /\ tmx /\ tmx' = FALSE /\ dedi' = dedi
        /\ Push(Activation("tmx", "ask", 0)) /\ UNCHANGED <<latest, uidOf, envi>>
    BY <1>17 DEF ClickTmx, queryFrame
  <2>2. "tmx" \in EnabledButtons /\ EnabledButtons' = EnabledButtons \ {"tmx"}
    BY <2>1 DEF EnabledButtons
  <2> QED BY <2>1, <2>2, <1>q
<1>18. ASSUME ClickDedimania PROVE Goal
  <2>1. /\ Input /\ dedi /\ dedi' = FALSE /\ tmx' = tmx
        /\ Push(Activation("dedi", "ask", 0)) /\ UNCHANGED <<latest, uidOf, envi>>
    BY <1>18 DEF ClickDedimania, queryFrame
  <2>2. "dedi" \in EnabledButtons /\ EnabledButtons' = EnabledButtons \ {"dedi"}
    BY <2>1 DEF EnabledButtons
  <2> QED BY <2>1, <2>2, <1>q
<1>v. ASSUME depth > 0, Top.kind \in {"tmx", "dedi"}, QueryEnds PROVE Goal
  <2>1. Return /\ Same
    BY <1>v DEF QueryEnds, queryFrame
  <2>2. EnabledButtons' = EnabledButtons
    BY <2>1 DEF EnabledButtons
  <2> QED BY <1>v, <2>1, <2>2, <1>w
<1>f. ASSUME depth > 0, Top.kind \in {"tmx", "dedi"}, QueryFails PROVE Goal
  <2>1. /\ Return /\ UNCHANGED <<latest, uidOf, envi>>
        /\ tmx'  = (tmx  \/ Top.kind = "tmx")
        /\ dedi' = (dedi \/ Top.kind = "dedi")
    BY <1>f DEF QueryFails, queryFrame
  <2>2. EnabledButtons' = EnabledButtons \cup {Top.kind}
    BY <1>f, <2>1 DEF EnabledButtons
  <2> QED BY <1>f, <2>1, <2>2, <1>w
<1>19. ASSUME QuerySucceeds PROVE Goal
  BY <1>19, <1>i, <1>v, KindAt DEF QuerySucceeds, At
<1>20. ASSUME NetworkFails PROVE Goal
  BY <1>20, <1>i, <1>f, KindAt DEF NetworkFails, At
<1>21. ASSUME PromptOffline PROVE Goal
  BY <1>21, <1>h DEF PromptOffline, At, PumpPcs, queryFrame
<1>22. ASSUME GoOnline PROVE Goal
  BY <1>22, <1>h DEF GoOnline, At, BusyPcs, queryFrame
<1>23. ASSUME StayOffline PROVE Goal
  BY <1>23, <1>i, <1>v, <1>f, KindAt DEF StayOffline, At
<1>24. ASSUME ClickOpen PROVE Goal
  BY <1>24, <1>p DEF ClickOpen, PumpPcs, panelVars
<1>25. ASSUME PickFile PROVE Goal
  <2> DEFINE f == Activation("batch", "next", 1)
  <2>1. f \in Frame /\ f.kind = "batch" /\ f.pc = "next"
    BY PickedType
  <2>2. depth > 0 /\ depth' = depth /\ stack' = [stack EXCEPT ![depth] = f] /\ Same
    BY <1>25 DEF PickFile, At, panelVars
  <2>3. Top.kind = "picker"
    BY <1>25, <1>i, KindAt DEF PickFile, At
  <2> HIDE DEF f
  <2>4. /\ depth \in 1..MaxDepth /\ stack'[depth] = f
        /\ \A i \in 1..MaxDepth : i # depth => stack'[i] = stack[i]
    BY <2>1, <2>2, <1>i, TypeOfStack, TopEffect
  <2> QED BY <2>1, <2>2, <2>3, <2>4, <1>k, <1>s, <1>i DEF Top
<1>26. ASSUME CancelPicker PROVE Goal
  BY <1>26, <1>i, <1>r, KindAt DEF CancelPicker, At, panelVars
<1>27. ASSUME PressF1 PROVE Goal
  BY <1>27, <1>p DEF PressF1, PumpPcs, panelVars
<1>28. ASSUME CloseAbout PROVE Goal
  BY <1>28, <1>i, <1>r, KindAt DEF CloseAbout, At, panelVars
<1>29. ASSUME CloseDialog PROVE Goal
  BY <1>29, <1>u DEF CloseDialog, panelVars
<1>30. ASSUME Quit PROVE Goal
  BY <1>30, <1>u DEF Quit
<1>31. ASSUME UNCHANGED vars PROVE Goal
  BY <1>31, <1>u DEF vars, panelVars
<1> QED BY <1>1, <1>2, <1>3, <1>4, <1>5, <1>6, <1>7, <1>8, <1>9, <1>10, <1>11,
           <1>12, <1>13, <1>14, <1>15, <1>16, <1>17, <1>18, <1>19, <1>20, <1>21,
           <1>22, <1>23, <1>24, <1>25, <1>26, <1>27, <1>28, <1>29, <1>30, <1>31
        DEF Next, User, Program

(* The dialog keeps TrackPanel's promise about its online buttons, for any  *)
(* nesting of handlers, but for the steps that dump a file inside a query.  *)
THEOREM PanelImplemented == Spec => PanelPromise
<1>1. Init => Panel!Init
  BY PanelInit
<1>2. IInv /\ [Next]_vars => [DumpInQuery \/ Panel!Next]_(Panel!panel)
  BY PanelStep
<1> QED BY <1>1, <1>2, InvariantHolds, PTL DEF Spec, PanelPromise
=============================================================================
