------------------------------- MODULE Viewer -------------------------------
(***************************************************************************)
(* The dialog of GbxDump as its one thread runs it.  The dialog procedure  *)
(* is not a simple event loop: a message box, a common dialog or WinINet's *)
(* "go online" prompt runs a message loop of its own inside a handler, and *)
(* that loop dispatches whatever was posted to the dialog meanwhile -- a   *)
(* WM_DROPFILES, an IDC_PASTE -- so handlers nest.  They share the static  *)
(* s_szUid and s_szEnvi, the two online buttons, the thumbnail globals and *)
(* libjpeg's one JmpBuffer.                                                *)
(*                                                                         *)
(* The state is a stack of handler activations over those shared cells.    *)
(* Each call of DumpFile takes the next ticket (latest); a shared cell is  *)
(* represented by the ticket of the dump that filled it, 0 when empty.     *)
(***************************************************************************)
EXTENDS Naturals, Sequences

CONSTANTS
  MAX_FILES,      \* files accepted of one drop or paste (100 in the code)
  MaxDrop,        \* bound: files in one drop or on the clipboard
  MaxDumps,       \* bound: calls of DumpFile in one run of the program
  MaxPosted,      \* bound: messages waiting in the thread's queue
  MaxDepth        \* bound: nested handlers

ASSUME BoundsAssumption ==
  /\ MAX_FILES \in Nat \ {0}
  /\ MaxDrop \in Nat
  /\ MaxDumps \in Nat
  /\ MaxPosted \in Nat
  /\ MaxDepth \in Nat \ {0}

VARIABLES
  mode,       \* "running", "closing" (EndDialog called), "closed", "crashed"
  queue,      \* messages posted to the dialog and not yet dispatched
  offered,    \* files offered to the program so far (only bounds the model)
  depth,      \* number of active handlers
  stack,      \* the active handlers, the innermost at stack[depth]
  latest,     \* ticket of the last DumpFile that was started
  uidOf,      \* whose UID s_szUid holds
  enviOf,     \* whose environment s_szEnvi holds
  envi,       \* s_szEnvi, as the class of environment it names
  tmx, dedi,  \* are the buttons IDC_TMX and IDC_DEDIMANIA enabled?
  thumbOf,    \* whose image g_hDibThumb is
  bitmapOf,   \* whose image g_hBitmapThumb, the blended copy, is
  titleOf,    \* who titled the thumbnail "unsupported format"
  jmpOf,      \* whose JpegToDib filled JmpBuffer last
  boxed,      \* history: has a decoder message been shown in a box?
  overtaken,  \* history: was the last DumpFile started inside an online query?
  bAboutBox   \* the static guard of WM_HELP

panelVars == <<uidOf, enviOf, envi, tmx, dedi, thumbOf, bitmapOf, titleOf>>
frameVars == <<depth, stack>>
vars == <<mode, queue, offered, frameVars, latest, panelVars, jmpOf, boxed, overtaken,
          bAboutBox>>

-----------------------------------------------------------------------------
(* Environments, by the lists of names that hold them (strstr on            *)
(* g_szMpEnvis, g_szTm2Envis and g_szTm1Envis).  "Stadium2020" is the name   *)
(* Stadium read as collection number 26.                                     *)
Envis == {"Stadium", "Stadium2020", "Tm2", "Mp", "Tm1", "Unlisted"}

TmxEnvis  == {"Stadium", "Stadium2020", "Tm2", "Mp", "Tm1"}
DediEnvis == {"Stadium", "Tm2", "Tm1"}

(* A handler activation.  A batch is the loop over the dropped, pasted or   *)
(* picked files; its pc tells where the DumpFile it is in stands.           *)
Media   == {"map", "replay", "jpeg", "image", "plain"}
PumpPcs == {"pick", "about", "prompt", "trace", "errbox"}
BusyPcs == {"next", "open", "ids", "image", "decode", "jump", "ask"}

Frame == [kind  : {"batch", "tmx", "dedi", "picker", "about", "none"},
          pc    : PumpPcs \cup BusyPcs \cup {"idle"},
          left  : Nat,
          dump  : Nat,
          media : Media]

Activation(kind, pc, left) ==
  [kind |-> kind, pc |-> pc, left |-> left, dump |-> 0, media |-> "plain"]
NoFrame == Activation("none", "idle", 0)

Top == stack[depth]

Push(frame) ==
  /\ depth < MaxDepth
  /\ depth' = depth + 1
  /\ stack' = [stack EXCEPT ![depth + 1] = frame]

Return ==
  /\ depth' = depth - 1
  /\ stack' = [stack EXCEPT ![depth] = NoFrame]

Goto(pc) ==
  /\ depth' = depth
  /\ stack' = [stack EXCEPT ![depth].pc = pc]

At(pc) == mode \in {"running", "closing"} /\ depth > 0 /\ Top.pc = pc

(* The thread is in a message loop: the dialog's own, or a modal one.       *)
AtPump == \/ mode = "running" /\ depth = 0
          \/ \E pc \in PumpPcs : At(pc)

(* Modal windows that are owned by the dialog disable it.  The box of a     *)
(* decoder message has no owner when the dialog is not active.              *)
(* Mutant: WinINet's prompt is shown without an owner.                      *)
OwnedPcsWithoutPrompt == {"pick", "about"}

OwnedPcs == {"pick", "about", "prompt"}

DialogEnabled ==
  mode = "running" /\ \A i \in 1..depth : stack[i].pc \notin OwnedPcs

(* Posted messages are retrieved before keyboard and mouse input (at the    *)
(* nesting bound nothing more is dispatched, and input goes first).         *)
Idle  == AtPump /\ (queue = <<>> \/ depth = MaxDepth)
Input == Idle /\ DialogEnabled

Capped(n) == IF n > MAX_FILES THEN MAX_FILES ELSE n
Affordable(n) == offered + Capped(n) <= MaxDumps

Message == [type : {"drop", "paste", "cmdline"}, files : Nat]

-----------------------------------------------------------------------------
(* A file named on the command line is opened by a message that             *)
(* WM_INITDIALOG posts before the message loop starts.                      *)
Init ==
  /\ mode = "running"
  /\ \/ queue = <<>> /\ offered = 0
     \/ /\ MaxDumps > 0 /\ MaxPosted > 0
        /\ queue = <<[type |-> "cmdline", files |-> 1]>> /\ offered = 1
  /\ depth = 0
  /\ stack = [i \in 1..MaxDepth |-> NoFrame]
  /\ latest = 0
  /\ uidOf = 0 /\ enviOf = 0 /\ envi = "none"
  /\ tmx = FALSE /\ dedi = FALSE
  /\ thumbOf = 0 /\ bitmapOf = 0 /\ titleOf = 0
  /\ jmpOf = 0 /\ boxed = FALSE /\ overtaken = FALSE
  /\ bAboutBox = FALSE

-----------------------------------------------------------------------------
(* Messages.  The shell posts WM_DROPFILES whenever the dialog is enabled,  *)
(* also while the program is busy; Ctrl+V in the output posts IDC_PASTE.    *)
Post(type, n) ==
  /\ Len(queue) < MaxPosted
  /\ queue' = Append(queue, [type |-> type, files |-> n])

PostDrop(n) ==
  /\ DialogEnabled
  /\ Affordable(n)
  /\ Post("drop", n)
  /\ offered' = offered + Capped(n)
  /\ UNCHANGED <<mode, frameVars, latest, panelVars, jmpOf, boxed, overtaken,
                 bAboutBox>>

PostPaste ==
  /\ Input
  /\ Post("paste", 0)
  /\ UNCHANGED <<mode, offered, frameVars, latest, panelVars, jmpOf, boxed,
                 overtaken, bAboutBox>>

(* WM_DROPFILES, IDC_PASTE and WMU_FILEOPEN start a batch, at most          *)
(* MAX_FILES long; nothing happens when there is no file to open.  The      *)
(* clipboard is read only now: it may hold any list, or none.               *)
StartBatch(n) ==
  IF n = 0 THEN UNCHANGED frameVars
           ELSE Push(Activation("batch", "next", Capped(n)))

(* Mutant: modal loops do not dispatch to the dialog.                       *)
DispatchPostedAtRest ==
  /\ AtPump /\ depth = 0
  /\ queue # <<>>
  /\ queue' = Tail(queue)
  /\ \E n \in 1..MaxDrop : Affordable(n) /\ offered' = offered + n /\ StartBatch(n)
  /\ UNCHANGED <<mode, latest, panelVars, jmpOf, boxed, overtaken, bAboutBox>>

DispatchPosted ==
  /\ AtPump
  /\ queue # <<>> /\ depth < MaxDepth
  /\ queue' = Tail(queue)
  /\ \/ /\ Head(queue).type # "paste"
        /\ StartBatch(Head(queue).files)
        /\ UNCHANGED offered
     \/ /\ Head(queue).type = "paste"
        /\ \E n \in 0..MaxDrop :
             /\ Affordable(n)
             /\ offered' = offered + Capped(n)
             /\ StartBatch(n)
  /\ UNCHANGED <<mode, latest, panelVars, jmpOf, boxed, overtaken, bAboutBox>>

-----------------------------------------------------------------------------
(* The handler at i is DumpTmx or DumpDedimania.                            *)
Querying(i) == stack[i].kind \in {"tmx", "dedi"}
QueryOpen   == \E i \in 1..depth : Querying(i)

(* Mutants: DumpFile keeps the last track's UID, or the last thumbnail.     *)
StartDumpKeepingUid ==
  /\ At("next") /\ Top.left > 0
  /\ latest' = latest + 1
  /\ stack' = [stack EXCEPT ![depth].pc = "open", ![depth].left = Top.left - 1,
                            ![depth].dump = latest + 1]
  /\ enviOf' = 0 /\ envi' = "none"
  /\ tmx' = FALSE /\ dedi' = FALSE
  /\ thumbOf' = 0 /\ bitmapOf' = 0 /\ titleOf' = 0
  /\ overtaken' = QueryOpen
  /\ UNCHANGED <<mode, queue, offered, depth, uidOf, jmpOf, boxed, bAboutBox>>

StartDumpKeepingThumbnail ==
  /\ At("next") /\ Top.left > 0
  /\ latest' = latest + 1
  /\ stack' = [stack EXCEPT ![depth].pc = "open", ![depth].left = Top.left - 1,
                            ![depth].dump = latest + 1]
  /\ uidOf' = 0 /\ enviOf' = 0 /\ envi' = "none"
  /\ tmx' = FALSE /\ dedi' = FALSE
  /\ overtaken' = QueryOpen
  /\ UNCHANGED <<mode, queue, offered, depth, thumbOf, bitmapOf, titleOf, jmpOf, boxed,
                 bAboutBox>>

(* DumpFile up to the file's first bytes: forget the last track, disable    *)
(* both buttons, release the thumbnail and restore its title.               *)
StartDump ==
  /\ At("next") /\ Top.left > 0
  /\ latest' = latest + 1
  /\ stack' = [stack EXCEPT ![depth].pc = "open", ![depth].left = Top.left - 1,
                            ![depth].dump = latest + 1]
  /\ uidOf' = 0 /\ enviOf' = 0 /\ envi' = "none"
  /\ tmx' = FALSE /\ dedi' = FALSE
  /\ thumbOf' = 0 /\ bitmapOf' = 0 /\ titleOf' = 0
  /\ overtaken' = QueryOpen
  /\ UNCHANGED <<mode, queue, offered, depth, jmpOf, boxed, bAboutBox>>

EndBatch ==
  /\ At("next") /\ Top.left = 0
  /\ Return
  /\ UNCHANGED <<mode, queue, offered, latest, panelVars, jmpOf, boxed, overtaken,
                 bAboutBox>>

(* The file cannot be opened or has no signature, or it is dumped by what   *)
(* its signature (and, for a GameBox, its class) says it is.  "plain" files *)
(* have neither an identity nor a picture.                                  *)
FirstStep(media) == CASE media \in {"map", "replay"} -> "ids"
                      [] media \in {"jpeg", "image"} -> "image"
                      [] media = "plain"             -> "next"

OpenFile(media) ==
  /\ At("open")
  /\ depth' = depth
  /\ stack' = [stack EXCEPT ![depth].media = media, ![depth].pc = FirstStep(media)]
  /\ UNCHANGED <<mode, queue, offered, latest, panelVars, jmpOf, boxed, overtaken,
                 bAboutBox>>

(* The chunk that identifies the track: s_szUid and s_szEnvi are written as *)
(* soon as they are read, either may be missing or unreadable, and the      *)
(* buttons follow the environment.                                          *)
ReadIds(hasUid, env) ==
  /\ At("ids")
  /\ uidOf' = IF hasUid THEN Top.dump ELSE uidOf
  /\ IF env = "none" THEN UNCHANGED <<enviOf, envi>>
                     ELSE enviOf' = Top.dump /\ envi' = env
  /\ tmx' = (tmx \/ envi' \in TmxEnvis)
  /\ dedi' = (dedi \/ envi' \in DediEnvis)
  /\ Goto(IF Top.media = "map" THEN "image" ELSE "next")
  /\ UNCHANGED <<mode, queue, offered, latest, thumbOf, bitmapOf, titleOf, jmpOf,
                 boxed, overtaken, bAboutBox>>

-----------------------------------------------------------------------------
(* Pictures.                                                                 *)
(* Mutant: the blended copy survives a picture that has none.               *)
ReplaceThumbnailKeepingBitmap(owner, blended) ==
  /\ thumbOf' = owner
  /\ bitmapOf' = IF blended THEN owner ELSE bitmapOf
  /\ UNCHANGED titleOf

ReplaceThumbnail(owner, blended) ==
  /\ thumbOf' = owner
  /\ bitmapOf' = IF blended THEN owner ELSE 0
  /\ UNCHANGED titleOf

MarkAsUnsupported(owner) ==
  /\ titleOf' = owner
  /\ UNCHANGED <<thumbOf, bitmapOf>>

NoPicture == UNCHANGED <<thumbOf, bitmapOf, titleOf>>

(* JpegToDib returned NULL: only a JPEG file is marked as unsupported.      *)
NoDib == IF Top.media = "jpeg" THEN MarkAsUnsupported(Top.dump) ELSE NoPicture

pictureFrame == <<mode, queue, offered, latest, uidOf, enviOf, envi, tmx, dedi,
                  boxed, overtaken, bAboutBox>>

(* WebP, DDS, bitmap and icon pixels: decoded without a library message.    *)
DecodeImage ==
  /\ At("image") /\ Top.media = "image"
  /\ \/ \E blended \in BOOLEAN : ReplaceThumbnail(Top.dump, blended)
     \/ MarkAsUnsupported(Top.dump)
     \/ NoPicture
  /\ Goto("next")
  /\ UNCHANGED <<pictureFrame, jmpOf>>

(* A map without a thumbnail, or a picture that cannot be read.             *)
SkipPicture ==
  /\ At("image") /\ Top.media \in {"map", "jpeg"}
  /\ Goto("next")
  /\ UNCHANGED <<pictureFrame, thumbOf, bitmapOf, titleOf, jmpOf>>

(* Mutant: libjpeg runs without setjmp.                                     *)
StartJpegWithoutSetjmp ==
  /\ At("image") /\ Top.media \in {"map", "jpeg"}
  /\ Goto("decode")
  /\ UNCHANGED <<pictureFrame, thumbOf, bitmapOf, titleOf, jmpOf>>

(* JpegToDib: setjmp, then libjpeg runs.                                    *)
StartJpeg ==
  /\ At("image") /\ Top.media \in {"map", "jpeg"}
  /\ jmpOf' = Top.dump
  /\ Goto("decode")
  /\ UNCHANGED <<pictureFrame, thumbOf, bitmapOf, titleOf>>

(* A map's thumbnail loses the blended copy, a file's may get a new one.    *)
FinishJpeg ==
  /\ At("decode")
  /\ \E blended \in (IF Top.media = "jpeg" THEN BOOLEAN ELSE {FALSE}) :
       ReplaceThumbnail(Top.dump, blended)
  /\ Goto("next")
  /\ UNCHANGED <<pictureFrame, jmpOf>>

(* Mutant: when decoding fails it is tried again.                           *)
AbandonJpegAndRetry ==
  /\ At("decode")
  /\ NoDib
  /\ Goto("image")
  /\ UNCHANGED <<pictureFrame, jmpOf>>

(* Memory is short, or the decoder faults and the caller's __except runs.   *)
AbandonJpeg ==
  /\ At("decode")
  /\ NoDib
  /\ Goto("next")
  /\ UNCHANGED <<pictureFrame, jmpOf>>

(* my_output_message: a JPEG file is traced (level 1), an error always      *)
(* reported; with no output window in reach the text goes to a message box. *)
ShowTrace ==
  /\ At("decode") /\ Top.media = "jpeg"
  /\ Goto("trace") /\ boxed' = TRUE
  /\ UNCHANGED <<mode, queue, offered, latest, panelVars, jmpOf, overtaken, bAboutBox>>

ReportError ==
  /\ At("decode")
  /\ \/ Goto("jump") /\ UNCHANGED boxed
     \/ Goto("errbox") /\ boxed' = TRUE
  /\ UNCHANGED <<mode, queue, offered, latest, panelVars, jmpOf, overtaken, bAboutBox>>

DismissDecoderBox ==
  /\ Idle
  /\ \/ At("trace") /\ Goto("decode")
     \/ At("errbox") /\ Goto("jump")
  /\ UNCHANGED <<pictureFrame, thumbOf, bitmapOf, titleOf, jmpOf>>

(* longjmp(JmpBuffer): JpegToDib returns NULL.  When the buffer was filled  *)
(* by another activation since, the jump goes to a frame that is gone: the  *)
(* process dies, or the fault is caught by the __except of the caller.      *)
Jump ==
  /\ At("jump")
  /\ \/ /\ NoDib
        /\ Goto("next")
        /\ UNCHANGED mode
     \/ /\ jmpOf # Top.dump
        /\ mode' = "crashed"
        /\ UNCHANGED <<frameVars, thumbOf, bitmapOf, titleOf>>
  /\ UNCHANGED <<queue, offered, latest, uidOf, enviOf, envi, tmx, dedi, jmpOf,
                 boxed, overtaken, bAboutBox>>

-----------------------------------------------------------------------------
(* Online queries.  A click disables the button; DumpTmx and DumpDedimania  *)
(* block in WinINet, where nothing is dispatched, unless WinINet asks       *)
(* whether to go online.                                                    *)
queryFrame == <<mode, queue, offered, latest, uidOf, enviOf, envi, thumbOf, bitmapOf,
                titleOf, jmpOf, boxed, overtaken, bAboutBox>>

(* Mutant: the click does not disable the button.                           *)
ClickTmxKeepingButton ==
  /\ Input
  /\ tmx
  /\ Push(Activation("tmx", "ask", 0))
  /\ UNCHANGED <<queryFrame, tmx, dedi>>

ClickTmx ==
  /\ Input
  /\ tmx /\ tmx' = FALSE
  /\ Push(Activation("tmx", "ask", 0))
  /\ UNCHANGED <<queryFrame, dedi>>

ClickDedimania ==
  /\ Input
  /\ dedi /\ dedi' = FALSE
  /\ Push(Activation("dedi", "ask", 0))
  /\ UNCHANGED <<queryFrame, tmx>>

(* DumpTmx and DumpDedimania return TRUE: the button stays spent.           *)
QueryEnds ==
  /\ Return
  /\ UNCHANGED <<queryFrame, tmx, dedi>>

QuerySucceeds == At("ask") /\ QueryEnds

(* Mutant: a failed query enables the other button.                         *)
QueryFailsSwapped ==
  /\ tmx'  = (tmx  \/ Top.kind = "dedi")
  /\ dedi' = (dedi \/ Top.kind = "tmx")
  /\ Return
  /\ UNCHANGED queryFrame

(* A failed query gives its button back, whatever happened meanwhile.       *)
QueryFails ==
  /\ tmx'  = (tmx  \/ Top.kind = "tmx")
  /\ dedi' = (dedi \/ Top.kind = "dedi")
  /\ Return
  /\ UNCHANGED queryFrame

NetworkFails == At("ask") /\ QueryFails

PromptOffline ==
  /\ At("ask")
  /\ Goto("prompt")
  /\ UNCHANGED <<queryFrame, tmx, dedi>>

GoOnline ==
  /\ At("prompt") /\ Idle
  /\ Goto("ask")
  /\ UNCHANGED <<queryFrame, tmx, dedi>>

(* The user declines.  DumpTmx ignores the failure of the last exchange it  *)
(* asks about some maps (OnlineQuery) and then keeps the button.            *)
StayOffline ==
  /\ At("prompt") /\ Idle
  /\ QueryFails \/ (Top.kind = "tmx" /\ QueryEnds)

-----------------------------------------------------------------------------
(* The file dialog of IDC_OPEN; the picked file is a batch of one.          *)
ClickOpen ==
  /\ Input
  /\ Push(Activation("picker", "pick", 0))
  /\ UNCHANGED <<mode, queue, offered, latest, panelVars, jmpOf, boxed, overtaken,
                 bAboutBox>>

PickFile ==
  /\ At("pick") /\ Idle
  /\ Affordable(1)
  /\ offered' = offered + 1
  /\ depth' = depth
  /\ stack' = [stack EXCEPT ![depth] = Activation("batch", "next", 1)]
  /\ UNCHANGED <<mode, queue, latest, panelVars, jmpOf, boxed, overtaken, bAboutBox>>

CancelPicker ==
  /\ At("pick") /\ Idle
  /\ Return
  /\ UNCHANGED <<mode, queue, offered, latest, panelVars, jmpOf, boxed, overtaken,
                 bAboutBox>>

(* F1 reaches the dialog from its own controls, and from a message box that *)
(* it owns -- the about box itself.                                         *)
HelpReachesDialog == DialogEnabled \/ At("about")

(* Mutant: the guard of WM_HELP is not looked at.                           *)
PressF1Unguarded ==
  /\ Idle /\ mode = "running" /\ HelpReachesDialog
  /\ bAboutBox' = TRUE
  /\ Push(Activation("about", "about", 0))
  /\ UNCHANGED <<mode, queue, offered, latest, panelVars, jmpOf, boxed, overtaken>>

PressF1 ==
  /\ Idle /\ mode = "running" /\ HelpReachesDialog
  /\ ~bAboutBox
  /\ bAboutBox' = TRUE
  /\ Push(Activation("about", "about", 0))
  /\ UNCHANGED <<mode, queue, offered, latest, panelVars, jmpOf, boxed, overtaken>>

CloseAbout ==
  /\ At("about") /\ Idle
  /\ bAboutBox' = FALSE
  /\ Return
  /\ UNCHANGED <<mode, queue, offered, latest, panelVars, jmpOf, boxed, overtaken>>

(* IDOK, IDCANCEL and WM_CLOSE end the dialog; the handlers still on the    *)
(* stack run to their end before DialogBoxParam returns to _tWinMain, which *)
(* frees the pictures.                                                      *)
CloseDialog ==
  /\ Input
  /\ mode' = "closing"
  /\ UNCHANGED <<queue, offered, frameVars, latest, panelVars, jmpOf, boxed,
                 overtaken, bAboutBox>>

Quit ==
  /\ mode = "closing" /\ depth = 0
  /\ mode' = "closed"
  /\ thumbOf' = 0 /\ bitmapOf' = 0
  /\ UNCHANGED <<queue, offered, frameVars, latest, uidOf, enviOf, envi, tmx, dedi,
                 titleOf, jmpOf, boxed, overtaken, bAboutBox>>

-----------------------------------------------------------------------------
(* What the user and the shell may do, and what the program does by itself. *)
User ==
  \/ \E n \in 1..MaxDrop : PostDrop(n)
  \/ PostPaste
  \/ ClickTmx \/ ClickDedimania \/ ClickOpen
  \/ PickFile \/ CancelPicker
  \/ PressF1 \/ CloseAbout
  \/ GoOnline \/ StayOffline
  \/ DismissDecoderBox
  \/ CloseDialog

Program ==
  \/ DispatchPosted
  \/ StartDump \/ EndBatch
  \/ \E media \in Media : OpenFile(media)
  \/ \E hasUid \in BOOLEAN, env \in Envis \cup {"none"} : ReadIds(hasUid, env)
  \/ DecodeImage \/ SkipPicture
  \/ StartJpeg \/ FinishJpeg \/ AbandonJpeg \/ ShowTrace \/ ReportError \/ Jump
  \/ QuerySucceeds \/ NetworkFails \/ PromptOffline
  \/ Quit

Next == User \/ Program

Spec == Init /\ [][Next]_vars

(* The program's own steps happen: its code runs straight on and WinINet's  *)
(* calls are bounded by the connect and receive timeouts.  Nothing is       *)
(* assumed of the user.                                                     *)
FairSpec == Spec /\ WF_vars(Program)

-----------------------------------------------------------------------------
(* Every variable ranges over the values its C counterpart can take, and    *)
(* the slots above the innermost handler are empty.                         *)
TypeOK ==
  /\ mode \in {"running", "closing", "closed", "crashed"}
  /\ queue \in Seq(Message)
  /\ offered \in Nat
  /\ depth \in 0..MaxDepth
  /\ stack \in [1..MaxDepth -> Frame]
  /\ \A i \in 1..MaxDepth : i > depth => stack[i] = NoFrame
  /\ latest \in Nat
  /\ uidOf \in Nat /\ enviOf \in Nat /\ envi \in Envis \cup {"none"}
  /\ tmx \in BOOLEAN /\ dedi \in BOOLEAN
  /\ thumbOf \in Nat /\ bitmapOf \in Nat /\ titleOf \in Nat /\ jmpOf \in Nat
  /\ boxed \in BOOLEAN /\ overtaken \in BOOLEAN /\ bAboutBox \in BOOLEAN

(* However handlers nest, the UID and the environment that an online query  *)
(* will use are both those of the file dumped last: no handler that was     *)
(* overtaken by a nested DumpFile writes them after it resumes, because     *)
(* every chunk that identifies a track is read before the first picture.    *)
IdsOfLatest ==
  /\ uidOf \in {0, latest}
  /\ enviOf \in {0, latest}
  /\ envi = "none" <=> enviOf = 0

(* The blended copy that OnDrawItem prefers is never that of another image  *)
(* than the DIB that copying and saving use.                                *)
BitmapOfThumb == bitmapOf # 0 => bitmapOf = thumbOf

(* DumpTmx and DumpDedimania never run inside one another: both cut their   *)
(* answers apart with a tokenizer that keeps its place in a static (strtok, *)
(* estrtok), and both disable the button they came from only once.          *)
OneQueryAtATime ==
  \A i, j \in 1..depth : Querying(i) /\ Querying(j) => i = j

(* There is one about box at a time, and the guard of WM_HELP is set        *)
(* exactly while it is open, in whatever handler it was opened.             *)
AboutBoxGuarded ==
  /\ bAboutBox <=> \E i \in 1..depth : stack[i].kind = "about"
  /\ \A i, j \in 1..depth : stack[i].kind = "about" /\ stack[j].kind = "about" => i = j

(* Neither the query nor the about box is ever entered a second time by a   *)
(* handler that is dispatched inside it.                                    *)
NoHandlerTwice == OneQueryAtATime /\ AboutBoxGuarded

(* An enabled button belongs to a known environment of the file dumped      *)
(* last, also after failed queries have given it back, and again after a    *)
(* dump that overtook a query is followed by one that did not.  (A file     *)
(* that was waiting when WinINet asked to go online is dumped inside the    *)
(* query, which then enables its button for that file whatever it is.)      *)
ButtonsTruthful ==
  overtaken = FALSE =>
    /\ tmx  => enviOf = latest /\ envi \in TmxEnvis
    /\ dedi => enviOf = latest /\ envi \in DediEnvis

(* As long as decoder messages have found the output window (no box was     *)
(* shown), the picture and the "unsupported" title are those of the file    *)
(* dumped last, never both, however other windows nest the handlers.        *)
PictureOfLatest ==
  boxed = FALSE =>
    /\ thumbOf \in {0, latest}
    /\ titleOf \in {0, latest}
    /\ thumbOf = 0 \/ titleOf = 0

(* "Return to setjmp in JpegToDib": a longjmp finds JmpBuffer as the same   *)
(* activation of JpegToDib has filled it.                                   *)
JumpReturns == At("jump") => jmpOf = Top.dump

(* ... which is so as long as no decoder message was shown in a box.        *)
JumpReturnsUnboxed == boxed = FALSE => JumpReturns

(* The program always comes back to a message loop (its own, or that of a   *)
(* box the user has to answer), or it has ended: no batch, decoder error or *)
(* failed query leaves it stuck.                                            *)
Responsive == []<>(AtPump \/ mode \in {"closed", "crashed"})

(* Every posted message is dispatched, unless the program ends first or the *)
(* nesting bound is reached.                                                *)
PostedAreDispatched ==
  [](queue # <<>> => <>(\/ queue = <<>>
                        \/ depth = MaxDepth
                        \/ mode \in {"closed", "crashed"}))

(* The inductive invariant behind the properties above: only the innermost  *)
(* handler runs, every other one waits in a message loop of its own; and a  *)
(* dump that has not yet reached its picture cannot have been overtaken.    *)
PcsOf(kind) == CASE kind = "batch"  -> {"next", "open", "ids", "image", "decode",
                                        "trace", "errbox", "jump"}
                 [] kind \in {"tmx", "dedi"} -> {"ask", "prompt"}
                 [] kind = "picker" -> {"pick"}
                 [] kind = "about"  -> {"about"}
                 [] kind = "none"   -> {"idle"}

StackInv ==
  /\ \A i \in 1..depth : stack[i].kind # "none"
  /\ \A i \in 1..MaxDepth : stack[i].pc \in PcsOf(stack[i].kind)
  /\ \A i \in 1..depth : i < depth => stack[i].pc \in PumpPcs

FreshInv ==
  depth > 0 /\ Top.pc \in {"open", "ids", "image"} =>
    /\ Top.dump = latest /\ latest > 0
    /\ thumbOf = 0 /\ titleOf = 0

UnreadInv ==
  depth > 0 /\ Top.pc \in {"open", "ids"} =>
    uidOf = 0 /\ envi = "none" /\ tmx = FALSE /\ dedi = FALSE

QueryInv ==
  overtaken = FALSE =>
    /\ \A i, j \in 1..depth :
         i < j /\ Querying(i) /\ stack[j].kind = "batch" => stack[j].pc = "next"
    /\ \A i \in 1..depth :
         /\ stack[i].kind = "tmx"  => enviOf = latest /\ envi \in TmxEnvis
         /\ stack[i].kind = "dedi" => enviOf = latest /\ envi \in DediEnvis

JpegInv ==
  boxed = FALSE =>
    /\ \A i \in 1..depth : stack[i].pc \notin {"trace", "errbox"}
    /\ depth > 0 /\ Top.pc \in {"decode", "jump"} =>
         /\ Top.dump = latest /\ jmpOf = latest
         /\ thumbOf = 0 /\ titleOf = 0

IInv ==
  /\ TypeOK /\ StackInv /\ FreshInv /\ UnreadInv /\ QueryInv /\ JpegInv
  /\ IdsOfLatest /\ BitmapOfThumb /\ OneQueryAtATime /\ AboutBoxGuarded
  /\ ButtonsTruthful /\ PictureOfLatest /\ JumpReturnsUnboxed

(* The online buttons keep the promise of TrackPanel, whatever is dumped    *)
(* inside the box of a decoder message: every step is one of its steps, but *)
(* for those by which a file is dumped inside a query and identified there. *)
EnabledButtons == {b \in {"tmx", "dedi"} : IF b = "tmx" THEN tmx ELSE dedi}
OpenQueries    == {b \in {"tmx", "dedi"} : \E i \in 1..depth : stack[i].kind = b}

Panel == INSTANCE TrackPanel WITH
  track <- latest, named <- uidOf # 0,
  enabled <- EnabledButtons, asking <- OpenQueries

DumpInQuery ==
  /\ overtaken' = TRUE
  /\ OpenQueries # {} /\ OpenQueries' = OpenQueries

PanelPromise == Panel!Init /\ [][DumpInQuery \/ Panel!Next]_(Panel!panel)
=============================================================================
