------------------------------ MODULE Commands ------------------------------
(***************************************************************************)
(* The thumbnail's menu, the clipboard, saving and word wrap, as commands  *)
(* of the dialog.  Like loading a file and asking a service, they are      *)
(* handlers on the one stack of Viewer: a menu, a file dialog, a message   *)
(* box, WinINet's prompt and the box of a decoder message dispatch what    *)
(* was posted meanwhile.  Here a file is only its picture, and a query     *)
(* only the output window it prints to; Viewer has the rest of both.       *)
(*                                                                         *)
(* The clipboard is shared with other programs, which act between any two  *)
(* steps.  Windows lets the window that has it open open it again, and     *)
(* what was read from it is gone once it is closed or emptied.             *)
(***************************************************************************)
EXTENDS Naturals, Sequences, SequencesExt

CONSTANTS
  MaxFiles,    \* bound: files in one drop or list
  MaxDumps,    \* bound: files offered to the program
  MaxPosted,   \* bound: messages waiting in the thread's queue
  MaxDepth,    \* bound: nested handlers
  MaxWindows   \* bound: output windows that SetWordWrap creates

ASSUME BoundsAssumption == {MaxFiles, MaxDumps, MaxPosted, MaxDepth, MaxWindows} \subseteq Nat

VARIABLES
  queue,      \* posted messages: drops, IDC_PASTE and the commands of the menu
  offered,    \* files offered so far (only bounds the model)
  stack,      \* the active handlers, the innermost last
  boxed,      \* history: has a decoder message been shown in a box?
  latest,     \* number of calls of DumpFile so far
  named,      \* which file's name s_szFileName holds
  picture,    \* g_hDibThumb: whose picture (0: the default is shown), and can
              \* its compression be copied and written as PNG?
  holder,     \* who has the clipboard open
  contents,   \* what is on the clipboard
  hNewDib,    \* the DIB made for the clipboard: "none", "ours", "clipboard",
              \* "freed" or "twice" (freed though it was not ours)
  saved,      \* history: how the last command to save ended
  window,     \* the output window, by the number of its creation
  subclassed  \* does OutputWndProc get its messages?

pictures  == <<latest, named, picture>>
clipboard == <<holder, contents, hNewDib>>
output    == <<window, subclassed>>
vars == <<queue, offered, stack, boxed, pictures, clipboard, saved, output>>

NoPicture == [of |-> 0, fits |-> TRUE]
NotSaved  == [file |-> "none", told |-> FALSE, undeleted |-> FALSE,
              picture |-> 0, name |-> 0, overtaken |-> FALSE]

Init ==
  /\ queue = <<>> /\ offered = 0
  /\ stack = <<>> /\ boxed = FALSE
  /\ latest = 0 /\ named = 0 /\ picture = NoPicture
  /\ holder = "nobody" /\ contents \in {"files", "other"} /\ hNewDib = "none"
  /\ saved = NotSaved
  /\ window = 0 /\ subclassed = TRUE

-----------------------------------------------------------------------------
(* Handlers, and the message loops they wait in.                            *)
Batch(kind, n) ==
  [kind |-> kind, pc |-> "next", left |-> n, dump |-> 0, list |-> TRUE, window |-> window]

(* The items of the thumbnail's menu that are not grayed.                   *)
(* (Mutant: the compression of the picture is not looked at.)               *)
ItemsOfAnyPicture == IF picture.of = 0 THEN {} ELSE {"copy", "save"}

ItemsOfPicture == CASE picture.of = 0 -> {}
                    [] picture.of # 0 /\ picture.fits -> {"copy", "save"}
                    [] OTHER -> {"save"}

Menu(items) == [kind |-> "menu", pc |-> "menu", opened |-> latest, items |-> items]

Copy(opened) == [kind |-> "copy", pc |-> "create", opened |-> opened]

Save == [kind |-> "save", pc |-> "name", name |-> named, opened |-> latest,
         png |-> TRUE, picture |-> NoPicture, whole |-> TRUE, file |-> "none"]

Query == [kind |-> "query", pc |-> "ask", window |-> window]

Top    == Last(stack)
At(pc) == stack # <<>> /\ Top.pc = pc

Push(frame) == Len(stack) < MaxDepth /\ stack' = Append(stack, frame)
Return      == stack' = Front(stack)
Goto(pc)    == stack' = [stack EXCEPT ![Len(stack)].pc = pc]

PumpPcs == {"menu", "name", "failed", "prompt", "box"}
AtPump  == stack # <<>> => Top.pc \in PumpPcs

(* Mutant: WinINet's prompt is shown without an owner.                      *)
OwnedPcsWithoutPrompt == {"name", "failed"}
(* Windows that are owned by the dialog disable it while they are open.     *)
OwnedPcs == {"name", "failed", "prompt"}

DialogEnabled == \A i \in DOMAIN stack : stack[i].pc \notin OwnedPcs

(* Posted messages come before input; input goes to an open menu first.     *)
Idle  == AtPump /\ (queue = <<>> \/ Len(stack) = MaxDepth)
Input == Idle /\ DialogEnabled /\ ~At("menu")

Post(message) == Len(queue) < MaxPosted /\ queue' = Append(queue, message)

PostDrop(n) ==
  /\ DialogEnabled
  /\ offered + n <= MaxDumps /\ offered' = offered + n
  /\ Post([type |-> "drop", files |-> n])
  /\ UNCHANGED <<stack, boxed, pictures, clipboard, saved, output>>

(* Ctrl+V in the output window, as long as it has its window procedure.     *)
PostPaste ==
  /\ Input /\ subclassed
  /\ Post([type |-> "paste", opened |-> latest])
  /\ UNCHANGED <<offered, stack, boxed, pictures, clipboard, saved, output>>

-----------------------------------------------------------------------------
(* The clipboard and the other programs.                                    *)
Lists(valid, frames) ==
  [i \in DOMAIN frames |-> IF frames[i].kind = "paste" /\ ~valid
                           THEN [frames[i] EXCEPT !.list = FALSE] ELSE frames[i]]

(* CloseClipboard (fails when the dialog does not have it open), with the   *)
(* frames that remain.                                                      *)
CloseClipboard(frames) ==
  /\ holder' = IF holder = "dialog" THEN "nobody" ELSE holder
  /\ stack' = Lists(holder # "dialog", frames)

OthersOpen ==
  /\ holder = "nobody" /\ holder' = "other"
  /\ UNCHANGED <<queue, offered, stack, boxed, pictures, contents, hNewDib, saved, output>>

OthersReplace ==
  /\ holder = "other"
  /\ contents' \in {"files", "other"}
  /\ UNCHANGED <<queue, offered, stack, boxed, pictures, holder, hNewDib, saved, output>>

OthersClose ==
  /\ holder = "other" /\ holder' = "nobody"
  /\ UNCHANGED <<queue, offered, stack, boxed, pictures, contents, hNewDib, saved, output>>

(* IDC_COPY: the edit control copies its text by itself, if it gets the     *)
(* clipboard.                                                               *)
CopyText ==
  /\ Input
  /\ holder = "nobody"
  /\ contents' = "other"
  /\ UNCHANGED <<queue, offered, stack, boxed, pictures, holder, hNewDib, saved, output>>

-----------------------------------------------------------------------------
(* IDC_PASTE.  The clipboard stays open while its list is worked off.       *)
(* (Mutant: it is closed as soon as the list is there.)                     *)
StartPasteClosingEarly ==
  \/ /\ contents # "files" \/ holder = "other"
     /\ UNCHANGED <<holder, stack, offered>>
  \/ /\ contents = "files" /\ holder # "other"
     /\ holder' = "nobody"
     /\ \E n \in 1..MaxFiles :
          /\ offered + n <= MaxDumps /\ offered' = offered + n
          /\ Push([Batch("paste", n) EXCEPT !.list = FALSE])

StartPaste ==
  \/ /\ contents # "files" \/ holder = "other"
     /\ UNCHANGED <<holder, stack, offered>>
  \/ /\ contents = "files" /\ holder # "other"
     /\ \/ /\ holder' = "nobody" /\ stack' = Lists(FALSE, stack)
           /\ UNCHANGED offered
        \/ /\ holder' = "dialog"
           /\ \E n \in 1..MaxFiles :
                /\ offered + n <= MaxDumps /\ offered' = offered + n
                /\ Push(Batch("paste", n))

(* What was posted is dispatched by whatever loop is running.               *)
DispatchPosted ==
  /\ AtPump
  /\ queue # <<>> /\ Len(stack) < MaxDepth
  /\ queue' = Tail(queue)
  /\ CASE Head(queue).type = "drop"  -> /\ Push(Batch("drop", Head(queue).files))
                                        /\ UNCHANGED <<holder, offered>>
       [] Head(queue).type = "paste" -> StartPaste
       [] Head(queue).type = "copy"  -> /\ Push(Copy(Head(queue).opened))
                                        /\ UNCHANGED <<holder, offered>>
       [] Head(queue).type = "save"  -> /\ Push(Save)
                                        /\ UNCHANGED <<holder, offered>>
  /\ UNCHANGED <<boxed, pictures, contents, hNewDib, saved, output>>

(* Mutant: the name of the file is kept in a local.                         *)
StartDumpWithLocalName ==
  /\ At("next") /\ Top.left > 0
  /\ latest' = latest + 1 /\ picture' = NoPicture
  /\ stack' = [stack EXCEPT ![Len(stack)].pc = "decode", ![Len(stack)].left = @ - 1,
                            ![Len(stack)].dump = latest + 1]
  /\ UNCHANGED <<queue, offered, boxed, named, clipboard, saved, output>>

(* DragQueryFile writes the next name to s_szFileName, and DumpFile starts  *)
(* with releasing the picture.                                              *)
StartDump ==
  /\ At("next") /\ Top.left > 0
  /\ latest' = latest + 1 /\ named' = latest + 1 /\ picture' = NoPicture
  /\ stack' = [stack EXCEPT ![Len(stack)].pc = "decode", ![Len(stack)].left = @ - 1,
                            ![Len(stack)].dump = latest + 1]
  /\ UNCHANGED <<queue, offered, boxed, clipboard, saved, output>>

Decode ==
  /\ At("decode")
  /\ Goto("next")
  /\ \/ \E fits \in BOOLEAN : picture' = [of |-> Top.dump, fits |-> fits]
     \/ UNCHANGED picture
  /\ UNCHANGED <<queue, offered, boxed, latest, named, clipboard, saved, output>>

ShowBox ==
  /\ At("decode")
  /\ Goto("box") /\ boxed' = TRUE
  /\ UNCHANGED <<queue, offered, pictures, clipboard, saved, output>>

DismissBox ==
  /\ At("box") /\ Idle
  /\ Goto("decode")
  /\ UNCHANGED <<queue, offered, boxed, pictures, clipboard, saved, output>>

EndBatch ==
  /\ At("next") /\ Top.left = 0
  /\ IF Top.kind = "paste" THEN CloseClipboard(Front(stack))
                           ELSE Return /\ UNCHANGED holder
  /\ UNCHANGED <<queue, offered, boxed, pictures, contents, hNewDib, saved, output>>

-----------------------------------------------------------------------------
(* The menus of the dialog (of which only "Paste" is a command here) and of *)
(* the thumbnail (all gray if the picture cannot be locked).  Their items   *)
(* are enabled once, as they open; the chosen command is posted.  A thread  *)
(* has one popup menu at a time.                                            *)
OpenMenu ==
  /\ Input
  /\ \A i \in DOMAIN stack : stack[i].kind # "menu"
  /\ \E items \in {{}, ItemsOfPicture, IF contents = "files" THEN {"paste"} ELSE {}} :
       Push(Menu(items))
  /\ UNCHANGED <<queue, offered, boxed, pictures, clipboard, saved, output>>

ChooseItem(item) ==
  /\ At("menu") /\ Idle
  /\ item \in Top.items
  /\ Post([type |-> item, opened |-> Top.opened])
  /\ Return
  /\ UNCHANGED <<offered, boxed, pictures, clipboard, saved, output>>

CloseMenu ==
  /\ At("menu") /\ Idle
  /\ Return
  /\ UNCHANGED <<queue, offered, boxed, pictures, clipboard, saved, output>>

copyFrame == <<queue, offered, boxed, pictures, saved, output>>

(* GlobalFree of the new DIB.                                               *)
FreeDib == hNewDib' = CASE hNewDib = "ours" -> "freed"
                        [] hNewDib = "none" -> "none"
                        [] OTHER            -> "twice"

(* IDC_THUMB_COPY: of the picture or else the default one, if that was      *)
(* loaded, a DIB is made first; CreateClipboardDib may return NULL.         *)
CreateDib ==
  /\ At("create")
  /\ \/ Goto("open") /\ hNewDib' \in {"ours", "none"}
     \/ picture.of = 0 /\ Return /\ UNCHANGED hNewDib
  /\ UNCHANGED <<copyFrame, holder, contents>>

(* Mutant: the DIB is not freed when another program has the clipboard.     *)
OpenOrLeaveDib ==
  /\ At("open")
  /\ \/ holder = "other" /\ Return /\ UNCHANGED <<holder, hNewDib>>
     \/ holder # "other" /\ holder' = "dialog" /\ Goto("empty") /\ UNCHANGED hNewDib
  /\ UNCHANGED <<copyFrame, contents>>

OpenForDib ==
  /\ At("open")
  /\ \/ holder = "other" /\ Return /\ FreeDib /\ UNCHANGED holder
     \/ holder # "other" /\ holder' = "dialog" /\ Goto("empty") /\ UNCHANGED hNewDib
  /\ UNCHANGED <<copyFrame, contents>>

(* EmptyClipboard takes also the list of a paste that this command has      *)
(* overtaken.                                                               *)
EmptyClipboard ==
  /\ At("empty")
  /\ \/ FreeDib /\ CloseClipboard(Front(stack)) /\ UNCHANGED contents
     \/ /\ contents' = "empty"
        /\ stack' = [Lists(FALSE, stack) EXCEPT ![Len(stack)].pc = "set"]
        /\ UNCHANGED <<holder, hNewDib>>
  /\ UNCHANGED copyFrame

(* SetClipboardData with NULL announces data that nobody will render.       *)
SetData ==
  /\ At("set")
  /\ CloseClipboard(Front(stack))
  /\ \/ hNewDib = "ours" /\ contents' = "picture" /\ hNewDib' = "clipboard"
     \/ hNewDib = "none" /\ contents' = "promised" /\ UNCHANGED hNewDib
     \/ FreeDib /\ UNCHANGED contents
  /\ UNCHANGED copyFrame

-----------------------------------------------------------------------------
saveFrame == <<queue, offered, boxed, pictures, clipboard, output>>

(* How a command to save ends; "told" with a message box.                   *)
Ended(file, told, undeleted) ==
  saved' = [file |-> file, told |-> told, undeleted |-> undeleted,
            picture |-> Top.picture.of, name |-> Top.name,
            overtaken |-> Top.opened # latest]

(* Failures end in a message box.                                           *)
Fail(file, undeleted) == Goto("failed") /\ Ended(file, TRUE, undeleted)

(* GetFileName has proposed the name of the file; the picture is that of    *)
(* the moment when it returns.  The user may have agreed to overwrite.      *)
ChooseName(png, file) ==
  /\ At("name") /\ Idle
  /\ stack' = [stack EXCEPT ![Len(stack)] =
       [@ EXCEPT !.pc = "prepare", !.png = png, !.file = file, !.picture = picture]]
  /\ UNCHANGED <<saveFrame, saved>>

CancelName ==
  /\ At("name") /\ Idle
  /\ Return
  /\ UNCHANGED <<saveFrame, saved>>

(* There must be a DIB that can be locked; for a PNG, it is converted and   *)
(* encoded in memory before the file is touched.  An exception during the   *)
(* conversion is swallowed: what was converted until then is encoded.       *)
Prepare ==
  /\ At("prepare")
  /\ \/ /\ Top.png => Top.picture.fits
        /\ \E whole \in BOOLEAN :
             /\ Top.png \/ whole
             /\ stack' = [stack EXCEPT ![Len(stack)] = [@ EXCEPT !.pc = "file", !.whole = whole]]
        /\ UNCHANGED saved
     \/ Fail(Top.file, FALSE)
  /\ UNCHANGED saveFrame

(* CREATE_ALWAYS truncates an old file.                                     *)
CreateFile ==
  /\ At("file")
  /\ \/ /\ stack' = [stack EXCEPT ![Len(stack)] =
             [@ EXCEPT !.pc = IF Top.png THEN "bits" ELSE "header", !.file = "partial"]]
        /\ UNCHANGED saved
     \/ Fail(Top.file, FALSE)
  /\ UNCHANGED saveFrame

(* Mutant: a file that cannot be written is left behind.                    *)
WriteFailsLeavingFile == Fail("partial", FALSE)
(* A failed or short write removes the file, if that can be done.           *)
WriteFails == Fail("absent", FALSE) \/ Fail("partial", TRUE)

(* A bitmap's file header.                                                  *)
WriteHeader ==
  /\ At("header")
  /\ (Goto("bits") /\ UNCHANGED saved) \/ WriteFails
  /\ UNCHANGED saveFrame

Result == IF Top.whole THEN "complete"
          ELSE IF Top.png THEN "damagedPng" ELSE "damagedBmp"

WriteBits ==
  /\ At("bits")
  /\ \/ Return /\ Ended(Result, FALSE, FALSE)
     \/ WriteFails
  /\ UNCHANGED saveFrame

DismissFailure ==
  /\ At("failed") /\ Idle
  /\ Return
  /\ UNCHANGED <<saveFrame, saved>>

-----------------------------------------------------------------------------
(* IDC_WORDWRAP: the window procedure is given back first, then a new       *)
(* window takes the place of the old one -- unless it cannot be created.    *)
SetWordWrap ==
  /\ Input
  /\ \/ window < MaxWindows /\ window' = window + 1 /\ subclassed' = TRUE
     \/ window' = window /\ subclassed' = FALSE
  /\ UNCHANGED <<queue, offered, stack, boxed, pictures, clipboard, saved>>

(* IDC_TMX and IDC_DEDIMANIA.                                               *)
queryFrame == <<queue, offered, boxed, pictures, clipboard, saved, output>>

ClickQuery    == Input /\ Push(Query) /\ UNCHANGED queryFrame
PromptOffline == At("ask") /\ Goto("prompt") /\ UNCHANGED queryFrame
GoOnline      == At("prompt") /\ Idle /\ Goto("ask") /\ UNCHANGED queryFrame
EndQuery      == At("ask") /\ Return /\ UNCHANGED queryFrame

Next ==
  \/ \E n \in 1..MaxFiles : PostDrop(n)
  \/ PostPaste \/ DispatchPosted
  \/ OthersOpen \/ OthersReplace \/ OthersClose \/ CopyText
  \/ StartDump \/ Decode \/ ShowBox \/ DismissBox \/ EndBatch
  \/ OpenMenu \/ CloseMenu \/ \E item \in {"copy", "save", "paste"} : ChooseItem(item)
  \/ CreateDib \/ OpenForDib \/ EmptyClipboard \/ SetData
  \/ \E png \in BOOLEAN, file \in {"absent", "old"} : ChooseName(png, file)
  \/ CancelName \/ Prepare \/ CreateFile \/ WriteHeader \/ WriteBits \/ DismissFailure
  \/ SetWordWrap
  \/ ClickQuery \/ PromptOffline \/ GoOnline \/ EndQuery

Spec == Init /\ [][Next]_vars

-----------------------------------------------------------------------------
Picture == [of : Nat, fits : BOOLEAN]
Message == [type : {"drop"}, files : Nat] \cup [type : {"paste", "copy", "save"}, opened : Nat]

BatchFrame == [kind : {"drop", "paste"}, pc : {"next", "decode", "box"},
               left : Nat, dump : Nat, list : BOOLEAN, window : Nat]
MenuFrame  == [kind : {"menu"}, pc : {"menu"}, opened : Nat,
               items : SUBSET {"copy", "save", "paste"}]
CopyFrame  == [kind : {"copy"}, pc : {"create", "open", "empty", "set"}, opened : Nat]
SaveFrame  == [kind : {"save"}, pc : {"name", "prepare", "file", "header", "bits", "failed"},
               name : Nat, opened : Nat, png : BOOLEAN, picture : Picture,
               whole : BOOLEAN, file : {"none", "absent", "old", "partial"}]
QueryFrame == [kind : {"query"}, pc : {"ask", "prompt"}, window : Nat]
Frame == BatchFrame \cup MenuFrame \cup CopyFrame \cup SaveFrame \cup QueryFrame

(* Every handler has the locals of its kind and stands at a place of its    *)
(* own code.                                                                *)
TypeOK ==
  /\ queue \in Seq(Message) /\ offered \in Nat
  /\ stack \in Seq(Frame) /\ boxed \in BOOLEAN
  /\ latest \in Nat /\ named \in Nat /\ picture \in Picture
  /\ holder \in {"nobody", "dialog", "other"}
  /\ contents \in {"files", "other", "empty", "picture", "promised"}
  /\ hNewDib \in {"none", "ours", "clipboard", "freed", "twice"}
  /\ saved \in [file : {"none", "absent", "old", "partial", "complete", "damagedPng",
                       "damagedBmp"},
               told : BOOLEAN, undeleted : BOOLEAN, picture : Nat, name : Nat,
               overtaken : BOOLEAN]
  /\ window \in Nat /\ subclassed \in BOOLEAN

Handlers(kinds) == {i \in DOMAIN stack : stack[i].kind \in kinds}

(* The clipboard is never left open: while the dialog has it, a paste or a  *)
(* copy is under way, through all early returns and however handlers that   *)
(* open it again are nested.                                                *)
ClipboardGivenBack ==
  holder = "dialog" => \/ Handlers({"paste"}) # {}
                       \/ \E i \in Handlers({"copy"}) : stack[i].pc \in {"empty", "set"}

(* As long as no decoder message was shown in a box, a paste works off the  *)
(* list that it has read: the clipboard stays open until its last file, so  *)
(* that neither another program nor another command takes the list away.    *)
ListHeld ==
  boxed = FALSE =>
    \A i \in Handlers({"paste"}) : stack[i].list /\ holder = "dialog"

(* The clipboard is open as long as it has to be, and no longer.            *)
ClipboardKept == ClipboardGivenBack /\ ListHeld

(* As long as no decoder message was shown in a box, whoever prints has the *)
(* output window that is there now: SetWordWrap, which destroys the old     *)
(* one, never runs inside a batch or a query.                               *)
OutputIsCurrent ==
  boxed = FALSE =>
    \A i \in Handlers({"drop", "paste", "query"}) : stack[i].window = window

(* The DIB made for the clipboard has one owner: it is freed exactly if the *)
(* clipboard has not taken it, on every way out of the command.             *)
DibOwnedOnce ==
  /\ hNewDib # "twice"
  /\ hNewDib = "ours" => Handlers({"copy"}) # {}

(* A file that was written to its end: with the whole picture, or with what *)
(* an exception has left of it.                                             *)
Written == {"complete", "damagedPng", "damagedBmp"}

(* A command to save either writes the file to its end, or tells that it    *)
(* has not, and then leaves no part of it (unless even DeleteFile fails):   *)
(* the old file or none.  What is written without a message is the whole    *)
(* picture, if it is a bitmap; a PNG may be damaged: see PictureSaved.      *)
SavedOrSaid ==
  /\ saved.file \in Written <=> saved.told = FALSE /\ saved.file # "none"
  /\ saved.file = "partial" => saved.undeleted
  /\ saved.file # "damagedBmp"

(* "Saves a DIB as a PNG file": a command that ends without a message has   *)
(* saved the picture.                                                       *)
PictureSaved == saved.told = FALSE => saved.file \in {"none", "complete"}

(* As long as no decoder message was shown in a box and no file was dumped  *)
(* behind the file dialog, the saved picture is that of the file whose name *)
(* was proposed for it, or the default one.                                 *)
SavedUnderItsName ==
  saved.file \in Written /\ saved.overtaken = FALSE /\ boxed = FALSE
    => saved.picture \in {0, saved.name}

(* Although the items of the menu are enabled as it opens and the command   *)
(* is posted, a copy finds a picture that can be copied, or a file was      *)
(* dumped in between.                                                       *)
CopyFindsPicture ==
  At("create") /\ Top.opened = latest => picture.of # 0 /\ picture.fits
=============================================================================
