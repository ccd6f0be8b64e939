------------------------------ MODULE RefTable ------------------------------
(***************************************************************************)
(* The reference table of a header: ReadRefTable and ReadSubFolders, which *)
(* calls itself for the folders in a folder.  "stack" holds the active     *)
(* calls of ReadSubFolders, each with its own path buffer; the number of   *)
(* the last folder is shared between them.                                 *)
(*                                                                         *)
(* The file is made up while it is read: any field may be missing or, in a *)
(* text file, be no number.                                                *)
(***************************************************************************)
EXTENDS Integers, Sequences, SequencesExt

CONSTANTS
  MAX_PATH,    \* characters in a buffer, with the final NUL
  FolderNames, \* names of folders, as sequences of characters
  MaxEntries,  \* bound: external references
  MaxFolders,  \* bound: folders in the table
  MaxLevels    \* bound: folders within each other

ASSUME RefAssumption ==
  /\ MAX_PATH \in Nat \ {0} /\ FolderNames \subseteq Seq(STRING)
  /\ MaxEntries \in Nat /\ MaxFolders \in Nat

VARIABLES
  file,        \* its format: is it text, is the table compressed, version >= 5?
  refPc,       \* the field that is read next; "done" afterwards
  dwExtEntries,
  dwCount,     \* references still to be read
  dwNumSubFolders, \* folders of the first level still to be read
  dwIndex,     \* number of the last folder
  stack,       \* the active calls of ReadSubFolders
  resource,    \* the flag of the reference that is being read
  result,      \* the number of references or -1
  announced,   \* history: folders that the file has announced
  output       \* history: the last folder that was printed

folders    == <<dwNumSubFolders, dwIndex, stack, announced, output>>
references == <<dwCount, resource>>
refVars == <<file, refPc, dwExtEntries, folders, references, result>>

RefInit ==
  /\ file \in [text : BOOLEAN, compressed : BOOLEAN, version5 : BOOLEAN]
  /\ refPc = "start" /\ dwExtEntries = 0 /\ dwCount = 0 /\ resource = FALSE
  /\ dwNumSubFolders = 0 /\ dwIndex = 0 /\ stack = <<>>
  /\ result = 0 /\ announced = 0
  /\ output = [index |-> 0, text |-> <<>>, path |-> <<>>]

ReturnEntries(n) == refPc' = "done" /\ result' = n

-----------------------------------------------------------------------------
(* Strings in buffers of MAX_PATH characters.                               *)
Fits(s) == SubSeq(s, 1, IF Len(s) < MAX_PATH THEN Len(s) ELSE MAX_PATH - 1)

(* (Mutant: the NUL is not counted.)                                        *)
strncatByOne(s, t) == SubSeq(s \o t, 1, IF Len(s \o t) <= MAX_PATH THEN Len(s \o t) ELSE MAX_PATH)

strncat(s, t) == Fits(s \o t)

(* ReadString: MyStrNCpyA cuts the name of a binary file.  ReadLine fills   *)
(* the buffer without a NUL if the line is too long: what stands behind the *)
(* buffer is then taken for a part of the name.                             *)
ReadString(name) ==
  IF file.text /\ Len(name) >= MAX_PATH
  THEN {SubSeq(name, 1, MAX_PATH) \o rest : rest \in {<<>>, <<"?">>}}
  ELSE {Fits(name)}

-----------------------------------------------------------------------------
CheckCompression ==
  /\ refPc = "start"
  /\ IF file.compressed THEN ReturnEntries(-1) ELSE refPc' = "entries" /\ UNCHANGED result
  /\ UNCHANGED <<file, dwExtEntries, folders, references>>

ReadNumEntries(n) ==
  /\ refPc = "entries"
  /\ dwExtEntries' = n /\ dwCount' = n
  /\ IF n = 0 THEN ReturnEntries(0) ELSE refPc' = "levels" /\ UNCHANGED result
  /\ UNCHANGED <<file, folders, resource>>

ReadAncestorLevel ==
  /\ refPc = "levels"
  /\ refPc' = "numfolders"
  /\ UNCHANGED <<file, dwExtEntries, folders, references, result>>

ReadNumFolders(n) ==
  /\ refPc = "numfolders"
  /\ refPc' = "folder"
  /\ n <= MaxFolders
  /\ dwNumSubFolders' = n /\ announced' = n
  /\ UNCHANGED <<file, dwExtEntries, dwIndex, stack, output, references, result>>

-----------------------------------------------------------------------------
(* ReadSubFolders, called by ReadRefTable or by itself: the path of the     *)
(* caller is copied before the name is appended.                            *)
Parent == IF stack = <<>> THEN [szFolder |-> <<>>, path |-> <<>>]
          ELSE [szFolder |-> Last(stack).szFolder, path |-> Last(stack).path]

(* The calls that are still to come in the loop of the caller, and one less *)
(* of them.                                                                 *)
Remaining == IF stack = <<>> THEN dwNumSubFolders ELSE Last(stack).dwNumSubFolders

Called == IF stack = <<>> THEN stack
          ELSE [stack EXCEPT ![Len(stack)].dwNumSubFolders = @ - 1]

ReadFolder(name) ==
  /\ refPc = "folder" /\ Len(stack) < MaxLevels
  /\ Remaining > 0
  /\ dwNumSubFolders' = IF stack = <<>> THEN dwNumSubFolders - 1 ELSE dwNumSubFolders
  /\ dwIndex' = dwIndex + 1
  /\ \E szRead \in ReadString(name) :
       LET szFolder == strncat(Fits(Parent.szFolder), szRead)
           path     == Append(Parent.path, name)
       IN  /\ stack' = Append(Called, [szFolder |-> szFolder, path |-> path,
                                       dwNumSubFolders |-> 0])
           /\ output' = [index |-> dwIndex + 1, text |-> szFolder, path |-> path]
  /\ refPc' = "subfolders"
  /\ UNCHANGED <<file, dwExtEntries, announced, references, result>>

ReadNumSubFolders(n) ==
  /\ refPc = "subfolders"
  /\ refPc' = "folder"
  /\ announced + n <= MaxFolders /\ announced' = announced + n
  /\ stack' = [stack EXCEPT
       ![Len(stack)].dwNumSubFolders = n,
       ![Len(stack)].szFolder = IF n > 0 THEN strncat(@, <<"\\">>) ELSE @]
  /\ UNCHANGED <<file, dwExtEntries, dwNumSubFolders, dwIndex, output, references, result>>

ReturnFromFolder ==
  /\ refPc = "folder" /\ stack # <<>> /\ Last(stack).dwNumSubFolders = 0
  /\ stack' = Front(stack)
  /\ UNCHANGED <<file, refPc, dwExtEntries, dwNumSubFolders, dwIndex, announced, output,
                 references, result>>

EndFolders ==
  /\ refPc = "folder" /\ stack = <<>> /\ dwNumSubFolders = 0
  /\ refPc' = "flags"
  /\ UNCHANGED <<file, dwExtEntries, folders, references, result>>

-----------------------------------------------------------------------------
(* The fields of a reference; a reference to a resource has no folder.      *)
Field(from, to) ==
  /\ refPc = from
  /\ refPc' = to
  /\ UNCHANGED <<file, dwExtEntries, folders, result>>

ReadFlags == \E flag \in BOOLEAN :
  /\ Field("flags", IF flag THEN "resource" ELSE "name")
  /\ resource' = flag /\ dwCount' = dwCount - 1

AfterNode == CASE file.version5 -> "usefile"
               [] ~file.version5 /\ ~resource -> "folderindex"
               [] OTHER -> "next"

ReadFileName      == Field("name", "node") /\ UNCHANGED references
ReadResourceIndex == Field("resource", "node") /\ UNCHANGED references
ReadNodeIndex     == Field("node", AfterNode) /\ UNCHANGED references
ReadUseFile       == /\ Field("usefile", IF resource THEN "next" ELSE "folderindex")
                     /\ UNCHANGED references
ReadFolderIndex   == /\ \E unassigned \in BOOLEAN :
                          Field("folderindex", IF unassigned THEN "nat64" ELSE "next")
                     /\ UNCHANGED references
ReadNat64         == Field("nat64", "next") /\ UNCHANGED references

NextReference ==
  /\ refPc = "next"
  /\ IF dwCount = 0 THEN ReturnEntries(dwExtEntries) ELSE refPc' = "flags" /\ UNCHANGED result
  /\ UNCHANGED <<file, dwExtEntries, folders, references>>

(* A field cannot be read: all active calls return FALSE, the table -1.     *)
ReadFails ==
  /\ refPc \notin {"start", "next", "done"}
  /\ refPc = "folder" => Remaining > 0
  /\ ReturnEntries(-1)
  /\ stack' = <<>>
  /\ UNCHANGED <<file, dwExtEntries, dwNumSubFolders, dwIndex, announced, output, references>>

RefNext ==
  \/ CheckCompression
  \/ (\E n \in 0..MaxEntries : ReadNumEntries(n))
  \/ ReadAncestorLevel
  \/ (\E n \in 0..MaxFolders : ReadNumFolders(n) \/ ReadNumSubFolders(n))
  \/ (\E name \in FolderNames : ReadFolder(name))
  \/ ReturnFromFolder \/ EndFolders
  \/ ReadFlags \/ ReadFileName \/ ReadResourceIndex \/ ReadNodeIndex \/ ReadUseFile
  \/ ReadFolderIndex \/ ReadNat64 \/ NextReference
  \/ ReadFails

RefSpec == RefInit /\ [][RefNext]_refVars

-----------------------------------------------------------------------------
(* The names of the folders that a folder is in, and its own.               *)
InFolders(path) ==
  LET within[n \in Nat] ==
        IF n = 0 THEN <<>>
        ELSE within[n - 1] \o (IF n \in DOMAIN path THEN path[n] \o <<"\\">> ELSE <<>>)
  IN  within

Joined(path) == InFolders(path)[Len(path) - 1] \o Last(path)

(* A folder is printed under its place in the file and with as much of its  *)
(* path as the buffer holds, however the folders are nested and whatever    *)
(* was cut off on the way (unless a line of a text file fills a buffer).    *)
(* The table counts as read only if all the folders and references that it  *)
(* announces were.                                                          *)
FoldersAsNested ==
  /\ output.index = dwIndex
  /\ \/ output.path = <<>>
     \/ output.text = Fits(Joined(output.path))
     \/ file.text /\ \E i \in DOMAIN output.path : Len(output.path[i]) >= MAX_PATH
  /\ refPc = "done" /\ result > 0 => dwCount = 0 /\ dwIndex = announced
=============================================================================
