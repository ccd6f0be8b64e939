------------------------------ MODULE Strings ------------------------------
(***************************************************************************)
(* How a formatted text of the file becomes a line of output: the text     *)
(* itself, in brackets the text without Nadeo's formatting codes, and an   *)
(* end of line.  CleanupString saves "$$" in a character of its own,       *)
(* removes the codes and puts the dollar signs back, each time into a new  *)
(* block of memory of calculated size.                                     *)
(*                                                                         *)
(* Characters are "$", "f" for every hexadecimal digit, "x" for all others *)
(* and "a" for the alert character.                                        *)
(***************************************************************************)
EXTENDS Integers, Sequences, SequencesExt

CONSTANTS
  MaxText,      \* bound: characters of a text
  cchLenOutput  \* the size of the output buffer

(* A text that was converted leaves four characters of the buffer.          *)
ASSUME TextAssumption ==
  MaxText \in Nat /\ cchLenOutput \in Nat /\ MaxText <= cchLenOutput - 4

Characters == {"$", "f", "x", "a"}

(* A text that follows the rules is made of pieces: "$$" is a dollar sign,  *)
(* "$" and three digits a colour, "$" and another character a style; other  *)
(* characters stand for themselves.  This is what they say in the end:      *)
Pieces == {"dollar", "colour", "style", "digit", "letter"}

Spelling == [p \in Pieces |-> CASE p = "dollar" -> <<"$", "$">>
                                [] p = "colour" -> <<"$", "f", "f", "f">>
                                [] p = "style"  -> <<"$", "x">>
                                [] p = "digit"  -> <<"f">>
                                [] p = "letter" -> <<"x">>]
Meaning  == [p \in Pieces |-> CASE p = "dollar" -> <<"$">>
                                [] p \in {"colour", "style"} -> <<>>
                                [] p \in {"digit", "letter"} -> Spelling[p]]

(* The pieces one after the other, as far as the n-th.                      *)
Strung(form, pieces) ==
  LET upTo[n \in Nat] ==
        IF n = 0 THEN <<>>
        ELSE upTo[n - 1] \o (IF n \in DOMAIN pieces THEN form[pieces[n]] ELSE <<>>)
  IN  upTo

Whole(form, pieces) == Strung(form, pieces)[Len(pieces)]

VARIABLES
  text,         \* the text of the file
  written,      \* history: the pieces it was written with, if it follows the rules
  textPc,       \* "check", "escape", "strip", "restore", "convert", "done"
  lpszOriginal, \* the string that is worked on
  lpszOrigPtr,  \* the place in it
  lpszReturn,   \* what was written to the new block
  cchRetLen,    \* the size of the new block, without the final NUL
  held,         \* the blocks that are allocated
  lpszTemp,     \* the clean text
  bClean,       \* has CleanupString returned TRUE?
  lpszOutput    \* the line

loop == <<lpszOriginal, lpszOrigPtr, lpszReturn, cchRetLen>>
textVars == <<text, written, textPc, loop, held, lpszTemp, bClean, lpszOutput>>

(* Any text at all, or one that follows the rules.                          *)
Texts == SeqOf(Characters, MaxText)

TextInit ==
  /\ \/ text \in Texts /\ written = <<"anything">>
     \/ /\ written \in SeqOf(Pieces, MaxText)
        /\ text = Whole(Spelling, written) /\ Len(text) <= MaxText
  /\ textPc = "check"
  /\ lpszOriginal = <<>> /\ lpszOrigPtr = 1 /\ lpszReturn = <<>> /\ cchRetLen = 0
  /\ held = {} /\ lpszTemp = <<>> /\ bClean = FALSE /\ lpszOutput = text

-----------------------------------------------------------------------------
(* _tcsstr: the next place of the pattern, 0 if there is none; _tcsncpy of  *)
(* what stands before it; and the rest.                                     *)
Find(s, from, pattern) ==
  LET places == {i \in from..(Len(s) - Len(pattern) + 1) :
                   SubSeq(s, i, i + Len(pattern) - 1) = pattern}
  IN  IF places = {} THEN 0 ELSE Min(places)

PatLoc(pattern) == Find(lpszOriginal, lpszOrigPtr, pattern)
Skipped(loc)    == SubSeq(lpszOriginal, lpszOrigPtr, loc - 1)
Rest            == SubSeq(lpszOriginal, lpszOrigPtr, Len(lpszOriginal))

(* CleanupString gives up: its blocks are freed.                            *)
GiveUp == textPc' = "convert" /\ held' = {} /\ UNCHANGED <<loop, lpszTemp, bClean>>

(* A block for the next stage.                                              *)
Allocate(stage, original, size) ==
  \/ /\ textPc' = stage /\ held' = held \cup {stage}
     /\ lpszOriginal' = original /\ lpszOrigPtr' = 1
     /\ lpszReturn' = <<>> /\ cchRetLen' = size
     /\ UNCHANGED <<lpszTemp, bClean>>
  \/ GiveUp

-----------------------------------------------------------------------------
(* AllocReplaceString                                                       *)
Stages == [escape  |-> [pattern |-> <<"$", "$">>, replacement |-> <<"a">>],
           restore |-> [pattern |-> <<"a">>,      replacement |-> <<"$">>]]

(* The loop that counts the pattern, after n rounds.                        *)
NextMatch(s, pattern, at) ==
  LET loc == Find(s, at.ptr, pattern)
  IN  IF loc = 0 THEN at ELSE [ptr |-> loc + Len(pattern), count |-> at.count + 1]

Counting(s, pattern) ==
  LET round[n \in Nat] ==
        IF n = 0 THEN [ptr |-> 1, count |-> 0] ELSE NextMatch(s, pattern, round[n - 1])
  IN  round

uPatCount(s, pattern) == Counting(s, pattern)[Len(s)].count

AllocateReplaced(stage, original) ==
  LET s == Stages[stage]
  IN  Allocate(stage, original,
               Len(original) + uPatCount(original, s.pattern) * (Len(s.replacement) - Len(s.pattern)))

Replace(stage) ==
  LET s == Stages[stage]
  IN  /\ textPc = stage
      /\ PatLoc(s.pattern) # 0
      /\ lpszReturn' = lpszReturn \o Skipped(PatLoc(s.pattern)) \o s.replacement
      /\ lpszOrigPtr' = PatLoc(s.pattern) + Len(s.pattern)
      /\ UNCHANGED <<text, written, textPc, lpszOriginal, cchRetLen, held,
                     lpszTemp, bClean, lpszOutput>>

(* CleanupString: a text without "$" is clean; there is no buffer for an    *)
(* empty one.                                                               *)
Check ==
  /\ textPc = "check"
  /\ IF Contains(text, "$") THEN AllocateReplaced("escape", text) ELSE GiveUp
  /\ UNCHANGED <<text, written, lpszOutput>>

Escaped ==
  /\ textPc = "escape" /\ PatLoc(Stages.escape.pattern) = 0
  /\ Allocate("strip", lpszReturn \o Rest, Len(lpszReturn \o Rest))
  /\ UNCHANGED <<text, written, lpszOutput>>

-----------------------------------------------------------------------------
(* AllocCleanupString: a code is "$" and three digits or any other          *)
(* character.  (Mutant: every code is taken for a colour.)                  *)
uIncrementOfColour(loc) == 4

uIncrement(loc) == IF loc < Len(lpszOriginal) /\ lpszOriginal[loc + 1] = "f" THEN 4 ELSE 2

CodeAt(loc) == loc # 0 /\ Len(lpszOriginal) - loc + 1 >= uIncrement(loc)

Strip ==
  /\ textPc = "strip"
  /\ CodeAt(PatLoc(<<"$">>))
  /\ lpszReturn' = lpszReturn \o Skipped(PatLoc(<<"$">>))
  /\ lpszOrigPtr' = PatLoc(<<"$">>) + uIncrement(PatLoc(<<"$">>))
  /\ UNCHANGED <<text, written, textPc, lpszOriginal, cchRetLen, held,
                 lpszTemp, bClean, lpszOutput>>

Stripped ==
  /\ textPc = "strip" /\ ~CodeAt(PatLoc(<<"$">>))
  /\ AllocateReplaced("restore", lpszReturn \o Rest)
  /\ UNCHANGED <<text, written, lpszOutput>>

(* The clean text is copied to a buffer of the size of the text.            *)
Restored ==
  /\ textPc = "restore" /\ PatLoc(Stages.restore.pattern) = 0
  /\ lpszReturn' = lpszReturn \o Rest
  /\ lpszTemp' = SubSeq(lpszReturn', 1, IF Len(lpszReturn') < Len(text) THEN Len(lpszReturn')
                                        ELSE Len(text) - 1)
  /\ lpszOrigPtr' = Len(lpszOriginal) + 1
  /\ textPc' = "convert" /\ bClean' = TRUE /\ held' = {}
  /\ UNCHANGED <<text, written, lpszOriginal, cchRetLen, lpszOutput>>

-----------------------------------------------------------------------------
(* ConvertGbxString: _tcsncat appends as long as the buffer, less a         *)
(* reserve, has room.  (Mutant: nothing is reserved for the end of line.)   *)
AppendedUpTo(s, t, size) == s \o SubSeq(t, 1, IF size - Len(s) < Len(t) THEN size - Len(s) ELSE Len(t))

BracketedUnreserved(s) ==
  AppendedUpTo(AppendedUpTo(AppendedUpTo(s, <<" ", "(">>, cchLenOutput - 1),
                            lpszTemp, cchLenOutput - 1), <<")">>, cchLenOutput - 1)

Bracketed(s) ==
  AppendedUpTo(AppendedUpTo(AppendedUpTo(s, <<" ", "(">>, cchLenOutput - 3),
                            lpszTemp, cchLenOutput - 3), <<")">>, cchLenOutput - 3)

Convert ==
  /\ textPc = "convert"
  /\ textPc' = "done"
  /\ lpszOutput' = AppendedUpTo(IF bClean THEN Bracketed(text) ELSE text,
                                <<"CR", "LF">>, cchLenOutput - 1)
  /\ UNCHANGED <<text, written, loop, held, lpszTemp, bClean>>

TextNext ==
  \/ Check
  \/ \E stage \in DOMAIN Stages : Replace(stage)
  \/ Escaped \/ Strip \/ Stripped \/ Restored \/ Convert

TextSpec == TextInit /\ [][TextNext]_textVars

-----------------------------------------------------------------------------
(* The three passes give what the pieces of the text say one by one,        *)
(* wherever dollar signs and codes touch each other; nothing of it is cut   *)
(* off by the shorter buffer, and no block is kept, whichever allocation    *)
(* fails.                                                                   *)
CleanedAsMeant ==
  /\ bClean /\ written \in Seq(Pieces) => lpszTemp = Whole(Meaning, written)
  /\ textPc \in {"convert", "done"} => held = {}

(* No pass writes behind the block that was calculated for it, with any     *)
(* text; and the line ends with CR LF however little room is left.          *)
LinesFit ==
  /\ Len(lpszReturn) <= cchRetLen
  /\ textPc \in DOMAIN Stages /\ PatLoc(Stages[textPc].pattern) = 0
       => Len(lpszReturn \o Rest) = cchRetLen
  /\ textPc = "strip" => Len(lpszReturn \o Rest) <= cchRetLen
  /\ textPc = "done" => LET end == Len(lpszOutput)
                        IN  /\ end \in 2..(cchLenOutput - 1)
                            /\ lpszOutput[end - 1] = "CR" /\ lpszOutput[end] = "LF"
=============================================================================
