----------------------------- MODULE AnswerLines -----------------------------
(***************************************************************************)
(* How an answer is cut into fields, in place: a NUL is written over the   *)
(* end of every line and over the separator behind every field, and the    *)
(* place where the next field starts is kept in a static.  Dedimania's     *)
(* answers are cut with estrtok, a "strtok replacement that also supports  *)
(* empty tokens", those of TMX with strtok.                                *)
(*                                                                         *)
(* An answer is a sequence of letters, separators and line ends ("\r\n",   *)
(* taken for one); what a field says is not looked at, only where it is.   *)
(***************************************************************************)
EXTENDS Naturals, Sequences, FiniteSets

CONSTANTS
  MaxLength   \* bound: characters in an answer

Letter == "a"
Sep    == "sep"   \* the comma of Dedimania, the tab of TMX
Eol    == "eol"
Nul    == "nul"

(* "records": Dedimania, the first line is about the track;                 *)
(* "replays": TMX, each line is one; "track": TMX, the answer is one line.  *)
Formats == {"records", "replays", "track"}

NULL == 0

VARIABLES
  format,
  answer,       \* what was received (the buffer before it is cut)
  lpszData,     \* the buffer, with its final NUL
  pc,           \* "first", "empty", "line", "token", "next", "done"
  lpsz,         \* start of the line
  lpszNewLine,  \* start of the line behind it
  uRecords,     \* number of the line
  last,         \* the static of estrtok or strtok
  token,        \* start of the field
  i,            \* number of the field
  fields,       \* history: the fields handed to the switch
  noRecords     \* has IDP_*_ERR_RECORDS been printed?

input == <<format, answer>>
line  == <<lpsz, lpszNewLine, uRecords>>
vars  == <<input, lpszData, pc, line, last, token, i, fields, noRecords>>

(* Answers without any separator are not parsed.                            *)
Answers == {a \in UNION {[1..n -> {Letter, Sep, Eol}] : n \in 1..MaxLength} :
              \E p \in DOMAIN a : a[p] = Sep}

Init ==
  /\ format \in Formats /\ answer \in Answers
  /\ lpszData = Append(answer, Nul)
  /\ pc = CASE format = "records" -> "first"
            [] format = "replays" -> "line"
            [] format = "track"   -> "token"
  /\ lpsz = 1 /\ lpszNewLine = NULL /\ uRecords = 0
  /\ last = NULL /\ token = NULL /\ i = 0
  /\ fields = {} /\ noRecords = FALSE

-----------------------------------------------------------------------------
(* Where a search that starts at p and ends at a NUL finds one of chars.    *)
FirstOf(chars, p) ==
  CHOOSE q \in p..Len(lpszData) :
    /\ lpszData[q] \in chars
    /\ \A r \in p..(q - 1) : lpszData[r] \notin chars
Find(char, p) == LET q == FirstOf({char, Nul}, p)
                 IN  IF lpszData[q] = char THEN q ELSE NULL

CutAt(q) == lpszData' = [lpszData EXCEPT ![q] = Nul]

(* estrtok(str, delim), with str = NULL to go on.                           *)
(* (Mutants: it goes on at the NUL, or keeps its place at the end.)         *)
EstrtokInPlace(str) ==
  LET from == IF str # NULL THEN str ELSE last
      stop == FirstOf({Sep, Nul}, from)
  IN  IF str = NULL /\ last = NULL THEN token' = NULL /\ UNCHANGED <<last, lpszData>>
      ELSE /\ token' = from
           /\ last' = IF lpszData[stop] = Nul THEN NULL ELSE stop
           /\ CutAt(stop)
EstrtokKeepingPlace(str) ==
  LET from == IF str # NULL THEN str ELSE last + 1
      stop == FirstOf({Sep, Nul}, from)
  IN  IF (str = NULL /\ last = NULL) \/ from > Len(lpszData)
      THEN token' = NULL /\ UNCHANGED <<last, lpszData>>
      ELSE token' = from /\ last' = stop /\ CutAt(stop)

Estrtok(str) ==
  LET from == IF str # NULL THEN str ELSE last + 1
      stop == FirstOf({Sep, Nul}, from)
  IN  IF str = NULL /\ last = NULL THEN token' = NULL /\ UNCHANGED <<last, lpszData>>
      ELSE /\ token' = from
           /\ last' = IF lpszData[stop] = Nul THEN NULL ELSE stop
           /\ CutAt(stop)

(* strtok skips separators, and finds nothing when only they are left.      *)
Strtok(str) ==
  LET from  == IF str # NULL THEN str ELSE last
      start == FirstOf({Letter, Eol, Nul}, from)
      stop  == FirstOf({Sep, Nul}, start)
  IN  IF lpszData[start] = Nul
      THEN token' = NULL /\ last' = start /\ UNCHANGED lpszData
      ELSE /\ token' = start
           /\ last' = IF lpszData[stop] = Nul THEN stop ELSE stop + 1
           /\ CutAt(stop)

Tokenize(str) == IF format = "records" THEN Estrtok(str) ELSE Strtok(str)

-----------------------------------------------------------------------------
(* Dedimania: skip the first line; without one there is nothing to print.   *)
SkipFirstLine ==
  /\ pc = "first"
  /\ LET eol == Find(Eol, lpsz)
     IN  IF eol # NULL THEN pc' = "empty" /\ lpsz' = eol + 1 /\ CutAt(eol)
                       ELSE pc' = "done" /\ UNCHANGED <<lpsz, lpszData>>
  /\ UNCHANGED <<input, lpszNewLine, uRecords, last, token, i, fields, noRecords>>

CheckRecords ==
  /\ pc = "empty"
  /\ pc' = "line" /\ noRecords' = (lpszData[lpsz] = Nul)
  /\ UNCHANGED <<input, lpszData, line, last, token, i, fields>>

(* A line that has no end, the last one, is ignored.                        *)
NextLine ==
  /\ pc = "line"
  /\ uRecords' = uRecords + 1 /\ i' = 0
  /\ LET eol == Find(Eol, lpsz)
     IN  IF eol # NULL THEN pc' = "token" /\ lpszNewLine' = eol + 1 /\ CutAt(eol)
                       ELSE pc' = "done" /\ lpszNewLine' = NULL /\ UNCHANGED lpszData
  /\ UNCHANGED <<input, lpsz, last, token, fields, noRecords>>

FirstToken ==
  /\ pc = "token"
  /\ pc' = "next" /\ i' = 0
  /\ Tokenize(lpsz)
  /\ UNCHANGED <<input, line, fields, noRecords>>

(* The switch of the loop prints the field by its number.                   *)
Field == [record |-> uRecords, column |-> i + 1, from |-> token,
          to |-> FirstOf({Nul}, token)]

NextToken ==
  /\ pc = "next" /\ token # NULL
  /\ i' = i + 1 /\ fields' = fields \cup {Field}
  /\ Tokenize(NULL)
  /\ UNCHANGED <<input, pc, line, noRecords>>

EndLine ==
  /\ pc = "next" /\ token = NULL
  /\ lpsz' = lpszNewLine
  /\ pc' = IF lpszNewLine = NULL THEN "done" ELSE "line"
  /\ UNCHANGED <<input, lpszData, lpszNewLine, uRecords, last, token, i, fields, noRecords>>

Next == \/ SkipFirstLine \/ CheckRecords \/ NextLine
        \/ FirstToken \/ NextToken \/ EndLine

Spec == Init /\ [][Next]_vars

-----------------------------------------------------------------------------
(* Reference: a field ends at every separator and at the end of its line;   *)
(* it starts behind the end of the one before it.  Lines that are ended are *)
(* numbered from 1 on; an answer about a track is one line, up to its NUL.  *)
Breaks == IF format = "track" THEN {Sep} ELSE {Sep, Eol}
Ends   == {p \in DOMAIN answer : answer[p] \in Breaks}
            \cup (IF format = "track" THEN {Len(answer) + 1} ELSE {})
StartOf(p) == IF \E q \in Ends : q < p
              THEN 1 + CHOOSE q \in Ends : q < p /\ \A r \in Ends : r < p => r <= q
              ELSE 1
LineOf(p) == IF format = "track" THEN 0
             ELSE 1 + Cardinality({q \in Ends : q < p /\ answer[q] = Eol})
Ended(p)  == format = "track" \/ \E q \in Ends : q >= p /\ answer[q] = Eol
Empty(p)  == StartOf(p) = p

(* Dedimania's records are the lines behind the first, and empty fields     *)
(* count; TMX's empty fields are passed over, so that the fields behind     *)
(* them move to the left.                                                   *)
Counts(p) == Ended(p) /\ IF format = "records" THEN LineOf(p) > 1 ELSE ~Empty(p)
ReferenceFields ==
  {[record |-> IF format = "records" THEN LineOf(p) - 1 ELSE LineOf(p),
    column |-> Cardinality({q \in Ends : q <= p /\ LineOf(q) = LineOf(p) /\ Counts(q)}),
    from   |-> StartOf(p), to |-> p] : p \in {q \in Ends : Counts(q)}}

(* While a line is cut, the fields and the static that remembers where the  *)
(* next one starts lie in this line, never in the next one or behind the    *)
(* end of the answer.                                                       *)
LineEnd == IF lpszNewLine # NULL THEN lpszNewLine - 1 ELSE Len(lpszData)
StaysInLine ==
  pc = "next" =>
    /\ token # NULL => lpsz <= token /\ token <= LineEnd
    /\ last # NULL => lpsz <= last /\ last <= LineEnd

(* The cutting never leaves its line, and when an answer has been parsed,   *)
(* exactly its fields were printed, each under its own record and column;   *)
(* "no records" is said when nothing follows the first line.                *)
FieldsAsSplit ==
  /\ StaysInLine
  /\ pc = "done" =>
       /\ fields = ReferenceFields
       /\ noRecords <=> /\ format = "records" /\ answer[Len(answer)] = Eol
                        /\ Cardinality({p \in Ends : answer[p] = Eol}) = 1
=============================================================================
