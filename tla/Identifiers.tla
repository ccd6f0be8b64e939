----------------------------- MODULE Identifiers -----------------------------
(***************************************************************************)
(* The identifiers of a header section: ReadIdentifier, its table of the   *)
(* names seen so far (IDENTIFIER), and the sections that read names with   *)
(* it.  A name is written in full once and then by its number in the       *)
(* section; the environment can also be the number of a collection.  Two   *)
(* sections fill s_szUid and s_szEnvi and enable the online buttons, by    *)
(* lists of environments that DumpTmx and DumpDedimania do not share.      *)
(***************************************************************************)
EXTENDS Integers, Sequences, FiniteSets

CONSTANTS
  ID_DIM,    \* names the table holds (8 in the code)
  MaxIds,    \* bound: identifiers of one section
  Classes,   \* base classes to look at
  Strings,   \* strings that files contain, "" among them
  Numbers    \* collection numbers that files contain

NoName == ""   \* the empty string

ASSUME TableAssumption == ID_DIM \in Nat /\ MaxIds \in Nat
ASSUME StringAssumption == NoName \in Strings /\ Numbers \subseteq Nat

-----------------------------------------------------------------------------
(* The sections with identifiers, in the order a class parses them, and     *)
(* after how many identifiers each ends, depending on its version.          *)
IdSections(class) ==
  CASE class = "Challenge"  -> <<"TmDesc", "Common", "VskDesc">>
    [] class = "Replay"     -> <<"ReplayVersion">>
    [] class = "Collector"  -> <<"CollectorDesc">>
    [] class = "Collection" -> <<"OldDesc", "CollectionDesc">>

AllClasses == {"Challenge", "Replay", "Collector", "Collection"}

ASSUME ClassAssumption == Classes \subseteq AllClasses

TmDescStops         == {0, 3}         \* below version 3, or from 3 on
CommonStops         == {3, 6, 7}      \* below 2, below 11, or from 11 on
VskDescStops        == {0, 1, 2, 3}   \* versions 1 to 8, 9 to 11, from 12 on, or 0
ReplayVersionStops  == {0, 3, 4}      \* below 3, below 8, or from 8 on
CollectorDescStops  == {4, 5, 6}      \* below 4, other versions, or 5
OldDescStops        == {1}
CollectionDescStops == {1, 2, 5}      \* below 3, 3, or from 4 on

Stops(name) == CASE name = "TmDesc"         -> TmDescStops
                 [] name = "Common"         -> CommonStops
                 [] name = "VskDesc"        -> VskDescStops
                 [] name = "ReplayVersion"  -> ReplayVersionStops
                 [] name = "CollectorDesc"  -> CollectorDescStops
                 [] name = "OldDesc"        -> OldDescStops
                 [] name = "CollectionDesc" -> CollectionDescStops

Identifying == {"Common", "ReplayVersion"}

(* GetCollectionString: names of the collections, else the number itself.   *)
Collection(number) == CASE number = 0  -> "Desert"
                        [] number = 1  -> "Snow"
                        [] number = 3  -> "Island"
                        [] number = 6  -> "Stadium"
                        [] number = 26 -> "Stadium"
                        [] number = 18 -> "Canyon4"
                        [] number = 202 -> "Storm"
                        [] OTHER       -> "a number"

(* g_szMpEnvis, g_szTm2Envis and g_szTm1Envis.  strstr also finds a part of *)
(* a listed name, for which "Sta" stands here.                              *)
MpEnvis  == {"Canyon", "Valley", "Stadium", "Lagoon", "Arena", "Storm", "Cryo", "Meteor",
             "Paris", "Gothic", "Future", "Galaxy", "History", "Society", "Sta"}
Tm2Envis == {"Canyon", "Valley", "Stadium", "Lagoon", "Arena", "Sta"}
Tm1Envis == {"Stadium", "Coast", "Bay", "Island", "Desert", "Rally", "Snow", "Alpine",
             "Speed", "Sta"}

(* The environments DumpTmx compares with, whole names only.                *)
(* (Mutant: Storm was forgotten.)                                           *)
TmxServedButStorm == {"Canyon", "Valley", "Lagoon", "Arena", "Cryo", "Meteor", "Paris",
                      "Gothic", "Galaxy", "History", "Society", "Future", "Stadium", "Coast",
                      "Bay", "Island", "Desert", "Snow", "Rally", "Alpine", "Speed"}
TmxServed == {"Canyon", "Valley", "Lagoon", "Arena", "Storm", "Cryo", "Meteor", "Paris",
              "Gothic", "Galaxy", "History", "Society", "Future", "Stadium", "Coast", "Bay",
              "Island", "Desert", "Snow", "Rally", "Alpine", "Speed"}

VARIABLES
  todo,       \* sections not yet started
  section,    \* the section being read, or "none"
  idVersion,  \* id.dwVersion
  index,      \* id.dwIndex
  names,      \* id.aszName
  uid,        \* s_szUid
  envi,       \* s_szEnvi
  tmx, dedi,  \* the online buttons
  tokens,     \* history: the identifiers in this section's bytes
  got         \* history: what ReadIdentifier returned for them

idTable == <<idVersion, index, names>>
track == <<uid, envi, tmx, dedi>>
vars == <<todo, section, idTable, track, tokens, got>>

Results == Strings \cup {Collection(n) : n \in Numbers}

Init ==
  /\ \E class \in Classes : todo = IdSections(class)
  /\ section = "none"
  /\ idVersion = 0 /\ index = 0 /\ names = [i \in 1..ID_DIM |-> NoName]
  /\ uid = NoName /\ envi = NoName /\ tmx = FALSE /\ dedi = FALSE
  /\ tokens = <<>> /\ got = <<>>

-----------------------------------------------------------------------------
(* Mutant: the table of names is not reset between two sections.            *)
StartSectionKeepingTable ==
  /\ section = "none" /\ todo # <<>>
  /\ section' = Head(todo) /\ todo' = Tail(todo)
  /\ tokens' = <<>> /\ got' = <<>>
  /\ UNCHANGED <<idTable, track>>

(* Every section starts with a table of its own (ResetIdentifier), or is    *)
(* not in the file.                                                         *)
StartSection ==
  /\ section = "none" /\ todo # <<>>
  /\ section' = Head(todo) /\ todo' = Tail(todo)
  /\ idVersion' = 0 /\ index' = 0 /\ names' = [i \in 1..ID_DIM |-> NoName]
  /\ tokens' = <<>> /\ got' = <<>>
  /\ UNCHANGED track

LeaveSection ==
  /\ section' = "none"
  /\ UNCHANGED <<todo, idTable, track, tokens, got>>

EndSection == section # "none" /\ Len(got) \in Stops(section) /\ LeaveSection

(* The file ends, or an identifier's version is below 2.                    *)
SectionFails == section # "none" /\ LeaveSection

-----------------------------------------------------------------------------
(* Mutant: every section names the track.                                   *)
UseInEverySection(value, number) ==
  /\ uid' = IF Len(got) = 0 /\ value # NoName THEN value ELSE uid
  /\ IF Len(got) = 1
     THEN /\ envi' = IF value # NoName THEN value ELSE envi
          /\ tmx' = (tmx \/ envi' \in MpEnvis \cup Tm1Envis)
          /\ dedi' = (dedi \/ IF envi' \in MpEnvis THEN envi' \in Tm2Envis /\ number # 26
                                                  ELSE envi' \in Tm1Envis)
     ELSE UNCHANGED <<envi, tmx, dedi>>

(* What the caller does with the identifier: the first two of a section     *)
(* that names the track.  2020 tells Stadium by its collection number.      *)
Use(value, number) ==
  /\ uid' = IF section \in Identifying /\ Len(got) = 0 /\ value # NoName THEN value ELSE uid
  /\ IF section \in Identifying /\ Len(got) = 1
     THEN /\ envi' = IF value # NoName THEN value ELSE envi
          /\ tmx' = (tmx \/ envi' \in MpEnvis \cup Tm1Envis)
          /\ dedi' = (dedi \/ IF envi' \in MpEnvis THEN envi' \in Tm2Envis /\ number # 26
                                                  ELSE envi' \in Tm1Envis)
     ELSE UNCHANGED <<envi, tmx, dedi>>

NoNumber == 999

Returns(token, value, number) ==
  /\ Len(got) < MaxIds
  /\ \E n \in Stops(section) : Len(got) < n
  /\ tokens' = Append(tokens, token)
  /\ got' = Append(got, value)
  /\ Use(value, number)
  /\ UNCHANGED <<todo, section>>

(* The version is read until it is at least 3.                              *)
Version == idVersion' \in (IF idVersion < 3 THEN {2, 3} ELSE {idVersion})

ReadUnassigned ==
  /\ section # "none"
  /\ Version
  /\ Returns([kind |-> "unassigned"], NoName, NoNumber)
  /\ UNCHANGED <<index, names>>

ReadNumber(n) ==
  /\ section # "none"
  /\ Version
  /\ Returns([kind |-> "number", number |-> n], Collection(n), n)
  /\ UNCHANGED <<index, names>>

(* Version 2 has the string with every identifier, and keeps none.          *)
ReadUnnumbered(s) ==
  /\ section # "none"
  /\ Version /\ idVersion' = 2
  /\ Returns([kind |-> "unnumbered", string |-> s], s, NoNumber)
  /\ UNCHANGED <<index, names>>

(* A new name takes the next place of the table, if there is one.           *)
Store(s) == IF s # NoName /\ index < ID_DIM
            THEN names' = [names EXCEPT ![index + 1] = s] /\ index' = index + 1
            ELSE UNCHANGED <<index, names>>

ReadName(s) ==
  /\ section # "none"
  /\ Version /\ idVersion' >= 3
  /\ Store(s)
  /\ Returns([kind |-> "name", string |-> s], s, NoNumber)

(* The number of a name.  Numbers outside of the table stand for no name.   *)
LookUp(k) == IF k \in 1..ID_DIM THEN names[k] ELSE NoName

ReadReference(k) ==
  /\ section # "none"
  /\ Version /\ idVersion' >= 3
  /\ Returns([kind |-> "reference", index |-> k], LookUp(k), NoNumber)
  /\ UNCHANGED <<index, names>>

Next ==
  \/ StartSection \/ EndSection \/ SectionFails
  \/ ReadUnassigned
  \/ \E n \in Numbers : ReadNumber(n)
  \/ \E s \in Strings : ReadUnnumbered(s) \/ ReadName(s)
  \/ \E k \in 1..(ID_DIM + 1) : ReadReference(k)

Spec == Init /\ [][Next]_vars

-----------------------------------------------------------------------------
(* Every identifier is read as the file means it: a number of a name stands *)
(* for the name that was written at that place of the same section, however *)
(* unassigned, empty and unnumbered ones are mixed in, and for nothing when *)
(* there is no such name or the table was full.                             *)
IsName(t) == t.kind = "name" /\ t.string # NoName
NamesUpTo(i) == Cardinality({j \in 1..i : IsName(tokens[j])})
StandsFor(k, i, value) ==
  \/ /\ k <= ID_DIM
     /\ \E j \in 1..(i - 1) :
          IsName(tokens[j]) /\ NamesUpTo(j) = k /\ value = tokens[j].string
  \/ (k > ID_DIM \/ k > NamesUpTo(i - 1)) /\ value = NoName
ReadAs(i) ==
  LET t == tokens[i]
  IN  CASE t.kind = "unassigned"             -> got[i] = NoName
        [] t.kind = "number"                 -> got[i] = Collection(t.number)
        [] t.kind \in {"name", "unnumbered"} -> got[i] = t.string
        [] t.kind = "reference"              -> StandsFor(t.index, i, got[i])
ReadAsMeant == \A i \in DOMAIN got : ReadAs(i)

(* An enabled IDC_TMX leads somewhere: a whole name of an environment that  *)
(* enables it is one that DumpTmx has an exchange for.                      *)
ButtonsLeadSomewhere == tmx /\ envi # "Sta" => envi \in TmxServed

(* In the dialog a file's identifiers are read in one step, when the        *)
(* section that names the track is over: the mapping to Viewer, for a map   *)
(* or a replay that is dumped alone.                                        *)
Named == section \notin Identifying /\ \A i \in 1..Len(todo) : todo[i] \notin Identifying

EnviClass(name, recorded) ==
  CASE name = NoName                     -> "none"
    [] name = "Stadium"                  -> IF recorded THEN "Stadium" ELSE "Stadium2020"
    [] name \in Tm2Envis \ {"Stadium"}   -> "Tm2"
    [] name \in MpEnvis \ Tm2Envis       -> "Mp"
    [] name \in Tm1Envis \ Tm2Envis      -> "Tm1"
    [] OTHER                             -> "Unlisted"

Dialog(media) == INSTANCE Viewer WITH
  MAX_FILES <- 1, MaxDrop <- 0, MaxDumps <- 1, MaxPosted <- 0, MaxDepth <- 1,
  mode <- "running", queue <- <<>>, offered <- 1, bAboutBox <- FALSE,
  depth <- 1,
  stack <- [i \in 1..1 |->
              [kind |-> "batch",
               pc   |-> IF ~Named THEN "ids" ELSE IF media = "map" THEN "image" ELSE "next",
               left |-> 0, dump |-> 1, media |-> media]],
  latest <- 1,
  uidOf  <- IF Named /\ uid # NoName THEN 1 ELSE 0,
  enviOf <- IF Named /\ envi # NoName THEN 1 ELSE 0,
  envi   <- IF Named THEN EnviClass(envi, dedi) ELSE "none",
  tmx <- Named /\ tmx, dedi <- Named /\ dedi,
  thumbOf <- 0, bitmapOf <- 0, titleOf <- 0, jmpOf <- 0, boxed <- FALSE,
  overtaken <- FALSE

(* Whatever a header contains and wherever it breaks off, for the dialog    *)
(* its identifiers are what Viewer says: the UID, the environment and both  *)
(* buttons change together and once, the buttons by the environment's       *)
(* class, and nothing behind the naming section changes them.               *)
StepsInDialog ==
  \A media \in {"map", "replay"} :
    UNCHANGED Dialog(media)!vars \/ Dialog(media)!Next
IdsAsInDialog == [][StepsInDialog]_vars
=============================================================================
