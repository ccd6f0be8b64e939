--------------------------- MODULE ContentsProofs ---------------------------
(***************************************************************************)
(* Proofs about what the contents of a header are read as (Identifiers,    *)
(* RefTable, Strings), each a part of its own.                             *)
(***************************************************************************)
EXTENDS Identifiers, RefTable, Strings, Induction,
        SequenceTheorems, FiniteSetTheorems, TLAPS

-----------------------------------------------------------------------------
(* Identifiers: whatever strings and numbers are in a file, an identifier   *)
(* is read as it was meant, and an enabled IDC_TMX leads to an exchange.    *)
(* The button is enabled by the name of the environment at one moment, and  *)
(* s_szEnvi may be written again; it is not, because a class has at most    *)
(* one section that names the track, and this section reads the             *)
(* environment once.                                                        *)
SectionNames == {"TmDesc", "Common", "VskDesc", "ReplayVersion", "CollectorDesc", "OldDesc",
                 "CollectionDesc"}

TablesInv ==
  /\ todo \in Seq(SectionNames) /\ got \in Seq(Results)
  /\ names \in [1..ID_DIM -> Strings] /\ index \in Nat

(* The section that names the track comes once, and the environment is its  *)
(* second identifier.                                                       *)
OnceInv ==
  /\ section \in Identifying \/ tmx = TRUE => \A i \in 1..Len(todo) : todo[i] \notin Identifying
  /\ \A i, j \in 1..Len(todo) : todo[i] \in Identifying /\ todo[j] \in Identifying => i = j
  /\ section \in Identifying /\ tmx = TRUE => Len(got) >= 2
  /\ tmx = TRUE => envi \in MpEnvis \cup Tm1Envis
  /\ tmx \in BOOLEAN

IInv == TablesInv /\ OnceInv

-----------------------------------------------------------------------------
(* The sections of the classes.                                             *)
LEMMA ClassSections ==
  ASSUME NEW class \in AllClasses
  PROVE  /\ IdSections(class) \in Seq(SectionNames)
         /\ \A i, j \in 1..Len(IdSections(class)) :
              IdSections(class)[i] \in Identifying /\ IdSections(class)[j] \in Identifying => i = j
<1>1. CASE class = "Challenge"
  <2>1. IdSections(class) = <<"TmDesc", "Common", "VskDesc">>
    BY <1>1 DEF IdSections
  <2> QED
    BY <2>1 DEF SectionNames, Identifying
<1>2. CASE class = "Replay"
  <2>1. IdSections(class) = <<"ReplayVersion">>
    BY <1>2 DEF IdSections
  <2> QED
    BY <2>1 DEF SectionNames, Identifying
<1>3. CASE class = "Collector"
  <2>1. IdSections(class) = <<"CollectorDesc">>
    BY <1>3 DEF IdSections
  <2> QED
    BY <2>1 DEF SectionNames, Identifying
<1>4. CASE class = "Collection"
  <2>1. IdSections(class) = <<"OldDesc", "CollectionDesc">>
    BY <1>4 DEF IdSections
  <2> QED
    BY <2>1 DEF SectionNames, Identifying
<1> QED
  BY <1>1, <1>2, <1>3, <1>4 DEF AllClasses

LEMMA IdentifiersInit == Init => IInv
<1> SUFFICES ASSUME Init PROVE IInv
  OBVIOUS
<1>1. PICK class \in AllClasses : todo = IdSections(class)
  BY ClassAssumption DEF Init
<1>2. got = <<>> /\ names = [i \in 1..ID_DIM |-> NoName] /\ index = 0 /\ section = "none" /\ tmx = FALSE
  BY DEF Init
<1>3. TablesInv
  BY <1>1, <1>2, ClassSections, StringAssumption, EmptySeq DEF TablesInv
<1>4. OnceInv
  BY <1>1, <1>2, ClassSections DEF OnceInv, Identifying
<1> QED
  BY <1>3, <1>4 DEF IInv

-----------------------------------------------------------------------------
(* The next section leaves the rest of the sections.                        *)
LEMMA RestOfSections ==
  ASSUME todo \in Seq(SectionNames), todo # <<>>
  PROVE  /\ Len(todo) \in Nat \ {0} /\ Head(todo) = todo[1] /\ Tail(todo) \in Seq(SectionNames)
         /\ Len(Tail(todo)) = Len(todo) - 1
         /\ \A i \in 1..(Len(todo) - 1) : Tail(todo)[i] = todo[i + 1]
<1>1. Len(todo) \in Nat \ {0} /\ Head(todo) = todo[1]
  BY EmptySeq
<1> QED
  BY <1>1, HeadTailProperties

LEMMA StartStep ==
  ASSUME IInv, StartSection
  PROVE  IInv'
<1>1. /\ todo \in Seq(SectionNames) /\ todo # <<>> /\ section' = Head(todo) /\ todo' = Tail(todo)
      /\ got' = <<>> /\ names' = [i \in 1..ID_DIM |-> NoName] /\ index' = 0
      /\ UNCHANGED <<envi, tmx>>
  BY DEF IInv, TablesInv, StartSection, track
<1>2. TablesInv'
  BY <1>1, RestOfSections, StringAssumption, EmptySeq DEF TablesInv
<1>3. /\ Len(todo) \in Nat \ {0} /\ section' = todo[1] /\ Len(todo') = Len(todo) - 1
      /\ \A i \in 1..(Len(todo) - 1) : todo'[i] = todo[i + 1]
  BY <1>1, RestOfSections
<1>4. /\ tmx = TRUE => \A i \in 1..Len(todo) : todo[i] \notin Identifying
      /\ \A i, j \in 1..Len(todo) : todo[i] \in Identifying /\ todo[j] \in Identifying => i = j
      /\ tmx = TRUE => envi \in MpEnvis \cup Tm1Envis
      /\ tmx \in BOOLEAN
  BY DEF IInv, OnceInv
<1>5. /\ 1 \in 1..Len(todo)
      /\ \A i \in 1..(Len(todo) - 1) : i + 1 \in 1..Len(todo) /\ i + 1 # 1
      /\ \A i, j \in 1..(Len(todo) - 1) : i + 1 = j + 1 => i = j
  BY <1>3
<1>6. section' \in Identifying \/ tmx' = TRUE => \A i \in 1..Len(todo') : todo'[i] \notin Identifying
  <2> SUFFICES ASSUME NEW i \in 1..(Len(todo) - 1), todo[i + 1] \in Identifying
               PROVE  section' \notin Identifying /\ tmx' # TRUE
    BY <1>3
  <2>1. i + 1 \in 1..Len(todo) /\ 1 \in 1..Len(todo) /\ i + 1 # 1
    BY <1>5
  <2>2. todo[1] \notin Identifying
    BY <1>4, <2>1
  <2>3. tmx # TRUE
    BY <1>4, <2>1
  <2> QED
    BY <1>1, <1>3, <2>2, <2>3
<1>7. \A i, j \in 1..Len(todo') : todo'[i] \in Identifying /\ todo'[j] \in Identifying => i = j
  <2> SUFFICES ASSUME NEW i \in 1..(Len(todo) - 1), NEW j \in 1..(Len(todo) - 1),
                      todo[i + 1] \in Identifying, todo[j + 1] \in Identifying
               PROVE  i = j
    BY <1>3
  <2>1. i + 1 = j + 1
    BY <1>4, <1>5
  <2> QED
    BY <1>5, <2>1
<1>8. section' \in Identifying /\ tmx' = TRUE => Len(got') >= 2
  BY <1>1, <1>3, <1>4, <1>5
<1>9. OnceInv'
  BY <1>1, <1>4, <1>6, <1>7, <1>8 DEF OnceInv
<1> QED
  BY <1>2, <1>9 DEF IInv

LEMMA LeaveStep ==
  ASSUME IInv, LeaveSection
  PROVE  IInv'
BY DEF IInv, TablesInv, OnceInv, LeaveSection, idTable, track, Identifying

(* An identifier that was read.                                             *)
LEMMA ReturnStep ==
  ASSUME IInv, NEW token, NEW value \in Results, NEW number, Returns(token, value, number),
         names' \in [1..ID_DIM -> Strings], index' \in Nat
  PROVE  IInv'
<1>1. /\ todo \in Seq(SectionNames) /\ got \in Seq(Results) /\ UNCHANGED <<todo, section>>
      /\ got' = Append(got, value)
  BY DEF IInv, TablesInv, Returns
<1>2. got' \in Seq(Results) /\ Len(got') = Len(got) + 1 /\ Len(got) \in Nat
  <2>1. value \in Results /\ got \in Seq(Results)
    BY <1>1
  <2>2. Append(got, value) \in Seq(Results) /\ Len(Append(got, value)) = Len(got) + 1
    BY ONLY <2>1, AppendProperties
  <2>3. Len(got) \in Nat
    BY ONLY <2>1, LenProperties
  <2> QED
    BY <1>1, <2>2, <2>3
<1>3. TablesInv'
  BY <1>1, <1>2 DEF TablesInv
<1>4. CASE section \in Identifying /\ Len(got) = 1
  <2>1. tmx = FALSE
    BY <1>4 DEF IInv, OnceInv
  <2>2. tmx' = (tmx \/ envi' \in MpEnvis \cup Tm1Envis)
    BY <1>4 DEF Returns, Use
  <2>3. tmx' = TRUE => envi' \in MpEnvis \cup Tm1Envis
    BY <2>1, <2>2
  <2>4. tmx' \in BOOLEAN
    BY <2>2
  <2> QED
    BY <1>1, <1>2, <1>3, <1>4, <2>3, <2>4 DEF IInv, OnceInv
<1>5. CASE ~(section \in Identifying /\ Len(got) = 1)
  <2>1. UNCHANGED <<envi, tmx>>
    BY <1>5 DEF Returns, Use
  <2> QED
    BY <1>1, <1>2, <1>3, <1>5, <2>1 DEF IInv, OnceInv
<1> QED
  BY <1>4, <1>5

LEMMA StoreType ==
  ASSUME names \in [1..ID_DIM -> Strings], index \in Nat, NEW s \in Strings, Store(s)
  PROVE  names' \in [1..ID_DIM -> Strings] /\ index' \in Nat
<1>1. CASE s # NoName /\ index < ID_DIM
  <2>1. names' = [names EXCEPT ![index + 1] = s] /\ index' = index + 1
    BY <1>1 DEF Store
  <2>2. \A D, S : \A f \in [D -> S], v \in S : \A k : [f EXCEPT ![k] = v] \in [D -> S]
    OBVIOUS
  <2>3. names' \in [1..ID_DIM -> Strings]
    BY <2>1, <2>2, Zenon
  <2> QED
    BY <2>1, <2>3
<1>2. CASE ~(s # NoName /\ index < ID_DIM)
  BY <1>2 DEF Store
<1> QED
  BY <1>1, <1>2

LEMMA IdentifiersStep ==
  ASSUME IInv, [Next]_vars
  PROVE  IInv'
<1>1. names \in [1..ID_DIM -> Strings] /\ index \in Nat /\ NoName \in Results /\ Strings \subseteq Results
  BY StringAssumption DEF IInv, TablesInv, Results
<1>2. ASSUME EndSection \/ SectionFails PROVE IInv'
  BY <1>2, LeaveStep DEF EndSection, SectionFails
<1>3. ASSUME ReadUnassigned PROVE IInv'
  BY <1>1, <1>3, ReturnStep DEF ReadUnassigned
<1>4. ASSUME NEW n \in Numbers, ReadNumber(n) PROVE IInv'
  <2>1. Collection(n) \in Results
    BY DEF Results
  <2> QED
    BY <1>1, <1>4, <2>1, ReturnStep DEF ReadNumber
<1>5. ASSUME NEW s \in Strings, ReadUnnumbered(s) PROVE IInv'
  BY <1>1, <1>5, ReturnStep DEF ReadUnnumbered
<1>6. ASSUME NEW s \in Strings, ReadName(s) PROVE IInv'
  <2>1. names' \in [1..ID_DIM -> Strings] /\ index' \in Nat
    BY <1>1, <1>6, StoreType DEF ReadName
  <2> QED
    BY <1>1, <1>6, <2>1, ReturnStep DEF ReadName
<1>7. ASSUME NEW k, ReadReference(k) PROVE IInv'
  <2>1. LookUp(k) \in Results
    BY <1>1 DEF LookUp
  <2> QED
    BY <1>1, <1>7, <2>1, ReturnStep DEF ReadReference
<1>8. ASSUME UNCHANGED vars PROVE IInv'
  BY <1>8 DEF vars, idTable, track, IInv, TablesInv, OnceInv
<1> QED
  BY <1>2, <1>3, <1>4, <1>5, <1>6, <1>7, <1>8, StartStep DEF Next

(* Whatever a file contains, an enabled IDC_TMX leads to an exchange.       *)
THEOREM ButtonsAlwaysLeadSomewhere == Spec => []ButtonsLeadSomewhere
<1>1. IInv /\ [Next]_vars => IInv'
  BY IdentifiersStep
<1>2. IInv => ButtonsLeadSomewhere
  <2>1. \A name \in MpEnvis \cup Tm1Envis : name # "Sta" => name \in TmxServed
    BY DEF MpEnvis, Tm1Envis, TmxServed
  <2> QED
    BY <2>1 DEF IInv, OnceInv, ButtonsLeadSomewhere
<1> QED
  BY IdentifiersInit, <1>1, <1>2, PTL DEF Spec

-----------------------------------------------------------------------------
(* The dialog.                                                              *)
(* Both buttons are always those of the environment's class, and nothing is *)
(* known of it before the section that names the track has read it.         *)
Served   == MpEnvis \cup Tm1Envis
Recorded == (Tm2Envis \cup Tm1Envis) \ {"Stadium"}
Fit(name, served, recorded) ==
  /\ served \in BOOLEAN /\ recorded \in BOOLEAN
  /\ served = TRUE <=> name \in Served
  /\ name # "Stadium" => (recorded = TRUE <=> name \in Recorded)
ButtonsInv ==
  /\ Fit(envi, tmx, dedi)
  /\ ~Named /\ (section \in Identifying => Len(got) < 2) =>
       envi = NoName /\ tmx = FALSE /\ dedi = FALSE

LEMMA ButtonsOfClass ==
  ASSUME NEW media, NEW name, NEW served, NEW recorded, Fit(name, served, recorded)
  PROVE  /\ EnviClass(name, recorded) \in Dialog(media)!Envis \cup {"none"}
         /\ EnviClass(name, recorded) = "none" <=> name = NoName
         /\ EnviClass(name, recorded) \in Dialog(media)!TmxEnvis <=> served = TRUE
         /\ EnviClass(name, recorded) \in Dialog(media)!DediEnvis <=> recorded = TRUE
<1> USE DEF Dialog!Envis, Dialog!TmxEnvis, Dialog!DediEnvis
<1>1. CASE name = NoName
  <2>1. EnviClass(name, recorded) = "none"
    BY <1>1 DEF EnviClass, NoName, MpEnvis, Tm2Envis, Tm1Envis
  <2>2. name \notin Served /\ name \notin Recorded /\ name # "Stadium"
    BY <1>1 DEF NoName, Served, Recorded, MpEnvis, Tm2Envis, Tm1Envis
  <2> QED
    BY <1>1, <2>1, <2>2 DEF Fit
<1>2. CASE name = "Stadium"
  <2>1. EnviClass(name, recorded) = IF recorded THEN "Stadium" ELSE "Stadium2020"
    BY <1>2 DEF EnviClass, NoName, MpEnvis, Tm2Envis, Tm1Envis
  <2>2. name \in Served /\ name # NoName
    BY <1>2 DEF NoName, Served, MpEnvis
  <2> QED
    BY <1>2, <2>1, <2>2 DEF Fit
<1>3. CASE name \in Tm2Envis \ {"Stadium"}
  <2>1. EnviClass(name, recorded) = "Tm2"
    BY <1>3 DEF EnviClass, NoName, MpEnvis, Tm2Envis, Tm1Envis
  <2>2. name \in Served /\ name \in Recorded /\ name # NoName
    BY <1>3 DEF NoName, Served, Recorded, MpEnvis, Tm2Envis
  <2> QED
    BY <1>3, <2>1, <2>2 DEF Fit
<1>4. CASE name \in MpEnvis \ Tm2Envis
  <2>1. EnviClass(name, recorded) = "Mp"
    BY <1>4 DEF EnviClass, NoName, MpEnvis, Tm2Envis, Tm1Envis
  <2>2. name \in Served /\ name \notin Recorded /\ name # NoName /\ name # "Stadium"
    BY <1>4 DEF NoName, Served, Recorded, MpEnvis, Tm2Envis, Tm1Envis
  <2> QED
    BY <2>1, <2>2 DEF Fit
<1>5. CASE name \in Tm1Envis \ Tm2Envis
  <2>1. EnviClass(name, recorded) = "Tm1"
    BY <1>5 DEF EnviClass, NoName, MpEnvis, Tm2Envis, Tm1Envis
  <2>2. name \in Served /\ name \in Recorded /\ name # NoName /\ name # "Stadium"
    BY <1>5 DEF NoName, Served, Recorded, Tm2Envis, Tm1Envis
  <2> QED
    BY <2>1, <2>2 DEF Fit
<1>6. CASE name # NoName /\ name # "Stadium" /\ name \notin Tm2Envis \cup MpEnvis \cup Tm1Envis
  <2>1. EnviClass(name, recorded) = "Unlisted"
    BY <1>6 DEF EnviClass
  <2>2. name \notin Served /\ name \notin Recorded
    BY <1>6 DEF Served, Recorded
  <2> QED
    BY <1>6, <2>1, <2>2 DEF Fit
<1> QED
  BY <1>1, <1>2, <1>3, <1>4, <1>5, <1>6

(* Which sections are still to come.                                        *)
LEMMA NamedByStart ==
  ASSUME IInv, StartSection
  PROVE  section = "none" /\ (Named' <=> Named)
<1>1. /\ todo \in Seq(SectionNames) /\ todo # <<>> /\ section' = Head(todo) /\ todo' = Tail(todo)
      /\ section = "none"
  BY DEF IInv, TablesInv, StartSection
<1>2. /\ Len(todo) \in Nat \ {0} /\ section' = todo[1] /\ Len(todo') = Len(todo) - 1
      /\ \A i \in 1..(Len(todo) - 1) : todo'[i] = todo[i + 1]
  BY <1>1, RestOfSections
<1>3. ASSUME Named PROVE Named'
  <2>1. 1 \in 1..Len(todo) /\ \A i \in 1..(Len(todo) - 1) : i + 1 \in 1..Len(todo)
    BY <1>2
  <2> QED
    BY <1>2, <1>3, <2>1 DEF Named
<1>4. ASSUME Named' PROVE Named
  <2> SUFFICES ASSUME NEW i \in 1..Len(todo) PROVE todo[i] \notin Identifying
    BY <1>1 DEF Named, Identifying
  <2>1. CASE i = 1
    BY <1>2, <1>4, <2>1 DEF Named
  <2>2. CASE i # 1
    <3>1. i - 1 \in 1..(Len(todo) - 1) /\ (i - 1) + 1 = i
      BY <1>2, <2>2
    <3> QED
      BY <1>2, <1>4, <3>1 DEF Named
  <2> QED
    BY <2>1, <2>2
<1> QED
  BY <1>1, <1>3, <1>4

LEMMA NamedByLeave ==
  ASSUME IInv, LeaveSection
  PROVE  Named' <=> Named \/ section \in Identifying
BY DEF IInv, OnceInv, LeaveSection, Named, Identifying

-----------------------------------------------------------------------------
LEMMA ButtonsInit == Init => ButtonsInv
<1> SUFFICES ASSUME Init PROVE ButtonsInv
  OBVIOUS
<1>1. envi = NoName /\ tmx = FALSE /\ dedi = FALSE
  BY DEF Init
<1>2. NoName \notin Served /\ NoName \notin Recorded
  BY DEF NoName, Served, Recorded, MpEnvis, Tm2Envis, Tm1Envis
<1> QED
  BY <1>1, <1>2 DEF ButtonsInv, Fit

LEMMA ButtonsByReturn ==
  ASSUME IInv, ButtonsInv, NEW token, NEW value, NEW number, Returns(token, value, number),
         number = 26 => value = "Stadium"
  PROVE  ButtonsInv' /\ (Named' <=> Named) /\ (Named => UNCHANGED track)
<1>1. UNCHANGED <<todo, section>> /\ got' = Append(got, value) /\ got \in Seq(Results)
  BY DEF Returns, IInv, TablesInv
<1>2. Len(got') = Len(got) + 1 /\ Len(got) \in Nat
  BY <1>1
<1>3. Named' <=> Named
  BY <1>1 DEF Named
<1>4. CASE section \in Identifying /\ Len(got) = 1
  <2>1. ~Named /\ envi = NoName /\ tmx = FALSE /\ dedi = FALSE
    BY <1>4 DEF ButtonsInv, Fit, Named
  <2>2. /\ envi' = IF value # NoName THEN value ELSE NoName
        /\ tmx' = (tmx \/ envi' \in Served)
        /\ dedi' = (dedi \/ IF envi' \in MpEnvis THEN envi' \in Tm2Envis /\ number # 26
                                                 ELSE envi' \in Tm1Envis)
    BY <1>4, <2>1 DEF Returns, Use, Served
  <2>3. number = 26 => envi' = "Stadium"
    BY <2>2 DEF NoName
  <2>4. envi' # "Stadium" => (dedi' = TRUE <=> envi' \in Recorded)
    <3>1. CASE envi' \in MpEnvis
      <4>1. envi' # "Stadium" => (envi' \in Tm2Envis <=> envi' \in Recorded)
        BY <3>1 DEF Recorded, MpEnvis, Tm2Envis, Tm1Envis
      <4> QED
        BY <2>1, <2>2, <2>3, <3>1, <4>1
    <3>2. CASE envi' \notin MpEnvis
      <4>1. envi' # "Stadium" => (envi' \in Tm1Envis <=> envi' \in Recorded)
        BY <3>2 DEF Recorded, MpEnvis, Tm2Envis, Tm1Envis
      <4> QED
        BY <2>1, <2>2, <3>2, <4>1
    <3> QED
      BY <3>1, <3>2
  <2>5. tmx' \in BOOLEAN /\ dedi' \in BOOLEAN /\ (tmx' = TRUE <=> envi' \in Served)
    <3>1. tmx' \in BOOLEAN /\ dedi' \in BOOLEAN
      BY <2>2
    <3>2. tmx' = TRUE <=> envi' \in Served
      BY <2>1, <2>2
    <3> QED
      BY <3>1, <3>2
  <2>6. section' \in Identifying /\ ~(Len(got') < 2)
    BY <1>1, <1>2, <1>4
  <2>7. Fit(envi', tmx', dedi')
    BY <2>4, <2>5 DEF Fit
  <2>8. ButtonsInv'
    BY <2>6, <2>7 DEF ButtonsInv
  <2> QED
    BY <1>3, <2>1, <2>8
<1>5. CASE ~(section \in Identifying /\ Len(got) = 1)
  <2>1. UNCHANGED <<envi, tmx, dedi>>
    BY <1>5 DEF Returns, Use
  <2>2. Named => UNCHANGED uid
    BY DEF Returns, Use, Named
  <2>3. ~Named /\ (section' \in Identifying => Len(got') < 2) =>
          ~Named /\ (section \in Identifying => Len(got) < 2)
    BY <1>1, <1>2
  <2> QED
    BY <1>1, <1>3, <2>1, <2>2, <2>3 DEF ButtonsInv, Fit, track
<1> QED
  BY <1>4, <1>5

(* Every identifier that is read, whichever way.                            *)
LEMMA SomeReturn ==
  ASSUME \/ ReadUnassigned
         \/ \E n \in Numbers : ReadNumber(n)
         \/ \E s \in Strings : ReadUnnumbered(s) \/ ReadName(s)
         \/ \E k \in 1..(ID_DIM + 1) : ReadReference(k)
  PROVE  \E token, value, number :
           Returns(token, value, number) /\ (number = 26 => value = "Stadium")
<1>1. NoNumber # 26
  BY DEF NoNumber
<1>2. CASE ReadUnassigned
  BY <1>1, <1>2 DEF ReadUnassigned
<1>3. CASE \E n \in Numbers : ReadNumber(n)
  <2>1. PICK n \in Numbers : ReadNumber(n)
    BY <1>3
  <2>2. Returns([kind |-> "number", number |-> n], Collection(n), n)
    BY <2>1 DEF ReadNumber
  <2>3. n = 26 => Collection(n) = "Stadium"
    BY DEF Collection
  <2> QED
    BY <2>2, <2>3
<1>4. CASE \E s \in Strings : ReadUnnumbered(s) \/ ReadName(s)
  <2>1. PICK s \in Strings : ReadUnnumbered(s) \/ ReadName(s)
    BY <1>4
  <2>2. \/ Returns([kind |-> "unnumbered", string |-> s], s, NoNumber)
        \/ Returns([kind |-> "name", string |-> s], s, NoNumber)
    BY <2>1 DEF ReadUnnumbered, ReadName
  <2> QED
    BY <1>1, <2>2
<1>5. CASE \E k \in 1..(ID_DIM + 1) : ReadReference(k)
  <2>1. PICK k \in 1..(ID_DIM + 1) : ReadReference(k)
    BY <1>5
  <2>2. Returns([kind |-> "reference", index |-> k], LookUp(k), NoNumber)
    BY <2>1 DEF ReadReference
  <2> QED
    BY <1>1, <2>2
<1> QED
  BY <1>2, <1>3, <1>4, <1>5

(* What a step does to the track: nothing, before the naming section is     *)
(* over and after; or this is the step that leaves it.                      *)
LEMMA ButtonsStep ==
  ASSUME IInv, ButtonsInv, [Next]_vars
  PROVE  /\ ButtonsInv'
         /\ \/ ~Named /\ ~Named'
            \/ Named /\ Named' /\ UNCHANGED track
            \/ ~Named /\ Named'
<1>1. CASE StartSection
  <2>1. section = "none" /\ (Named' <=> Named)
    BY <1>1, NamedByStart
  <2>2. UNCHANGED track
    BY <1>1 DEF StartSection
  <2>3. ~Named => envi = NoName /\ tmx = FALSE /\ dedi = FALSE
    BY <2>1 DEF ButtonsInv, Fit, Identifying
  <2> QED
    BY <2>1, <2>2, <2>3 DEF ButtonsInv, Fit, track
<1>2. CASE EndSection \/ SectionFails
  <2>1. LeaveSection
    BY <1>2 DEF EndSection, SectionFails
  <2>2. Named' <=> Named \/ section \in Identifying
    BY <2>1, NamedByLeave
  <2>3. UNCHANGED <<track, got>>
    BY <2>1 DEF LeaveSection
  <2>4. ~Named' => envi = NoName /\ tmx = FALSE /\ dedi = FALSE
    BY <2>2 DEF ButtonsInv, Fit
  <2> QED
    BY <2>2, <2>3, <2>4 DEF ButtonsInv, Fit, track
<1>3. CASE \/ ReadUnassigned
           \/ \E n \in Numbers : ReadNumber(n)
           \/ \E s \in Strings : ReadUnnumbered(s) \/ ReadName(s)
           \/ \E k \in 1..(ID_DIM + 1) : ReadReference(k)
  <2>1. PICK token, value, number :
          Returns(token, value, number) /\ (number = 26 => value = "Stadium")
    BY <1>3, SomeReturn
  <2> QED
    BY <2>1, ButtonsByReturn
<1>4. CASE UNCHANGED vars
  BY <1>4 DEF vars, track, idTable, ButtonsInv, Named
<1> QED
  BY <1>1, <1>2, <1>3, <1>4 DEF Next

LEMMA HiddenInDialog ==
  ASSUME NEW media, ~Named, ~Named'
  PROVE  UNCHANGED Dialog(media)!vars
BY DEF Dialog!vars, Dialog!frameVars, Dialog!panelVars

LEMMA ShownInDialog ==
  ASSUME NEW media, Named, Named', UNCHANGED track
  PROVE  UNCHANGED Dialog(media)!vars
BY DEF Dialog!vars, Dialog!frameVars, Dialog!panelVars, track, EnviClass

LEMMA NamingInDialog ==
  ASSUME NEW media \in {"map", "replay"}, ButtonsInv', ~Named, Named'
  PROVE  Dialog(media)!ReadIds(uid' # NoName, EnviClass(envi, dedi)')
<1>1. /\ EnviClass(envi, dedi)' = "none" <=> envi' = NoName
      /\ EnviClass(envi, dedi)' \in Dialog(media)!TmxEnvis <=> tmx' = TRUE
      /\ EnviClass(envi, dedi)' \in Dialog(media)!DediEnvis <=> dedi' = TRUE
      /\ tmx' \in BOOLEAN /\ dedi' \in BOOLEAN
  <2>1. Fit(envi', tmx', dedi')
    BY DEF ButtonsInv
  <2>2. tmx' \in BOOLEAN /\ dedi' \in BOOLEAN
    BY <2>1 DEF Fit
  <2> QED
    BY <2>1, <2>2, ButtonsOfClass
<1>2. Dialog(media)!At("ids")
  BY DEF Dialog!At, Dialog!Top
<1>3. Dialog(media)!Goto(IF Dialog(media)!Top.media = "map" THEN "image" ELSE "next")
  BY DEF Dialog!Goto, Dialog!Top
<1>4. Dialog(media)!Top.dump = 1
  BY DEF Dialog!Top
<1> QED
  BY <1>1, <1>2, <1>3, <1>4 DEF Dialog!ReadIds

LEMMA IdsDialogStep ==
  ASSUME IInv, ButtonsInv, [Next]_vars
  PROVE  StepsInDialog
<1> SUFFICES ASSUME NEW media \in {"map", "replay"}
             PROVE  [Dialog(media)!Next]_(Dialog(media)!vars)
  BY DEF StepsInDialog
<1>1. CASE ~Named /\ ~Named'
  BY <1>1, HiddenInDialog
<1>2. CASE Named /\ Named' /\ UNCHANGED track
  BY <1>2, ShownInDialog
<1>3. CASE ~Named /\ Named'
  <2>1. ButtonsInv'
    BY ButtonsStep
  <2>2. Dialog(media)!ReadIds(uid' # NoName, EnviClass(envi, dedi)')
    BY <1>3, <2>1, NamingInDialog
  <2>3. (uid' # NoName) \in BOOLEAN
    OBVIOUS
  <2>4. EnviClass(envi, dedi)' \in Dialog(media)!Envis \cup {"none"}
    <3>1. Fit(envi', tmx', dedi')
      BY <2>1 DEF ButtonsInv
    <3> QED
      BY <3>1, ButtonsOfClass
  <2> QED
    BY <2>2, <2>3, <2>4 DEF Dialog!Next, Dialog!Program
<1> QED
  BY <1>1, <1>2, <1>3, ButtonsStep

(* Whatever a header contains and wherever it breaks off, its identifiers   *)
(* are for the dialog one step of Viewer.                                   *)
THEOREM IdentifiersImplementDialog == Spec => IdsAsInDialog
<1>1. IInv /\ [Next]_vars => IInv'
  BY IdentifiersStep
<1>2. IInv /\ ButtonsInv /\ [Next]_vars => ButtonsInv' /\ StepsInDialog
  BY ButtonsStep, IdsDialogStep
<1> QED
  BY IdentifiersInit, ButtonsInit, <1>1, <1>2, PTL DEF Spec, IdsAsInDialog

-----------------------------------------------------------------------------
(* The names of a section.  The table holds the first of them, each at the  *)
(* place that is its number, and nothing behind them.                       *)
Tokens == [kind : {"unassigned"}] \cup [kind : {"number"}, number : Numbers]
          \cup [kind : {"name", "unnumbered"}, string : Strings] \cup [kind : {"reference"}, index : Nat]

NamesInv ==
  /\ tokens \in Seq(Tokens) /\ Len(tokens) = Len(got)
  /\ index <= ID_DIM /\ index <= NamesUpTo(Len(tokens))
  /\ index < ID_DIM => index = NamesUpTo(Len(tokens))
  /\ \A k \in 1..index : \E j \in 1..Len(tokens) :
       IsName(tokens[j]) /\ NamesUpTo(j) = k /\ names[k] = tokens[j].string
  /\ \A k \in 1..ID_DIM : k > index => names[k] = NoName
  /\ ReadAsMeant

(* An identifier that is appended counts if it is a name.                   *)
LEMMA CountOfNames ==
  ASSUME NEW n \in Nat
  PROVE  NamesUpTo(n) \in Nat
<1>1. IsFiniteSet(1..n)
  BY FS_Interval
<1>2. {j \in 1..n : IsName(tokens[j])} \in SUBSET (1..n)
  OBVIOUS
<1>3. IsFiniteSet({j \in 1..n : IsName(tokens[j])})
  BY <1>1, <1>2, FS_Subset
<1> QED
  BY <1>3, FS_CardinalityType DEF NamesUpTo

LEMMA AppendName ==
  ASSUME NEW n \in Nat, n = Len(tokens), tokens \in Seq(Tokens), NEW t \in Tokens,
         tokens' = Append(tokens, t)
  PROVE  /\ \A i \in 0..n : NamesUpTo(i)' = NamesUpTo(i)
         /\ IsName(t) => NamesUpTo(n + 1)' = NamesUpTo(n) + 1
         /\ ~IsName(t) => NamesUpTo(n + 1)' = NamesUpTo(n)
<1>1. \A j \in 1..n : tokens'[j] = tokens[j]
  OBVIOUS
<1>2. tokens'[n + 1] = t
  OBVIOUS
<1>3. ASSUME NEW i \in 0..n PROVE NamesUpTo(i)' = NamesUpTo(i)
  <2>1. \A j \in 1..i : tokens'[j] = tokens[j]
    BY <1>1
  <2>2. {j \in 1..i : IsName(tokens'[j])} = {j \in 1..i : IsName(tokens[j])}
    BY <2>1
  <2> QED
    BY <2>2 DEF NamesUpTo
<1> DEFINE before == {j \in 1..n : IsName(tokens[j])}
           after  == {j \in 1..(n + 1) : IsName(tokens'[j])}
<1>4. IsFiniteSet(before) /\ n + 1 \notin before
  <2>1. IsFiniteSet(1..n) /\ before \in SUBSET (1..n)
    BY FS_Interval
  <2> HIDE DEF before
  <2>2. IsFiniteSet(before)
    BY <2>1, FS_Subset
  <2> QED
    BY <2>1, <2>2
<1>5. IsName(t) => after = before \cup {n + 1}
  BY <1>1, <1>2
<1>6. ~IsName(t) => after = before
  BY <1>1, <1>2
<1>7. NamesUpTo(n + 1)' = Cardinality(after) /\ NamesUpTo(n) = Cardinality(before)
  BY DEF NamesUpTo
<1> HIDE DEF before, after
<1>8. Cardinality(before \cup {n + 1}) = Cardinality(before) + 1
  BY <1>4, FS_AddElement
<1> QED
  BY <1>3, <1>5, <1>6, <1>7, <1>8

LEMMA ReadAsStays ==
  ASSUME IInv, NamesInv, NEW n \in Nat, n = Len(tokens), NEW t \in Tokens, NEW v,
         tokens' = Append(tokens, t), got' = Append(got, v),
         \A i \in 0..n : NamesUpTo(i)' = NamesUpTo(i)
  PROVE  \A i \in 1..n : ReadAs(i)'
<1> SUFFICES ASSUME NEW i \in 1..n PROVE ReadAs(i)'
  OBVIOUS
<1>a. tokens \in Seq(Tokens) /\ got \in Seq(Results) /\ Len(got) = n
  BY DEF NamesInv, IInv, TablesInv
<1>b. i \in DOMAIN got
  BY <1>a, LenProperties
<1>1. /\ tokens \in Seq(Tokens) /\ got \in Seq(Results) /\ Len(got) = n
      /\ ReadAs(i) /\ i \in DOMAIN got
  BY <1>a, <1>b DEF NamesInv, ReadAsMeant
<1>2. got'[i] = got[i] /\ \A j \in 1..i : tokens'[j] = tokens[j]
  BY <1>1
<1>3. ASSUME NEW k, StandsFor(k, i, got[i]) PROVE StandsFor(k, i, got[i])'
  <2>1. (NamesUpTo(i - 1))' = NamesUpTo(i - 1)
    OBVIOUS
  <2>2. \A j \in 1..(i - 1) : tokens'[j] = tokens[j] /\ NamesUpTo(j)' = NamesUpTo(j)
    BY <1>2
  <2> QED
    BY <1>2, <1>3, <2>1, <2>2 DEF StandsFor
<1>4. tokens'[i] = tokens[i] /\ tokens[i] \in Tokens
  BY <1>1, <1>2
<1>5. CASE tokens[i].kind = "reference"
  <2>1. StandsFor(tokens[i].index, i, got[i])
    BY <1>1, <1>5 DEF ReadAs
  <2>2. PICK k : k = tokens[i].index
    OBVIOUS
  <2>3. StandsFor(k, i, got[i])'
    BY <1>3, <2>1, <2>2
  <2> QED
    BY <1>4, <1>5, <2>2, <2>3 DEF ReadAs
<1>6. CASE tokens[i].kind # "reference"
  BY <1>1, <1>2, <1>4, <1>6 DEF ReadAs, Tokens
<1> QED
  BY <1>5, <1>6

(* What the actions do with the table, and what they return.                *)
Stores(t) == IF t.kind = "name" THEN Store(t.string) ELSE UNCHANGED <<index, names>>
Yields(t, v) ==
  /\ t.kind = "unassigned" => v = NoName
  /\ t.kind = "number" => v = Collection(t.number)
  /\ t.kind \in {"name", "unnumbered"} => v = t.string
  /\ t.kind = "reference" => t.index > 0 /\ v = LookUp(t.index)

LEMMA TokenStep ==
  ASSUME IInv, NamesInv, NEW t \in Tokens, NEW v \in Results, NEW number, Returns(t, v, number),
         Stores(t), Yields(t, v)
  PROVE  NamesInv'
<1>1. PICK n \in Nat : n = Len(tokens)
  <2>1. tokens \in Seq(Tokens)
    BY DEF NamesInv
  <2> QED
    BY <2>1, LenProperties
<1>2. /\ tokens' = Append(tokens, t) /\ got' = Append(got, v)
      /\ tokens \in Seq(Tokens) /\ got \in Seq(Results) /\ Len(got) = n
      /\ names \in [1..ID_DIM -> Strings] /\ index \in Nat /\ ID_DIM \in Nat
      /\ index <= ID_DIM /\ index <= NamesUpTo(n) /\ NamesUpTo(n) \in Nat
      /\ index < ID_DIM => index = NamesUpTo(n)
  BY <1>1, CountOfNames, TableAssumption DEF Returns, NamesInv, IInv, TablesInv
<1>3. /\ \A i \in 0..n : NamesUpTo(i)' = NamesUpTo(i)
      /\ IsName(t) => NamesUpTo(n + 1)' = NamesUpTo(n) + 1
      /\ ~IsName(t) => NamesUpTo(n + 1)' = NamesUpTo(n)
  BY <1>1, <1>2, AppendName
<1>4. /\ Len(tokens') = n + 1 /\ tokens' \in Seq(Tokens) /\ Len(got') = n + 1
      /\ DOMAIN got' = 1..(n + 1) /\ got'[n + 1] = v /\ tokens'[n + 1] = t
      /\ \A i \in 1..n : tokens'[i] = tokens[i]
  <2>1. t \in Tokens /\ v \in Results
    OBVIOUS
  <2>2. /\ tokens' \in Seq(Tokens) /\ Len(tokens') = n + 1 /\ tokens'[n + 1] = t
        /\ \A i \in 1..n : tokens'[i] = tokens[i]
    BY ONLY <1>1, <1>2, <2>1, AppendProperties
  <2>3. got' \in Seq(Results) /\ Len(got') = n + 1 /\ got'[n + 1] = v
    BY ONLY <1>1, <1>2, <2>1, AppendProperties
  <2>4. DOMAIN got' = 1..(n + 1)
    BY ONLY <2>3, LenProperties
  <2> QED
    BY <2>2, <2>3, <2>4
<1>5. \A k \in 1..index : \E j \in 1..n :
        IsName(tokens[j]) /\ NamesUpTo(j) = k /\ names[k] = tokens[j].string
  BY <1>1 DEF NamesInv
<1>6. \A k \in 1..ID_DIM : k > index => names[k] = NoName
  BY DEF NamesInv
<1>7. \A k \in 1..index : \E j \in 1..n :
        IsName(tokens'[j]) /\ NamesUpTo(j)' = k /\ names[k] = tokens'[j].string
  <2> TAKE k \in 1..index
  <2>1. PICK j \in 1..n : IsName(tokens[j]) /\ NamesUpTo(j) = k /\ names[k] = tokens[j].string
    BY <1>5
  <2>2. NamesUpTo(j)' = NamesUpTo(j) /\ tokens'[j] = tokens[j]
    BY <1>3, <1>4
  <2> QED
    BY <2>1, <2>2
<1>8. NamesUpTo(Len(tokens))' = NamesUpTo(n + 1)'
  BY <1>4 DEF NamesUpTo
<1>9. ReadAs(n + 1)'
  <2>1. CASE t.kind # "reference"
    BY <1>4, <2>1 DEF ReadAs, Tokens, Yields
  <2>2. CASE t.kind = "reference"
    <3>1. PICK k \in Nat \ {0} : k = t.index /\ v = LookUp(k)
      BY <2>2 DEF Tokens, Yields
    <3>2. (n + 1) - 1 = n /\ NamesUpTo((n + 1) - 1)' = NamesUpTo(n)
      BY <1>3
    <3>3. CASE k <= index
      <4>1. PICK j \in 1..n : IsName(tokens'[j]) /\ NamesUpTo(j)' = k /\ names[k] = tokens'[j].string
        BY <1>7, <3>3
      <4>2. k <= ID_DIM /\ v = names[k] /\ j \in 1..((n + 1) - 1)
        <5>1. k \in 1..ID_DIM
          BY <1>2, <3>1, <3>3
        <5> QED
          BY <3>1, <3>2, <5>1 DEF LookUp
      <4>3. v = tokens'[j].string
        BY <4>1, <4>2
      <4>4. StandsFor(k, n + 1, v)'
        BY <4>1, <4>2, <4>3 DEF StandsFor
      <4> QED
        BY <1>4, <2>2, <3>1, <4>4 DEF ReadAs
    <3>4. CASE k > index
      <4>1. v = NoName
        BY <1>6, <3>1, <3>4 DEF LookUp
      <4>2. k > ID_DIM \/ k > NamesUpTo((n + 1) - 1)'
        BY <1>2, <3>1, <3>2, <3>4
      <4>3. StandsFor(k, n + 1, v)'
        BY <4>1, <4>2 DEF StandsFor
      <4> QED
        BY <1>4, <2>2, <3>1, <4>3 DEF ReadAs
    <3> QED
      BY <1>2, <3>1, <3>3, <3>4
  <2> QED
    BY <2>1, <2>2
<1>10. ReadAsMeant'
  <2>1. \A i \in 1..n : ReadAs(i)'
    BY <1>1, <1>2, <1>3, ReadAsStays
  <2>2. \A i \in 1..(n + 1) : i \in 1..n \/ i = n + 1
    OBVIOUS
  <2>3. \A i \in 1..(n + 1) : ReadAs(i)'
    BY <1>9, <2>1, <2>2
  <2> QED
    BY <1>4, <2>3 DEF ReadAsMeant
<1>11. CASE UNCHANGED <<index, names>> /\ (IsName(t) => index = ID_DIM)
  <2>1. /\ index' <= ID_DIM /\ index' <= NamesUpTo(Len(tokens))'
        /\ index' < ID_DIM => index' = NamesUpTo(Len(tokens))'
    BY <1>2, <1>3, <1>8, <1>11
  <2>2. \A k \in 1..index' : \E j \in 1..Len(tokens') :
          IsName(tokens'[j]) /\ NamesUpTo(j)' = k /\ names'[k] = tokens'[j].string
    <3> TAKE k \in 1..index'
    <3>1. PICK j \in 1..n : IsName(tokens'[j]) /\ NamesUpTo(j)' = k /\ names[k] = tokens'[j].string
      BY <1>7, <1>11
    <3>2. j \in 1..Len(tokens')
      BY <1>4
    <3> QED
      BY <1>11, <3>1, <3>2
  <2> QED
    BY <1>4, <1>6, <1>10, <1>11, <2>1, <2>2 DEF NamesInv
<1>12. CASE /\ IsName(t) /\ index < ID_DIM
            /\ names' = [names EXCEPT ![index + 1] = t.string] /\ index' = index + 1
  <2>1. /\ index' <= ID_DIM /\ index' <= NamesUpTo(Len(tokens))'
        /\ index' < ID_DIM => index' = NamesUpTo(Len(tokens))'
    BY <1>2, <1>3, <1>8, <1>12
  <2>2. \A k \in 1..ID_DIM : names'[k] = IF k = index + 1 THEN t.string ELSE names[k]
    BY <1>2, <1>12
  <2>3. \A k \in 1..index' : \E j \in 1..Len(tokens') :
          IsName(tokens'[j]) /\ NamesUpTo(j)' = k /\ names'[k] = tokens'[j].string
    <3> TAKE k \in 1..index'
    <3>1. CASE k = index + 1
      <4>1. names'[k] = t.string
        BY <1>2, <1>12, <2>2, <3>1
      <4>2. NamesUpTo(n + 1)' = k
        BY <1>2, <1>3, <1>12, <3>1
      <4>3. PICK j \in 1..Len(tokens') : j = n + 1
        BY <1>4
      <4> QED
        BY <1>4, <1>12, <4>1, <4>2, <4>3
    <3>2. CASE k # index + 1
      <4>1. k \in 1..index /\ k \in 1..ID_DIM
        BY <1>2, <1>12, <3>2
      <4>2. PICK j \in 1..n : IsName(tokens'[j]) /\ NamesUpTo(j)' = k /\ names[k] = tokens'[j].string
        BY <1>7, <4>1
      <4>3. j \in 1..Len(tokens') /\ names'[k] = names[k]
        BY <1>4, <2>2, <3>2, <4>1
      <4> QED
        BY <4>2, <4>3
    <3> QED
      BY <3>1, <3>2
  <2>4. ASSUME NEW k \in 1..ID_DIM, k > index' PROVE names'[k] = NoName
    <3>1. k # index + 1 /\ k > index
      BY <1>2, <1>12, <2>4
    <3> QED
      BY <1>6, <2>2, <3>1
  <2> QED
    BY <1>4, <1>10, <2>1, <2>3, <2>4 DEF NamesInv
<1> QED
  <2>1. CASE t.kind = "name"
    <3>1. Store(t.string)
      BY <2>1 DEF Stores
    <3>2. CASE t.string # NoName /\ index < ID_DIM
      BY <1>12, <2>1, <3>1, <3>2 DEF Store, IsName
    <3>3. CASE ~(t.string # NoName /\ index < ID_DIM)
      <4>1. UNCHANGED <<index, names>>
        BY <3>1, <3>3 DEF Store
      <4>2. IsName(t) => index = ID_DIM
        BY <1>2, <3>3 DEF IsName
      <4> QED
        BY <1>11, <4>1, <4>2
    <3> QED
      BY <3>2, <3>3
  <2>2. CASE t.kind # "name"
    BY <1>11, <2>2 DEF Stores, IsName
  <2> QED
    BY <2>1, <2>2

LEMMA NamesStart ==
  ASSUME tokens' = <<>>, got' = <<>>, index' = 0, names' = [i \in 1..ID_DIM |-> NoName]
  PROVE  NamesInv'
<1>1. Len(tokens') = 0 /\ {j \in 1..0 : IsName(tokens'[j])} = {}
  <2>1. 1..0 = {}
    OBVIOUS
  <2> QED
    BY <2>1, EmptySeq
<1>2. NamesUpTo(Len(tokens))' = 0
  BY <1>1, FS_EmptySet DEF NamesUpTo
<1> QED
  <2>1. tokens' \in Seq(Tokens) /\ Len(tokens') = 0 /\ Len(got') = 0 /\ DOMAIN got' = {}
    BY EmptySeq
  <2>2. \A k \in 1..ID_DIM : names'[k] = NoName
    OBVIOUS
  <2>3. 1..0 = {} /\ 0 <= ID_DIM
    BY TableAssumption
  <2> QED
    BY <1>2, <2>1, <2>2, <2>3 DEF NamesInv, ReadAsMeant

LEMMA NamesStep ==
  ASSUME IInv, NamesInv, [Next]_vars
  PROVE  NamesInv'
<1>1. /\ NoName \in Results /\ Strings \subseteq Results /\ NoName \in Strings
      /\ names \in [1..ID_DIM -> Strings]
  BY StringAssumption DEF Results, IInv, TablesInv
<1>2. CASE StartSection
  BY <1>2, NamesStart DEF StartSection
<1>3. CASE EndSection \/ SectionFails \/ UNCHANGED vars
  <2>1. UNCHANGED <<tokens, got, index, names>>
    BY <1>3 DEF EndSection, SectionFails, LeaveSection, idTable, vars
  <2> QED
    <3>1. \A i : NamesUpTo(i)' = NamesUpTo(i) /\ ReadAs(i)' = ReadAs(i)
      BY <2>1 DEF ReadAs, StandsFor, NamesUpTo
    <3>2. NamesUpTo(Len(tokens))' = NamesUpTo(Len(tokens))
      BY <2>1 DEF NamesUpTo
    <3> QED
      BY <2>1, <3>1, <3>2 DEF NamesInv, ReadAsMeant
<1>4. CASE ReadUnassigned
  <2>1. [kind |-> "unassigned"] \in Tokens
    BY DEF Tokens
  <2>2. PICK t \in Tokens : t = [kind |-> "unassigned"]
    BY <2>1
  <2>3. Returns(t, NoName, NoNumber) /\ UNCHANGED <<index, names>> /\ t.kind = "unassigned"
    BY <1>4, <2>2 DEF ReadUnassigned
  <2> QED
    BY <1>1, <2>3, TokenStep DEF Stores, Yields
<1>5. ASSUME NEW m \in Numbers, ReadNumber(m) PROVE NamesInv'
  <2>1. [kind |-> "number", number |-> m] \in Tokens /\ Collection(m) \in Results
    BY DEF Tokens, Results
  <2>2. PICK t \in Tokens, v \in Results : t = [kind |-> "number", number |-> m] /\ v = Collection(m)
    BY <2>1
  <2>3. /\ Returns(t, v, m) /\ UNCHANGED <<index, names>>
        /\ t.kind = "number" /\ v = Collection(t.number)
    BY <1>5, <2>2 DEF ReadNumber
  <2> QED
    BY <2>3, TokenStep DEF Stores, Yields
<1>6. ASSUME NEW s \in Strings, ReadUnnumbered(s) PROVE NamesInv'
  <2>1. [kind |-> "unnumbered", string |-> s] \in Tokens
    BY DEF Tokens
  <2>2. PICK t \in Tokens : t = [kind |-> "unnumbered", string |-> s]
    BY <2>1
  <2>3. /\ Returns(t, s, NoNumber) /\ UNCHANGED <<index, names>>
        /\ t.kind = "unnumbered" /\ s = t.string
    BY <1>6, <2>2 DEF ReadUnnumbered
  <2> QED
    BY <1>1, <2>3, TokenStep DEF Stores, Yields
<1>7. ASSUME NEW s \in Strings, ReadName(s) PROVE NamesInv'
  <2>1. [kind |-> "name", string |-> s] \in Tokens
    BY DEF Tokens
  <2>2. PICK t \in Tokens : t = [kind |-> "name", string |-> s]
    BY <2>1
  <2>3. Returns(t, s, NoNumber) /\ Store(s) /\ t.kind = "name" /\ s = t.string
    BY <1>7, <2>2 DEF ReadName
  <2>4. Store(t.string)
    BY <2>3
  <2> QED
    BY <1>1, <2>3, <2>4, TokenStep DEF Stores, Yields
<1>8. ASSUME NEW k \in 1..(ID_DIM + 1), ReadReference(k) PROVE NamesInv'
  <2>1. [kind |-> "reference", index |-> k] \in Tokens /\ LookUp(k) \in Results
    <3>1. k \in Nat
      BY TableAssumption
    <3>2. [kind |-> "reference", index |-> k] \in Tokens
      BY <3>1 DEF Tokens
    <3>3. LookUp(k) \in Results
      BY <1>1 DEF LookUp
    <3> QED
      BY <3>2, <3>3
  <2>2. PICK t \in Tokens, v \in Results : t = [kind |-> "reference", index |-> k] /\ v = LookUp(k)
    BY <2>1
  <2>3. /\ Returns(t, v, NoNumber) /\ UNCHANGED <<index, names>>
        /\ t.kind = "reference" /\ t.index > 0 /\ v = LookUp(t.index)
    BY <1>8, <2>2 DEF ReadReference
  <2> QED
    BY <2>3, TokenStep DEF Stores, Yields
<1> QED
  BY <1>2, <1>3, <1>4, <1>5, <1>6, <1>7, <1>8 DEF Next

(* Whatever is written in a section, every identifier is read as it is      *)
(* meant: a number never stands for the name of another place.              *)
THEOREM AlwaysReadAsMeant == Spec => []ReadAsMeant
<1>1. Init => NamesInv
  <2> SUFFICES ASSUME Init PROVE NamesInv
    OBVIOUS
  <2>1. tokens = <<>> /\ got = <<>> /\ index = 0 /\ names = [i \in 1..ID_DIM |-> NoName]
    BY DEF Init
  <2>2. Len(tokens) = 0 /\ {j \in 1..0 : IsName(tokens[j])} = {}
    <3>1. 1..0 = {}
      OBVIOUS
    <3> QED
      BY <2>1, <3>1, EmptySeq
  <2>3. NamesUpTo(Len(tokens)) = 0
    BY <2>2, FS_EmptySet DEF NamesUpTo
  <2> QED
    <3>1. tokens \in Seq(Tokens) /\ Len(tokens) = 0 /\ Len(got) = 0 /\ DOMAIN got = {}
      BY <2>1, EmptySeq
    <3>2. \A k \in 1..ID_DIM : names[k] = NoName
      BY <2>1
    <3>3. 1..0 = {} /\ 0 <= ID_DIM /\ index = 0
      BY <2>1, TableAssumption
    <3> QED
      BY <2>3, <3>1, <3>2, <3>3 DEF NamesInv, ReadAsMeant
<1>2. IInv /\ NamesInv /\ [Next]_vars => NamesInv' /\ IInv'
  BY IdentifiersStep, NamesStep
<1>3. NamesInv => ReadAsMeant
  BY DEF NamesInv
<1> QED
  BY IdentifiersInit, <1>1, <1>2, <1>3, PTL DEF Spec

-----------------------------------------------------------------------------
(* RefTable: a folder is printed under its number and with its path.  The    *)
(* paths are functions of the frames of ReadSubFolders, of which the        *)
(* innermost is the last.                                                   *)
(* The characters of names and paths.                                       *)
Letters == STRING \cup {"\\", "?"}

LEMMA SingletonSeq ==
  ASSUME NEW S, NEW e \in S
  PROVE  <<e>> \in Seq(S)
OBVIOUS

LEMMA LettersFacts ==
  /\ <<"\\">> \in Seq(Letters) /\ <<"?">> \in Seq(Letters) /\ <<>> \in Seq(Letters)
  /\ \A name \in FolderNames : name \in Seq(Letters)
<1>1. STRING \subseteq Letters
  BY Zenon DEF Letters
<1>2. "\\" \in Letters /\ "?" \in Letters
  BY DEF Letters
<1>3. \A name \in FolderNames : name \in Seq(Letters)
  <2>1. \A name \in FolderNames : name \in Seq(STRING)
    BY RefAssumption
  <2> QED
    BY <1>1, <2>1, SeqMonotonic
<1> QED
  BY <1>2, <1>3, SingletonSeq, EmptySeq

(* What a buffer holds of two strings does not depend on whether the parts  *)
(* were cut off before.                                                     *)
LEMMA FitsFacts ==
  ASSUME NEW s \in Seq(Letters)
  PROVE  /\ Fits(s) \in Seq(Letters)
         /\ Len(Fits(s)) = IF Len(s) < MAX_PATH THEN Len(s) ELSE MAX_PATH - 1
         /\ \A k \in 1..Len(Fits(s)) : Fits(s)[k] = s[k]
<1>1. PICK n \in Nat : n = (IF Len(s) < MAX_PATH THEN Len(s) ELSE MAX_PATH - 1)
  BY RefAssumption, LenProperties
<1>2. n <= Len(s) /\ \A k \in 1..n : s[k] \in Letters
  BY <1>1, RefAssumption, LenProperties, ElementOfSeq
<1>3. Fits(s) = SubSeq(s, 1, n)
  BY <1>1 DEF Fits
<1>4. /\ SubSeq(s, 1, n) \in Seq(Letters)
      /\ Len(SubSeq(s, 1, n)) = IF 1 <= n THEN n - 1 + 1 ELSE 0
      /\ \A k \in 1..(n - 1 + 1) : SubSeq(s, 1, n)[k] = s[1 + k - 1]
  <2>1. 1 \in Int /\ n \in Int
    OBVIOUS
  <2> QED
    BY ONLY <1>2, <2>1, SubSeqProperties
<1>5. Len(Fits(s)) = n
  BY <1>3, <1>4
<1>6. ASSUME NEW k \in 1..n PROVE Fits(s)[k] = s[k]
  <2>1. k \in 1..(n - 1 + 1) /\ 1 + k - 1 = k
    OBVIOUS
  <2> QED
    BY <1>3, <1>4, <2>1
<1> QED
  BY <1>1, <1>3, <1>4, <1>5, <1>6

LEMMA FitsTwice ==
  ASSUME NEW s \in Seq(Letters), NEW t \in Seq(Letters)
  PROVE  /\ Fits(Fits(s)) = Fits(s)
         /\ Fits(Fits(s) \o t) = Fits(s \o t)
         /\ Fits(s \o Fits(t)) = Fits(s \o t)
<1>0. Len(s) \in Nat /\ Len(t) \in Nat /\ MAX_PATH \in Nat \ {0}
  BY RefAssumption, LenProperties
<1>1. PICK u \in Seq(Letters), v \in Seq(Letters) : u = Fits(s) /\ v = Fits(t)
  BY FitsFacts
<1>2. /\ Len(u) = IF Len(s) < MAX_PATH THEN Len(s) ELSE MAX_PATH - 1
      /\ \A k \in 1..Len(u) : u[k] = s[k]
      /\ Len(v) = IF Len(t) < MAX_PATH THEN Len(t) ELSE MAX_PATH - 1
      /\ \A k \in 1..Len(v) : v[k] = t[k]
  BY <1>1, FitsFacts
<1>3. Fits(u) = u
  <2>1. /\ Fits(u) \in Seq(Letters)
        /\ Len(Fits(u)) = IF Len(u) < MAX_PATH THEN Len(u) ELSE MAX_PATH - 1
        /\ \A k \in 1..Len(Fits(u)) : Fits(u)[k] = u[k]
    BY FitsFacts
  <2>2. Len(Fits(u)) = Len(u)
    BY <1>0, <1>2, <2>1
  <2> QED
    BY <2>1, <2>2, SeqEqual
<1>4. ASSUME NEW a \in Seq(Letters), NEW b \in Seq(Letters), Len(a) \in Nat, Len(b) \in Nat,
             Len(a) = Len(b) \/ (Len(a) >= MAX_PATH - 1 /\ Len(b) >= MAX_PATH - 1),
             \A k \in 1..(MAX_PATH - 1) : k <= Len(a) => a[k] = b[k]
      PROVE  Fits(a) = Fits(b)
  <2>1. PICK c \in Seq(Letters), d \in Seq(Letters) : c = Fits(a) /\ d = Fits(b)
    BY FitsFacts
  <2>2. /\ Len(c) = IF Len(a) < MAX_PATH THEN Len(a) ELSE MAX_PATH - 1
        /\ \A k \in 1..Len(c) : c[k] = a[k]
        /\ Len(d) = IF Len(b) < MAX_PATH THEN Len(b) ELSE MAX_PATH - 1
        /\ \A k \in 1..Len(d) : d[k] = b[k]
    BY <2>1, FitsFacts
  <2>3. Len(c) = Len(d)
    BY <1>0, <1>4, <2>2
  <2>4. ASSUME NEW k \in 1..Len(c) PROVE c[k] = d[k]
    <3>1. k \in 1..(MAX_PATH - 1) /\ k <= Len(a)
      BY <1>0, <1>4, <2>2
    <3> QED
      BY <1>4, <2>2, <2>3, <3>1
  <2>5. c = d
    BY ONLY <2>3, <2>4, c \in Seq(Letters), d \in Seq(Letters), SeqEqual
  <2> QED
    BY <2>1, <2>5
<1>5. /\ u \o t \in Seq(Letters) /\ Len(u \o t) = Len(u) + Len(t)
      /\ \A k \in 1..(Len(u) + Len(t)) : (u \o t)[k] = IF k <= Len(u) THEN u[k] ELSE t[k - Len(u)]
  BY ONLY u \in Seq(Letters), t \in Seq(Letters), ConcatProperties
<1>6. /\ s \o v \in Seq(Letters) /\ Len(s \o v) = Len(s) + Len(v)
      /\ \A k \in 1..(Len(s) + Len(v)) : (s \o v)[k] = IF k <= Len(s) THEN s[k] ELSE v[k - Len(s)]
  BY ONLY s \in Seq(Letters), v \in Seq(Letters), ConcatProperties
<1>7. /\ s \o t \in Seq(Letters) /\ Len(s \o t) = Len(s) + Len(t)
      /\ \A k \in 1..(Len(s) + Len(t)) : (s \o t)[k] = IF k <= Len(s) THEN s[k] ELSE t[k - Len(s)]
  BY ONLY s \in Seq(Letters), t \in Seq(Letters), ConcatProperties
<1>8. Fits(u \o t) = Fits(s \o t)
  <2>1. ASSUME NEW k \in 1..(MAX_PATH - 1), k <= Len(u \o t) PROVE (u \o t)[k] = (s \o t)[k]
    <3>1. Len(u) = Len(s) \/ k <= Len(u)
      BY <1>0, <1>2
    <3>2. k \in 1..(Len(u) + Len(t)) /\ k \in 1..(Len(s) + Len(t)) /\ Len(u) \in Nat
      BY <1>0, <1>2, <1>5, <2>1
    <3>3. CASE k <= Len(u)
      <4>1. (u \o t)[k] = u[k] /\ u[k] = s[k] /\ k <= Len(s)
        BY <1>0, <1>2, <1>5, <3>2, <3>3
      <4> QED
        BY <1>7, <3>2, <4>1
    <3>4. CASE Len(u) = Len(s) /\ ~(k <= Len(u))
      BY <1>5, <1>7, <3>2, <3>4
    <3> QED
      BY <3>1, <3>3, <3>4
  <2>2. Len(u \o t) \in Nat /\ Len(s \o t) \in Nat
    BY <1>0, <1>2, <1>5, <1>7
  <2>3. Len(u \o t) = Len(s \o t) \/ (Len(u \o t) >= MAX_PATH - 1 /\ Len(s \o t) >= MAX_PATH - 1)
    BY <1>0, <1>2, <1>5, <1>7
  <2> QED
    BY <1>4, <1>5, <1>7, <2>1, <2>2, <2>3
<1>9. Fits(s \o v) = Fits(s \o t)
  <2>1. ASSUME NEW k \in 1..(MAX_PATH - 1), k <= Len(s \o v) PROVE (s \o v)[k] = (s \o t)[k]
    <3>1. k \in 1..(Len(s) + Len(v)) /\ k \in 1..(Len(s) + Len(t)) /\ Len(v) \in Nat
      BY <1>0, <1>2, <1>6, <2>1
    <3>2. CASE k <= Len(s)
      BY <1>6, <1>7, <3>1, <3>2
    <3>3. CASE ~(k <= Len(s))
      <4>1. k - Len(s) \in 1..Len(v)
        BY <1>0, <3>1, <3>3
      <4>2. v[k - Len(s)] = t[k - Len(s)]
        BY <1>2, <4>1
      <4> QED
        BY <1>6, <1>7, <3>1, <3>3, <4>2
    <3> QED
      BY <3>2, <3>3
  <2>2. Len(s \o v) \in Nat /\ Len(s \o t) \in Nat
    BY <1>0, <1>2, <1>6, <1>7
  <2>3. Len(s \o v) = Len(s \o t) \/ (Len(s \o v) >= MAX_PATH - 1 /\ Len(s \o t) >= MAX_PATH - 1)
    BY <1>0, <1>2, <1>6, <1>7
  <2> QED
    BY <1>4, <1>6, <1>7, <2>1, <2>2, <2>3
<1> QED
  BY <1>1, <1>3, <1>8, <1>9

(* The path of a folder that is in the folders of another path.             *)
FollowsPath(f, path) ==
  /\ f[0] = <<>> /\ \A n \in Nat : f[n] \in Seq(Letters)
  /\ \A n \in Nat : f[n + 1] = f[n] \o (IF n + 1 \in DOMAIN path THEN path[n + 1] \o <<"\\">> ELSE <<>>)

LEMMA InFoldersFollow ==
  ASSUME NEW path \in Seq(FolderNames)
  PROVE  FollowsPath(InFolders(path), path)
<1> DEFINE part(n) == IF n \in DOMAIN path THEN path[n] \o <<"\\">> ELSE <<>>
           step == [x \in Nat \X Seq(Letters) |-> x[2] \o part(x[1] + 1)]
           Follows(f) == f = [n \in Nat |-> IF n = 0 THEN <<>> ELSE f[n - 1] \o part(n)]
<1>1. \A n \in Nat : part(n) \in Seq(Letters)
  <2> SUFFICES ASSUME NEW n \in Nat PROVE part(n) \in Seq(Letters)
    OBVIOUS
  <2>1. CASE n \in DOMAIN path
    <3>1. path[n] \in FolderNames
      BY <2>1, LenProperties, ElementOfSeq
    <3>2. path[n] \in Seq(Letters) /\ <<"\\">> \in Seq(Letters)
      BY <3>1, LettersFacts
    <3> QED
      BY <2>1, <3>2, ConcatProperties
  <2>2. CASE n \notin DOMAIN path
    BY <2>2, EmptySeq
  <2> QED
    BY <2>1, <2>2
<1> HIDE DEF part
<1>a. \A n \in Nat, v \in Seq(Letters) : v \o part(n + 1) \in Seq(Letters)
  <2> SUFFICES ASSUME NEW n \in Nat, NEW v \in Seq(Letters) PROVE v \o part(n + 1) \in Seq(Letters)
    OBVIOUS
  <2>1. PICK m \in Nat : m = n + 1
    OBVIOUS
  <2>2. part(m) \in Seq(Letters)
    BY <1>1
  <2> QED
    BY <2>1, <2>2, ConcatProperties
<1>2. \A n \in Nat, v \in Seq(Letters) : step[<<n, v>>] = v \o part(n + 1)
  OBVIOUS
<1>3. StepsIn(Seq(Letters), step)
  <2> HIDE DEF step
  <2> QED
    BY <1>a, <1>2 DEF StepsIn
<1>4. InFolders(path) = CHOOSE f : Follows(f)
  BY DEF InFolders, part
<1>5. <<>> \in Seq(Letters)
  BY EmptySeq
<1> HIDE DEF step
<1>6. PICK f : Iterates(f, Seq(Letters), <<>>, step)
  BY ONLY <1>3, <1>5, RecursionExists
<1>7. f \in [Nat -> Seq(Letters)] /\ f[0] = <<>> /\ \A n \in Nat : f[n + 1] = step[<<n, f[n]>>]
  BY <1>6 DEF Iterates
<1>8. Follows(f)
  <2>1. \A n \in Nat \ {0} : f[n] = f[n - 1] \o part(n)
    <3> SUFFICES ASSUME NEW n \in Nat \ {0} PROVE f[n] = f[n - 1] \o part(n)
      OBVIOUS
    <3>1. PICK m \in Nat : m = n - 1 /\ n = m + 1
      OBVIOUS
    <3>2. f[m] \in Seq(Letters) /\ f[m + 1] = step[<<m, f[m]>>]
      BY <1>7
    <3>3. step[<<m, f[m]>>] = f[m] \o part(m + 1)
      BY <1>2, <3>2
    <3> QED
      BY <3>1, <3>2, <3>3
  <2> QED
    BY <1>7, <2>1
<1>9. Follows(InFolders(path))
  <2> HIDE DEF Follows
  <2> QED
    BY <1>4, <1>8
<1>10. PICK g : /\ g = InFolders(path) /\ g[0] = <<>>
                /\ \A n \in Nat : g[n + 1] = g[n] \o part(n + 1)
  <2>1. PICK g : g = InFolders(path) /\ Follows(g)
    BY <1>9
  <2>2. \A n \in Nat : g[n] = IF n = 0 THEN <<>> ELSE g[n - 1] \o part(n)
    BY <2>1
  <2>3. ASSUME NEW n \in Nat PROVE g[n + 1] = g[n] \o part(n + 1)
    <3>1. PICK m \in Nat : m = n + 1 /\ m # 0 /\ m - 1 = n
      OBVIOUS
    <3>2. g[m] = g[m - 1] \o part(m)
      BY <2>2, <3>1
    <3> QED
      BY <3>1, <3>2
  <2> QED
    BY <2>1, <2>2, <2>3
<1>11. \A n \in Nat : g[n] \in Seq(Letters)
  <2>1. StaysIn(Seq(Letters), g)
    BY <1>a, <1>5, <1>10 DEF StaysIn
  <2> QED
    BY <2>1, ValuesIn
<1> QED
  BY <1>10, <1>11 DEF part, FollowsPath

LEMMA InFoldersAppend ==
  ASSUME NEW path \in Seq(FolderNames), NEW name \in FolderNames
  PROVE  /\ InFolders(path)[Len(path)] \in Seq(Letters) /\ name \in Seq(Letters)
         /\ Joined(Append(path, name)) = InFolders(path)[Len(path)] \o name
         /\ Joined(Append(path, name)) \in Seq(Letters)
         /\ InFolders(Append(path, name))[Len(Append(path, name))] = Joined(Append(path, name)) \o <<"\\">>
<1>1. PICK u \in Seq(FolderNames) : u = Append(path, name)
  BY AppendProperties
<1>2. /\ Len(path) \in Nat /\ DOMAIN path = 1..Len(path) /\ DOMAIN u = 1..(Len(path) + 1)
      /\ Len(u) = Len(path) + 1 /\ \A i \in 1..Len(path) : u[i] = path[i]
      /\ u[Len(path) + 1] = name
  BY <1>1, AppendProperties, LenProperties
<1>3. PICK f, g : f = InFolders(path) /\ g = InFolders(u) /\ FollowsPath(f, path) /\ FollowsPath(g, u)
  BY InFoldersFollow
<1>4. PICK l \in Nat : l = Len(path)
  BY <1>2
<1>5. /\ f[0] = <<>> /\ g[0] = <<>> /\ \A n \in Nat : f[n] \in Seq(Letters) /\ g[n] \in Seq(Letters)
      /\ \A n \in Nat : f[n + 1] = f[n] \o (IF n + 1 \in DOMAIN path THEN path[n + 1] \o <<"\\">> ELSE <<>>)
      /\ \A n \in Nat : g[n + 1] = g[n] \o (IF n + 1 \in DOMAIN u THEN u[n + 1] \o <<"\\">> ELSE <<>>)
  BY <1>3 DEF FollowsPath
<1>6. ASSUME NEW i \in 0..(l - 1), f[i] = g[i] PROVE f[i + 1] = g[i + 1]
  <2>1. i \in Nat /\ i + 1 \in DOMAIN path /\ i + 1 \in DOMAIN u /\ u[i + 1] = path[i + 1]
    BY <1>2, <1>4
  <2>2. f[i + 1] = f[i] \o (path[i + 1] \o <<"\\">>)
    BY <1>5, <2>1
  <2>3. g[i + 1] = g[i] \o (u[i + 1] \o <<"\\">>)
    BY <1>5, <2>1
  <2> QED
    BY <1>6, <2>1, <2>2, <2>3
<1>7. f[l] = g[l] /\ f[l] \in Seq(Letters)
  <2>1. StepsAgree(f, g, l)
    BY <1>5, <1>6 DEF StepsAgree
  <2>2. \A i \in 0..l : f[i] = g[i]
    BY ONLY <2>1, l \in Nat, AgreeUpTo
  <2>3. l \in 0..l
    BY <1>4
  <2> QED
    BY <1>5, <2>2, <2>3
<1>8. name \in Seq(Letters) /\ <<"\\">> \in Seq(Letters)
  BY LettersFacts
<1>9. Joined(u) = f[l] \o name
  <2>1. Len(u) - 1 = l
    BY <1>2, <1>4
  <2>2. Last(u) = name
    BY <1>2 DEF Last
  <2> QED
    BY <1>3, <1>7, <2>1, <2>2 DEF Joined
<1>10. g[l + 1] = g[l] \o (name \o <<"\\">>)
  <2>1. l + 1 \in DOMAIN u /\ u[l + 1] = name
    BY <1>2, <1>4
  <2> QED
    BY <1>5, <2>1
<1>11. g[l + 1] = (f[l] \o name) \o <<"\\">>
  <2>1. PICK b \in Seq(Letters), x \in Seq(Letters) : b = <<"\\">> /\ x = f[l]
    BY <1>7, <1>8
  <2>2. (x \o name) \o b = x \o (name \o b)
    BY ONLY <1>8, x \in Seq(Letters), b \in Seq(Letters), ConcatAssociative
  <2> QED
    BY <1>7, <1>10, <2>1, <2>2
<1>12. f[l] \o name \in Seq(Letters)
  BY <1>7, <1>8, ConcatProperties
<1>13. Len(u) = l + 1
  BY <1>2, <1>4
<1> QED
  BY <1>1, <1>3, <1>4, <1>7, <1>8, <1>9, <1>11, <1>12, <1>13

-----------------------------------------------------------------------------
(* What the active calls still have to read.                                *)
Frames == [szFolder : Seq(Letters), path : Seq(FolderNames), dwNumSubFolders : Nat]

CountsUp(g, s) ==
  /\ g \in [0..Len(s) -> Nat] /\ g[0] = 0
  /\ \A k \in 1..Len(s) : g[k] = g[k - 1] + s[k].dwNumSubFolders
Open(s, c) == \E g : CountsUp(g, s) /\ c = g[Len(s)]

LEMMA NothingOpen ==
  ASSUME NEW c
  PROVE  Open(<<>>, c) <=> c = 0
<1>1. Len(<<>>) = 0
  BY EmptySeq
<1>2. ASSUME Open(<<>>, c) PROVE c = 0
  BY <1>1, <1>2 DEF Open, CountsUp
<1>3. ASSUME c = 0 PROVE Open(<<>>, c)
  <2>1. [k \in 0..0 |-> 0] \in [0..0 -> Nat] /\ [k \in 0..0 |-> 0][0] = 0
    OBVIOUS
  <2>2. CountsUp([k \in 0..0 |-> 0], <<>>)
    BY <1>1, <2>1 DEF CountsUp
  <2> QED
    BY <1>1, <1>3, <2>1, <2>2 DEF Open
<1> QED
  BY <1>2, <1>3

LEMMA FrontAndLast ==
  ASSUME NEW S, NEW s \in Seq(S), s # <<>>
  PROVE  /\ Front(s) \in Seq(S) /\ Last(s) \in S /\ Last(s) = s[Len(s)] /\ Len(s) \in Nat \ {0}
         /\ Len(Front(s)) = Len(s) - 1 /\ \A k \in 1..(Len(s) - 1) : Front(s)[k] = s[k]
<1>1. Len(s) \in Nat \ {0} /\ \A k \in 1..(Len(s) - 1) : s[k] \in S
  BY EmptySeq, LenProperties, ElementOfSeq
<1>2. PICK n \in Nat : n = Len(s) - 1
  <2>1. Len(s) - 1 \in Nat
    BY <1>1
  <2> QED
    BY <2>1
<1>3. /\ SubSeq(s, 1, n) \in Seq(S)
      /\ Len(SubSeq(s, 1, n)) = IF 1 <= n THEN n - 1 + 1 ELSE 0
      /\ \A k \in 1..(n - 1 + 1) : SubSeq(s, 1, n)[k] = s[1 + k - 1]
  <2>1. 1 \in Int /\ n \in Int /\ \A k \in 1..n : s[k] \in S
    BY <1>1, <1>2
  <2> QED
    BY ONLY <2>1, SubSeqProperties
<1>4. Front(s) = SubSeq(s, 1, n)
  BY <1>2 DEF Front
<1>5. ASSUME NEW k \in 1..n PROVE Front(s)[k] = s[k]
  <2>1. k \in 1..(n - 1 + 1) /\ 1 + k - 1 = k
    OBVIOUS
  <2> QED
    BY <1>3, <1>4, <2>1
<1>6. Last(s) = s[Len(s)] /\ s[Len(s)] \in S
  BY <1>1, ElementOfSeq DEF Last
<1> QED
  BY <1>1, <1>2, <1>3, <1>4, <1>5, <1>6

LEMMA OpenMore ==
  ASSUME NEW s \in Seq(Frames), NEW c \in Nat, Open(s, c), NEW frame \in Frames
  PROVE  Open(Append(s, frame), c + frame.dwNumSubFolders)
<1>1. PICK g : CountsUp(g, s) /\ c = g[Len(s)]
  BY DEF Open
<1>2. PICK l \in Nat : l = Len(s)
  BY LenProperties
<1>3. PICK u : u = Append(s, frame) /\ Len(u) = l + 1 /\ u[l + 1] = frame /\ \A k \in 1..l : u[k] = s[k]
  <2>1. /\ Len(Append(s, frame)) = Len(s) + 1
        /\ \A k \in 1..Len(s) : Append(s, frame)[k] = s[k]
        /\ Append(s, frame)[Len(s) + 1] = frame
    BY ONLY s \in Seq(Frames), frame \in Frames, AppendProperties
  <2> QED
    BY <1>2, <2>1
<1>4. PICK n \in Nat : n = frame.dwNumSubFolders
  BY DEF Frames
<1>5. g \in [0..l -> Nat] /\ g[0] = 0 /\ c = g[l] /\ \A k \in 1..l : g[k] = g[k - 1] + s[k].dwNumSubFolders
  BY <1>1, <1>2 DEF CountsUp
<1> DEFINE h == [k \in 0..(l + 1) |-> IF k = l + 1 THEN c + n ELSE g[k]]
<1>6. h \in [0..(l + 1) -> Nat] /\ h[0] = 0 /\ h[l + 1] = c + n /\ h[l] = c
  BY <1>5
<1>7. \A k \in 1..l : h[k] = g[k] /\ h[k - 1] = g[k - 1]
  BY <1>5
<1> HIDE DEF h
<1>8. ASSUME NEW k \in 1..(l + 1) PROVE h[k] = h[k - 1] + u[k].dwNumSubFolders
  <2>1. CASE k = l + 1
    BY <1>3, <1>4, <1>6, <2>1
  <2>2. CASE k # l + 1
    <3>1. k \in 1..l
      BY <2>2
    <3> QED
      BY <1>3, <1>5, <1>7, <3>1
  <2> QED
    BY <2>1, <2>2
<1>9. CountsUp(h, u)
  BY <1>3, <1>6, <1>8 DEF CountsUp
<1> QED
  BY <1>3, <1>4, <1>6, <1>9 DEF Open

LEMMA OpenLess ==
  ASSUME NEW s \in Seq(Frames), s # <<>>, NEW c \in Nat, Open(s, c)
  PROVE  /\ Last(s).dwNumSubFolders \in 0..c
         /\ c - Last(s).dwNumSubFolders \in Nat /\ Open(Front(s), c - Last(s).dwNumSubFolders)
<1>1. PICK g : CountsUp(g, s) /\ c = g[Len(s)]
  BY DEF Open
<1>2. /\ Front(s) \in Seq(Frames) /\ Last(s) \in Frames /\ Last(s) = s[Len(s)] /\ Len(s) \in Nat \ {0}
      /\ Len(Front(s)) = Len(s) - 1 /\ \A k \in 1..(Len(s) - 1) : Front(s)[k] = s[k]
  BY FrontAndLast
<1>3. PICK l \in Nat : l = Len(s) - 1 /\ Len(s) = l + 1
  BY <1>2
<1>4. PICK n \in Nat : n = Last(s).dwNumSubFolders
  BY <1>2 DEF Frames
<1>5. /\ g \in [0..(l + 1) -> Nat] /\ g[0] = 0 /\ c = g[l + 1]
      /\ \A k \in 1..(l + 1) : g[k] = g[k - 1] + s[k].dwNumSubFolders
  BY <1>1, <1>3 DEF CountsUp
<1>6. c = g[l] + n /\ g[l] \in Nat
  <2>1. l + 1 \in 1..(l + 1) /\ l + 1 - 1 = l
    OBVIOUS
  <2>2. g[l + 1] = g[l] + s[l + 1].dwNumSubFolders
    BY <1>5, <2>1
  <2>3. s[l + 1].dwNumSubFolders = n
    BY ONLY <1>2, <1>3, <1>4
  <2>4. g[l] \in Nat
    BY <1>5
  <2> QED
    BY ONLY <1>5, <2>2, <2>3, <2>4
<1> DEFINE h == [k \in 0..l |-> g[k]]
<1>7. /\ h \in [0..l -> Nat] /\ h[0] = 0 /\ h[l] = g[l]
      /\ \A k \in 1..l : h[k] = g[k] /\ h[k - 1] = g[k - 1]
  BY <1>5
<1> HIDE DEF h
<1>8. ASSUME NEW k \in 1..l PROVE h[k] = h[k - 1] + Front(s)[k].dwNumSubFolders
  <2>1. Front(s)[k] = s[k] /\ k \in 1..(l + 1)
    BY <1>2, <1>3
  <2> QED
    BY <1>5, <1>7, <2>1
<1>9. CountsUp(h, Front(s)) /\ Len(Front(s)) = l
  BY <1>2, <1>3, <1>7, <1>8 DEF CountsUp
<1>10. Open(Front(s), g[l])
  BY <1>7, <1>9 DEF Open
<1>11. c - n = g[l]
  BY <1>6
<1> QED
  BY <1>4, <1>6, <1>10, <1>11

(* A sequence whose last element is replaced.                               *)
LEMMA LastReplaced ==
  ASSUME NEW S, NEW s \in Seq(S), s # <<>>, NEW e \in S, NEW t,
         t = [s EXCEPT ![Len(s)] = e]
  PROVE  t = Append(Front(s), e)
<1>1. /\ Front(s) \in Seq(S) /\ Len(s) \in Nat \ {0}
      /\ Len(Front(s)) = Len(s) - 1 /\ \A k \in 1..(Len(s) - 1) : Front(s)[k] = s[k]
  BY FrontAndLast
<1>2. /\ t \in Seq(S) /\ Len(t) = Len(s)
      /\ \A j \in 1..Len(s) : t[j] = IF j = Len(s) THEN e ELSE s[j]
  <2>1. Len(s) \in 1..Len(s)
    BY <1>1
  <2>2. /\ [s EXCEPT ![Len(s)] = e] \in Seq(S)
        /\ Len([s EXCEPT ![Len(s)] = e]) = Len(s)
        /\ \A j \in 1..Len(s) : [s EXCEPT ![Len(s)] = e][j] = IF j = Len(s) THEN e ELSE s[j]
    BY ONLY <2>1, s \in Seq(S), e \in S, ExceptSeq
  <2> QED
    BY <2>2
<1>3. PICK u \in Seq(S) : /\ u = Append(Front(s), e) /\ Len(u) = Len(s)
                          /\ \A k \in 1..(Len(s) - 1) : u[k] = s[k]
                          /\ u[Len(s)] = e
  <2>1. PICK r \in Seq(S) : r = Front(s)
    BY <1>1
  <2>2. /\ Append(r, e) \in Seq(S) /\ Len(Append(r, e)) = Len(r) + 1
        /\ \A k \in 1..Len(r) : Append(r, e)[k] = r[k]
        /\ Append(r, e)[Len(r) + 1] = e
    BY ONLY r \in Seq(S), e \in S, AppendProperties
  <2>3. Len(r) = Len(s) - 1 /\ Len(r) + 1 = Len(s)
    BY <1>1, <2>1
  <2> QED
    BY <1>1, <2>1, <2>2, <2>3
<1>4. \A k \in 1..Len(t) : t[k] = u[k]
  BY <1>1, <1>2, <1>3
<1> QED
  BY <1>2, <1>3, <1>4, SeqEqual

-----------------------------------------------------------------------------
(* The invariant.                                                           *)
Ahead  == {"start", "entries", "levels", "numfolders"}
Behind == {"flags", "name", "resource", "node", "usefile", "folderindex", "nat64", "next"}

(* No name in a path fills a buffer without a NUL.                          *)
Terminated(path) == file.text => \A k \in DOMAIN path : Len(path[k]) < MAX_PATH

RefTypes ==
  /\ file \in [text : BOOLEAN, compressed : BOOLEAN, version5 : BOOLEAN]
  /\ dwNumSubFolders \in Nat /\ dwIndex \in Nat /\ stack \in Seq(Frames)

(* A call that goes on has the path of its folder in the buffer.            *)
HasPath(frame) ==
  frame.dwNumSubFolders > 0 /\ Terminated(frame.path)
    => frame.szFolder = Fits(InFolders(frame.path)[Len(frame.path)])
HasName(frame) ==
  /\ frame.dwNumSubFolders = 0
  /\ Terminated(frame.path) =>
       /\ Joined(frame.path) \in Seq(Letters)
       /\ frame.szFolder = Fits(Joined(frame.path))
       /\ InFolders(frame.path)[Len(frame.path)] = Joined(frame.path) \o <<"\\">>
PathsInv ==
  /\ \A k \in 1..Len(stack) : HasPath(stack[k])
  /\ refPc = "subfolders" => stack # <<>> /\ HasName(Last(stack))

OutputInv ==
  /\ output.index = dwIndex
  /\ \/ output.path = <<>>
     \/ output.text = Fits(Joined(output.path))
     \/ file.text /\ \E k \in DOMAIN output.path : Len(output.path[k]) >= MAX_PATH

(* Every folder that was announced was read or is still to be read.         *)
FoldersInv ==
  /\ refPc \in Ahead => stack = <<>> /\ dwNumSubFolders = 0 /\ dwIndex = 0
  /\ refPc \in {"folder", "subfolders"} =>
       \E c \in Nat : Open(stack, c) /\ announced = dwIndex + dwNumSubFolders + c
  /\ refPc \in Behind => dwIndex = announced
  /\ refPc = "done" => result = -1 \/ result = 0 \/ (dwCount = 0 /\ dwIndex = announced)
RefPlaces == refPc \in Ahead \cup Behind \cup {"folder", "subfolders", "done"}

RefInv == RefTypes /\ RefPlaces /\ PathsInv /\ OutputInv /\ FoldersInv

LEMMA RefStarts == RefInit => RefInv
<1> SUFFICES ASSUME RefInit PROVE RefInv
  OBVIOUS
<1>1. /\ file \in [text : BOOLEAN, compressed : BOOLEAN, version5 : BOOLEAN]
      /\ refPc = "start" /\ dwNumSubFolders = 0 /\ dwIndex = 0 /\ stack = <<>>
      /\ output = [index |-> 0, text |-> <<>>, path |-> <<>>]
  BY DEF RefInit
<1>2. <<>> \in Seq(Frames) /\ Len(<<>>) = 0
  BY EmptySeq
<1>3. RefTypes
  BY <1>1, <1>2 DEF RefTypes
<1>4. PathsInv
  BY <1>1, <1>2 DEF PathsInv
<1>5. OutputInv
  BY <1>1 DEF OutputInv
<1>6. FoldersInv /\ RefPlaces
  BY <1>1 DEF FoldersInv, RefPlaces, Ahead, Behind
<1> QED
  BY <1>3, <1>4, <1>5, <1>6 DEF RefInv

(* No field but those of the folders changes them.                          *)
LEMMA OtherStep ==
  ASSUME RefInv, UNCHANGED <<file, folders>>,
         \/ refPc \in Ahead /\ refPc' \in Ahead
         \/ refPc \in Behind /\ refPc' \in Behind
         \/ refPc' = "done" /\ (result' = -1 \/ result' = 0 \/ (refPc \in Behind /\ dwCount' = 0))
  PROVE  RefInv'
<1>1. UNCHANGED <<file, dwNumSubFolders, dwIndex, stack, announced, output>>
  BY DEF folders
<1>2. refPc' \notin {"folder", "subfolders"} /\ RefPlaces'
  BY DEF Ahead, Behind, RefPlaces
<1>3. RefTypes'
  BY <1>1 DEF RefInv, RefTypes
<1>4. PathsInv'
  BY <1>1, <1>2 DEF RefInv, PathsInv, HasPath, Terminated
<1>5. OutputInv'
  BY <1>1 DEF RefInv, OutputInv
<1>6. FoldersInv'
  BY <1>1, <1>2 DEF RefInv, FoldersInv, Ahead, Behind
<1> QED
  BY <1>2, <1>3, <1>4, <1>5, <1>6 DEF RefInv

LEMMA ReadFailsStep ==
  ASSUME RefInv, ReadFails
  PROVE  RefInv'
<1>1. /\ UNCHANGED <<file, dwNumSubFolders, dwIndex, announced, output>>
      /\ refPc' = "done" /\ result' = -1 /\ stack' = <<>>
  BY DEF ReadFails, ReturnEntries
<1>2. <<>> \in Seq(Frames) /\ Len(<<>>) = 0
  BY EmptySeq
<1>3. RefTypes'
  BY <1>1, <1>2 DEF RefInv, RefTypes
<1>4. PathsInv'
  BY <1>1, <1>2 DEF PathsInv
<1>5. OutputInv'
  BY <1>1 DEF RefInv, OutputInv
<1>6. FoldersInv' /\ RefPlaces'
  BY <1>1 DEF FoldersInv, RefPlaces, Ahead, Behind
<1> QED
  BY <1>3, <1>4, <1>5, <1>6 DEF RefInv

LEMMA NumFoldersStep ==
  ASSUME RefInv, NEW n \in 0..MaxFolders, ReadNumFolders(n)
  PROVE  RefInv'
<1>1. /\ refPc = "numfolders" /\ refPc' = "folder" /\ dwNumSubFolders' = n /\ announced' = n
      /\ UNCHANGED <<file, dwIndex, stack, output>>
  BY DEF ReadNumFolders
<1>2. n \in Nat
  BY RefAssumption
<1>3. stack = <<>> /\ dwIndex = 0
  BY <1>1 DEF RefInv, FoldersInv, Ahead
<1>4. RefTypes'
  BY <1>1, <1>2 DEF RefInv, RefTypes
<1>5. PathsInv'
  BY <1>1 DEF RefInv, PathsInv, HasPath, Terminated
<1>6. OutputInv'
  BY <1>1 DEF RefInv, OutputInv
<1>7. Open(stack', 0)
  BY <1>1, <1>3, NothingOpen
<1>8. announced' = dwIndex' + dwNumSubFolders' + 0
  BY <1>1, <1>2, <1>3
<1>9. FoldersInv'
  BY <1>1, <1>7, <1>8 DEF FoldersInv, Ahead, Behind
<1>10. RefPlaces'
  BY <1>1 DEF RefPlaces
<1> QED
  BY <1>4, <1>5, <1>6, <1>9, <1>10 DEF RefInv

LEMMA EndFoldersStep ==
  ASSUME RefInv, EndFolders
  PROVE  RefInv'
<1>1. /\ refPc = "folder" /\ stack = <<>> /\ dwNumSubFolders = 0 /\ refPc' = "flags"
      /\ UNCHANGED <<file, dwNumSubFolders, dwIndex, stack, announced, output>>
  BY DEF EndFolders, folders
<1>2. PICK c \in Nat : Open(stack, c) /\ announced = dwIndex + dwNumSubFolders + c
  BY <1>1 DEF RefInv, FoldersInv
<1>3. c = 0
  BY <1>1, <1>2, NothingOpen
<1>4. dwIndex = announced
  BY <1>1, <1>2, <1>3 DEF RefInv, RefTypes
<1>5. FoldersInv' /\ RefPlaces'
  BY <1>1, <1>4 DEF FoldersInv, RefPlaces, Ahead, Behind
<1>6. RefTypes'
  BY <1>1 DEF RefInv, RefTypes
<1>7. PathsInv'
  BY <1>1 DEF RefInv, PathsInv, HasPath, Terminated
<1>8. OutputInv'
  BY <1>1 DEF RefInv, OutputInv
<1> QED
  BY <1>5, <1>6, <1>7, <1>8 DEF RefInv

LEMMA ReturnFromFolderStep ==
  ASSUME RefInv, ReturnFromFolder
  PROVE  RefInv'
<1>1. /\ refPc = "folder" /\ stack # <<>> /\ Last(stack).dwNumSubFolders = 0 /\ stack' = Front(stack)
      /\ UNCHANGED <<file, refPc, dwNumSubFolders, dwIndex, announced, output>>
  BY DEF ReturnFromFolder
<1>2. PICK s \in Seq(Frames) : s = stack
  BY DEF RefInv, RefTypes
<1>3. /\ Front(s) \in Seq(Frames) /\ Last(s) \in Frames /\ Len(s) \in Nat \ {0}
      /\ Len(Front(s)) = Len(s) - 1 /\ \A k \in 1..(Len(s) - 1) : Front(s)[k] = s[k]
  BY ONLY <1>1, <1>2, FrontAndLast
<1>4. PICK c \in Nat : Open(s, c) /\ announced = dwIndex + dwNumSubFolders + c
  BY <1>1, <1>2 DEF RefInv, FoldersInv
<1>5. Open(Front(s), c - Last(s).dwNumSubFolders)
  BY <1>1, <1>2, <1>4, OpenLess
<1>6. Open(stack', c) /\ announced' = dwIndex' + dwNumSubFolders' + c
  BY <1>1, <1>2, <1>4, <1>5
<1>7. FoldersInv' /\ RefPlaces'
  BY <1>1, <1>6 DEF FoldersInv, RefPlaces, Ahead, Behind
<1>8. RefTypes'
  BY <1>1, <1>2, <1>3 DEF RefInv, RefTypes
<1>9. OutputInv'
  BY <1>1 DEF RefInv, OutputInv
<1>10. ASSUME NEW k \in 1..Len(stack') PROVE HasPath(stack[k]) /\ stack'[k] = stack[k]
  <2>1. k \in 1..(Len(s) - 1) /\ k \in 1..Len(s)
    BY <1>1, <1>2, <1>3
  <2> QED
    BY <1>1, <1>2, <1>3, <2>1 DEF RefInv, PathsInv
<1>11. PathsInv'
  BY <1>1, <1>10 DEF PathsInv, HasPath, Terminated
<1> QED
  BY <1>7, <1>8, <1>9, <1>11 DEF RefInv

(* A call that has read how many folders follow.                            *)
Continued(frame, n, szFolder) ==
  [[frame EXCEPT !.dwNumSubFolders = n] EXCEPT !.szFolder = szFolder]

LEMMA ContinuedFrame ==
  ASSUME NEW frame \in Frames, NEW n, NEW z
  PROVE  Continued(frame, n, z) = [szFolder |-> z, path |-> frame.path, dwNumSubFolders |-> n]
<1>1. PICK x, y, d : frame = [szFolder |-> x, path |-> y, dwNumSubFolders |-> d]
  BY DEF Frames
<1>2. frame.path = y
  BY <1>1
<1>3. PICK w : w = [frame EXCEPT !.dwNumSubFolders = n]
  OBVIOUS
<1>4. w = [szFolder |-> x, path |-> y, dwNumSubFolders |-> n]
  BY <1>1, <1>3
<1>5. [w EXCEPT !.szFolder = z] = [szFolder |-> z, path |-> y, dwNumSubFolders |-> n]
  BY <1>4
<1> QED
  BY <1>2, <1>3, <1>5 DEF Continued

LEMMA NumSubFoldersStep ==
  ASSUME RefInv, NEW n \in 0..MaxFolders, ReadNumSubFolders(n)
  PROVE  RefInv'
<1>1. /\ refPc = "subfolders" /\ refPc' = "folder" /\ announced' = announced + n
      /\ stack' = [stack EXCEPT
           ![Len(stack)].dwNumSubFolders = n,
           ![Len(stack)].szFolder = IF n > 0 THEN strncat(@, <<"\\">>) ELSE @]
      /\ UNCHANGED <<file, dwNumSubFolders, dwIndex, output>>
  BY DEF ReadNumSubFolders
<1>2. n \in Nat
  BY RefAssumption
<1>3. PICK s \in Seq(Frames) : s = stack /\ s # <<>> /\ HasName(Last(s))
  BY <1>1 DEF RefInv, RefTypes, PathsInv
<1>4. /\ Front(s) \in Seq(Frames) /\ Last(s) \in Frames /\ Last(s) = s[Len(s)] /\ Len(s) \in Nat \ {0}
      /\ Len(Front(s)) = Len(s) - 1 /\ \A k \in 1..(Len(s) - 1) : Front(s)[k] = s[k]
  BY ONLY <1>3, FrontAndLast
<1>5. PICK f \in Frames : f = Last(s) /\ f = s[Len(s)]
  BY <1>4
<1>6. f.szFolder \in Seq(Letters) /\ f.path \in Seq(FolderNames) /\ f.dwNumSubFolders = 0
  BY <1>3, <1>5 DEF Frames, HasName
<1>7. PICK b \in Seq(Letters) : b = <<"\\">>
  BY LettersFacts
<1>8. PICK z \in Seq(Letters) : z = IF n > 0 THEN strncat(f.szFolder, b) ELSE f.szFolder
  <2>1. f.szFolder \o b \in Seq(Letters)
    BY <1>6, <1>7, ConcatProperties
  <2>2. strncat(f.szFolder, b) \in Seq(Letters)
    BY <2>1, FitsFacts DEF strncat
  <2> QED
    BY <1>6, <2>2
<1>9. PICK e \in Frames : e = [szFolder |-> z, path |-> f.path, dwNumSubFolders |-> n]
  BY <1>2, <1>6 DEF Frames
<1>10. stack' = [s EXCEPT ![Len(s)] = e]
  <2>1. s \in [1..Len(s) -> Frames] /\ Len(s) \in 1..Len(s)
    BY <1>4, LenProperties
  <2>2. stack' = [s EXCEPT ![Len(s)] = Continued(s[Len(s)], n,
           IF n > 0 THEN strncat(s[Len(s)].szFolder, b) ELSE s[Len(s)].szFolder)]
    BY <1>1, <1>3, <1>5, <1>7, <2>1 DEF Frames, Continued
  <2>3. Continued(f, n, z) = e
    BY <1>9, ContinuedFrame
  <2> QED
    BY <1>5, <1>8, <2>2, <2>3
<1>11. stack' = Append(Front(s), e)
  BY ONLY <1>3, <1>10, LastReplaced, e \in Frames
<1>12. PICK r \in Seq(Frames) : r = Front(s) /\ Len(r) = Len(s) - 1 /\ \A k \in 1..Len(r) : r[k] = s[k]
  BY <1>4
<1>13. /\ stack' \in Seq(Frames) /\ Len(stack') = Len(r) + 1 /\ stack'[Len(r) + 1] = e
       /\ \A k \in 1..Len(r) : stack'[k] = r[k]
  BY ONLY <1>11, <1>12, e \in Frames, AppendProperties
<1>14. PICK c \in Nat : Open(s, c) /\ announced = dwIndex + dwNumSubFolders + c
  BY <1>1, <1>3 DEF RefInv, FoldersInv
<1>15. Open(r, c)
  <2>1. Open(Front(s), c - Last(s).dwNumSubFolders)
    BY <1>3, <1>14, OpenLess
  <2> QED
    BY <1>5, <1>6, <1>12, <2>1
<1>16. Open(stack', c + n)
  <2>1. Open(Append(r, e), c + e.dwNumSubFolders)
    BY <1>15, OpenMore
  <2> QED
    BY <1>9, <1>11, <1>12, <2>1
<1>17. c + n \in Nat /\ announced' = dwIndex' + dwNumSubFolders' + (c + n)
  BY <1>1, <1>2, <1>14 DEF RefInv, RefTypes
<1>18. FoldersInv' /\ RefPlaces'
  BY <1>1, <1>16, <1>17 DEF FoldersInv, RefPlaces, Ahead, Behind
<1>19. RefTypes'
  BY <1>1, <1>13 DEF RefInv, RefTypes
<1>20. OutputInv'
  BY <1>1 DEF RefInv, OutputInv
<1>21. ASSUME n > 0, Terminated(f.path)
       PROVE  z = Fits(InFolders(f.path)[Len(f.path)])
  <2>1. PICK j \in Seq(Letters) : /\ j = Joined(f.path) /\ f.szFolder = Fits(j)
                                  /\ InFolders(f.path)[Len(f.path)] = j \o <<"\\">>
    BY <1>3, <1>5, <1>21 DEF HasName
  <2>2. z = Fits(Fits(j) \o b)
    BY <1>8, <1>21, <2>1 DEF strncat
  <2>3. Fits(Fits(j) \o b) = Fits(j \o b)
    BY FitsTwice
  <2> QED
    BY <1>7, <2>1, <2>2, <2>3
<1>22. HasPath(e)
  BY <1>9, <1>21 DEF HasPath
<1>23. ASSUME NEW k \in 1..(Len(r) + 1) PROVE HasPath(stack'[k])
  <2>1. CASE k = Len(r) + 1
    BY <1>13, <1>22, <2>1
  <2>2. CASE k # Len(r) + 1
    <3>1. k \in 1..Len(r) /\ k \in 1..Len(s)
      BY <1>4, <1>12, <2>2
    <3>2. HasPath(s[k])
      BY <1>3, <3>1 DEF RefInv, PathsInv
    <3> QED
      BY <1>12, <1>13, <3>1, <3>2
  <2> QED
    BY <2>1, <2>2
<1>24. PathsInv'
  BY <1>1, <1>13, <1>23 DEF PathsInv, HasPath, Terminated
<1> QED
  BY <1>18, <1>19, <1>20, <1>24 DEF RefInv

LEMMA ParentFacts ==
  ASSUME RefInv, Remaining > 0
  PROVE  /\ Parent.szFolder \in Seq(Letters) /\ Parent.path \in Seq(FolderNames)
         /\ Terminated(Parent.path) =>
              Parent.szFolder = Fits(InFolders(Parent.path)[Len(Parent.path)])
<1>1. CASE stack = <<>>
  <2>1. PICK p \in Seq(FolderNames) : p = <<>> /\ Len(p) = 0
    BY EmptySeq
  <2>2. Parent = [szFolder |-> <<>>, path |-> p]
    BY <1>1, <2>1 DEF Parent
  <2>3. InFolders(p)[0] = <<>>
    BY InFoldersFollow DEF FollowsPath
  <2>4. Fits(<<>>) = <<>> /\ <<>> \in Seq(Letters)
    <3>1. PICK x \in Seq(Letters) : x = <<>> /\ Len(x) = 0
      BY EmptySeq
    <3>2. Fits(x) \in Seq(Letters) /\ Len(Fits(x)) = 0
      <4>1. Len(x) < MAX_PATH
        BY <3>1, RefAssumption
      <4>2. Fits(x) \in Seq(Letters) /\ Len(Fits(x)) = IF Len(x) < MAX_PATH THEN Len(x) ELSE MAX_PATH - 1
        BY FitsFacts
      <4> QED
        BY <3>1, <4>1, <4>2
    <3>3. Fits(x) = <<>>
      BY <3>2, EmptySeq
    <3> QED
      BY <3>1, <3>3
  <2> QED
    BY <2>1, <2>2, <2>3, <2>4
<1>2. CASE stack # <<>>
  <2>1. PICK s \in Seq(Frames) : s = stack
    BY DEF RefInv, RefTypes
  <2>2. Last(s) \in Frames /\ Last(s) = s[Len(s)] /\ Len(s) \in Nat \ {0}
    BY ONLY <1>2, <2>1, FrontAndLast
  <2>3. PICK f \in Frames : f = Last(s) /\ f = s[Len(s)]
    BY <2>2
  <2>4. Parent = [szFolder |-> f.szFolder, path |-> f.path] /\ f.dwNumSubFolders > 0
    BY <1>2, <2>1, <2>3 DEF Parent, Remaining
  <2>5. HasPath(f)
    <3>1. Len(s) \in 1..Len(s)
      BY <2>2
    <3> QED
      BY <2>1, <2>3, <3>1 DEF RefInv, PathsInv
  <2>6. f.szFolder \in Seq(Letters) /\ f.path \in Seq(FolderNames)
    BY DEF Frames
  <2> QED
    BY <2>4, <2>5, <2>6 DEF HasPath
<1> QED
  BY <1>1, <1>2

LEMMA ReadNames ==
  ASSUME file.text \in BOOLEAN, NEW name \in FolderNames, NEW szRead \in ReadString(name)
  PROVE  /\ szRead \in Seq(Letters)
         /\ (file.text => Len(name) < MAX_PATH) => szRead = Fits(name)
<1>1. name \in Seq(Letters) /\ Len(name) \in Nat
  BY LettersFacts, LenProperties
<1>2. CASE file.text /\ Len(name) >= MAX_PATH
  <2>1. PICK rest \in {<<>>, <<"?">>} : szRead = SubSeq(name, 1, MAX_PATH) \o rest
    BY <1>2 DEF ReadString
  <2>2. rest \in Seq(Letters)
    BY LettersFacts
  <2>3. SubSeq(name, 1, MAX_PATH) \in Seq(Letters)
    <3>1. 1 \in Int /\ MAX_PATH \in Int /\ \A k \in 1..MAX_PATH : name[k] \in Letters
      BY <1>1, <1>2, RefAssumption, ElementOfSeq
    <3> QED
      BY ONLY <3>1, SubSeqProperties
  <2>4. SubSeq(name, 1, MAX_PATH) \o rest \in Seq(Letters)
    BY ONLY <2>2, <2>3, ConcatProperties
  <2>5. ~(file.text => Len(name) < MAX_PATH)
    BY <1>1, <1>2, RefAssumption
  <2> QED
    BY <2>1, <2>4, <2>5
<1>3. CASE ~(file.text /\ Len(name) >= MAX_PATH)
  <2>1. szRead = Fits(name)
    BY <1>3 DEF ReadString
  <2> QED
    BY <1>1, <2>1, FitsFacts
<1> QED
  BY <1>2, <1>3

LEMMA CalledFacts ==
  ASSUME RefInv, refPc = "folder", Remaining > 0,
         dwNumSubFolders' = IF stack = <<>> THEN dwNumSubFolders - 1 ELSE dwNumSubFolders
  PROVE  /\ Called \in Seq(Frames) /\ dwNumSubFolders' \in Nat
         /\ \A k \in 1..Len(Called) : HasPath(Called[k])
         /\ \E c \in Nat : Open(Called, c) /\ announced = dwIndex + 1 + dwNumSubFolders' + c
<1>1. PICK s \in Seq(Frames) : s = stack
  BY DEF RefInv, RefTypes
<1>2. PICK c \in Nat : Open(s, c) /\ announced = dwIndex + dwNumSubFolders + c
  BY <1>1 DEF RefInv, FoldersInv
<1>3. dwIndex \in Nat /\ dwNumSubFolders \in Nat
  BY DEF RefInv, RefTypes
<1>4. CASE stack = <<>>
  <2>1. Called = s /\ dwNumSubFolders' = dwNumSubFolders - 1 /\ dwNumSubFolders' \in Nat
    BY <1>1, <1>3, <1>4 DEF Called, Remaining
  <2>2. announced = dwIndex + 1 + dwNumSubFolders' + c
    BY <1>2, <1>3, <2>1
  <2> QED
    BY <1>1, <1>2, <2>1, <2>2 DEF RefInv, PathsInv
<1>5. CASE stack # <<>>
  <2>1. /\ Front(s) \in Seq(Frames) /\ Last(s) \in Frames /\ Last(s) = s[Len(s)] /\ Len(s) \in Nat \ {0}
        /\ Len(Front(s)) = Len(s) - 1 /\ \A k \in 1..(Len(s) - 1) : Front(s)[k] = s[k]
    BY ONLY <1>1, <1>5, FrontAndLast
  <2>2. PICK f \in Frames : f = Last(s) /\ f = s[Len(s)] /\ f.dwNumSubFolders > 0
    BY <1>1, <1>5, <2>1 DEF Remaining
  <2>3. /\ f.szFolder \in Seq(Letters) /\ f.path \in Seq(FolderNames)
        /\ f.dwNumSubFolders \in Nat \ {0}
    BY <2>2 DEF Frames
  <2>4. PICK d \in Nat : d = f.dwNumSubFolders - 1
    <3>1. f.dwNumSubFolders - 1 \in Nat
      BY <2>3
    <3> QED
      BY <3>1
  <2>5. PICK e \in Frames : e = [szFolder |-> f.szFolder, path |-> f.path, dwNumSubFolders |-> d]
    BY <2>3 DEF Frames
  <2>6. Called = [s EXCEPT ![Len(s)] = e]
    <3>1. s \in [1..Len(s) -> Frames] /\ Len(s) \in 1..Len(s)
      BY <2>1, LenProperties
    <3>2. Called = [s EXCEPT ![Len(s)] = [s[Len(s)] EXCEPT !.dwNumSubFolders = s[Len(s)].dwNumSubFolders - 1]]
      BY <1>1, <1>5, <3>1 DEF Called, Frames
    <3>3. [f EXCEPT !.dwNumSubFolders = d] = e
      <4>1. PICK x, y, z : f = [szFolder |-> x, path |-> y, dwNumSubFolders |-> z]
        BY DEF Frames
      <4>2. f.path = y /\ f.szFolder = x
        BY <4>1
      <4>3. [f EXCEPT !.dwNumSubFolders = d] = [szFolder |-> x, path |-> y, dwNumSubFolders |-> d]
        BY <4>1
      <4> QED
        BY <2>5, <4>2, <4>3
    <3> QED
      BY <2>2, <2>4, <3>2, <3>3
  <2>7. Called = Append(Front(s), e)
    BY ONLY <1>1, <1>5, <2>6, LastReplaced, e \in Frames
  <2>8. PICK r \in Seq(Frames) : r = Front(s) /\ Len(r) = Len(s) - 1 /\ \A k \in 1..Len(r) : r[k] = s[k]
    BY <2>1
  <2>9. /\ Called \in Seq(Frames) /\ Len(Called) = Len(r) + 1 /\ Called[Len(r) + 1] = e
        /\ \A k \in 1..Len(r) : Called[k] = r[k]
    BY ONLY <2>7, <2>8, e \in Frames, AppendProperties
  <2>10. PICK n \in Nat : n = c - f.dwNumSubFolders /\ Open(r, n)
    <3>1. c - Last(s).dwNumSubFolders \in Nat /\ Open(Front(s), c - Last(s).dwNumSubFolders)
      BY <1>1, <1>2, <1>5, OpenLess
    <3> QED
      BY <2>2, <2>8, <3>1
  <2>11. Open(Called, n + d)
    <3>1. Open(Append(r, e), n + e.dwNumSubFolders)
      BY <2>10, OpenMore
    <3> QED
      BY <2>5, <2>7, <2>8, <3>1
  <2>12. n + d \in Nat /\ dwNumSubFolders' = dwNumSubFolders
         /\ announced = dwIndex + 1 + dwNumSubFolders' + (n + d)
    <3>1. dwNumSubFolders' = dwNumSubFolders
      BY <1>5
    <3>2. PICK k \in Nat : k = f.dwNumSubFolders
      BY <2>3
    <3>3. n + d = c - 1
      BY <2>4, <2>10, <3>2
    <3> QED
      BY <1>2, <1>3, <3>1, <3>3
  <2>13. HasPath(f)
    <3>1. Len(s) \in 1..Len(s)
      BY <2>1
    <3> QED
      BY <1>1, <2>2, <3>1 DEF RefInv, PathsInv
  <2>14. HasPath(e)
    BY <2>2, <2>5, <2>13 DEF HasPath
  <2>15. ASSUME NEW k \in 1..(Len(r) + 1) PROVE HasPath(Called[k])
    <3>1. CASE k = Len(r) + 1
      BY <2>9, <2>14, <3>1
    <3>2. CASE k # Len(r) + 1
      <4>1. k \in 1..Len(r) /\ k \in 1..Len(s)
        BY <2>1, <2>8, <3>2
      <4>2. HasPath(s[k])
        BY <1>1, <4>1 DEF RefInv, PathsInv
      <4> QED
        BY <2>8, <2>9, <4>1, <4>2
    <3> QED
      BY <3>1, <3>2
  <2> QED
    BY <1>3, <2>9, <2>11, <2>12, <2>15
<1> QED
  BY <1>4, <1>5

LEMMA ReadFolderStep ==
  ASSUME RefInv, NEW name \in FolderNames, ReadFolder(name)
  PROVE  RefInv'
<1>1. /\ refPc = "folder" /\ Remaining > 0 /\ refPc' = "subfolders" /\ dwIndex' = dwIndex + 1
      /\ dwNumSubFolders' = IF stack = <<>> THEN dwNumSubFolders - 1 ELSE dwNumSubFolders
      /\ UNCHANGED <<file, announced>>
  BY DEF ReadFolder
<1>2. PICK szRead \in ReadString(name) :
        /\ stack' = Append(Called, [szFolder |-> strncat(Fits(Parent.szFolder), szRead),
                                    path |-> Append(Parent.path, name), dwNumSubFolders |-> 0])
        /\ output' = [index |-> dwIndex + 1, text |-> strncat(Fits(Parent.szFolder), szRead),
                      path |-> Append(Parent.path, name)]
  BY DEF ReadFolder
<1>3. PICK p \in Seq(FolderNames), z \in Seq(Letters) :
        /\ p = Parent.path /\ z = Parent.szFolder
        /\ Terminated(p) => z = Fits(InFolders(p)[Len(p)])
  BY <1>1, ParentFacts
<1>4. PICK q \in Seq(FolderNames) : q = Append(p, name) /\ Len(q) = Len(p) + 1 /\ q # <<>>
                                    /\ q[Len(p) + 1] = name /\ \A k \in 1..Len(p) : q[k] = p[k]
  <2>1. /\ Append(p, name) \in Seq(FolderNames) /\ Append(p, name) # <<>>
        /\ Len(Append(p, name)) = Len(p) + 1 /\ \A k \in 1..Len(p) : Append(p, name)[k] = p[k]
        /\ Append(p, name)[Len(p) + 1] = name
    BY ONLY p \in Seq(FolderNames), name \in FolderNames, AppendProperties
  <2> QED
    BY <2>1
<1>5. PICK t \in Seq(Letters) : t = strncat(Fits(z), szRead)
  <2>1. szRead \in Seq(Letters)
    BY ReadNames DEF RefInv, RefTypes
  <2>2. Fits(z) \in Seq(Letters)
    BY FitsFacts
  <2>3. Fits(z) \o szRead \in Seq(Letters)
    BY ONLY <2>1, <2>2, ConcatProperties
  <2> QED
    BY <2>3, FitsFacts DEF strncat
<1>6. PICK e \in Frames : e = [szFolder |-> t, path |-> q, dwNumSubFolders |-> 0]
  BY DEF Frames
<1>7. /\ stack' = Append(Called, e)
      /\ output' = [index |-> dwIndex', text |-> t, path |-> q]
  BY <1>1, <1>2, <1>3, <1>4, <1>5, <1>6
<1>8. ASSUME Terminated(q)
      PROVE  /\ Joined(q) \in Seq(Letters) /\ t = Fits(Joined(q))
             /\ InFolders(q)[Len(q)] = Joined(q) \o <<"\\">>
  <2>1. Len(p) \in Nat /\ DOMAIN p = 1..Len(p) /\ DOMAIN q = 1..(Len(p) + 1)
    BY <1>4, LenProperties
  <2>2. Terminated(p) /\ (file.text => Len(name) < MAX_PATH)
    BY <1>4, <1>8, <2>1, SMTT(30) DEF Terminated
  <2>3. szRead = Fits(name)
    BY <2>2, ReadNames DEF RefInv, RefTypes
  <2>4. PICK x \in Seq(Letters) : /\ x = InFolders(p)[Len(p)] /\ name \in Seq(Letters)
                                  /\ Joined(q) = x \o name /\ Joined(q) \in Seq(Letters)
                                  /\ InFolders(q)[Len(q)] = Joined(q) \o <<"\\">>
    BY <1>4, InFoldersAppend
  <2>5. z = Fits(x)
    BY <1>3, <2>2, <2>4
  <2>6. t = Fits(Fits(Fits(x)) \o Fits(name))
    BY <1>5, <2>3, <2>5 DEF strncat
  <2>7. Fits(Fits(x)) = Fits(x) /\ Fits(x) \in Seq(Letters) /\ Fits(name) \in Seq(Letters)
    BY <2>4, FitsFacts, FitsTwice
  <2>8. Fits(Fits(x) \o Fits(name)) = Fits(x \o Fits(name))
    BY ONLY <2>7, x \in Seq(Letters), FitsTwice
  <2>9. Fits(x \o Fits(name)) = Fits(x \o name)
    BY ONLY <2>4, x \in Seq(Letters), FitsTwice
  <2> QED
    BY <2>4, <2>6, <2>7, <2>8, <2>9
<1>9. /\ Called \in Seq(Frames) /\ dwNumSubFolders' \in Nat
      /\ \A k \in 1..Len(Called) : HasPath(Called[k])
      /\ \E c \in Nat : Open(Called, c) /\ announced = dwIndex + 1 + dwNumSubFolders' + c
  BY <1>1, CalledFacts
<1>10. PICK r \in Seq(Frames) : r = Called
  BY <1>9
<1>11. PICK c \in Nat : Open(r, c) /\ announced = dwIndex + 1 + dwNumSubFolders' + c
  BY <1>9, <1>10
<1>12. /\ stack' \in Seq(Frames) /\ stack' # <<>> /\ Len(stack') = Len(r) + 1 /\ stack'[Len(r) + 1] = e
       /\ \A k \in 1..Len(r) : stack'[k] = r[k]
  BY ONLY <1>7, <1>10, e \in Frames, AppendProperties
<1>13. Last(stack') = e
  BY <1>12 DEF Last
<1>14. Open(stack', c)
  <2>1. Open(Append(r, e), c + e.dwNumSubFolders)
    BY <1>11, OpenMore
  <2> QED
    BY <1>6, <1>7, <1>10, <2>1
<1>15. RefTypes'
  BY <1>1, <1>9, <1>12 DEF RefInv, RefTypes
<1>16. announced' = dwIndex' + dwNumSubFolders' + c
  BY <1>1, <1>11
<1>17. FoldersInv' /\ RefPlaces'
  BY <1>1, <1>14, <1>16 DEF FoldersInv, RefPlaces, Ahead, Behind
<1>18. OutputInv'
  <2>1. output'.index = dwIndex' /\ output'.text = t /\ output'.path = q
    BY <1>7
  <2>2. CASE Terminated(q)
    BY <1>8, <2>1, <2>2 DEF OutputInv
  <2>3. CASE ~Terminated(q)
    <3>1. file.text' /\ \E k \in DOMAIN q : Len(q[k]) >= MAX_PATH
      <4>1. PICK k \in DOMAIN q : file.text /\ ~(Len(q[k]) < MAX_PATH)
        BY <2>3 DEF Terminated
      <4>2. Len(q[k]) \in Nat
        <5>1. q[k] \in FolderNames
          BY <4>1, LenProperties, ElementOfSeq
        <5> QED
          BY <5>1, LettersFacts, LenProperties
      <4>3. Len(q[k]) >= MAX_PATH
        BY <4>1, <4>2, RefAssumption
      <4> QED
        BY <1>1, <4>1, <4>3
    <3> QED
      BY <2>1, <3>1 DEF OutputInv
  <2> QED
    BY <2>2, <2>3
<1>19. HasPath(e) /\ HasName(e)
  BY <1>6, <1>8 DEF HasPath, HasName
<1>20. ASSUME NEW k \in 1..(Len(r) + 1) PROVE HasPath(stack'[k])
  <2>1. CASE k = Len(r) + 1
    BY <1>12, <1>19, <2>1
  <2>2. CASE k # Len(r) + 1
    <3>1. k \in 1..Len(r)
      <4>1. Len(r) \in Nat
        BY LenProperties
      <4> QED
        BY <2>2, <4>1
    <3> QED
      BY <1>9, <1>10, <1>12, <3>1
  <2> QED
    BY <2>1, <2>2
<1>21. PathsInv'
  BY <1>1, <1>12, <1>13, <1>19, <1>20 DEF PathsInv, HasPath, HasName, Terminated
<1> QED
  BY <1>15, <1>17, <1>18, <1>21 DEF RefInv

LEMMA RefStep == RefInv /\ [RefNext]_refVars => RefInv'
<1> SUFFICES ASSUME RefInv, [RefNext]_refVars PROVE RefInv'
  OBVIOUS
<1>1. CASE CheckCompression
  BY <1>1, OtherStep DEF CheckCompression, ReturnEntries, Ahead
<1>2. CASE \E n \in 0..MaxEntries : ReadNumEntries(n)
  BY <1>2, OtherStep DEF ReadNumEntries, ReturnEntries, Ahead
<1>3. CASE ReadAncestorLevel
  BY <1>3, OtherStep DEF ReadAncestorLevel, Ahead
<1>4. CASE \E n \in 0..MaxFolders : ReadNumFolders(n) \/ ReadNumSubFolders(n)
  BY <1>4, NumFoldersStep, NumSubFoldersStep
<1>5. CASE \E name \in FolderNames : ReadFolder(name)
  BY <1>5, ReadFolderStep
<1>6. CASE ReturnFromFolder \/ EndFolders \/ ReadFails
  BY <1>6, ReturnFromFolderStep, EndFoldersStep, ReadFailsStep
<1>7. CASE \/ ReadFlags \/ ReadFileName \/ ReadResourceIndex \/ ReadNodeIndex \/ ReadUseFile
           \/ ReadFolderIndex \/ ReadNat64
  <2>1. PICK from \in Behind, to \in Behind : Field(from, to)
    BY <1>7 DEF ReadFlags, ReadFileName, ReadResourceIndex, ReadNodeIndex, ReadUseFile,
                ReadFolderIndex, ReadNat64, AfterNode, Behind
  <2> QED
    BY <2>1, OtherStep DEF Field
<1>8. CASE NextReference
  BY <1>8, OtherStep DEF NextReference, ReturnEntries, references, Behind
<1>9. CASE UNCHANGED refVars
  <2>1. UNCHANGED <<file, folders, refPc, result, dwCount>>
    BY <1>9 DEF refVars, references
  <2>2. UNCHANGED <<file, dwNumSubFolders, dwIndex, stack, announced, output, refPc, result, dwCount>>
    BY <2>1 DEF folders
  <2> QED
    BY <2>2 DEF RefInv, RefTypes, RefPlaces, PathsInv, HasPath, HasName, Terminated, OutputInv,
                FoldersInv
<1> QED
  BY <1>1, <1>2, <1>3, <1>4, <1>5, <1>6, <1>7, <1>8, <1>9 DEF RefNext

(* However folders are nested and whatever is cut off from their paths, a   *)
(* folder is printed under its number and with the path it has in the file, *)
(* as far as the buffer reaches, and a table that counts as read is         *)
(* complete.                                                                *)
THEOREM FoldersAlwaysAsNested == RefSpec => []FoldersAsNested
<1>1. RefInv => FoldersAsNested
  BY DEF RefInv, OutputInv, FoldersInv, FoldersAsNested
<1> QED
  BY <1>1, RefStarts, RefStep, PTL DEF RefSpec

-----------------------------------------------------------------------------
(* Strings: what a pass of CleanupString writes fits the block that was     *)
(* calculated for it, because it finds the pattern as often as the loop     *)
(* that counted it; and the passes together remove the codes and nothing    *)
(* else, because each takes one kind of the pieces of a text for what it is *)
(* and leaves the others alone.                                             *)
(* A place that is found lies in the text, at or behind where the search    *)
(* started.                                                                 *)
LEMMA FindFacts ==
  ASSUME NEW s \in Seq(Characters), NEW pattern \in Seq(Characters), Len(pattern) \in Nat \ {0},
         NEW from \in 1..(Len(s) + 1)
  PROVE  Find(s, from, pattern) = 0 \/ Find(s, from, pattern) \in from..(Len(s) - Len(pattern) + 1)
<1> DEFINE places == {k \in from..(Len(s) - Len(pattern) + 1) :
                        SubSeq(s, k, k + Len(pattern) - 1) = pattern}
<1>1. Find(s, from, pattern) = IF places = {} THEN 0 ELSE Min(places)
  BY DEF Find
<1>2. places \subseteq from..(Len(s) - Len(pattern) + 1) /\ places \subseteq Nat
  BY LenProperties
<1>3. Min(places) = CHOOSE x \in places : \A y \in places : x <= y
  BY DEF Min
<1> HIDE DEF places
<1>4. CASE places # {}
  <2>1. \E m \in places : \A k \in places : m <= k
    BY ONLY <1>2, <1>4, LeastNatural
  <2>2. Min(places) \in places
    BY <1>3, <2>1
  <2> QED
    BY <1>1, <1>2, <1>4, <2>2
<1> QED
  BY <1>1, <1>4

Ats(s) == [ptr : 1..(Len(s) + 1), count : Nat]

LEMMA NextMatchFacts ==
  ASSUME NEW s \in Seq(Characters), NEW pattern \in Seq(Characters), Len(pattern) \in Nat \ {0},
         NEW at \in Ats(s)
  PROVE  /\ NextMatch(s, pattern, at) \in Ats(s)
         /\ Find(s, at.ptr, pattern) = 0 => NextMatch(s, pattern, at) = at
         /\ Find(s, at.ptr, pattern) # 0 =>
              /\ NextMatch(s, pattern, at).ptr = Find(s, at.ptr, pattern) + Len(pattern)
              /\ NextMatch(s, pattern, at).count = at.count + 1
              /\ NextMatch(s, pattern, at).ptr > at.ptr
<1>1. at.ptr \in 1..(Len(s) + 1) /\ at.count \in Nat /\ Len(s) \in Nat
  BY LenProperties DEF Ats
<1>2. PICK loc : loc = Find(s, at.ptr, pattern)
  OBVIOUS
<1>3. loc = 0 \/ loc \in at.ptr..(Len(s) - Len(pattern) + 1)
  <2>1. PICK p \in 1..(Len(s) + 1) : p = at.ptr
    BY <1>1
  <2>2. Find(s, p, pattern) = 0 \/ Find(s, p, pattern) \in p..(Len(s) - Len(pattern) + 1)
    BY <1>1, <2>1, FindFacts
  <2> QED
    BY <1>2, <2>1, <2>2
<1>4. NextMatch(s, pattern, at) = IF loc = 0 THEN at ELSE [ptr |-> loc + Len(pattern), count |-> at.count + 1]
  BY <1>2 DEF NextMatch
<1>5. CASE loc = 0
  BY <1>2, <1>4, <1>5
<1>6. CASE loc # 0
  <2>1. /\ loc + Len(pattern) \in 1..(Len(s) + 1) /\ loc + Len(pattern) > at.ptr
        /\ at.count + 1 \in Nat
    BY <1>1, <1>3, <1>6
  <2> QED
    BY <1>2, <1>4, <1>6, <2>1 DEF Ats
<1> QED
  BY <1>5, <1>6

(* The rounds of the counting loop.                                         *)
Rounds(c, s, pattern) ==
  /\ c[0] = [ptr |-> 1, count |-> 0]
  /\ \A n \in Nat : c[n] \in Ats(s) /\ c[n + 1] = NextMatch(s, pattern, c[n])

LEMMA CountingFacts ==
  ASSUME NEW s \in Seq(Characters), NEW pattern \in Seq(Characters), Len(pattern) \in Nat \ {0}
  PROVE  Rounds(Counting(s, pattern), s, pattern)
<1> DEFINE V == Ats(s)
           next(v) == NextMatch(s, pattern, v)
           first == [ptr |-> 1, count |-> 0]
           step == [x \in Nat \X V |-> next(x[2])]
           Follows(f) == f = [n \in Nat |-> IF n = 0 THEN first ELSE next(f[n - 1])]
<1>1. \A v \in V : next(v) \in V
  BY NextMatchFacts
<1>2. first \in V
  BY LenProperties DEF Ats
<1>3. Counting(s, pattern) = CHOOSE f : Follows(f)
  BY DEF Counting
<1> HIDE DEF V, next, first
<1>4. \A n \in Nat, v \in V : step[<<n, v>>] = next(v)
  OBVIOUS
<1> HIDE DEF step
<1>5. StepsIn(V, step)
  BY <1>1, <1>4 DEF StepsIn
<1>6. PICK f : Iterates(f, V, first, step)
  BY ONLY <1>2, <1>5, RecursionExists
<1>7. f \in [Nat -> V] /\ f[0] = first /\ \A n \in Nat : f[n + 1] = step[<<n, f[n]>>]
  BY <1>6 DEF Iterates
<1>8. Follows(f)
  <2>1. \A n \in Nat \ {0} : f[n] = next(f[n - 1])
    <3> SUFFICES ASSUME NEW n \in Nat \ {0} PROVE f[n] = next(f[n - 1])
      OBVIOUS
    <3>1. PICK m \in Nat : m = n - 1 /\ n = m + 1
      OBVIOUS
    <3>2. f[m] \in V /\ f[m + 1] = step[<<m, f[m]>>]
      BY <1>7
    <3>3. step[<<m, f[m]>>] = next(f[m])
      BY <1>4, <3>2
    <3> QED
      BY <3>1, <3>2, <3>3
  <2> QED
    BY <1>7, <2>1
<1>9. Follows(Counting(s, pattern))
  <2> HIDE DEF Follows
  <2> QED
    BY <1>3, <1>8
<1>10. PICK g : /\ g = Counting(s, pattern) /\ g[0] = first
                /\ \A n \in Nat : g[n + 1] = next(g[n])
  <2>1. PICK g : g = Counting(s, pattern) /\ Follows(g)
    BY <1>9
  <2>2. \A n \in Nat : g[n] = IF n = 0 THEN first ELSE next(g[n - 1])
    BY <2>1
  <2>3. ASSUME NEW n \in Nat PROVE g[n + 1] = next(g[n])
    <3>1. PICK m \in Nat : m = n + 1 /\ m # 0 /\ m - 1 = n
      OBVIOUS
    <3>2. g[m] = next(g[m - 1])
      BY <2>2, <3>1
    <3> QED
      BY <3>1, <3>2
  <2> QED
    BY <2>1, <2>2, <2>3
<1>11. \A n \in Nat : g[n] \in V
  <2>1. StaysIn(V, g)
    BY <1>1, <1>2, <1>10 DEF StaysIn
  <2> QED
    BY ONLY <2>1, ValuesIn
<1> QED
  BY <1>10, <1>11 DEF V, next, first, Rounds

(* A place in the text and the number of matches before it.                 *)
After(r, s, pattern, ptr) ==
  Counting(s, pattern)[r].ptr = ptr /\ Counting(s, pattern)[r].count = r

(* From round r on the place moves at least as far as the count grows.      *)
Farther(c, r) == {k \in Nat : /\ c[r + k].count - c[r].count \in Nat
                              /\ c[r + k].count - c[r].count <= c[r + k].ptr - c[r].ptr}

LEMMA PlaceOutrunsCount ==
  ASSUME NEW s \in Seq(Characters), NEW pattern \in Seq(Characters), Len(pattern) \in Nat \ {0},
         NEW c, Rounds(c, s, pattern), NEW r \in Nat
  PROVE  \A k \in Nat : k \in Farther(c, r)
<1>1. \A n \in Nat : /\ c[n].ptr \in 1..(Len(s) + 1) /\ c[n].count \in Nat
  BY DEF Rounds, Ats
<1>2. 0 \in Farther(c, r)
  <2>1. r + 0 = r
    OBVIOUS
  <2> QED
    BY <1>1, <2>1, LenProperties DEF Farther
<1>3. ASSUME NEW k \in Nat, k \in Farther(c, r) PROVE k + 1 \in Farther(c, r)
  <2>1. PICK m \in Nat : m = r + k /\ m + 1 = r + (k + 1)
    OBVIOUS
  <2>2. c[m] \in Ats(s) /\ c[m + 1] = NextMatch(s, pattern, c[m])
    BY DEF Rounds
  <2>3. \/ c[m + 1] = c[m]
        \/ c[m + 1].count = c[m].count + 1 /\ c[m + 1].ptr > c[m].ptr
    BY <2>2, NextMatchFacts
  <2>4. c[m].ptr \in Nat /\ c[m + 1].ptr \in Nat /\ c[r].ptr \in Nat
    BY <1>1, LenProperties
  <2>5. c[m].count \in Nat /\ c[r].count \in Nat /\ k + 1 \in Nat
    BY <1>1
  <2>6. /\ c[m].count - c[r].count \in Nat
        /\ c[m].count - c[r].count <= c[m].ptr - c[r].ptr
    BY <1>3, <2>1 DEF Farther
  <2>7. /\ c[m + 1].count - c[r].count \in Nat
        /\ c[m + 1].count - c[r].count <= c[m + 1].ptr - c[r].ptr
    <3>1. PICK p, q, p1, q1 : /\ p = c[m].ptr - c[r].ptr /\ q = c[m].count - c[r].count
                              /\ p1 = c[m + 1].ptr - c[r].ptr /\ q1 = c[m + 1].count - c[r].count
      OBVIOUS
    <3>2. p \in Int /\ p1 \in Int /\ q \in Nat /\ q <= p
      BY <2>4, <2>6, <3>1
    <3>3. (p1 = p /\ q1 = q) \/ (p1 > p /\ q1 = q + 1)
      <4>1. CASE c[m + 1] = c[m]
        BY <3>1, <4>1
      <4>2. CASE c[m + 1].count = c[m].count + 1 /\ c[m + 1].ptr > c[m].ptr
        <5>1. PICK a \in Nat, b \in Nat, d \in Nat :
                a = c[m].ptr /\ b = c[m + 1].ptr /\ d = c[r].ptr
          BY <2>4
        <5>2. PICK i \in Nat, j \in Nat : i = c[m].count /\ j = c[r].count
          BY <2>5
        <5>3. p = a - d /\ p1 = b - d /\ q = i - j /\ q1 = (i + 1) - j /\ b > a
          BY <3>1, <4>2, <5>1, <5>2
        <5>4. b - d > a - d /\ (i + 1) - j = (i - j) + 1
          BY ONLY <5>3, a \in Nat, b \in Nat, d \in Nat, i \in Nat, j \in Nat
        <5>5. p1 > p /\ q1 = q + 1
          BY ONLY <5>3, <5>4
        <5> QED
          BY <5>4, <5>5
      <4> QED
        BY <2>3, <4>1, <4>2
    <3>4. q1 \in Nat /\ q1 <= p1
      BY <3>2, <3>3
    <3> QED
      BY <3>1, <3>4
  <2> QED
    BY <2>1, <2>5, <2>7 DEF Farther
<1>4. PICK F : F = Farther(c, r)
  OBVIOUS
<1>5. \A n \in Nat : n \in F => n + 1 \in F
  BY <1>3, <1>4
<1>6. \A n \in Nat : n \in F
  BY ONLY <1>2, <1>4, <1>5, SetInduction
<1> QED
  BY <1>4, <1>6

(* Once no match is left, no later round changes anything.                  *)
Unmoved(c, r) == {k \in Nat : c[r + k] = c[r]}

LEMMA RoundsRest ==
  ASSUME NEW s \in Seq(Characters), NEW pattern \in Seq(Characters), Len(pattern) \in Nat \ {0},
         NEW c, Rounds(c, s, pattern), NEW r \in Nat, Find(s, c[r].ptr, pattern) = 0
  PROVE  \A k \in Nat : k \in Unmoved(c, r)
<1>1. 0 \in Unmoved(c, r)
  <2>1. r + 0 = r
    OBVIOUS
  <2> QED
    BY <2>1 DEF Unmoved
<1>2. ASSUME NEW k \in Nat, k \in Unmoved(c, r) PROVE k + 1 \in Unmoved(c, r)
  <2>1. PICK m \in Nat : m = r + k /\ m + 1 = r + (k + 1)
    OBVIOUS
  <2>2. c[m] \in Ats(s) /\ c[m + 1] = NextMatch(s, pattern, c[m])
    BY DEF Rounds
  <2>3. c[m] = c[r]
    BY <1>2, <2>1 DEF Unmoved
  <2>4. c[m + 1] = c[m]
    BY <2>2, <2>3, NextMatchFacts
  <2>5. c[r + (k + 1)] = c[r] /\ k + 1 \in Nat
    BY <2>1, <2>3, <2>4
  <2> QED
    BY <2>5 DEF Unmoved
<1>3. PICK F : F = Unmoved(c, r)
  OBVIOUS
<1>4. \A n \in Nat : n \in F => n + 1 \in F
  BY <1>2, <1>3
<1>5. \A n \in Nat : n \in F
  BY ONLY <1>1, <1>3, <1>4, SetInduction
<1> QED
  BY <1>3, <1>5

(* The matches that are still to come have room behind the place; there are *)
(* none when no further one is found; and the next one is one more.         *)
MatchesLeft(s, pattern, r, ptr) ==
  /\ ptr \in 1..(Len(s) + 1) /\ uPatCount(s, pattern) \in Nat
  /\ r <= uPatCount(s, pattern) /\ uPatCount(s, pattern) - r <= Len(s) + 1 - ptr
  /\ Find(s, ptr, pattern) = 0 => uPatCount(s, pattern) = r
  /\ Find(s, ptr, pattern) # 0 =>
       After(r + 1, s, pattern, Find(s, ptr, pattern) + Len(pattern))

LEMMA MatchesLeftFacts ==
  ASSUME NEW s \in Seq(Characters), NEW pattern \in Seq(Characters), Len(pattern) \in Nat \ {0},
         NEW r \in Nat, NEW ptr, After(r, s, pattern, ptr)
  PROVE  MatchesLeft(s, pattern, r, ptr)
<1>1. PICK c : c = Counting(s, pattern)
  OBVIOUS
<1>2. Rounds(c, s, pattern)
  BY <1>1, CountingFacts
<1>3. c[r].ptr = ptr /\ c[r].count = r
  BY <1>1 DEF After
<1>4. PICK n \in Nat : n = Len(s)
  BY LenProperties
<1>5. uPatCount(s, pattern) = c[n].count
  BY <1>1, <1>4 DEF uPatCount
<1>6. \A m \in Nat : c[m].ptr \in 1..(n + 1) /\ c[m].count \in Nat /\ c[m] \in Ats(s)
  BY <1>2, <1>4 DEF Rounds, Ats
<1>7. r <= n
  <2>1. c[0].count = 0 /\ c[0].ptr = 1 /\ 0 + r = r
    BY <1>2 DEF Rounds
  <2>2. r \in Farther(c, 0)
    BY ONLY <1>2, PlaceOutrunsCount, s \in Seq(Characters), pattern \in Seq(Characters),
            Len(pattern) \in Nat \ {0}, r \in Nat
  <2>3. c[r].count - 0 <= c[r].ptr - 1
    BY <2>1, <2>2 DEF Farther
  <2> QED
    BY <1>3, <1>6, <2>3
<1>8. PICK k \in Nat : k = n - r /\ r + k = n
  BY <1>7
<1>9. c[n].count - r \in Nat /\ c[n].count - r <= c[n].ptr - ptr
  <2>1. k \in Farther(c, r)
    BY ONLY <1>2, PlaceOutrunsCount, s \in Seq(Characters), pattern \in Seq(Characters),
            Len(pattern) \in Nat \ {0}, r \in Nat, k \in Nat
  <2> QED
    BY <1>3, <1>8, <2>1 DEF Farther
<1>10. ptr \in 1..(n + 1)
  BY <1>3, <1>6
<1>11. ASSUME Find(s, ptr, pattern) = 0 PROVE c[n].count = r
  <2>1. k \in Unmoved(c, r)
    <3>1. Find(s, c[r].ptr, pattern) = 0
      BY <1>3, <1>11
    <3> QED
      BY ONLY <1>2, <3>1, RoundsRest, s \in Seq(Characters), pattern \in Seq(Characters),
              Len(pattern) \in Nat \ {0}, r \in Nat, k \in Nat
  <2>2. c[r + k] = c[r]
    BY <2>1 DEF Unmoved
  <2> QED
    BY <1>3, <1>8, <2>2
<1>12. ASSUME Find(s, ptr, pattern) # 0
       PROVE  c[r + 1].ptr = Find(s, ptr, pattern) + Len(pattern) /\ c[r + 1].count = r + 1
  <2>1. c[r + 1] = NextMatch(s, pattern, c[r]) /\ c[r] \in Ats(s)
    BY <1>2 DEF Rounds
  <2> QED
    BY <1>3, <1>12, <2>1, NextMatchFacts
<1>13. r <= c[n].count /\ c[n].count - r <= n + 1 - ptr
  <2>a. c[n].count \in Nat /\ c[n].ptr \in 1..(n + 1)
    BY <1>6
  <2>b. PICK count \in Nat : count = c[n].count
    BY <2>a
  <2>c. PICK end \in 1..(n + 1) : end = c[n].ptr
    BY <2>a
  <2>1. PICK at \in 1..(n + 1) : at = ptr
    BY <1>10
  <2>2. count - r \in Nat /\ count - r <= end - at
    BY <1>9, <2>b, <2>c, <2>1
  <2>3. r <= count /\ count - r <= n + 1 - at
    BY ONLY <2>2, r \in Nat, n \in Nat, count \in Nat, end \in 1..(n + 1), at \in 1..(n + 1)
  <2> QED
    BY <2>b, <2>1, <2>3
<1>14. /\ ptr \in 1..(Len(s) + 1) /\ uPatCount(s, pattern) \in Nat
       /\ r <= uPatCount(s, pattern) /\ uPatCount(s, pattern) - r <= Len(s) + 1 - ptr
  BY <1>4, <1>5, <1>6, <1>10, <1>13
<1>15. Find(s, ptr, pattern) = 0 => uPatCount(s, pattern) = r
  BY <1>5, <1>11
<1>16. Find(s, ptr, pattern) # 0 =>
         After(r + 1, s, pattern, Find(s, ptr, pattern) + Len(pattern))
  BY <1>1, <1>12 DEF After
<1> QED
  BY <1>14, <1>15, <1>16 DEF MatchesLeft

LEMMA NothingCounted ==
  ASSUME NEW s \in Seq(Characters), NEW pattern \in Seq(Characters), Len(pattern) \in Nat \ {0}
  PROVE  After(0, s, pattern, 1)
BY CountingFacts DEF Rounds, After

Dollars == <<"$", "$">>

LEMMA PatternFacts ==
  /\ Dollars \in Seq(Characters) /\ Len(Dollars) = 2
  /\ <<"$">> \in Seq(Characters) /\ Len(<<"$">>) = 1
  /\ <<"a">> \in Seq(Characters) /\ Len(<<"a">>) = 1
  /\ Stages.escape.pattern = Dollars /\ Stages.escape.replacement = <<"a">>
  /\ Stages.restore.pattern = <<"a">> /\ Stages.restore.replacement = <<"$">>
BY DEF Dollars, Characters, Stages

LEMMA DollarsLeft ==
  ASSUME NEW s \in Seq(Characters), NEW r \in Nat, NEW ptr, After(r, s, Dollars, ptr)
  PROVE  MatchesLeft(s, Dollars, r, ptr)
<1>1. Dollars \in Seq(Characters) /\ Len(Dollars) \in Nat \ {0}
  BY PatternFacts
<1> QED
  BY ONLY <1>1, MatchesLeftFacts, s \in Seq(Characters), r \in Nat, After(r, s, Dollars, ptr)

LEMMA NoDollarsYet ==
  ASSUME NEW s \in Seq(Characters)
  PROVE  After(0, s, Dollars, 1)
<1>1. Dollars \in Seq(Characters) /\ Len(Dollars) \in Nat \ {0}
  BY PatternFacts
<1> QED
  BY ONLY <1>1, NothingCounted, s \in Seq(Characters)

(* What follows a place, and what stands between two.                       *)
LEMMA PartFacts ==
  ASSUME NEW s \in Seq(Characters), NEW i \in 1..(Len(s) + 1), NEW j \in (i - 1)..Len(s)
  PROVE  SubSeq(s, i, j) \in Seq(Characters) /\ Len(SubSeq(s, i, j)) = j - i + 1
BY ONLY s \in Seq(Characters), i \in 1..(Len(s) + 1), j \in (i - 1)..Len(s), SubSeqProperties

-----------------------------------------------------------------------------
(* Strings: the three passes remove the codes and nothing else.             *)
Forms == [Pieces -> Seq(Characters)]

(* g holds what the pieces give, one after the other.                       *)
Grows(g, form, pieces) ==
  /\ g[0] = <<>> /\ \A n \in Nat : g[n] \in Seq(Characters)
  /\ \A n \in Nat : n < Len(pieces) => g[n + 1] = g[n] \o form[pieces[n + 1]]

LEMMA StrungGrows ==
  ASSUME NEW pieces \in Seq(Pieces), NEW form \in Forms
  PROVE  Grows(Strung(form, pieces), form, pieces)
<1> DEFINE part(n) == IF n \in DOMAIN pieces THEN form[pieces[n]] ELSE <<>>
           step == [x \in Nat \X Seq(Characters) |-> x[2] \o part(x[1] + 1)]
           Follows(f) == f = [n \in Nat |-> IF n = 0 THEN <<>> ELSE f[n - 1] \o part(n)]
<1>1. \A n \in Nat : part(n) \in Seq(Characters)
  <2> SUFFICES ASSUME NEW n \in Nat PROVE part(n) \in Seq(Characters)
    OBVIOUS
  <2>1. CASE n \in DOMAIN pieces
    <3>1. pieces[n] \in Pieces
      BY <2>1, LenProperties, ElementOfSeq
    <3> QED
      BY <2>1, <3>1 DEF Forms
  <2>2. CASE n \notin DOMAIN pieces
    BY <2>2, EmptySeq
  <2> QED
    BY <2>1, <2>2
<1>b. \A n \in Nat : n < Len(pieces) => part(n + 1) = form[pieces[n + 1]]
  <2> SUFFICES ASSUME NEW n \in Nat, n < Len(pieces) PROVE part(n + 1) = form[pieces[n + 1]]
    OBVIOUS
  <2>1. n + 1 \in DOMAIN pieces
    BY LenProperties
  <2> QED
    BY <2>1
<1> HIDE DEF part
<1>a. \A n \in Nat, v \in Seq(Characters) : v \o part(n + 1) \in Seq(Characters)
  <2> SUFFICES ASSUME NEW n \in Nat, NEW v \in Seq(Characters) PROVE v \o part(n + 1) \in Seq(Characters)
    OBVIOUS
  <2>1. PICK m \in Nat : m = n + 1
    OBVIOUS
  <2>2. part(m) \in Seq(Characters)
    BY <1>1
  <2> QED
    BY <2>1, <2>2, ConcatProperties
<1>2. \A n \in Nat, v \in Seq(Characters) : step[<<n, v>>] = v \o part(n + 1)
  OBVIOUS
<1>3. StepsIn(Seq(Characters), step)
  <2> HIDE DEF step
  <2> QED
    BY <1>a, <1>2 DEF StepsIn
<1>4. Strung(form, pieces) = CHOOSE f : Follows(f)
  BY DEF Strung, part
<1>5. <<>> \in Seq(Characters)
  BY EmptySeq
<1> HIDE DEF step
<1>6. PICK f : Iterates(f, Seq(Characters), <<>>, step)
  BY ONLY <1>3, <1>5, RecursionExists
<1>7. f \in [Nat -> Seq(Characters)] /\ f[0] = <<>> /\ \A n \in Nat : f[n + 1] = step[<<n, f[n]>>]
  BY <1>6 DEF Iterates
<1>8. Follows(f)
  <2>1. \A n \in Nat \ {0} : f[n] = f[n - 1] \o part(n)
    <3> SUFFICES ASSUME NEW n \in Nat \ {0} PROVE f[n] = f[n - 1] \o part(n)
      OBVIOUS
    <3>1. PICK m \in Nat : m = n - 1 /\ n = m + 1
      OBVIOUS
    <3>2. f[m] \in Seq(Characters) /\ f[m + 1] = step[<<m, f[m]>>]
      BY <1>7
    <3>3. step[<<m, f[m]>>] = f[m] \o part(m + 1)
      BY <1>2, <3>2
    <3> QED
      BY <3>1, <3>2, <3>3
  <2> QED
    BY <1>7, <2>1
<1>9. Follows(Strung(form, pieces))
  <2> HIDE DEF Follows
  <2> QED
    BY <1>4, <1>8
<1>10. PICK g : /\ g = Strung(form, pieces) /\ g[0] = <<>>
                /\ \A n \in Nat : g[n + 1] = g[n] \o part(n + 1)
  <2>1. PICK g : g = Strung(form, pieces) /\ Follows(g)
    BY <1>9
  <2>2. \A n \in Nat : g[n] = IF n = 0 THEN <<>> ELSE g[n - 1] \o part(n)
    BY <2>1
  <2>3. ASSUME NEW n \in Nat PROVE g[n + 1] = g[n] \o part(n + 1)
    <3>1. PICK m \in Nat : m = n + 1 /\ m # 0 /\ m - 1 = n
      OBVIOUS
    <3>2. g[m] = g[m - 1] \o part(m)
      BY <2>2, <3>1
    <3> QED
      BY <3>1, <3>2
  <2> QED
    BY <2>1, <2>2, <2>3
<1>11. \A n \in Nat : g[n] \in Seq(Characters)
  <2>1. StaysIn(Seq(Characters), g)
    BY <1>5, <1>a, <1>10 DEF StaysIn
  <2> QED
    BY ONLY <2>1, ValuesIn
<1> QED
  BY <1>b, <1>10, <1>11 DEF Grows

(* One piece more.                                                          *)
OneMore(g, piece, n) ==
  /\ piece \in Seq(Characters) /\ Len(g[n + 1]) = Len(g[n]) + Len(piece)
  /\ \A i \in 1..Len(g[n]) : g[n + 1][i] = g[n][i]
  /\ \A j \in 1..Len(piece) : g[n + 1][Len(g[n]) + j] = piece[j]

LEMMA OnePieceMore ==
  ASSUME NEW pieces \in Seq(Pieces), NEW form \in Forms, NEW g, Grows(g, form, pieces),
         NEW n \in Nat, n < Len(pieces)
  PROVE  pieces[n + 1] \in Pieces /\ OneMore(g, form[pieces[n + 1]], n)
<1>1. pieces[n + 1] \in Pieces
  <2>1. PICK m \in 1..Len(pieces) : m = n + 1
    BY LenProperties
  <2> QED
    BY <2>1, ElementOfSeq
<1>2. PICK t : t = form[pieces[n + 1]] /\ t \in Seq(Characters)
  BY <1>1 DEF Forms
<1>3. PICK s : s = g[n] /\ s \in Seq(Characters) /\ g[n + 1] = s \o t
  BY <1>2 DEF Grows
<1>a. s \in Seq(Characters) /\ t \in Seq(Characters)
  BY <1>2, <1>3
<1>4. /\ Len(s \o t) = Len(s) + Len(t)
      /\ \A i \in 1..(Len(s) + Len(t)) : (s \o t)[i] = IF i <= Len(s) THEN s[i] ELSE t[i - Len(s)]
  BY ONLY <1>a, ConcatProperties
<1>5. Len(s) \in Nat /\ Len(t) \in Nat
  BY <1>2, <1>3, LenProperties
<1>6. \A i \in 1..Len(s) : (s \o t)[i] = s[i]
  BY <1>4, <1>5
<1>7. ASSUME NEW j \in 1..Len(t) PROVE (s \o t)[Len(s) + j] = t[j]
  <2>1. PICK i \in 1..(Len(s) + Len(t)) : i = Len(s) + j /\ ~ (i <= Len(s)) /\ i - Len(s) = j
    BY <1>5
  <2> QED
    BY <1>4, <2>1
<1> QED
  BY <1>1, <1>2, <1>3, <1>4, <1>6, <1>7 DEF OneMore

(* What was written first stays.                                            *)
Begins(g, n, N) ==
  {k \in Nat : n + k <= N => /\ Len(g[n]) <= Len(g[n + k])
                             /\ \A i \in 1..Len(g[n]) : g[n + k][i] = g[n][i]}

LEMMA PiecesStay ==
  ASSUME NEW pieces \in Seq(Pieces), NEW form \in Forms, NEW g, Grows(g, form, pieces),
         NEW n \in Nat
  PROVE  \A m \in n..Len(pieces) : /\ Len(g[n]) <= Len(g[m])
                                   /\ \A i \in 1..Len(g[n]) : g[m][i] = g[n][i]
<1> DEFINE N == Len(pieces)
<1>0. N \in Nat /\ \A m \in Nat : Len(g[m]) \in Nat
  BY LenProperties DEF Grows
<1> HIDE DEF N
<1>1. 0 \in Begins(g, n, N)
  <2>1. n + 0 = n
    OBVIOUS
  <2> QED
    BY <1>0, <2>1 DEF Begins
<1>2. ASSUME NEW k \in Nat, k \in Begins(g, n, N) PROVE k + 1 \in Begins(g, n, N)
  <2> SUFFICES ASSUME n + (k + 1) <= N
               PROVE  /\ Len(g[n]) <= Len(g[n + (k + 1)])
                      /\ \A i \in 1..Len(g[n]) : g[n + (k + 1)][i] = g[n][i]
    BY DEF Begins
  <2>1. PICK m \in Nat : m = n + k /\ m + 1 = n + (k + 1) /\ m < N /\ n + k <= N
    BY <1>0
  <2>2. Len(g[n]) <= Len(g[m]) /\ \A i \in 1..Len(g[n]) : g[m][i] = g[n][i]
    BY <1>2, <2>1 DEF Begins
  <2>3. PICK piece : OneMore(g, piece, m)
    BY <2>1, OnePieceMore DEF N
  <2>4. PICK a \in Nat, b \in Nat, c \in Nat, d \in Nat :
          a = Len(g[n]) /\ b = Len(g[m]) /\ c = Len(piece) /\ d = Len(g[m + 1])
    <3>1. Len(g[n]) \in Nat /\ Len(g[m]) \in Nat /\ Len(g[m + 1]) \in Nat
      BY <1>0, <2>1
    <3>2. Len(piece) \in Nat
      BY <2>3, LenProperties DEF OneMore
    <3> QED
      BY <3>1, <3>2
  <2>b. a <= b /\ d = b + c
    BY <2>2, <2>3, <2>4 DEF OneMore
  <2>5. Len(g[n]) <= Len(g[m + 1])
    BY <2>4, <2>b
  <2>6. \A i \in 1..Len(g[n]) : g[m + 1][i] = g[n][i]
    <3>1. \A i \in 1..a : i \in 1..b
      BY <2>b
    <3>2. \A i \in 1..b : g[m + 1][i] = g[m][i]
      BY <2>3, <2>4 DEF OneMore
    <3>3. \A i \in 1..a : g[m][i] = g[n][i]
      BY <2>2, <2>4
    <3> QED
      BY <2>4, <3>1, <3>2, <3>3
  <2> QED
    BY <2>1, <2>5, <2>6
<1>3. PICK F : F = Begins(g, n, N)
  OBVIOUS
<1>4. \A k \in Nat : k \in F => k + 1 \in F
  BY <1>2, <1>3
<1>5. \A k \in Nat : k \in F
  BY ONLY <1>1, <1>3, <1>4, SetInduction
<1>6. ASSUME NEW m \in n..Len(pieces)
      PROVE  /\ Len(g[n]) <= Len(g[m]) /\ \A i \in 1..Len(g[n]) : g[m][i] = g[n][i]
  <2>1. PICK k \in Nat : k = m - n /\ n + k = m /\ n + k <= N
    BY <1>0 DEF N
  <2>2. k \in Begins(g, n, N)
    BY <1>3, <1>5
  <2> QED
    BY <2>1, <2>2 DEF Begins
<1> QED
  BY <1>6

(* The letters of a piece in the whole.                                     *)
LettersOf(g, w, piece, n) == \A j \in 1..Len(piece) : w[Len(g[n]) + j] = piece[j]

LEMMA PieceLetters ==
  ASSUME NEW pieces \in Seq(Pieces), NEW form \in Forms, NEW g, Grows(g, form, pieces),
         NEW n \in Nat, n < Len(pieces)
  PROVE  LettersOf(g, g[Len(pieces)], form[pieces[n + 1]], n)
<1>1. PICK piece : piece = form[pieces[n + 1]] /\ OneMore(g, piece, n)
  BY OnePieceMore
<1>2. PICK b \in Nat, T \in Nat : b = Len(g[n]) /\ T = Len(piece)
  BY <1>1, LenProperties DEF Grows, OneMore
<1>3. PICK m \in Nat : m = n + 1 /\ Len(pieces) \in m..Len(pieces)
  BY LenProperties
<1>4. \A k \in 1..Len(g[m]) : g[Len(pieces)][k] = g[m][k]
  BY <1>3, PiecesStay
<1>5. Len(g[m]) = b + T /\ \A j \in 1..T : g[m][b + j] = piece[j]
  BY <1>1, <1>2, <1>3 DEF OneMore
<1>6. \A j \in 1..T : b + j \in 1..(b + T)
  OBVIOUS
<1>7. \A j \in 1..T : g[Len(pieces)][b + j] = piece[j]
  BY <1>4, <1>5, <1>6
<1> QED
  BY <1>1, <1>2, <1>7 DEF LettersOf

(* Every letter behind the n-th piece and up to the m-th is in one of them. *)
Pieced(g, n, i) == {k \in Nat : i > Len(g[n]) /\ i <= Len(g[n + k]) =>
                      \E l \in n..(n + k - 1) : i > Len(g[l]) /\ i <= Len(g[l + 1])}

LEMMA LetterInPiece ==
  ASSUME NEW pieces \in Seq(Pieces), NEW form \in Forms, NEW g, Grows(g, form, pieces),
         NEW n \in Nat, NEW m \in n..Len(pieces), NEW i \in (Len(g[n]) + 1)..Len(g[m])
  PROVE  \E l \in n..(m - 1) : i \in (Len(g[l]) + 1)..Len(g[l + 1])
<1>0. \A l \in Nat : Len(g[l]) \in Nat
  BY LenProperties DEF Grows
<1>1. 0 \in Pieced(g, n, i)
  <2>1. n + 0 = n
    OBVIOUS
  <2> QED
    BY <1>0, <2>1 DEF Pieced
<1>2. ASSUME NEW k \in Nat, k \in Pieced(g, n, i) PROVE k + 1 \in Pieced(g, n, i)
  <2> SUFFICES ASSUME i > Len(g[n]), i <= Len(g[n + (k + 1)])
               PROVE  \E l \in n..(n + (k + 1) - 1) : i > Len(g[l]) /\ i <= Len(g[l + 1])
    BY DEF Pieced
  <2>1. PICK q \in Nat : q = n + k /\ q + 1 = n + (k + 1) /\ n + (k + 1) - 1 = q /\ q \in n..q
    OBVIOUS
  <2>2. CASE i <= Len(g[q])
    <3>1. \E l \in n..(q - 1) : i > Len(g[l]) /\ i <= Len(g[l + 1])
      BY <1>2, <2>1, <2>2 DEF Pieced
    <3>2. n..(q - 1) \subseteq n..q
      BY <2>1
    <3> QED
      BY <2>1, <3>1, <3>2
  <2>3. CASE i > Len(g[q])
    BY <2>1, <2>3
  <2> QED
    BY <1>0, <2>2, <2>3
<1>3. PICK F : F = Pieced(g, n, i)
  OBVIOUS
<1>4. \A k \in Nat : k \in F => k + 1 \in F
  BY <1>2, <1>3
<1>5. \A k \in Nat : k \in F
  BY ONLY <1>1, <1>3, <1>4, SetInduction
<1>6. PICK k \in Nat : k = m - n /\ n + k = m
  BY LenProperties
<1>7. \E l \in n..(m - 1) : i > Len(g[l]) /\ i <= Len(g[l + 1])
  <2>1. k \in Pieced(g, n, i)
    BY <1>3, <1>5
  <2>2. i > Len(g[n]) /\ i <= Len(g[n + k])
    BY <1>0, <1>6
  <2> QED
    BY <1>6, <2>1, <2>2 DEF Pieced
<1>8. PICK l \in n..(m - 1) : i > Len(g[l]) /\ i <= Len(g[l + 1])
  BY <1>7
<1>9. l \in Nat /\ l + 1 \in Nat
  BY <1>8
<1>10. Len(g[l]) \in Nat /\ Len(g[l + 1]) \in Nat /\ i \in Int
  BY <1>0, <1>6, <1>9
<1> QED
  BY <1>8, <1>10

-----------------------------------------------------------------------------
(* What stands in a part.                                                   *)
LEMMA PartLetters ==
  ASSUME NEW w \in Seq(Characters), NEW i \in 1..(Len(w) + 1), NEW j \in (i - 1)..Len(w)
  PROVE  /\ SubSeq(w, i, j) \in Seq(Characters) /\ Len(SubSeq(w, i, j)) = j - i + 1
         /\ \A d \in 1..(j - i + 1) : SubSeq(w, i, j)[d] = w[i + d - 1]
<1>1. i \in Int /\ j \in Int /\ Len(w) \in Nat
  BY LenProperties
<1>2. \A d \in i..j : w[d] \in Characters
  BY <1>1, ElementOfSeq
<1>3. \A d \in 1..(j - i + 1) : SubSeq(w, i, j)[d] = w[i + d - 1]
  BY ONLY <1>1, <1>2, SubSeqProperties
<1> QED
  BY <1>3, PartFacts

\* Concatenation is associative (the library's theorem, for the characters).
LEMMA CharactersAssociate ==
  ASSUME NEW x \in Seq(Characters), NEW y \in Seq(Characters), NEW z \in Seq(Characters)
  PROVE  (x \o y) \o z = x \o (y \o z)
BY ONLY x \in Seq(Characters), y \in Seq(Characters), z \in Seq(Characters), ConcatAssociative

(* A part becomes longer by what stands behind it.                          *)
Continues(w, t, b) == \A j \in 1..Len(t) : w[b + j] = t[j]
LEMMA PartGrows ==
  ASSUME NEW w \in Seq(Characters), NEW t \in Seq(Characters), NEW a \in Nat, NEW b \in Nat,
         a <= b, b + Len(t) <= Len(w), Continues(w, t, b)
  PROVE  SubSeq(w, a + 1, b) \o t = SubSeq(w, a + 1, b + Len(t))
<1> USE DEF Continues
<1>1. Len(t) \in Nat /\ Len(w) \in Nat
  BY LenProperties
<1>2. PICK e : e = b + Len(t) /\ e \in Nat
  BY <1>1
<1>3. a + 1 \in 1..(Len(w) + 1) /\ b \in (a + 1 - 1)..Len(w) /\ e \in (a + 1 - 1)..Len(w)
  BY <1>1, <1>2
<1>4. PICK c : c = SubSeq(w, a + 1, b)
  OBVIOUS
<1>5. PICK f : f = SubSeq(w, a + 1, e)
  OBVIOUS
<1>6. /\ c \in Seq(Characters) /\ Len(c) = b - (a + 1) + 1
      /\ \A d \in 1..(b - (a + 1) + 1) : c[d] = w[a + 1 + d - 1]
  BY ONLY <1>3, <1>4, w \in Seq(Characters), PartLetters
<1>7. /\ f \in Seq(Characters) /\ Len(f) = e - (a + 1) + 1
      /\ \A d \in 1..(e - (a + 1) + 1) : f[d] = w[a + 1 + d - 1]
  BY ONLY <1>3, <1>5, w \in Seq(Characters), PartLetters
<1>8. PICK n \in Nat : n = b - a /\ Len(c) = n /\ Len(f) = n + Len(t)
  BY <1>1, <1>2, <1>6, <1>7
<1>9. /\ c \o t \in Seq(Characters) /\ Len(c \o t) = n + Len(t)
      /\ \A d \in 1..(n + Len(t)) : (c \o t)[d] = IF d <= n THEN c[d] ELSE t[d - n]
  <2>1. c \in Seq(Characters) /\ t \in Seq(Characters) /\ Len(c) = n
    BY <1>6, <1>8
  <2> QED
    BY ONLY <2>1, ConcatProperties
<1>10. ASSUME NEW d \in 1..(n + Len(t)) PROVE (c \o t)[d] = f[d]
  <2>1. f[d] = w[a + d]
    <3>1. d \in 1..(e - (a + 1) + 1) /\ a + 1 + d - 1 = a + d
      BY <1>1, <1>2, <1>8
    <3> QED
      BY <1>7, <3>1
  <2>2. CASE d <= n
    <3>1. d \in 1..(b - (a + 1) + 1) /\ a + 1 + d - 1 = a + d
      BY <1>1, <1>8, <2>2
    <3> QED
      BY <1>6, <1>9, <2>1, <2>2, <3>1
  <2>3. CASE ~ (d <= n)
    <3>1. PICK j \in 1..Len(t) : j = d - n /\ b + j = a + d
      <4>1. d - n \in 1..Len(t) /\ b + (d - n) = a + d
        BY <1>1, <1>8, <2>3
      <4> QED
        BY <4>1
    <3>2. w[b + j] = t[j]
      OBVIOUS
    <3> QED
      BY <1>9, <2>1, <2>3, <3>1, <3>2
  <2> QED
    BY <2>2, <2>3
<1>11. c \o t = f
  <2>1. /\ c \o t \in Seq(Characters) /\ f \in Seq(Characters) /\ Len(c \o t) = Len(f)
        /\ \A d \in 1..Len(c \o t) : (c \o t)[d] = f[d]
    BY <1>7, <1>8, <1>9, <1>10
  <2> QED
    BY ONLY <2>1, SeqEqual
<1> QED
  BY <1>2, <1>4, <1>5, <1>11

(* The places of all pieces up to the end.                                  *)
LEMMA PiecePlaces ==
  ASSUME NEW pieces \in Seq(Pieces), NEW form \in Forms, NEW g, Grows(g, form, pieces),
         NEW n \in 0..Len(pieces)
  PROVE  /\ g[Len(pieces)] \in Seq(Characters) /\ Len(g[n]) \in Nat
         /\ Len(g[n]) <= Len(g[Len(pieces)])
<1>1. n \in Nat /\ Len(pieces) \in n..Len(pieces) /\ Len(pieces) \in Nat
  BY LenProperties
<1>2. Len(g[n]) <= Len(g[Len(pieces)])
  BY <1>1, PiecesStay
<1>3. g[n] \in Seq(Characters) /\ g[Len(pieces)] \in Seq(Characters)
  BY <1>1 DEF Grows
<1> QED
  BY <1>2, <1>3, LenProperties

(* Pieces that read the same in two forms are copied from one to the other. *)
CopiedTo(g, h, w, n, m) == h[m] = h[n] \o SubSeq(w, Len(g[n]) + 1, Len(g[m]))
Copies(g, h, w, n, m)   == {k \in Nat : n + k <= m => CopiedTo(g, h, w, n, n + k)}

LEMMA CopiedPieces ==
  ASSUME NEW pieces \in Seq(Pieces), NEW from \in Forms, NEW to \in Forms,
         NEW g, Grows(g, from, pieces), NEW h, Grows(h, to, pieces),
         NEW n \in Nat, NEW m \in n..Len(pieces),
         \A k \in n..(m - 1) : from[pieces[k + 1]] = to[pieces[k + 1]]
  PROVE  CopiedTo(g, h, g[Len(pieces)], n, m)
<1>1. PICK w : w = g[Len(pieces)]
  OBVIOUS
<1>2. Len(pieces) \in Nat /\ m \in Nat /\ m <= Len(pieces) /\ n <= m /\ n \in 0..Len(pieces)
  BY LenProperties
<1>3. /\ w \in Seq(Characters) /\ \A k \in Nat : h[k] \in Seq(Characters)
      /\ \A k \in Nat : g[k] \in Seq(Characters)
      /\ \A k \in Nat : Len(g[k]) \in Nat
  BY <1>1, <1>2, LenProperties DEF Grows
<1>4. 0 \in Copies(g, h, w, n, m)
  <2>1. n + 0 = n /\ Len(g[n]) \in Int /\ Len(g[n]) + 1 \in Int /\ Len(g[n]) < Len(g[n]) + 1
    BY <1>3
  <2>2. SubSeq(w, Len(g[n]) + 1, Len(g[n])) = <<>>
    BY <2>1, SubSeqEmpty
  <2>3. h[n] \o <<>> = h[n]
    BY <1>3, ConcatEmptySeq
  <2>4. CopiedTo(g, h, w, n, n)
    BY <2>2, <2>3 DEF CopiedTo
  <2> QED
    BY <2>1, <2>4 DEF Copies
<1>5. ASSUME NEW k \in Nat, k \in Copies(g, h, w, n, m) PROVE k + 1 \in Copies(g, h, w, n, m)
  <2> SUFFICES ASSUME n + (k + 1) <= m PROVE CopiedTo(g, h, w, n, n + (k + 1))
    BY DEF Copies
  <2>1. PICK q \in Nat : /\ q = n + k /\ q + 1 = n + (k + 1) /\ n + k <= m
                         /\ q \in n..(m - 1) /\ q < Len(pieces) /\ q \in 0..Len(pieces)
                         /\ q \in n..Len(pieces) /\ q + 1 \in 0..Len(pieces)
    BY <1>2
  <2>2. CopiedTo(g, h, w, n, q)
    BY <1>5, <2>1 DEF Copies
  <2>3. PICK t : t = from[pieces[q + 1]] /\ OneMore(g, t, q)
    BY <2>1, OnePieceMore
  <2>4. h[q + 1] = h[q] \o t
    BY <2>1, <2>3 DEF Grows
  <2>5. PICK a \in Nat, b \in Nat : a = Len(g[n]) /\ b = Len(g[q])
    BY <1>3
  <2>6. a <= b
    BY <2>1, <2>5, PiecesStay
  <2>7. t \in Seq(Characters) /\ Len(g[q + 1]) = b + Len(t)
    BY <2>3, <2>5 DEF OneMore
  <2>8. b + Len(t) <= Len(w)
    <3>1. Len(g[q + 1]) <= Len(w)
      BY <1>1, <2>1, PiecePlaces
    <3> QED
      BY <2>7, <3>1
  <2>9. ASSUME NEW j \in 1..Len(t) PROVE w[b + j] = t[j]
    <3>1. LettersOf(g, w, t, q)
      BY <1>1, <2>1, <2>3, PieceLetters
    <3> QED
      BY <2>5, <3>1 DEF LettersOf
  <2>10. SubSeq(w, a + 1, b) \o t = SubSeq(w, a + 1, b + Len(t))
    <3>1. w \in Seq(Characters) /\ t \in Seq(Characters)
      BY <1>3, <2>7
    <3>2. Continues(w, t, b)
      BY <2>9 DEF Continues
    <3> QED
      BY ONLY <2>6, <2>8, <3>1, <3>2, a \in Nat, b \in Nat, PartGrows
  <2>11. PICK c : c = SubSeq(w, a + 1, b)
    OBVIOUS
  <2>12. c \in Seq(Characters)
    <3>1. /\ a + 1 \in 1..(Len(w) + 1) /\ b \in (a + 1 - 1)..Len(w)
      BY <1>3, <2>6, <2>7, <2>8, LenProperties
    <3> QED
      BY <1>3, <2>11, <3>1, PartFacts
  <2>13. (h[n] \o c) \o t = h[n] \o (c \o t)
    <3>1. PICK d : d = h[n] /\ d \in Seq(Characters)
      BY <1>3
    <3>2. d \in Seq(Characters) /\ t \in Seq(Characters)
      BY <2>7, <3>1
    <3>3. (d \o c) \o t = d \o (c \o t)
      BY ONLY <2>12, <3>2, CharactersAssociate
    <3> QED
      BY <3>1, <3>3
  <2>14. h[q + 1] = h[n] \o SubSeq(w, a + 1, b + Len(t))
    BY <2>2, <2>4, <2>5, <2>10, <2>11, <2>13 DEF CopiedTo
  <2>15. CopiedTo(g, h, w, n, q + 1)
    BY <2>5, <2>7, <2>14 DEF CopiedTo
  <2> QED
    BY <2>1, <2>15
<1>6. PICK F : F = Copies(g, h, w, n, m)
  OBVIOUS
<1>7. \A k \in Nat : k \in F => k + 1 \in F
  BY <1>5, <1>6
<1>8. \A k \in Nat : k \in F
  BY ONLY <1>4, <1>6, <1>7, SetInduction
<1>9. PICK k \in Nat : k = m - n /\ n + k = m
  BY <1>2
<1>10. k \in Copies(g, h, w, n, m)
  BY <1>6, <1>8
<1> QED
  BY <1>1, <1>2, <1>9, <1>10 DEF Copies

-----------------------------------------------------------------------------
(* The pieces that a pass finds begin with its pattern; in the others no    *)
(* place matches it, whatever follows.                                      *)
Matches(letters, pattern) ==
  /\ Len(pattern) <= Len(letters)
  /\ \A d \in 1..Len(pattern) : letters[d] = pattern[d]
Differs(letters, pattern, j) ==
  \E d \in 1..Len(pattern) : j + d - 1 <= Len(letters) /\ letters[j + d - 1] # pattern[d]
Tells(form, pattern, Hits) ==
  /\ \A k \in Pieces \cap Hits : Matches(form[k], pattern)
  /\ \A k \in Pieces \ Hits : \A j \in 1..Len(form[k]) : Differs(form[k], pattern, j)

Places(w, from, pattern) ==
  {i \in from..(Len(w) - Len(pattern) + 1) : SubSeq(w, i, i + Len(pattern) - 1) = pattern}

LEMMA MissedPiece ==
  ASSUME NEW pieces \in Seq(Pieces), NEW form \in Forms, NEW g, Grows(g, form, pieces),
         NEW pattern \in Seq(Characters), Len(pattern) \in Nat \ {0},
         NEW Hits, Tells(form, pattern, Hits),
         NEW n \in Nat, n < Len(pieces), pieces[n + 1] \notin Hits,
         NEW from \in Nat \ {0}, NEW i \in (Len(g[n]) + 1)..Len(g[n + 1])
  PROVE  i \notin Places(g[Len(pieces)], from, pattern)
<1> SUFFICES ASSUME i \in Places(g[Len(pieces)], from, pattern) PROVE FALSE
  OBVIOUS
<1>1. PICK t : t = form[pieces[n + 1]] /\ OneMore(g, t, n) /\ pieces[n + 1] \in Pieces
  <2>1. pieces[n + 1] \in Pieces /\ OneMore(g, form[pieces[n + 1]], n)
    BY OnePieceMore
  <2> QED
    BY <2>1
<1>2. PICK b \in Nat, T \in Nat : b = Len(g[n]) /\ T = Len(t) /\ Len(g[n + 1]) = b + T
  BY <1>1, LenProperties DEF Grows, OneMore
<1>3. PICK L \in Nat \ {0} : L = Len(pattern)
  OBVIOUS
<1>4. PICK w : w = g[Len(pieces)] /\ w \in Seq(Characters)
  BY LenProperties DEF Grows
<1>5. PICK W \in Nat : W = Len(w)
  BY <1>4, LenProperties
<1>6. i \in from..(W - L + 1) /\ SubSeq(w, i, i + L - 1) = pattern
  BY <1>3, <1>4, <1>5 DEF Places
<1>7. i \in (b + 1)..(b + T)
  BY <1>2
<1>8. i - b \in 1..T /\ b + (i - b) = i
  BY <1>7
<1>9. PICK j \in 1..T : b + j = i
  BY <1>8
<1>10. PICK d \in 1..L : j + d - 1 <= T /\ t[j + d - 1] # pattern[d]
  BY <1>1, <1>2, <1>3 DEF Tells, Differs
<1>11. j + d - 1 \in 1..T /\ b + (j + d - 1) = i + d - 1
  BY <1>9, <1>10
<1>12. PICK e \in 1..T : e = j + d - 1 /\ b + e = i + d - 1
  BY <1>11
<1>13. PICK x : x = i + d - 1
  OBVIOUS
<1>14. w[x] = t[e]
  <2>1. LettersOf(g, w, t, n)
    BY <1>1, <1>4, PieceLetters
  <2>2. w[b + e] = t[e]
    BY <1>2, <2>1 DEF LettersOf
  <2> QED
    BY <1>12, <1>13, <2>2
<1>15. SubSeq(w, i, i + L - 1)[d] = w[i + d - 1]
  <2>1. i \in 1..(W + 1) /\ i + L - 1 \in (i - 1)..W /\ d \in 1..(i + L - 1 - i + 1)
    BY <1>6, <1>10
  <2>2. PICK h : h = i + L - 1
    OBVIOUS
  <2>3. i \in 1..(Len(w) + 1) /\ h \in (i - 1)..Len(w) /\ d \in 1..(h - i + 1)
    BY <1>5, <2>1, <2>2
  <2>4. SubSeq(w, i, h)[d] = w[i + d - 1]
    BY ONLY <1>4, <2>3, PartLetters
  <2> QED
    BY <2>2, <2>4
<1> QED
  BY <1>6, <1>10, <1>12, <1>13, <1>14, <1>15

LEMMA HitPiece ==
  ASSUME NEW pieces \in Seq(Pieces), NEW form \in Forms, NEW g, Grows(g, form, pieces),
         NEW pattern \in Seq(Characters), Len(pattern) \in Nat \ {0},
         NEW Hits, Tells(form, pattern, Hits),
         NEW n \in Nat, n < Len(pieces), pieces[n + 1] \in Hits,
         NEW from \in Nat \ {0}, from <= Len(g[n]) + 1
  PROVE  Len(g[n]) + 1 \in Places(g[Len(pieces)], from, pattern)
<1>1. PICK t : t = form[pieces[n + 1]] /\ OneMore(g, t, n) /\ pieces[n + 1] \in Pieces
  BY OnePieceMore
<1>2. PICK b \in Nat, T \in Nat : b = Len(g[n]) /\ T = Len(t) /\ Len(g[n + 1]) = b + T
  BY <1>1, LenProperties DEF Grows, OneMore
<1>3. PICK L \in Nat \ {0} : L = Len(pattern)
  OBVIOUS
<1>4. PICK w : w = g[Len(pieces)] /\ w \in Seq(Characters)
  BY LenProperties DEF Grows
<1>5. PICK W \in Nat : W = Len(w) /\ b + T <= W
  <2>1. n + 1 \in 0..Len(pieces)
    BY LenProperties
  <2>2. Len(g[n + 1]) <= Len(w)
    BY <1>4, <2>1, PiecePlaces
  <2> QED
    BY <1>2, <1>4, <2>2, LenProperties
<1>6. L <= T /\ \A d \in 1..L : t[d] = pattern[d]
  BY <1>1, <1>2, <1>3 DEF Tells, Matches
<1>7. PICK i \in Nat : i = b + 1
  OBVIOUS
<1>8. PICK h \in Nat : h = b + L
  OBVIOUS
<1>9. i \in 1..(W + 1) /\ h \in (i - 1)..W /\ h - i + 1 = L /\ i + L - 1 = h
  BY <1>5, <1>6, <1>7, <1>8
<1>10. PICK u : u = SubSeq(w, i, h)
  OBVIOUS
<1>11. /\ u \in Seq(Characters) /\ Len(u) = h - i + 1
       /\ \A d \in 1..(h - i + 1) : u[d] = w[i + d - 1]
  <2>1. i \in 1..(Len(w) + 1) /\ h \in (i - 1)..Len(w)
    BY <1>5, <1>9
  <2> QED
    BY ONLY <1>4, <1>10, <2>1, PartLetters
<1>12. ASSUME NEW d \in 1..L PROVE u[d] = pattern[d]
  <2>1. d \in 1..T /\ i + d - 1 = b + d /\ d \in 1..(h - i + 1)
    BY <1>6, <1>7, <1>9
  <2>2. LettersOf(g, w, t, n)
    BY <1>1, <1>4, PieceLetters
  <2>3. w[b + d] = t[d]
    BY <1>2, <2>1, <2>2 DEF LettersOf
  <2> QED
    BY <1>6, <1>11, <2>1, <2>3
<1>13. u = pattern
  <2>1. u \in Seq(Characters) /\ Len(u) = Len(pattern) /\ \A d \in 1..Len(u) : u[d] = pattern[d]
    BY <1>3, <1>9, <1>11, <1>12
  <2> QED
    BY ONLY <2>1, pattern \in Seq(Characters), SeqEqual
<1>14. i \in from..(W - L + 1)
  <2>1. i >= from /\ i + L <= W + 1
    BY <1>2, <1>5, <1>6, <1>7
  <2>2. W \in Nat /\ L \in Nat
    BY <1>2, <1>6
  <2> QED
    BY ONLY <1>7, <2>1, <2>2, from \in Nat, i \in Nat
<1> QED
  BY <1>2, <1>3, <1>4, <1>5, <1>7, <1>9, <1>10, <1>13, <1>14 DEF Places

(* From the beginning of a piece, the pattern is found at the beginning of  *)
(* the next piece that has it, or not at all.                               *)
NoneOf(pieces, Hits, n, m) == \A k \in n..(m - 1) : pieces[k + 1] \notin Hits
NextOf(g, pieces, Hits, n, m, loc) ==
  /\ m < Len(pieces) /\ pieces[m + 1] \in Hits
  /\ NoneOf(pieces, Hits, n, m) /\ loc = Len(g[m]) + 1
FoundAt(g, pieces, Hits, n, loc) ==
  \/ loc = 0 /\ NoneOf(pieces, Hits, n, Len(pieces))
  \/ \E m \in n..Len(pieces) : NextOf(g, pieces, Hits, n, m, loc)

LEMMA MissedPieces ==
  ASSUME NEW pieces \in Seq(Pieces), NEW form \in Forms, NEW g, Grows(g, form, pieces),
         NEW pattern \in Seq(Characters), Len(pattern) \in Nat \ {0},
         NEW Hits, Tells(form, pattern, Hits),
         NEW n \in 0..Len(pieces), NEW m \in n..Len(pieces), NoneOf(pieces, Hits, n, m),
         NEW i \in Places(g[Len(pieces)], Len(g[n]) + 1, pattern)
  PROVE  i > Len(g[m])
<1>1. n \in Nat /\ Len(g[n]) \in Nat /\ Len(g[m]) \in Nat
  BY LenProperties DEF Grows
<1>2. PICK from \in Nat \ {0} : from = Len(g[n]) + 1
  BY <1>1
<1>3. i \in Int /\ i >= Len(g[n]) + 1
  BY <1>1 DEF Places
<1>4. SUFFICES ASSUME i \in (Len(g[n]) + 1)..Len(g[m]) PROVE FALSE
  BY <1>1, <1>3
<1>5. PICK l \in n..(m - 1) : i \in (Len(g[l]) + 1)..Len(g[l + 1])
  BY <1>1, <1>4, LetterInPiece
<1>6. l \in Nat /\ l < Len(pieces) /\ pieces[l + 1] \notin Hits
  BY <1>1, <1>5, LenProperties DEF NoneOf
<1>7. i \notin Places(g[Len(pieces)], from, pattern)
  BY <1>5, <1>6, MissedPiece
<1> QED
  BY <1>2, <1>7

LEMMA FindPiece ==
  ASSUME NEW pieces \in Seq(Pieces), NEW form \in Forms, NEW g, Grows(g, form, pieces),
         NEW pattern \in Seq(Characters), Len(pattern) \in Nat \ {0},
         NEW Hits, Tells(form, pattern, Hits), NEW n \in 0..Len(pieces)
  PROVE  FoundAt(g, pieces, Hits, n, Find(g[Len(pieces)], Len(g[n]) + 1, pattern))
<1>1. PICK N \in Nat : N = Len(pieces) /\ n \in Nat /\ n <= N
  BY LenProperties
<1>2. PICK w : w = g[N] /\ w \in Seq(Characters)
  BY <1>1 DEF Grows
<1>3. PICK from \in Nat \ {0} : from = Len(g[n]) + 1
  BY <1>1, LenProperties DEF Grows
<1>4. PICK places : places = Places(w, from, pattern)
  OBVIOUS
<1>5. Find(w, from, pattern) = IF places = {} THEN 0 ELSE Min(places)
  BY <1>4 DEF Find, Places
<1>6. Min(places) = CHOOSE x \in places : \A y \in places : x <= y
  BY DEF Min
<1>7. places \subseteq Nat /\ \A i \in places : i <= Len(w) - Len(pattern) + 1
  BY <1>2, <1>4, LenProperties DEF Places
<1>8. CASE NoneOf(pieces, Hits, n, N)
  <2>1. ASSUME NEW i \in places PROVE FALSE
    <3>1. N \in n..Len(pieces)
      BY <1>1
    <3>2. i > Len(g[N])
      BY <1>1, <1>2, <1>3, <1>4, <1>8, <3>1, MissedPieces
    <3>3. i <= Len(w) - Len(pattern) + 1 /\ i \in Nat /\ Len(w) \in Nat
      BY <1>2, <1>7, LenProperties
    <3> QED
      BY <1>2, <3>2, <3>3
  <2>2. places = {}
    BY <2>1
  <2> QED
    BY <1>1, <1>2, <1>3, <1>5, <1>8, <2>2 DEF FoundAt
<1>9. CASE ~ NoneOf(pieces, Hits, n, N)
  <2> DEFINE S == {k \in n..(N - 1) : pieces[k + 1] \in Hits}
  <2>1. S # {} /\ S \subseteq Nat
    <3>1. \E k \in n..(N - 1) : pieces[k + 1] \in Hits
      BY <1>9 DEF NoneOf
    <3>2. n..(N - 1) \subseteq Nat
      BY <1>1
    <3> QED
      BY <3>1, <3>2
  <2>2. \E m \in S : \A k \in S : m <= k
    <3> HIDE DEF S
    <3> QED
      BY ONLY <2>1, LeastNatural
  <2>3. PICK m \in S : \A k \in S : m <= k
    BY <2>2
  <2>4. m \in Nat /\ m < N /\ n <= m /\ pieces[m + 1] \in Hits /\ m \in n..Len(pieces)
    BY <1>1, <2>3
  <2>5. NoneOf(pieces, Hits, n, m)
    <3> SUFFICES ASSUME NEW k \in n..(m - 1), pieces[k + 1] \in Hits PROVE FALSE
      BY DEF NoneOf
    <3>1. k \in S /\ ~ (m <= k)
      BY <1>1, <2>4
    <3> QED
      BY <2>3, <3>1
  <2> HIDE DEF S
  <2>6. PICK loc \in Nat : loc = Len(g[m]) + 1 /\ Len(g[n]) <= Len(g[m])
    <3>1. Len(g[m]) \in Nat
      BY <2>4, LenProperties DEF Grows
    <3>2. Len(g[n]) <= Len(g[m])
      BY <1>1, <2>4, PiecesStay
    <3> QED
      BY <3>1, <3>2
  <2>7. loc \in places
    <3>1. from <= Len(g[m]) + 1
      BY <1>3, <2>6
    <3> QED
      BY <1>1, <1>2, <1>4, <2>4, <2>6, <3>1, HitPiece
  <2>8. ASSUME NEW i \in places PROVE loc <= i
    <3>1. i > Len(g[m])
      BY <1>1, <1>2, <1>3, <1>4, <2>4, <2>5, MissedPieces
    <3>2. i \in Nat
      BY <1>7
    <3> QED
      BY <2>6, <3>1, <3>2
  <2>9. Min(places) = loc
    <3>1. \E x \in places : \A y \in places : x <= y
      BY <2>7, <2>8
    <3>2. PICK v : v = Min(places)
      OBVIOUS
    <3>3. v \in places /\ \A y \in places : v <= y
      BY <1>6, <3>1, <3>2
    <3>4. v \in Nat /\ loc \in Nat /\ v <= loc /\ loc <= v
      BY <1>7, <2>7, <2>8, <3>3
    <3> QED
      BY <3>2, <3>4
  <2>10. NextOf(g, pieces, Hits, n, m, loc)
    BY <1>1, <2>4, <2>5, <2>6 DEF NextOf
  <2> QED
    BY <1>1, <1>2, <1>3, <1>5, <2>4, <2>7, <2>9, <2>10 DEF FoundAt
<1> QED
  BY <1>8, <1>9

-----------------------------------------------------------------------------
(* A pass of the cleaning has read the pieces before the place in the text, *)
(* in the one form, and written them in the other.                          *)
ReadUpTo(from, to, pieces, ptr, said, n) ==
  ptr = Len(Strung(from, pieces)[n]) + 1 /\ said = Strung(to, pieces)[n]
Passing(from, to, pieces, original, ptr, ret) ==
  /\ original = Whole(from, pieces)
  /\ \E n \in 0..Len(pieces) : ReadUpTo(from, to, pieces, ptr, ret, n)

LEMMA PassBegins ==
  ASSUME NEW pieces \in Seq(Pieces), NEW from \in Forms, NEW to \in Forms
  PROVE  Passing(from, to, pieces, Whole(from, pieces), 1, <<>>)
<1>1. Strung(from, pieces)[0] = <<>> /\ Strung(to, pieces)[0] = <<>>
  BY StrungGrows DEF Grows
<1>2. Len(<<>>) + 1 = 1 /\ 0 \in 0..Len(pieces)
  BY LenProperties
<1>3. ReadUpTo(from, to, pieces, 1, <<>>, 0)
  BY <1>1, <1>2 DEF ReadUpTo
<1> QED
  BY <1>2, <1>3 DEF Passing

(* At the end the text stands there in the other form.                      *)
EndsAs(to, pieces, original, ptr, ret) ==
  ret \o SubSeq(original, ptr, Len(original)) = Whole(to, pieces)

LEMMA PassEnds ==
  ASSUME NEW pieces \in Seq(Pieces), NEW from \in Forms, NEW to \in Forms,
         NEW pattern \in Seq(Characters), Len(pattern) \in Nat \ {0},
         NEW Hits, Tells(from, pattern, Hits), \A p \in Pieces \ Hits : from[p] = to[p],
         NEW original, NEW ptr, NEW ret, Passing(from, to, pieces, original, ptr, ret),
         Find(original, ptr, pattern) = 0
  PROVE  EndsAs(to, pieces, original, ptr, ret)
<1>1. PICK g : g = Strung(from, pieces) /\ Grows(g, from, pieces)
  BY StrungGrows
<1>2. PICK h : h = Strung(to, pieces) /\ Grows(h, to, pieces)
  BY StrungGrows
<1>3. PICK n \in 0..Len(pieces) : ptr = Len(g[n]) + 1 /\ ret = h[n]
  BY <1>1, <1>2 DEF Passing, ReadUpTo
<1>4. original = g[Len(pieces)]
  BY <1>1 DEF Passing, Whole
<1>5. FoundAt(g, pieces, Hits, n, Find(original, ptr, pattern))
  BY <1>1, <1>3, <1>4, FindPiece
<1>6. n \in Nat /\ Len(pieces) \in n..Len(pieces)
  BY LenProperties
<1>7. NoneOf(pieces, Hits, n, Len(pieces))
  <2>1. ASSUME NEW m \in n..Len(pieces), 0 = Len(g[m]) + 1 PROVE FALSE
    <3>1. Len(g[m]) \in Nat
      BY <1>1, <1>6, LenProperties DEF Grows
    <3> QED
      BY <2>1, <3>1
  <2> QED
    BY <1>5, <2>1 DEF FoundAt, NextOf
<1>8. \A k \in n..(Len(pieces) - 1) : from[pieces[k + 1]] = to[pieces[k + 1]]
  <2> SUFFICES ASSUME NEW k \in n..(Len(pieces) - 1) PROVE from[pieces[k + 1]] = to[pieces[k + 1]]
    OBVIOUS
  <2>1. k \in Nat /\ k < Len(pieces)
    BY <1>6, LenProperties
  <2>2. pieces[k + 1] \in Pieces
    BY <1>1, <2>1, OnePieceMore
  <2>3. pieces[k + 1] \notin Hits
    BY <1>7 DEF NoneOf
  <2> QED
    BY <2>2, <2>3
<1>9. CopiedTo(g, h, g[Len(pieces)], n, Len(pieces))
  BY <1>1, <1>2, <1>6, <1>8, CopiedPieces
<1> QED
  BY <1>2, <1>3, <1>4, <1>9 DEF CopiedTo, Whole, EndsAs

(* Before it, the next piece with the pattern is found, read and written.   *)
StandsAt(original, loc, letters) ==
  /\ loc + Len(letters) - 1 <= Len(original)
  /\ \A j \in 1..Len(letters) : original[loc + j - 1] = letters[j]
Takes(from, to, pieces, original, ptr, ret, loc, piece) ==
  /\ StandsAt(original, loc, from[piece])
  /\ Passing(from, to, pieces, original, loc + Len(from[piece]),
             ret \o SubSeq(original, ptr, loc - 1) \o to[piece])

LEMMA PassGoesOn ==
  ASSUME NEW pieces \in Seq(Pieces), NEW from \in Forms, NEW to \in Forms,
         NEW pattern \in Seq(Characters), Len(pattern) \in Nat \ {0},
         NEW Hits, Tells(from, pattern, Hits), \A p \in Pieces \ Hits : from[p] = to[p],
         NEW original, NEW ptr, NEW ret, Passing(from, to, pieces, original, ptr, ret),
         NEW loc, loc = Find(original, ptr, pattern), loc # 0
  PROVE  \E piece \in Pieces \cap Hits :
           Takes(from, to, pieces, original, ptr, ret, loc, piece)
<1>1. PICK g : g = Strung(from, pieces) /\ Grows(g, from, pieces)
  BY StrungGrows
<1>2. PICK h : h = Strung(to, pieces) /\ Grows(h, to, pieces)
  BY StrungGrows
<1>3. PICK n \in 0..Len(pieces) : ptr = Len(g[n]) + 1 /\ ret = h[n]
  BY <1>1, <1>2 DEF Passing, ReadUpTo
<1>4. original = g[Len(pieces)]
  BY <1>1 DEF Passing, Whole
<1>5. FoundAt(g, pieces, Hits, n, loc)
  BY <1>1, <1>3, <1>4, FindPiece
<1>6. PICK m \in n..Len(pieces) : NextOf(g, pieces, Hits, n, m, loc)
  BY <1>5 DEF FoundAt
<1>7. n \in Nat /\ m \in Nat /\ m < Len(pieces) /\ m + 1 \in 0..Len(pieces)
  BY <1>6, LenProperties DEF NextOf
<1>8. PICK piece \in Pieces \cap Hits : piece = pieces[m + 1]
  BY <1>1, <1>6, <1>7, OnePieceMore DEF NextOf
<1>9. \A k \in n..(m - 1) : from[pieces[k + 1]] = to[pieces[k + 1]]
  <2> SUFFICES ASSUME NEW k \in n..(m - 1) PROVE from[pieces[k + 1]] = to[pieces[k + 1]]
    OBVIOUS
  <2>1. k \in Nat /\ k < Len(pieces)
    BY <1>7, LenProperties
  <2>2. pieces[k + 1] \in Pieces
    BY <1>1, <2>1, OnePieceMore
  <2>3. pieces[k + 1] \notin Hits
    BY <1>6 DEF NextOf, NoneOf
  <2> QED
    BY <2>2, <2>3
<1>10. CopiedTo(g, h, original, n, m)
  BY <1>1, <1>2, <1>4, <1>7, <1>9, CopiedPieces
<1>11. PICK b \in Nat, T \in Nat : /\ b = Len(g[m]) /\ T = Len(from[piece])
                                  /\ Len(g[m + 1]) = b + T /\ loc = b + 1
  <2>1. OneMore(g, from[piece], m)
    BY <1>1, <1>7, <1>8, OnePieceMore
  <2>2. Len(g[m]) \in Nat /\ Len(from[piece]) \in Nat
    BY <1>1, <1>7, <2>1, LenProperties DEF Grows, OneMore
  <2> QED
    BY <1>6, <2>1, <2>2 DEF OneMore, NextOf
<1>12. ret \o SubSeq(original, ptr, loc - 1) = h[m]
  <2>1. loc - 1 = b
    BY <1>11
  <2> QED
    BY <1>3, <1>10, <1>11, <2>1 DEF CopiedTo
<1>13. h[m + 1] = h[m] \o to[piece]
  BY <1>2, <1>7, <1>8 DEF Grows
<1>14. loc + T = Len(g[m + 1]) + 1
  <2>1. (b + 1) + T = (b + T) + 1
    OBVIOUS
  <2> QED
    BY ONLY <1>11, <2>1
<1>15. ReadUpTo(from, to, pieces, loc + T, ret \o SubSeq(original, ptr, loc - 1) \o to[piece], m + 1)
  BY <1>1, <1>2, <1>12, <1>13, <1>14 DEF ReadUpTo
<1>16. Passing(from, to, pieces, original, loc + T, ret \o SubSeq(original, ptr, loc - 1) \o to[piece])
  BY <1>7, <1>15 DEF Passing
<1>17. StandsAt(original, loc, from[piece])
  <2>1. LettersOf(g, original, from[piece], m)
    BY <1>1, <1>4, <1>7, <1>8, PieceLetters
  <2>2. \A j \in 1..T : loc + j - 1 = b + j
    BY <1>11
  <2>3. \A j \in 1..T : original[loc + j - 1] = from[piece][j]
    BY <1>11, <2>1, <2>2 DEF LettersOf
  <2>4. PICK e \in Nat : e = Len(original) /\ b + T <= e
    <3>1. Len(g[m + 1]) \in Nat /\ Len(g[Len(pieces)]) \in Nat /\ Len(g[m + 1]) <= Len(g[Len(pieces)])
      BY <1>1, <1>7, PiecePlaces
    <3> QED
      BY ONLY <1>4, <1>11, <3>1
  <2>5. (b + 1) + T - 1 = b + T
    OBVIOUS
  <2>6. loc + T - 1 <= Len(original)
    BY ONLY <1>11, <2>4, <2>5
  <2> QED
    BY <1>11, <2>3, <2>6 DEF StandsAt
<1>18. Takes(from, to, pieces, original, ptr, ret, loc, piece)
  BY <1>11, <1>16, <1>17 DEF Takes
<1> QED
  BY <1>8, <1>18

-----------------------------------------------------------------------------
(* The forms of the pieces before, between and after the passes.            *)
Codes == {"colour", "style"}
EscapedForm  == [p \in Pieces |-> IF p = "dollar" THEN <<"a">> ELSE Spelling[p]]
StrippedForm == [p \in Pieces |-> IF p = "dollar" THEN <<"a">> ELSE Meaning[p]]

LEMMA SpellingIs ==
  /\ Spelling["dollar"] = <<"$", "$">> /\ Spelling["colour"] = <<"$", "f", "f", "f">>
  /\ Spelling["style"] = <<"$", "x">> /\ Spelling["digit"] = <<"f">>
  /\ Spelling["letter"] = <<"x">>
BY DEF Spelling, Pieces

LEMMA MeaningIs ==
  /\ Meaning["dollar"] = <<"$">> /\ Meaning["colour"] = <<>> /\ Meaning["style"] = <<>>
  /\ Meaning["digit"] = <<"f">> /\ Meaning["letter"] = <<"x">>
BY SpellingIs DEF Meaning, Pieces

LEMMA FormFacts ==
  /\ Spelling \in Forms /\ EscapedForm \in Forms /\ StrippedForm \in Forms /\ Meaning \in Forms
<1>1. \A p \in Pieces : Spelling[p] \in Seq(Characters) /\ Meaning[p] \in Seq(Characters)
  <2>1. /\ <<"$", "$">> \in Seq(Characters) /\ <<"$", "f", "f", "f">> \in Seq(Characters)
        /\ <<"$", "x">> \in Seq(Characters) /\ <<"f">> \in Seq(Characters)
        /\ <<"x">> \in Seq(Characters) /\ <<"$">> \in Seq(Characters) /\ <<>> \in Seq(Characters)
    BY DEF Characters
  <2> QED
    BY <2>1, SpellingIs, MeaningIs DEF Pieces
<1>2. <<"a">> \in Seq(Characters)
  BY DEF Characters
<1>3. Spelling = [p \in Pieces |-> Spelling[p]] /\ Meaning = [p \in Pieces |-> Meaning[p]]
  <2> DEFINE spelled(p) == CASE p = "dollar" -> <<"$", "$">>
                             [] p = "colour" -> <<"$", "f", "f", "f">>
                             [] p = "style"  -> <<"$", "x">>
                             [] p = "digit"  -> <<"f">>
                             [] p = "letter" -> <<"x">>
             meant(p)   == CASE p = "dollar" -> <<"$">>
                             [] p \in {"colour", "style"} -> <<>>
                             [] p \in {"digit", "letter"} -> Spelling[p]
  <2>1. Spelling = [p \in Pieces |-> spelled(p)]
    BY DEF Spelling
  <2>2. Meaning = [p \in Pieces |-> meant(p)]
    BY DEF Meaning
  <2> HIDE DEF spelled, meant
  <2> QED
    BY ONLY <2>1, <2>2
<1> QED
  BY <1>1, <1>2, <1>3 DEF Forms, EscapedForm, StrippedForm

LEMMA WholeFacts ==
  ASSUME NEW pieces \in Seq(Pieces), NEW form \in Forms
  PROVE  Whole(form, pieces) \in Seq(Characters)
<1>1. Len(pieces) \in Nat
  BY LenProperties
<1> QED
  BY <1>1, StrungGrows DEF Grows, Whole

LEMMA PiecesAreSeq == \A s \in SeqOf(Pieces, MaxText) : s \in Seq(Pieces)
<1> SUFFICES ASSUME NEW s \in SeqOf(Pieces, MaxText) PROVE s \in Seq(Pieces)
  OBVIOUS
<1>1. PICK m \in 0..MaxText : s \in [1..m -> Pieces]
  BY DEF SeqOf
<1> QED
  BY <1>1, TextAssumption

LEMMA FormsAgree ==
  /\ \A p \in Pieces \ {"dollar"} : Spelling[p] = EscapedForm[p]
  /\ \A p \in Pieces \ Codes : EscapedForm[p] = StrippedForm[p]
  /\ \A p \in Pieces \ {"dollar"} : StrippedForm[p] = Meaning[p]
BY SpellingIs, MeaningIs DEF EscapedForm, StrippedForm, Codes, Pieces

-----------------------------------------------------------------------------
(* The invariant: what each pass has written is as long as what it has read,*)
(* less the dollar signs that were taken for one.                           *)
TextTypes ==
  /\ text \in Seq(Characters) /\ Len(text) <= MaxText
  /\ lpszOriginal \in Seq(Characters) /\ lpszReturn \in Seq(Characters)
  /\ lpszTemp \in Seq(Characters)
  /\ lpszOrigPtr \in 1..(Len(lpszOriginal) + 1) /\ cchRetLen \in Int
  /\ textPc \in {"check", "escape", "strip", "restore", "convert", "done"}

EscapeInv ==
  textPc = "escape" =>
    /\ cchRetLen = Len(lpszOriginal) - uPatCount(lpszOriginal, Dollars)
    /\ \E r \in Nat : /\ After(r, lpszOriginal, Dollars, lpszOrigPtr)
                      /\ Len(lpszReturn) = lpszOrigPtr - 1 - r
StripInv ==
  textPc = "strip" =>
    cchRetLen = Len(lpszOriginal) /\ Len(lpszReturn) <= lpszOrigPtr - 1
RestoreInv ==
  textPc = "restore" =>
    cchRetLen = Len(lpszOriginal) /\ Len(lpszReturn) = lpszOrigPtr - 1

LineEnds ==
  textPc = "done" => LET end == Len(lpszOutput)
                     IN  /\ end \in 2..(cchLenOutput - 1)
                         /\ lpszOutput[end - 1] = "CR" /\ lpszOutput[end] = "LF"

TextInv ==
  /\ TextTypes /\ EscapeInv /\ StripInv /\ RestoreInv /\ LineEnds
  /\ Len(lpszReturn) <= cchRetLen

LEMMA RestFacts ==
  ASSUME TextTypes
  PROVE  /\ Rest \in Seq(Characters) /\ Len(Rest) = Len(lpszOriginal) + 1 - lpszOrigPtr
         /\ lpszReturn \o Rest \in Seq(Characters)
         /\ Len(lpszReturn \o Rest) = Len(lpszReturn) + Len(Rest)
<1>1. /\ Len(lpszOriginal) \in Nat /\ lpszOriginal \in Seq(Characters) /\ lpszReturn \in Seq(Characters)
      /\ lpszOrigPtr \in 1..(Len(lpszOriginal) + 1)
  BY LenProperties DEF TextTypes
<1>2. Len(lpszOriginal) \in (lpszOrigPtr - 1)..Len(lpszOriginal)
  BY <1>1
<1>3. Rest \in Seq(Characters) /\ Len(Rest) = Len(lpszOriginal) - lpszOrigPtr + 1
  BY <1>1, <1>2, PartFacts DEF Rest
<1>4. /\ lpszReturn \o Rest \in Seq(Characters)
      /\ Len(lpszReturn \o Rest) = Len(lpszReturn) + Len(Rest)
  BY ONLY <1>1, <1>3, ConcatProperties
<1> QED
  BY <1>1, <1>3, <1>4

(* The property follows: where no further pattern is found, the pass has    *)
(* found as many as were counted.                                           *)
LEMMA TextFits ==
  ASSUME TextInv
  PROVE  LinesFit
<1> USE DEF TextInv
<1>1. Len(lpszReturn \o Rest) = Len(lpszReturn) + (Len(lpszOriginal) + 1 - lpszOrigPtr)
  BY RestFacts
<1>2. /\ Len(lpszReturn) \in Nat /\ Len(lpszOriginal) \in Nat /\ cchRetLen \in Int
      /\ lpszOrigPtr \in Int
  BY LenProperties DEF TextTypes
<1>3. ASSUME textPc \in DOMAIN Stages, PatLoc(Stages[textPc].pattern) = 0
      PROVE  Len(lpszReturn \o Rest) = cchRetLen
  <2>1. textPc = "escape" \/ textPc = "restore"
    BY <1>3 DEF Stages
  <2>2. CASE textPc = "escape"
    <3>1. PICK r \in Nat : /\ After(r, lpszOriginal, Dollars, lpszOrigPtr)
                           /\ Len(lpszReturn) = lpszOrigPtr - 1 - r
      BY <2>2 DEF EscapeInv
    <3>2. MatchesLeft(lpszOriginal, Dollars, r, lpszOrigPtr)
      BY <3>1, DollarsLeft DEF TextTypes
    <3>3. Find(lpszOriginal, lpszOrigPtr, Dollars) = 0
      BY <1>3, <2>2, PatternFacts DEF PatLoc
    <3>4. uPatCount(lpszOriginal, Dollars) = r
      BY <3>2, <3>3 DEF MatchesLeft
    <3> QED
      BY <1>1, <1>2, <2>2, <3>1, <3>4 DEF EscapeInv
  <2>3. CASE textPc = "restore"
    BY <1>1, <1>2, <2>3 DEF RestoreInv
  <2> QED
    BY <2>1, <2>2, <2>3
<1>4. ASSUME textPc = "strip" PROVE Len(lpszReturn \o Rest) <= cchRetLen
  BY <1>1, <1>2, <1>4 DEF StripInv
<1> QED
  BY <1>3, <1>4 DEF LinesFit, LineEnds

-----------------------------------------------------------------------------
(* The steps                                                                *)
LEMMA TextStarts == TextInit => TextInv
<1> SUFFICES ASSUME TextInit PROVE TextInv
  OBVIOUS
<1>1. text \in Seq(Characters) /\ Len(text) <= MaxText
  <2>1. CASE text \in Texts
    <3>1. PICK m \in 0..MaxText : text \in [1..m -> Characters]
      BY <2>1 DEF Texts, SeqOf
    <3>2. m \in Nat /\ m <= MaxText
      BY <3>1, TextAssumption
    <3>3. text \in Seq(Characters) /\ Len(text) = m
      BY <3>1, <3>2
    <3> QED
      BY <3>2, <3>3
  <2>2. CASE /\ written \in SeqOf(Pieces, MaxText) /\ text = Whole(Spelling, written)
             /\ Len(text) <= MaxText
    <3>1. written \in Seq(Pieces)
      BY <2>2, PiecesAreSeq
    <3>2. Whole(Spelling, written) \in Seq(Characters)
      BY <3>1, FormFacts, WholeFacts
    <3> QED
      BY <2>2, <3>2
  <2> QED
    BY <2>1, <2>2 DEF TextInit
<1>2. /\ lpszOriginal = <<>> /\ lpszOrigPtr = 1 /\ lpszReturn = <<>> /\ cchRetLen = 0
      /\ lpszTemp = <<>> /\ textPc = "check"
  BY DEF TextInit
<1>3. <<>> \in Seq(Characters) /\ Len(<<>>) = 0
  OBVIOUS
<1> QED
  BY <1>1, <1>2, <1>3 DEF TextInv, TextTypes, EscapeInv, StripInv, RestoreInv, LineEnds

(* A pass gives up: its block is not written to any more.                   *)
LEMMA GiveUpStep ==
  ASSUME TextInv, GiveUp, UNCHANGED <<text, lpszOutput>>
  PROVE  TextInv'
BY DEF TextInv, TextTypes, EscapeInv, StripInv, RestoreInv, LineEnds, GiveUp, loop

(* A new block, of the size that was calculated.                            *)
Sized(stage, original, size) ==
  CASE stage = "escape"  -> size = Len(original) - uPatCount(original, Dollars)
    [] stage = "strip"   -> size = Len(original)
    [] stage = "restore" -> size = Len(original)

LEMMA AllocateStep ==
  ASSUME TextInv, NEW stage \in {"escape", "strip", "restore"},
         NEW original \in Seq(Characters), NEW size, Sized(stage, original, size),
         Allocate(stage, original, size), UNCHANGED <<text, lpszOutput>>
  PROVE  TextInv'
<1>1. CASE GiveUp
  BY <1>1, GiveUpStep
<1>2. CASE /\ textPc' = stage /\ held' = held \cup {stage}
           /\ lpszOriginal' = original /\ lpszOrigPtr' = 1
           /\ lpszReturn' = <<>> /\ cchRetLen' = size
           /\ UNCHANGED <<lpszTemp, bClean>>
  <2>1. Len(original) \in Nat
    BY LenProperties
  <2>2. <<>> \in Seq(Characters) /\ Len(<<>>) = 0
    OBVIOUS
  <2>3. /\ MatchesLeft(original, Dollars, 0, 1) /\ After(0, original, Dollars, 1)
    <3>1. After(0, original, Dollars, 1)
      BY NoDollarsYet
    <3> QED
      BY <3>1, DollarsLeft
  <2>4. /\ uPatCount(original, Dollars) \in Nat
        /\ uPatCount(original, Dollars) <= Len(original)
    BY <2>1, <2>3 DEF MatchesLeft
  <2>5. size \in Nat
    <3>1. CASE stage = "escape"
      BY <2>1, <2>4, <3>1 DEF Sized
    <3>2. CASE stage # "escape"
      BY <2>1, <3>2 DEF Sized
    <3> QED
      BY <3>1, <3>2
  <2>6. TextTypes' /\ (Len(lpszReturn) <= cchRetLen)'
    BY <1>2, <2>1, <2>2, <2>5 DEF TextInv, TextTypes
  <2>7. EscapeInv'
    <3> SUFFICES ASSUME stage = "escape" PROVE EscapeInv'
      BY <1>2 DEF EscapeInv
    <3>1. size = Len(original) - uPatCount(original, Dollars)
      BY DEF Sized
    <3>2. After(0, original, Dollars, 1) /\ Len(<<>>) = 1 - 1 - 0
      BY <2>2, <2>3
    <3> QED
      BY <1>2, <3>1, <3>2 DEF EscapeInv
  <2>8. StripInv'
    BY <1>2, <2>2 DEF StripInv, Sized
  <2>9. RestoreInv'
    BY <1>2, <2>2 DEF RestoreInv, Sized
  <2>10. LineEnds'
    BY <1>2 DEF LineEnds
  <2> QED
    BY <2>6, <2>7, <2>8, <2>9, <2>10 DEF TextInv
<1> QED
  BY <1>1, <1>2 DEF Allocate

(* What is found lies in the rest of the text.                              *)
LEMMA FoundFacts ==
  ASSUME TextTypes, NEW pattern \in Seq(Characters), Len(pattern) \in Nat \ {0},
         PatLoc(pattern) # 0
  PROVE  /\ PatLoc(pattern) \in lpszOrigPtr..(Len(lpszOriginal) - Len(pattern) + 1)
         /\ Skipped(PatLoc(pattern)) \in Seq(Characters)
         /\ Len(Skipped(PatLoc(pattern))) = PatLoc(pattern) - lpszOrigPtr
<1>1. /\ lpszOriginal \in Seq(Characters) /\ lpszOrigPtr \in 1..(Len(lpszOriginal) + 1)
      /\ Len(lpszOriginal) \in Nat
  BY LenProperties DEF TextTypes
<1>2. PICK loc : loc = PatLoc(pattern)
  OBVIOUS
<1>3. loc \in lpszOrigPtr..(Len(lpszOriginal) - Len(pattern) + 1)
  BY <1>1, <1>2, FindFacts DEF PatLoc
<1>4. loc - 1 \in (lpszOrigPtr - 1)..Len(lpszOriginal) /\ loc - 1 - lpszOrigPtr + 1 = loc - lpszOrigPtr
  BY <1>1, <1>3
<1>5. /\ SubSeq(lpszOriginal, lpszOrigPtr, loc - 1) \in Seq(Characters)
      /\ Len(SubSeq(lpszOriginal, lpszOrigPtr, loc - 1)) = loc - 1 - lpszOrigPtr + 1
  BY ONLY <1>1, <1>4, PartFacts
<1> QED
  BY <1>2, <1>3, <1>4, <1>5 DEF Skipped

LEMMA ThreeParts ==
  ASSUME NEW r \in Seq(Characters), NEW s \in Seq(Characters), NEW t \in Seq(Characters)
  PROVE  /\ r \o s \in Seq(Characters) /\ Len(r \o s) = Len(r) + Len(s)
         /\ r \o s \o t \in Seq(Characters) /\ Len(r \o s \o t) = Len(r) + Len(s) + Len(t)
<1>1. r \o s \in Seq(Characters) /\ Len(r \o s) = Len(r) + Len(s)
  BY ONLY r \in Seq(Characters), s \in Seq(Characters), ConcatProperties
<1>2. (r \o s) \o t \in Seq(Characters) /\ Len((r \o s) \o t) = Len(r \o s) + Len(t)
  BY ONLY <1>1, t \in Seq(Characters), ConcatProperties
<1> QED
  BY <1>1, <1>2

LEMMA CheckStep ==
  ASSUME TextInv, Check
  PROVE  TextInv'
<1>1. UNCHANGED <<text, lpszOutput>>
  BY DEF Check
<1>2. CASE GiveUp
  BY <1>1, <1>2, GiveUpStep
<1>3. CASE AllocateReplaced("escape", text)
  <2>1. text \in Seq(Characters) /\ Len(text) \in Nat
    BY LenProperties DEF TextInv, TextTypes
  <2>2. PICK N : N = uPatCount(text, Dollars)
    OBVIOUS
  <2>3. N \in Nat
    BY <2>1, <2>2, NoDollarsYet, DollarsLeft DEF MatchesLeft
  <2>4. Allocate("escape", text, Len(text) + N * (1 - 2))
    BY <1>3, <2>2, PatternFacts DEF AllocateReplaced
  <2>5. Len(text) + N * (1 - 2) = Len(text) - N
    BY <2>1, <2>3
  <2>6. Allocate("escape", text, Len(text) - N) /\ Sized("escape", text, Len(text) - N)
    BY <2>2, <2>4, <2>5 DEF Sized
  <2> QED
    BY <1>1, <2>1, <2>6, AllocateStep
<1> QED
  BY <1>2, <1>3 DEF Check

LEMMA EscapedStep ==
  ASSUME TextInv, Escaped
  PROVE  TextInv'
<1>1. lpszReturn \o Rest \in Seq(Characters)
  BY RestFacts DEF TextInv
<1>2. Sized("strip", lpszReturn \o Rest, Len(lpszReturn \o Rest))
  BY DEF Sized
<1> QED
  BY <1>1, <1>2, AllocateStep DEF Escaped

LEMMA StrippedStep ==
  ASSUME TextInv, Stripped
  PROVE  TextInv'
<1>1. PICK o : o = lpszReturn \o Rest
  OBVIOUS
<1>2. o \in Seq(Characters) /\ Len(o) \in Nat
  BY <1>1, RestFacts, LenProperties DEF TextInv
<1>3. PICK N : N = uPatCount(o, <<"a">>)
  OBVIOUS
<1>4. N \in Nat
  <2>1. <<"a">> \in Seq(Characters) /\ Len(<<"a">>) \in Nat \ {0}
    BY PatternFacts
  <2>2. After(0, o, <<"a">>, 1)
    BY ONLY <1>2, <2>1, NothingCounted
  <2>3. MatchesLeft(o, <<"a">>, 0, 1)
    BY ONLY <1>2, <2>1, <2>2, 0 \in Nat, MatchesLeftFacts
  <2> QED
    BY <1>3, <2>3 DEF MatchesLeft
<1>5. Allocate("restore", o, Len(o) + N * (1 - 1)) /\ UNCHANGED <<text, lpszOutput>>
  BY <1>1, <1>3, PatternFacts DEF Stripped, AllocateReplaced
<1>6. Len(o) + N * (1 - 1) = Len(o)
  BY <1>2, <1>4
<1>7. Allocate("restore", o, Len(o)) /\ Sized("restore", o, Len(o))
  BY <1>5, <1>6 DEF Sized
<1> QED
  BY <1>2, <1>5, <1>7, AllocateStep

(* A code is skipped with all its characters.                               *)
LEMMA StripStep ==
  ASSUME TextInv, Strip
  PROVE  TextInv'
<1>1. PICK loc : loc = PatLoc(<<"$">>)
  OBVIOUS
<1>2. CodeAt(loc) /\ loc # 0
  BY <1>1 DEF Strip, CodeAt
<1>3. /\ loc \in lpszOrigPtr..Len(lpszOriginal)
      /\ Skipped(loc) \in Seq(Characters) /\ Len(Skipped(loc)) = loc - lpszOrigPtr
  <2>1. Len(lpszOriginal) \in Nat /\ Len(<<"$">>) \in Nat \ {0}
    BY PatternFacts, LenProperties DEF TextInv, TextTypes
  <2>2. TextTypes /\ <<"$">> \in Seq(Characters) /\ PatLoc(<<"$">>) # 0
    BY <1>1, <1>2, PatternFacts DEF TextInv
  <2>3. /\ PatLoc(<<"$">>) \in lpszOrigPtr..(Len(lpszOriginal) - Len(<<"$">>) + 1)
        /\ Skipped(PatLoc(<<"$">>)) \in Seq(Characters)
        /\ Len(Skipped(PatLoc(<<"$">>))) = PatLoc(<<"$">>) - lpszOrigPtr
    BY ONLY <2>1, <2>2, FoundFacts
  <2>4. Len(lpszOriginal) - Len(<<"$">>) + 1 = Len(lpszOriginal)
    BY <2>1, PatternFacts
  <2> QED
    BY <1>1, <2>3, <2>4
<1>4. PICK inc \in {2, 4} : inc = uIncrement(loc)
  BY DEF uIncrement
<1>5. inc \in {2, 4} /\ Len(lpszOriginal) - loc + 1 >= inc
  BY <1>2, <1>4 DEF CodeAt, uIncrement
<1>6. /\ lpszReturn' = lpszReturn \o Skipped(loc) /\ lpszOrigPtr' = loc + inc
      /\ textPc = "strip"
      /\ UNCHANGED <<text, textPc, lpszOriginal, cchRetLen, held, lpszTemp, bClean, lpszOutput>>
  BY <1>1, <1>4 DEF Strip
<1>7. /\ lpszReturn' \in Seq(Characters)
      /\ Len(lpszReturn') = Len(lpszReturn) + (loc - lpszOrigPtr)
  <2>1. lpszReturn \in Seq(Characters)
    BY DEF TextInv, TextTypes
  <2>2. PICK r \in Seq(Characters), s \in Seq(Characters) : r = lpszReturn /\ s = Skipped(loc)
    BY <1>3, <2>1
  <2>3. r \o s \in Seq(Characters) /\ Len(r \o s) = Len(r) + Len(s)
    BY ONLY <2>2, ConcatProperties
  <2> QED
    BY <1>3, <1>6, <2>2, <2>3
<1>8. /\ lpszOrigPtr \in 1..(Len(lpszOriginal) + 1) /\ Len(lpszOriginal) \in Nat
      /\ Len(lpszReturn) \in Nat /\ cchRetLen = Len(lpszOriginal)
      /\ Len(lpszReturn) <= lpszOrigPtr - 1
  BY <1>6, LenProperties DEF TextInv, TextTypes, StripInv
<1>9. /\ loc + inc \in 1..(Len(lpszOriginal) + 1)
      /\ Len(lpszReturn') <= loc + inc - 1 /\ Len(lpszReturn') <= cchRetLen
  BY <1>3, <1>5, <1>7, <1>8
<1>10. TextTypes'
  BY <1>6, <1>7, <1>9 DEF TextInv, TextTypes
<1>11. StripInv' /\ (Len(lpszReturn) <= cchRetLen)'
  <2>1. PICK next \in Int : next = loc + inc
    BY <1>3, <1>5, <1>8
  <2>2. lpszOrigPtr' = next /\ Len(lpszReturn') <= next - 1 /\ Len(lpszReturn') <= cchRetLen'
    <3>1. loc \in Int /\ loc + inc - 1 = next - 1
      BY <1>3, <1>8, <2>1
    <3>2. lpszOrigPtr' = next /\ Len(lpszReturn') <= cchRetLen'
      BY <1>6, <1>9, <2>1
    <3> QED
      BY <1>9, <3>1, <3>2
  <2>3. cchRetLen' = Len(lpszOriginal')
    BY <1>6, <1>8
  <2> QED
    BY <2>2, <2>3 DEF StripInv
<1> QED
  BY <1>6, <1>10, <1>11 DEF TextInv, EscapeInv, RestoreInv, LineEnds

LEMMA ReplaceStep ==
  ASSUME TextInv, NEW stage \in DOMAIN Stages, Replace(stage)
  PROVE  TextInv'
<1>1. /\ textPc = stage
      /\ UNCHANGED <<text, textPc, lpszOriginal, cchRetLen, held, lpszTemp, bClean, lpszOutput>>
  BY DEF Replace
<1>2. stage = "escape" \/ stage = "restore"
  BY DEF Stages
<1>3. /\ lpszOriginal \in Seq(Characters) /\ lpszReturn \in Seq(Characters)
      /\ lpszOrigPtr \in 1..(Len(lpszOriginal) + 1) /\ Len(lpszOriginal) \in Nat
      /\ Len(lpszReturn) \in Nat /\ TextTypes
  BY LenProperties DEF TextInv, TextTypes
<1>4. CASE stage = "escape"
  <2>1. PICK loc : loc = PatLoc(Dollars)
    OBVIOUS
  <2>2. /\ loc # 0 /\ lpszOrigPtr' = loc + 2
        /\ lpszReturn' = lpszReturn \o Skipped(loc) \o <<"a">>
    BY <1>4, <2>1, PatternFacts DEF Replace
  <2>3. Dollars \in Seq(Characters) /\ Len(Dollars) \in Nat \ {0} /\ PatLoc(Dollars) # 0
    BY <2>1, <2>2, PatternFacts
  <2>4. /\ PatLoc(Dollars) \in lpszOrigPtr..(Len(lpszOriginal) - Len(Dollars) + 1)
        /\ Skipped(PatLoc(Dollars)) \in Seq(Characters)
        /\ Len(Skipped(PatLoc(Dollars))) = PatLoc(Dollars) - lpszOrigPtr
    BY ONLY <1>3, <2>3, FoundFacts
  <2>5. /\ loc \in lpszOrigPtr..(Len(lpszOriginal) - 1) /\ Skipped(loc) \in Seq(Characters)
        /\ Len(Skipped(loc)) = loc - lpszOrigPtr
    BY <1>3, <2>1, <2>4, PatternFacts
  <2>6. /\ lpszReturn' \in Seq(Characters)
        /\ Len(lpszReturn') = Len(lpszReturn) + (loc - lpszOrigPtr) + 1
    <3>1. PICK b : b = Skipped(loc)
      OBVIOUS
    <3>2. PICK d : d = <<"a">> /\ d \in Seq(Characters) /\ Len(d) = 1
      BY PatternFacts
    <3>3. b \in Seq(Characters) /\ lpszReturn \in Seq(Characters) /\ lpszReturn' = lpszReturn \o b \o d
      BY <1>3, <2>2, <2>5, <3>1, <3>2
    <3>4. /\ lpszReturn \o b \o d \in Seq(Characters)
          /\ Len(lpszReturn \o b \o d) = Len(lpszReturn) + Len(b) + Len(d)
      BY ONLY <3>2, <3>3, ThreeParts
    <3> QED
      BY <1>3, <2>5, <3>1, <3>2, <3>3, <3>4
  <2>7. PICK r \in Nat : /\ After(r, lpszOriginal, Dollars, lpszOrigPtr)
                         /\ Len(lpszReturn) = lpszOrigPtr - 1 - r
    BY <1>1, <1>4 DEF TextInv, EscapeInv
  <2>8. PICK o, p : o \in Seq(Characters) /\ o = lpszOriginal /\ p = lpszOrigPtr
    BY <1>3
  <2>9. After(r + 1, o, Dollars, loc + 2)
    <3>1. MatchesLeft(o, Dollars, r, p)
      BY <2>7, <2>8, DollarsLeft
    <3>2. Find(o, p, Dollars) = loc
      BY <2>1, <2>8 DEF PatLoc
    <3> QED
      BY <2>2, <3>1, <3>2, PatternFacts DEF MatchesLeft
  <2>10. PICK N \in Int : N = uPatCount(o, Dollars) /\ r + 1 <= N /\ N - (r + 1) <= Len(o) + 1 - (loc + 2)
    BY <2>8, <2>9, DollarsLeft DEF MatchesLeft
  <2>11. cchRetLen = Len(o) - N
    BY <1>1, <1>4, <2>8, <2>10 DEF TextInv, EscapeInv
  <2>12. Len(lpszReturn') = loc + 2 - 1 - (r + 1)
    BY <1>3, <2>5, <2>6, <2>7
  <2>13. Len(lpszReturn') <= cchRetLen
    BY <1>3, <2>5, <2>8, <2>10, <2>11, <2>12
  <2>14. TextTypes' /\ (Len(lpszReturn) <= cchRetLen)'
    <3>1. loc + 2 \in 1..(Len(lpszOriginal) + 1)
      BY <1>3, <2>5
    <3> QED
      BY <1>1, <2>2, <2>6, <2>13, <3>1 DEF TextInv, TextTypes
  <2>15. EscapeInv'
    <3>1. lpszOriginal' = o /\ lpszOrigPtr' = loc + 2 /\ cchRetLen' = Len(o) - uPatCount(o, Dollars)
      BY <1>1, <2>2, <2>8, <2>10, <2>11
    <3>2. PICK n \in Nat, next \in Int : n = r + 1 /\ next = loc + 2
      BY <1>3, <2>5
    <3>3. After(n, o, Dollars, next) /\ Len(lpszReturn') = next - 1 - n
      <4>1. loc \in Int /\ loc + 2 - 1 - (r + 1) = next - 1 - n
        BY <1>3, <2>5, <3>2
      <4>2. After(n, o, Dollars, next)
        BY <2>9, <3>2
      <4> QED
        BY <2>12, <4>1, <4>2
    <3>4. lpszOrigPtr' = next
      BY <3>1, <3>2
    <3>5. \E m \in Nat : /\ After(m, lpszOriginal', Dollars, lpszOrigPtr')
                        /\ Len(lpszReturn') = lpszOrigPtr' - 1 - m
      BY <3>1, <3>3, <3>4
    <3> QED
      BY <3>1, <3>5 DEF EscapeInv
  <2> QED
    BY <1>1, <1>4, <2>14, <2>15 DEF TextInv, StripInv, RestoreInv, LineEnds
<1>5. CASE stage = "restore"
  <2>1. PICK loc : loc = PatLoc(<<"a">>)
    OBVIOUS
  <2>2. /\ loc # 0 /\ lpszOrigPtr' = loc + 1
        /\ lpszReturn' = lpszReturn \o Skipped(loc) \o <<"$">>
    BY <1>5, <2>1, PatternFacts DEF Replace
  <2>3. <<"a">> \in Seq(Characters) /\ Len(<<"a">>) \in Nat \ {0} /\ PatLoc(<<"a">>) # 0
    BY <2>1, <2>2, PatternFacts
  <2>4. /\ PatLoc(<<"a">>) \in lpszOrigPtr..(Len(lpszOriginal) - Len(<<"a">>) + 1)
        /\ Skipped(PatLoc(<<"a">>)) \in Seq(Characters)
        /\ Len(Skipped(PatLoc(<<"a">>))) = PatLoc(<<"a">>) - lpszOrigPtr
    BY ONLY <1>3, <2>3, FoundFacts
  <2>5. /\ loc \in lpszOrigPtr..Len(lpszOriginal) /\ Skipped(loc) \in Seq(Characters)
        /\ Len(Skipped(loc)) = loc - lpszOrigPtr
    BY <1>3, <2>1, <2>4, PatternFacts
  <2>6. /\ lpszReturn' \in Seq(Characters)
        /\ Len(lpszReturn') = Len(lpszReturn) + (loc - lpszOrigPtr) + 1
    <3>1. PICK b : b = Skipped(loc)
      OBVIOUS
    <3>2. PICK d : d = <<"$">> /\ d \in Seq(Characters) /\ Len(d) = 1
      BY PatternFacts
    <3>3. b \in Seq(Characters) /\ lpszReturn \in Seq(Characters) /\ lpszReturn' = lpszReturn \o b \o d
      BY <1>3, <2>2, <2>5, <3>1, <3>2
    <3>4. /\ lpszReturn \o b \o d \in Seq(Characters)
          /\ Len(lpszReturn \o b \o d) = Len(lpszReturn) + Len(b) + Len(d)
      BY ONLY <3>2, <3>3, ThreeParts
    <3> QED
      BY <1>3, <2>5, <3>1, <3>2, <3>3, <3>4
  <2>7. Len(lpszReturn) = lpszOrigPtr - 1 /\ cchRetLen = Len(lpszOriginal)
    BY <1>1, <1>5 DEF TextInv, RestoreInv
  <2>8. /\ Len(lpszReturn') = loc + 1 - 1 /\ Len(lpszReturn') <= cchRetLen
        /\ loc + 1 \in 1..(Len(lpszOriginal) + 1)
    BY <1>3, <2>5, <2>6, <2>7
  <2>9. TextTypes' /\ (Len(lpszReturn) <= cchRetLen)'
    BY <1>1, <2>2, <2>6, <2>8 DEF TextInv, TextTypes
  <2>10. RestoreInv'
    <3>1. PICK next \in Int : next = loc + 1
      BY <1>3, <2>5
    <3>2. loc \in Int /\ loc + 1 - 1 = next - 1
      BY <1>3, <2>5, <3>1
    <3>3. lpszOrigPtr' = next /\ cchRetLen' = Len(lpszOriginal')
      BY <1>1, <2>2, <2>7, <3>1
    <3>4. Len(lpszReturn') = next - 1
      BY <2>8, <3>2
    <3> QED
      BY <3>3, <3>4 DEF RestoreInv
  <2> QED
    BY <1>1, <1>5, <2>9, <2>10 DEF TextInv, EscapeInv, StripInv, LineEnds
<1> QED
  BY <1>2, <1>4, <1>5

LEMMA RestoredStep ==
  ASSUME TextInv, Restored
  PROVE  TextInv'
<1>1. /\ textPc = "restore" /\ textPc' = "convert"
      /\ lpszReturn' = lpszReturn \o Rest
      /\ lpszOrigPtr' = Len(lpszOriginal) + 1
      /\ UNCHANGED <<text, lpszOriginal, cchRetLen, lpszOutput>>
  BY DEF Restored
<1>2. /\ lpszReturn' \in Seq(Characters)
      /\ Len(lpszReturn') = Len(lpszReturn) + (Len(lpszOriginal) + 1 - lpszOrigPtr)
  BY <1>1, RestFacts DEF TextInv
<1>3. /\ Len(lpszOriginal) \in Nat /\ lpszOrigPtr \in 1..(Len(lpszOriginal) + 1)
      /\ Len(text) \in Nat /\ Len(lpszReturn') \in Nat
      /\ Len(lpszReturn) = lpszOrigPtr - 1 /\ cchRetLen = Len(lpszOriginal)
  BY <1>1, <1>2, LenProperties DEF TextInv, TextTypes, RestoreInv
<1>4. Len(lpszReturn') <= cchRetLen' /\ lpszOrigPtr' \in 1..(Len(lpszOriginal') + 1)
  BY <1>1, <1>2, <1>3
<1>5. PICK n : n = IF Len(lpszReturn') < Len(text) THEN Len(lpszReturn') ELSE Len(text) - 1
  OBVIOUS
<1>6. lpszTemp' = SubSeq(lpszReturn', 1, n)
  BY <1>5 DEF Restored
<1>7. n \in (-1)..Len(lpszReturn')
  BY <1>3, <1>5
<1>8. lpszTemp' \in Seq(Characters)
  <2>1. CASE n = -1
    <3>1. SubSeq(lpszReturn', 1, n) = <<>>
      BY <1>2, <2>1
    <3>2. <<>> \in Seq(Characters)
      OBVIOUS
    <3> QED
      BY <1>6, <3>1, <3>2
  <2>2. CASE n # -1
    <3>1. n \in (1 - 1)..Len(lpszReturn') /\ 1 \in 1..(Len(lpszReturn') + 1)
      BY <1>3, <1>7, <2>2
    <3> QED
      BY <1>2, <1>6, <3>1, PartFacts
  <2> QED
    BY <2>1, <2>2
<1> QED
  BY <1>1, <1>2, <1>3, <1>4, <1>8 DEF TextInv, TextTypes, EscapeInv, StripInv, RestoreInv, LineEnds

-----------------------------------------------------------------------------
(* The line                                                                 *)
LineLetters == Characters \cup {" ", "(", ")", "CR", "LF"}

(* What is appended never fills more than the size, and is complete if      *)
(* there is room.                                                           *)
LEMMA AppendFacts ==
  ASSUME NEW s \in Seq(LineLetters), NEW t \in Seq(LineLetters), NEW size \in Nat,
         Len(s) <= size
  PROVE  /\ AppendedUpTo(s, t, size) \in Seq(LineLetters)
         /\ Len(AppendedUpTo(s, t, size)) <= size
         /\ Len(s) + Len(t) <= size => AppendedUpTo(s, t, size) = s \o t
<1>1. Len(s) \in Nat /\ Len(t) \in Nat
  BY LenProperties
<1>2. PICK n : n = IF size - Len(s) < Len(t) THEN size - Len(s) ELSE Len(t)
  OBVIOUS
<1>3. n \in (1 - 1)..Len(t) /\ Len(s) + n <= size /\ 1 \in 1..(Len(t) + 1) /\ n - 1 + 1 = n
  BY <1>1, <1>2
<1>4. PICK u : u = SubSeq(t, 1, n)
  OBVIOUS
<1>5. u \in Seq(LineLetters) /\ Len(u) = n - 1 + 1
  BY ONLY t \in Seq(LineLetters), <1>3, <1>4, SubSeqProperties
<1>6. s \o u \in Seq(LineLetters) /\ Len(s \o u) = Len(s) + Len(u)
  BY ONLY s \in Seq(LineLetters), <1>5, ConcatProperties
<1>7. AppendedUpTo(s, t, size) = s \o u
  BY <1>2, <1>4 DEF AppendedUpTo
<1>8. ASSUME Len(s) + Len(t) <= size PROVE u = t
  <2>1. n = Len(t)
    BY <1>1, <1>2, <1>8
  <2>2. SubSeq(t, 1, Len(t)) = t
    OBVIOUS
  <2> QED
    BY <1>4, <2>1, <2>2
<1> QED
  BY <1>1, <1>3, <1>5, <1>6, <1>7, <1>8

LEMMA ConvertStep ==
  ASSUME TextInv, Convert
  PROVE  TextInv'
<1> DEFINE m == cchLenOutput - 3
           open == <<" ", "(">>
           close == <<")">>
           ending == <<"CR", "LF">>
<1>1. m \in Nat /\ MaxText <= m - 1 /\ MaxText \in Nat /\ cchLenOutput \in Nat
      /\ cchLenOutput - 1 = m + 2 /\ m + 2 \in Nat
  BY TextAssumption
<1>2. /\ open \in Seq(LineLetters) /\ close \in Seq(LineLetters)
      /\ ending \in Seq(LineLetters) /\ Len(ending) = 2
      /\ ending[1] = "CR" /\ ending[2] = "LF"
  BY DEF LineLetters
<1> HIDE DEF m, open, close, ending
<1>3. text \in Seq(LineLetters) /\ lpszTemp \in Seq(LineLetters) /\ Len(text) \in Nat /\ Len(text) <= m
  <2>1. Characters \subseteq LineLetters
    BY DEF LineLetters
  <2>2. text \in Seq(Characters) /\ lpszTemp \in Seq(Characters) /\ Len(text) <= MaxText
    BY DEF TextInv, TextTypes
  <2> QED
    BY <1>1, <2>1, <2>2, LenProperties
<1>4. PICK a : a = AppendedUpTo(text, open, m)
  OBVIOUS
<1>5. a \in Seq(LineLetters) /\ Len(a) <= m
  BY ONLY <1>1, <1>2, <1>3, <1>4, AppendFacts
<1>6. PICK b : b = AppendedUpTo(a, lpszTemp, m)
  OBVIOUS
<1>7. b \in Seq(LineLetters) /\ Len(b) <= m
  BY ONLY <1>1, <1>3, <1>5, <1>6, AppendFacts
<1>8. PICK d : d = AppendedUpTo(b, close, m)
  OBVIOUS
<1>9. d \in Seq(LineLetters) /\ Len(d) <= m
  BY ONLY <1>1, <1>2, <1>7, <1>8, AppendFacts
<1>10. d = Bracketed(text)
  BY <1>4, <1>6, <1>8 DEF Bracketed, m, open, close
<1>11. PICK l : l = IF bClean THEN d ELSE text
  OBVIOUS
<1>12. l \in Seq(LineLetters) /\ Len(l) <= m /\ Len(l) \in Nat
  <2>1. l = d \/ l = text
    BY <1>11
  <2> QED
    BY <1>3, <1>9, <2>1, LenProperties
<1>13. Len(l) + Len(ending) <= m + 2 /\ Len(l) <= m + 2
  BY <1>1, <1>2, <1>12
<1>14. AppendedUpTo(l, ending, m + 2) = l \o ending
  BY ONLY <1>1, <1>2, <1>12, <1>13, AppendFacts
<1>15. lpszOutput' = l \o ending
  BY <1>1, <1>10, <1>11, <1>14 DEF Convert, ending
<1>16. /\ Len(l \o ending) = Len(l) + 2
       /\ (l \o ending)[Len(l) + 1] = "CR" /\ (l \o ending)[Len(l) + 2] = "LF"
  <2>1. /\ Len(l \o ending) = Len(l) + Len(ending)
        /\ \A i \in 1..(Len(l) + Len(ending)) :
             (l \o ending)[i] = IF i <= Len(l) THEN l[i] ELSE ending[i - Len(l)]
    BY ONLY <1>2, <1>12, ConcatProperties
  <2>2. /\ Len(l) + 1 \in 1..(Len(l) + Len(ending)) /\ ~ (Len(l) + 1 <= Len(l))
        /\ Len(l) + 2 \in 1..(Len(l) + Len(ending)) /\ ~ (Len(l) + 2 <= Len(l))
        /\ Len(l) + 1 - Len(l) = 1 /\ Len(l) + 2 - Len(l) = 2
    BY <1>2, <1>12
  <2>3. (l \o ending)[Len(l) + 1] = ending[1] /\ (l \o ending)[Len(l) + 2] = ending[2]
    BY <2>1, <2>2
  <2> QED
    BY <1>2, <2>1, <2>3
<1>17. LineEnds'
  <2>1. PICK e \in Nat : e = Len(l) + 2 /\ e - 1 = Len(l) + 1 /\ e \in 2..(cchLenOutput - 1)
    BY <1>1, <1>12
  <2>2. Len(lpszOutput') = e /\ lpszOutput'[e - 1] = "CR" /\ lpszOutput'[e] = "LF"
    BY <1>15, <1>16, <2>1
  <2> QED
    BY <2>1, <2>2 DEF LineEnds
<1> QED
  BY <1>17 DEF Convert, loop, TextInv, TextTypes, EscapeInv, StripInv, RestoreInv

LEMMA TextStep == TextInv /\ [TextNext]_textVars => TextInv'
<1> SUFFICES ASSUME TextInv, [TextNext]_textVars PROVE TextInv'
  OBVIOUS
<1>1. CASE UNCHANGED textVars
  BY <1>1 DEF textVars, loop, TextInv, TextTypes, EscapeInv, StripInv, RestoreInv, LineEnds
<1>2. CASE Check
  BY <1>2, CheckStep
<1>3. CASE \E stage \in DOMAIN Stages : Replace(stage)
  BY <1>3, ReplaceStep
<1>4. CASE Escaped
  BY <1>4, EscapedStep
<1>5. CASE Strip
  BY <1>5, StripStep
<1>6. CASE Stripped
  BY <1>6, StrippedStep
<1>7. CASE Restored
  BY <1>7, RestoredStep
<1>8. CASE Convert
  BY <1>8, ConvertStep
<1> QED
  BY <1>1, <1>2, <1>3, <1>4, <1>5, <1>6, <1>7, <1>8 DEF TextNext

(* No pass of CleanupString writes behind the block that was calculated for *)
(* it, whatever the text, and a line of the output always ends with CR LF,  *)
(* whatever the size of the buffer.                                         *)
THEOREM LinesAlwaysFit == TextSpec => []LinesFit
<1>1. TextInit => TextInv
  BY TextStarts
<1>2. TextInv /\ [TextNext]_textVars => TextInv'
  BY TextStep
<1>3. TextInv => LinesFit
  BY TextFits
<1> QED
  BY <1>1, <1>2, <1>3, PTL DEF TextSpec

-----------------------------------------------------------------------------
(* Every pass tells the pieces it is meant for by its pattern.              *)
Dollar == <<"$">>
Alert  == <<"a">>

LEMMA PatternLetters ==
  /\ Len(Dollars) = 2 /\ Dollars[1] = "$" /\ Dollars[2] = "$"
  /\ Len(Dollar) = 1 /\ Dollar[1] = "$" /\ Len(Alert) = 1 /\ Alert[1] = "a"
  /\ Dollars \in Seq(Characters) /\ Dollar \in Seq(Characters) /\ Alert \in Seq(Characters)
  /\ Len(Dollars) \in Nat \ {0} /\ Len(Dollar) \in Nat \ {0} /\ Len(Alert) \in Nat \ {0}
BY DEF Dollars, Dollar, Alert, Characters

LEMMA PieceLengths ==
  /\ Len(Spelling["dollar"]) = 2 /\ Len(Spelling["colour"]) = 4 /\ Len(Spelling["style"]) = 2
  /\ Len(Spelling["digit"]) = 1 /\ Len(Spelling["letter"]) = 1
  /\ Len(Meaning["dollar"]) = 1 /\ Len(Meaning["colour"]) = 0 /\ Len(Meaning["style"]) = 0
  /\ Len(Meaning["digit"]) = 1 /\ Len(Meaning["letter"]) = 1
<1>1. /\ Len(<<"$", "$">>) = 2 /\ Len(<<"$", "f", "f", "f">>) = 4 /\ Len(<<"$", "x">>) = 2
      /\ Len(<<"f">>) = 1 /\ Len(<<"x">>) = 1 /\ Len(<<"$">>) = 1 /\ Len(<<>>) = 0
  OBVIOUS
<1> QED
  BY ONLY <1>1, SpellingIs, MeaningIs

LEMMA EscapeTells == Tells(Spelling, Dollars, {"dollar"})
<1>1. \A k \in Pieces \cap {"dollar"} : Matches(Spelling[k], Dollars)
  BY SpellingIs, PatternLetters DEF Matches
<1>2. \A k \in Pieces \ {"dollar"} : \A j \in 1..Len(Spelling[k]) : Differs(Spelling[k], Dollars, j)
  <2> SUFFICES ASSUME NEW k \in Pieces \ {"dollar"}, NEW j \in 1..Len(Spelling[k])
               PROVE  Differs(Spelling[k], Dollars, j)
    OBVIOUS
  <2>1. CASE k = "colour"
    <3>1. PICK s : s = Spelling[k] /\ Len(s) = 4 /\ s[1] = "$" /\ s[2] = "f" /\ s[3] = "f" /\ s[4] = "f"
      BY <2>1, SpellingIs
    <3>2. CASE j = 1
      BY <3>1, <3>2, PatternLetters DEF Differs
    <3>3. CASE j # 1
      BY <3>1, <3>3, PatternLetters DEF Differs
    <3> QED
      BY <3>2, <3>3
  <2>2. CASE k = "style"
    <3>1. PICK s : s = Spelling[k] /\ Len(s) = 2 /\ s[1] = "$" /\ s[2] = "x"
      BY <2>2, SpellingIs
    <3> QED
      BY <3>1, PatternLetters DEF Differs
  <2>3. CASE k \in {"digit", "letter"}
    <3>1. CASE k = "digit"
      <4>1. Spelling[k] = <<"f">>
        BY <3>1, SpellingIs
      <4>2. Len(<<"f">>) = 1 /\ <<"f">>[1] = "f"
        OBVIOUS
      <4>3. Len(Spelling[k]) = 1 /\ Spelling[k][1] = "f"
        BY ONLY <4>1, <4>2
      <4> QED
        BY <4>3, PatternLetters DEF Differs
    <3>2. CASE k = "letter"
      <4>1. Spelling[k] = <<"x">>
        BY <3>2, SpellingIs
      <4>2. Len(<<"x">>) = 1 /\ <<"x">>[1] = "x"
        OBVIOUS
      <4>3. Len(Spelling[k]) = 1 /\ Spelling[k][1] = "x"
        BY ONLY <4>1, <4>2
      <4> QED
        BY <4>3, PatternLetters DEF Differs
    <3> QED
      BY <2>3, <3>1, <3>2
  <2> QED
    BY <2>1, <2>2, <2>3 DEF Pieces
<1> QED
  BY <1>1, <1>2 DEF Tells

LEMMA StripTells == Tells(EscapedForm, Dollar, Codes)
<1>1. /\ EscapedForm["dollar"] = <<"a">> /\ EscapedForm["digit"] = <<"f">>
      /\ EscapedForm["letter"] = <<"x">>
      /\ EscapedForm["colour"] = <<"$", "f", "f", "f">> /\ EscapedForm["style"] = <<"$", "x">>
  BY SpellingIs DEF EscapedForm, Pieces
<1>2. \A k \in Pieces \cap Codes : Matches(EscapedForm[k], Dollar)
  BY <1>1, PatternLetters DEF Matches, Codes
<1>3. \A k \in Pieces \ Codes : Len(EscapedForm[k]) = 1 /\ EscapedForm[k][1] # "$"
  BY <1>1 DEF Pieces, Codes
<1>4. \A k \in Pieces \ Codes : \A j \in 1..Len(EscapedForm[k]) : Differs(EscapedForm[k], Dollar, j)
  BY <1>3, PatternLetters DEF Differs
<1> QED
  BY <1>2, <1>4 DEF Tells

LEMMA RestoreTells == Tells(StrippedForm, Alert, {"dollar"})
<1>1. /\ StrippedForm["dollar"] = <<"a">> /\ StrippedForm["digit"] = <<"f">>
      /\ StrippedForm["letter"] = <<"x">>
      /\ StrippedForm["colour"] = <<>> /\ StrippedForm["style"] = <<>>
  BY MeaningIs DEF StrippedForm, Pieces
<1>2. \A k \in Pieces \cap {"dollar"} : Matches(StrippedForm[k], Alert)
  BY <1>1, PatternLetters DEF Matches
<1>3. \A k \in Pieces \ {"dollar"} : \/ StrippedForm[k] = <<>>
                                     \/ Len(StrippedForm[k]) = 1 /\ StrippedForm[k][1] # "a"
  <2>1. /\ Len(StrippedForm["digit"]) = 1 /\ StrippedForm["digit"][1] # "a"
        /\ Len(StrippedForm["letter"]) = 1 /\ StrippedForm["letter"][1] # "a"
    <3>1. Len(<<"f">>) = 1 /\ <<"f">>[1] # "a" /\ Len(<<"x">>) = 1 /\ <<"x">>[1] # "a"
      OBVIOUS
    <3> QED
      BY ONLY <1>1, <3>1
  <2> SUFFICES ASSUME NEW k \in Pieces \ {"dollar"}
               PROVE  StrippedForm[k] = <<>> \/ (Len(StrippedForm[k]) = 1 /\ StrippedForm[k][1] # "a")
    OBVIOUS
  <2>2. k \in {"colour", "style"} \/ k = "digit" \/ k = "letter"
    BY DEF Pieces
  <2> QED
    BY ONLY <1>1, <2>1, <2>2
<1>4. \A k \in Pieces \ {"dollar"} : \A j \in 1..Len(StrippedForm[k]) : Differs(StrippedForm[k], Alert, j)
  BY <1>3, PatternLetters DEF Differs
<1> QED
  BY <1>2, <1>4 DEF Tells

(* A text with a dollar sign says less than it is long.                     *)
NoLonger(g, h, m) ==
  {n \in Nat : /\ Len(h[n]) <= Len(g[n])
               /\ n > m => Len(h[n]) < Len(g[n])}

LEMMA SaysLess ==
  ASSUME NEW pieces \in Seq(Pieces), Contains(Whole(Spelling, pieces), "$")
  PROVE  Len(Whole(Meaning, pieces)) < Len(Whole(Spelling, pieces))
<1>1. PICK g : g = Strung(Spelling, pieces) /\ Grows(g, Spelling, pieces)
  BY FormFacts, StrungGrows
<1>2. PICK h : h = Strung(Meaning, pieces) /\ Grows(h, Meaning, pieces)
  BY FormFacts, StrungGrows
<1>3. PICK N \in Nat : N = Len(pieces)
  BY LenProperties
<1>4. PICK i \in 1..Len(g[N]) : g[N][i] = "$"
  BY <1>1, <1>3 DEF Contains, Whole
<1>5. g[0] = <<>> /\ Len(g[0]) = 0 /\ Len(h[0]) = 0
  BY <1>1, <1>2 DEF Grows
<1>6. PICK m \in 0..(N - 1) : i \in (Len(g[m]) + 1)..Len(g[m + 1])
  <2>1. 0 \in Nat /\ Len(pieces) \in 0..Len(pieces) /\ i \in (Len(g[0]) + 1)..Len(g[Len(pieces)])
    BY <1>3, <1>4, <1>5
  <2> QED
    BY <1>1, <1>3, <2>1, FormFacts, LetterInPiece
<1>7. PICK p : p = pieces[m + 1] /\ p \in Pieces /\ OneMore(g, Spelling[p], m)
  BY <1>1, <1>3, <1>6, FormFacts, OnePieceMore
<1>8. \E j \in 1..Len(Spelling[p]) : Spelling[p][j] = "$"
  <2>1. LettersOf(g, g[N], Spelling[p], m)
    BY <1>1, <1>3, <1>6, <1>7, FormFacts, PieceLetters
  <2>2. PICK b \in Nat, T \in Nat : b = Len(g[m]) /\ T = Len(Spelling[p]) /\ Len(g[m + 1]) = b + T
    <3>1. Len(g[m]) \in Nat /\ Len(Spelling[p]) \in Nat /\ Len(g[m + 1]) = Len(g[m]) + Len(Spelling[p])
      BY <1>1, <1>6, <1>7, LenProperties DEF Grows, OneMore
    <3> QED
      BY <3>1
  <2>3. PICK j \in 1..T : b + j = i
    <3>1. i \in (b + 1)..(b + T)
      BY ONLY <1>6, <2>2
    <3>2. i - b \in 1..T /\ b + (i - b) = i
      BY ONLY <3>1, b \in Nat, T \in Nat
    <3> QED
      BY <3>2
  <2> QED
    BY <1>4, <2>1, <2>2, <2>3 DEF LettersOf
<1>9. \A q \in Pieces : Len(Meaning[q]) \in Nat /\ Len(Spelling[q]) \in Nat /\ Len(Meaning[q]) <= Len(Spelling[q])
  <2> SUFFICES ASSUME NEW q \in Pieces
               PROVE  /\ Len(Meaning[q]) \in Nat /\ Len(Spelling[q]) \in Nat
                      /\ Len(Meaning[q]) <= Len(Spelling[q])
    OBVIOUS
  <2>1. CASE q = "dollar"
    BY ONLY <2>1, PieceLengths
  <2>2. CASE q = "colour"
    BY ONLY <2>2, PieceLengths
  <2>3. CASE q = "style"
    BY ONLY <2>3, PieceLengths
  <2>4. CASE q = "digit"
    BY ONLY <2>4, PieceLengths
  <2>5. CASE q = "letter"
    BY ONLY <2>5, PieceLengths
  <2> QED
    BY <2>1, <2>2, <2>3, <2>4, <2>5 DEF Pieces
<1>10. Len(Meaning[p]) < Len(Spelling[p])
  <2>1. Spelling["digit"][1] # "$" /\ Spelling["letter"][1] # "$" /\ Len(Spelling["digit"]) = 1
        /\ Len(Spelling["letter"]) = 1
    BY SpellingIs
  <2>2. p # "digit" /\ p # "letter"
    BY <1>8, <2>1
  <2> QED
    <3>1. p = "dollar" \/ p = "colour" \/ p = "style"
      BY <1>7, <2>2 DEF Pieces
    <3>2. CASE p = "dollar"
      BY ONLY <3>2, PieceLengths
    <3>3. CASE p = "colour"
      BY ONLY <3>3, PieceLengths
    <3>4. CASE p = "style"
      BY ONLY <3>4, PieceLengths
    <3> QED
      BY <3>1, <3>2, <3>3, <3>4
<1>11. ASSUME NEW n \in Nat, n < N
       PROVE  /\ Len(g[n]) \in Nat /\ Len(h[n]) \in Nat
              /\ \E a \in Nat, c \in Nat : /\ Len(g[n + 1]) = Len(g[n]) + a
                                           /\ Len(h[n + 1]) = Len(h[n]) + c
                                           /\ c <= a /\ (n = m => c < a)
  <2>1. PICK q : q = pieces[n + 1] /\ q \in Pieces /\ OneMore(g, Spelling[q], n) /\ OneMore(h, Meaning[q], n)
    BY <1>1, <1>2, <1>3, <1>11, FormFacts, OnePieceMore
  <2>2. Len(g[n]) \in Nat /\ Len(h[n]) \in Nat
    BY <1>1, <1>2, LenProperties DEF Grows
  <2>3. n = m => q = p
    BY <1>7, <2>1
  <2>4. PICK a \in Nat, c \in Nat : a = Len(Spelling[q]) /\ c = Len(Meaning[q])
    BY <1>9, <2>1
  <2>5. c <= a /\ (n = m => c < a)
    BY <1>9, <1>10, <2>1, <2>3, <2>4
  <2>6. Len(g[n + 1]) = Len(g[n]) + a /\ Len(h[n + 1]) = Len(h[n]) + c
    BY <2>1, <2>4 DEF OneMore
  <2> QED
    BY <2>2, <2>5, <2>6
<1>12. PICK S : S = {n \in Nat : n <= N => n \in NoLonger(g, h, m)}
  OBVIOUS
<1>13. 0 \in S
  BY <1>5, <1>6, <1>12 DEF NoLonger
<1>14. \A n \in Nat : n \in S => n + 1 \in S
  <2> SUFFICES ASSUME NEW n \in Nat, n \in S, n + 1 <= N PROVE n + 1 \in NoLonger(g, h, m)
    BY <1>12
  <2>1. n < N /\ n <= N
    OBVIOUS
  <2>2. n \in NoLonger(g, h, m)
    BY <1>12, <2>1
  <2>3. Len(g[n]) \in Nat /\ Len(h[n]) \in Nat
    BY <1>11, <2>1
  <2>4. PICK a \in Nat, c \in Nat : /\ Len(g[n + 1]) = Len(g[n]) + a
                                   /\ Len(h[n + 1]) = Len(h[n]) + c
                                   /\ c <= a /\ (n = m => c < a)
    BY <1>11, <2>1
  <2>5. PICK y \in Nat, x \in Nat : y = Len(g[n]) /\ x = Len(h[n])
    BY <2>3
  <2>6. x <= y /\ (n > m => x < y)
    BY <2>2, <2>5 DEF NoLonger
  <2>7. x + c <= y + a /\ (n + 1 > m => x + c < y + a)
    BY <1>6, <2>4, <2>6
  <2> QED
    BY <2>4, <2>5, <2>7 DEF NoLonger
<1>15. N \in S
  BY ONLY <1>13, <1>14, N \in Nat, SetInduction
<1>16. N > m
  BY <1>6
<1> QED
  BY <1>1, <1>2, <1>3, <1>12, <1>15, <1>16 DEF NoLonger, Whole

-----------------------------------------------------------------------------
(* The invariant: every pass has read some pieces of the text in one form   *)
(* and written them in the next.                                            *)
Escaping  == Passing(Spelling, EscapedForm, written, lpszOriginal, lpszOrigPtr, lpszReturn)
Stripping == Passing(EscapedForm, StrippedForm, written, lpszOriginal, lpszOrigPtr, lpszReturn)
Restoring == Passing(StrippedForm, Meaning, written, lpszOriginal, lpszOrigPtr, lpszReturn)

Shortened == Len(Whole(Meaning, written)) < Len(text)

AsWritten ==
  /\ text = Whole(Spelling, written)
  /\ textPc \in {"escape", "strip", "restore"} => Shortened
  /\ textPc = "escape"  => Escaping
  /\ textPc = "strip"   => Stripping
  /\ textPc = "restore" => Restoring
  /\ bClean => lpszTemp = Whole(Meaning, written)

CleanInv ==
  /\ textPc \in {"convert", "done"} => held = {}
  /\ bClean => textPc \in {"convert", "done"}
  /\ written \in Seq(Pieces) => AsWritten

LEMMA CleanStarts == TextInit => CleanInv
<1> SUFFICES ASSUME TextInit PROVE CleanInv
  OBVIOUS
<1>1. textPc = "check" /\ bClean = FALSE
  BY DEF TextInit
<1>2. ASSUME written \in Seq(Pieces) PROVE text = Whole(Spelling, written)
  <2>1. written # <<"anything">>
    <3> SUFFICES ASSUME written = <<"anything">> PROVE FALSE
      OBVIOUS
    <3>1. <<"anything">>[1] = "anything" /\ 1 \in 1..Len(<<"anything">>)
      OBVIOUS
    <3>2. "anything" \in Pieces
      BY ONLY <1>2, <3>1, written = <<"anything">>, ElementOfSeq
    <3> QED
      BY <3>2 DEF Pieces
  <2> QED
    BY <2>1 DEF TextInit
<1> QED
  BY <1>1, <1>2 DEF CleanInv, AsWritten

(* The next pass begins, or there is no memory for it.                      *)
Ready(stage, original) ==
  /\ stage = "escape"  => original = Whole(Spelling, written)
  /\ stage = "strip"   => original = Whole(EscapedForm, written)
  /\ stage = "restore" => original = Whole(StrippedForm, written)

LEMMA NextPass ==
  ASSUME CleanInv, NEW stage \in {"escape", "strip", "restore"}, NEW original, NEW size,
         Allocate(stage, original, size), UNCHANGED <<text, written>>,
         textPc \notin {"convert", "done"},
         written \in Seq(Pieces) => Shortened /\ Ready(stage, original)
  PROVE  CleanInv'
<1>1. ~bClean
  BY DEF CleanInv
<1>2. CASE GiveUp
  BY <1>1, <1>2 DEF GiveUp, CleanInv, AsWritten
<1>3. CASE /\ textPc' = stage /\ lpszOriginal' = original /\ lpszOrigPtr' = 1 /\ lpszReturn' = <<>>
           /\ UNCHANGED <<lpszTemp, bClean>>
  <2> SUFFICES ASSUME written \in Seq(Pieces) PROVE AsWritten'
    BY <1>1, <1>3 DEF CleanInv
  <2>1. Shortened /\ Ready(stage, original)
    OBVIOUS
  <2>2. PICK w \in Seq(Pieces) : w = written /\ w = written'
    OBVIOUS
  <2>3. /\ Passing(Spelling, EscapedForm, w, Whole(Spelling, w), 1, <<>>)
        /\ Passing(EscapedForm, StrippedForm, w, Whole(EscapedForm, w), 1, <<>>)
        /\ Passing(StrippedForm, Meaning, w, Whole(StrippedForm, w), 1, <<>>)
    BY ONLY <2>2, FormFacts, PassBegins
  <2>4. /\ textPc' = "escape"  => Escaping'
        /\ textPc' = "strip"   => Stripping'
        /\ textPc' = "restore" => Restoring'
    BY <1>3, <2>1, <2>2, <2>3 DEF Ready, Escaping, Stripping, Restoring
  <2> QED
    BY <1>1, <1>3, <2>1, <2>4 DEF CleanInv, AsWritten, Shortened
<1> QED
  BY <1>2, <1>3 DEF Allocate

LEMMA CheckCleans ==
  ASSUME CleanInv, Check
  PROVE  CleanInv'
<1>1. textPc = "check" /\ UNCHANGED <<text, written>>
  BY DEF Check
<1>2. CASE GiveUp
  BY <1>1, <1>2 DEF GiveUp, CleanInv, AsWritten
<1>3. CASE Contains(text, "$") /\ AllocateReplaced("escape", text)
  <2>1. PICK size : Allocate("escape", text, size)
    BY <1>3 DEF AllocateReplaced
  <2>2. ASSUME written \in Seq(Pieces) PROVE Shortened /\ Ready("escape", text)
    <3>1. text = Whole(Spelling, written)
      BY <2>2 DEF CleanInv, AsWritten
    <3>2. Len(Whole(Meaning, written)) < Len(Whole(Spelling, written))
      BY <1>3, <2>2, <3>1, SaysLess
    <3> QED
      BY <3>1, <3>2 DEF Shortened, Ready
  <2> QED
    BY <1>1, <2>1, <2>2, NextPass
<1> QED
  BY <1>2, <1>3 DEF Check

LEMMA EscapedCleans ==
  ASSUME CleanInv, Escaped
  PROVE  CleanInv'
<1>1. textPc = "escape" /\ UNCHANGED <<text, written>> /\ PatLoc(Dollars) = 0
  BY PatternFacts DEF Escaped
<1>2. ASSUME written \in Seq(Pieces) PROVE Shortened /\ Ready("strip", lpszReturn \o Rest)
  <2>1. Shortened /\ Escaping
    BY <1>1, <1>2 DEF CleanInv, AsWritten
  <2>2. PICK w, o, p, r : w = written /\ o = lpszOriginal /\ p = lpszOrigPtr /\ r = lpszReturn
    OBVIOUS
  <2>3. Passing(Spelling, EscapedForm, w, o, p, r) /\ Find(o, p, Dollars) = 0
    BY <1>1, <2>1, <2>2 DEF Escaping, PatLoc
  <2>4. EndsAs(EscapedForm, w, o, p, r)
    BY ONLY <1>2, <2>2, <2>3, EscapeTells, FormFacts, FormsAgree, PatternLetters, PassEnds
  <2> QED
    BY <2>1, <2>2, <2>4 DEF Ready, Rest, EndsAs
<1> QED
  BY <1>1, <1>2, NextPass DEF Escaped

(* Every code of the text is taken as what it is.                           *)
LEMMA CodeFound ==
  ASSUME TextTypes, written \in Seq(Pieces), Stripping, PatLoc(Dollar) # 0
  PROVE  /\ CodeAt(PatLoc(Dollar))
         /\ Passing(EscapedForm, StrippedForm, written, lpszOriginal,
                    PatLoc(Dollar) + uIncrement(PatLoc(Dollar)),
                    lpszReturn \o Skipped(PatLoc(Dollar)))
<1>1. PICK w, o, p, r, loc : /\ w = written /\ o = lpszOriginal /\ p = lpszOrigPtr /\ r = lpszReturn
                             /\ loc = PatLoc(Dollar)
  OBVIOUS
<1>2. /\ Passing(EscapedForm, StrippedForm, w, o, p, r)
      /\ loc = Find(o, p, Dollar) /\ loc # 0 /\ w \in Seq(Pieces)
  BY <1>1 DEF Stripping, PatLoc
<1>3. PICK piece \in Pieces \cap Codes : Takes(EscapedForm, StrippedForm, w, o, p, r, loc, piece)
  BY ONLY <1>2, StripTells, FormFacts, FormsAgree, PatternLetters, PassGoesOn
<1>4. /\ loc \in 1..Len(o) /\ Len(o) \in Nat /\ Skipped(loc) \in Seq(Characters) /\ r \in Seq(Characters)
  <2>1. Len(lpszOriginal) \in Nat /\ Dollar \in Seq(Characters) /\ Len(Dollar) \in Nat \ {0} /\ Len(Dollar) = 1
    BY PatternLetters, LenProperties DEF TextTypes
  <2>2. /\ PatLoc(Dollar) \in lpszOrigPtr..(Len(lpszOriginal) - Len(Dollar) + 1)
        /\ Skipped(PatLoc(Dollar)) \in Seq(Characters)
    BY ONLY <2>1, TextTypes, PatLoc(Dollar) # 0, FoundFacts
  <2>3. Len(lpszOriginal) - Len(Dollar) + 1 = Len(lpszOriginal) /\ lpszOrigPtr \in 1..(Len(lpszOriginal) + 1)
    BY <2>1 DEF TextTypes
  <2> QED
    BY <1>1, <2>1, <2>2, <2>3 DEF TextTypes
<1>5. PICK q : q = EscapedForm[piece] /\ StandsAt(o, loc, q)
               /\ Passing(EscapedForm, StrippedForm, w, o, loc + Len(q),
                          r \o SubSeq(o, p, loc - 1) \o StrippedForm[piece])
  BY <1>3 DEF Takes
<1>6. \/ Len(q) = 4 /\ q[2] = "f"
      \/ Len(q) = 2 /\ q[2] = "x"
  <2>1. q = Spelling["colour"] \/ q = Spelling["style"]
    BY <1>5 DEF EscapedForm, Codes
  <2>2. /\ Spelling["colour"][2] = "f" /\ Spelling["style"][2] = "x"
    BY SpellingIs
  <2> QED
    BY <2>1, <2>2, PieceLengths
<1>7. loc + Len(q) - 1 <= Len(o) /\ o[loc + 1] = q[2]
  <2>1. loc + 2 - 1 = loc + 1 /\ 2 \in 1..Len(q)
    BY <1>4, <1>6
  <2> QED
    BY <1>5, <2>1 DEF StandsAt
<1>8. uIncrement(loc) = Len(q) /\ CodeAt(loc)
  <2>1. loc < Len(o)
    BY <1>4, <1>6, <1>7
  <2>2. uIncrement(loc) = Len(q)
    BY <1>1, <1>6, <1>7, <2>1 DEF uIncrement
  <2>3. Len(o) - loc + 1 >= Len(q)
    BY <1>4, <1>6, <1>7
  <2> QED
    BY <1>1, <1>2, <2>2, <2>3 DEF CodeAt
<1>9. r \o SubSeq(o, p, loc - 1) \o StrippedForm[piece] = r \o Skipped(loc)
  <2>1. StrippedForm[piece] = <<>>
    BY MeaningIs DEF StrippedForm, Codes
  <2>2. PICK s : s = Skipped(loc) /\ s \in Seq(Characters) /\ s = SubSeq(o, p, loc - 1)
    BY <1>1, <1>4 DEF Skipped
  <2>3. r \o s \in Seq(Characters)
    BY ONLY <1>4, <2>2, ConcatProperties
  <2>4. (r \o s) \o <<>> = r \o s
    BY ONLY <2>3, ConcatEmptySeq
  <2> QED
    BY <2>1, <2>2, <2>4
<1> QED
  BY <1>1, <1>5, <1>8, <1>9

LEMMA StripCleans ==
  ASSUME TextInv, CleanInv, Strip
  PROVE  CleanInv'
<1>1. /\ textPc = "strip" /\ PatLoc(Dollar) # 0
      /\ lpszReturn' = lpszReturn \o Skipped(PatLoc(Dollar))
      /\ lpszOrigPtr' = PatLoc(Dollar) + uIncrement(PatLoc(Dollar))
      /\ UNCHANGED <<text, written, textPc, lpszOriginal, held, lpszTemp, bClean>>
  BY DEF Strip, CodeAt, Dollar
<1>2. ASSUME written \in Seq(Pieces) PROVE Stripping'
  <2>1. Stripping
    BY <1>1, <1>2 DEF CleanInv, AsWritten
  <2>2. Passing(EscapedForm, StrippedForm, written, lpszOriginal,
                PatLoc(Dollar) + uIncrement(PatLoc(Dollar)), lpszReturn \o Skipped(PatLoc(Dollar)))
    BY <1>1, <1>2, <2>1, CodeFound DEF TextInv
  <2> QED
    BY <1>1, <2>2 DEF Stripping
<1> QED
  BY <1>1, <1>2 DEF CleanInv, AsWritten, Shortened

LEMMA StrippedCleans ==
  ASSUME TextInv, CleanInv, Stripped
  PROVE  CleanInv'
<1>1. textPc = "strip" /\ UNCHANGED <<text, written>> /\ ~CodeAt(PatLoc(Dollar))
  BY DEF Stripped, Dollar
<1>2. ASSUME written \in Seq(Pieces) PROVE Shortened /\ Ready("restore", lpszReturn \o Rest)
  <2>1. Shortened /\ Stripping
    BY <1>1, <1>2 DEF CleanInv, AsWritten
  <2>2. PICK w, o, p, r : w = written /\ o = lpszOriginal /\ p = lpszOrigPtr /\ r = lpszReturn
    OBVIOUS
  <2>3. PatLoc(Dollar) = 0
    BY <1>1, <1>2, <2>1, CodeFound DEF TextInv
  <2>4. Passing(EscapedForm, StrippedForm, w, o, p, r) /\ Find(o, p, Dollar) = 0
    BY <2>1, <2>2, <2>3 DEF Stripping, PatLoc
  <2>5. EndsAs(StrippedForm, w, o, p, r)
    BY ONLY <1>2, <2>2, <2>4, StripTells, FormFacts, FormsAgree, PatternLetters, PassEnds
  <2> QED
    BY <2>1, <2>2, <2>5 DEF Ready, Rest, EndsAs
<1>3. PICK size : Allocate("restore", lpszReturn \o Rest, size)
  BY DEF Stripped, AllocateReplaced
<1> QED
  BY <1>1, <1>2, <1>3, NextPass

(* A dollar sign becomes the character of its own, and that the dollar sign.*)
LEMMA ReplaceCleans ==
  ASSUME CleanInv, NEW stage \in DOMAIN Stages, Replace(stage)
  PROVE  CleanInv'
<1>1. /\ textPc = stage /\ PatLoc(Stages[stage].pattern) # 0
      /\ UNCHANGED <<text, written, textPc, lpszOriginal, held, lpszTemp, bClean>>
  BY DEF Replace
<1>2. stage = "escape" \/ stage = "restore"
  BY DEF Stages
<1> SUFFICES ASSUME written \in Seq(Pieces)
             PROVE  (stage = "escape" => Escaping') /\ (stage = "restore" => Restoring')
  BY <1>1, <1>2 DEF CleanInv, AsWritten, Shortened
<1>3. PICK w, o, p, r : w = written /\ o = lpszOriginal /\ p = lpszOrigPtr /\ r = lpszReturn
  OBVIOUS
<1>4. CASE stage = "escape"
  <2>1. PICK loc : loc = PatLoc(Dollars)
    OBVIOUS
  <2>2. /\ loc # 0 /\ lpszOrigPtr' = loc + 2 /\ lpszReturn' = lpszReturn \o Skipped(loc) \o <<"a">>
    BY <1>1, <1>4, <2>1, PatternFacts DEF Replace
  <2>3. Passing(Spelling, EscapedForm, w, o, p, r) /\ loc = Find(o, p, Dollars)
    BY <1>1, <1>3, <1>4, <2>1 DEF CleanInv, AsWritten, Escaping, PatLoc
  <2>4. PICK piece \in Pieces \cap {"dollar"} : Takes(Spelling, EscapedForm, w, o, p, r, loc, piece)
    BY ONLY written \in Seq(Pieces), <1>3, <2>2, <2>3, EscapeTells, FormFacts, FormsAgree,
            PatternLetters, PassGoesOn
  <2>5. Len(Spelling[piece]) = 2 /\ EscapedForm[piece] = <<"a">>
    BY PieceLengths DEF EscapedForm
  <2>6. Passing(Spelling, EscapedForm, w, o, loc + 2, r \o SubSeq(o, p, loc - 1) \o <<"a">>)
    BY <2>4, <2>5 DEF Takes
  <2> QED
    BY <1>1, <1>3, <1>4, <2>2, <2>6 DEF Escaping, Skipped
<1>5. CASE stage = "restore"
  <2>1. PICK loc : loc = PatLoc(Alert)
    OBVIOUS
  <2>2. /\ loc # 0 /\ lpszOrigPtr' = loc + 1 /\ lpszReturn' = lpszReturn \o Skipped(loc) \o <<"$">>
    BY <1>1, <1>5, <2>1, PatternFacts DEF Replace, Alert
  <2>3. Passing(StrippedForm, Meaning, w, o, p, r) /\ loc = Find(o, p, Alert)
    BY <1>1, <1>3, <1>5, <2>1 DEF CleanInv, AsWritten, Restoring, PatLoc
  <2>4. PICK piece \in Pieces \cap {"dollar"} : Takes(StrippedForm, Meaning, w, o, p, r, loc, piece)
    BY ONLY written \in Seq(Pieces), <1>3, <2>2, <2>3, RestoreTells, FormFacts, FormsAgree,
            PatternLetters, PassGoesOn
  <2>5. Len(StrippedForm[piece]) = 1 /\ Meaning[piece] = <<"$">>
    BY MeaningIs, PatternLetters DEF StrippedForm, Alert
  <2>6. Passing(StrippedForm, Meaning, w, o, loc + 1, r \o SubSeq(o, p, loc - 1) \o <<"$">>)
    BY <2>4, <2>5 DEF Takes
  <2> QED
    BY <1>1, <1>3, <1>5, <2>2, <2>6 DEF Restoring, Skipped
<1> QED
  BY <1>4, <1>5

(* The clean text fits into the buffer of the size of the text.             *)
LEMMA RestoredCleans ==
  ASSUME CleanInv, Restored
  PROVE  CleanInv'
<1>1. /\ textPc = "restore" /\ PatLoc(Alert) = 0 /\ textPc' = "convert" /\ held' = {}
      /\ lpszReturn' = lpszReturn \o Rest
      /\ lpszTemp' = SubSeq(lpszReturn', 1, IF Len(lpszReturn') < Len(text) THEN Len(lpszReturn')
                                            ELSE Len(text) - 1)
      /\ UNCHANGED <<text, written>>
  BY PatternFacts DEF Restored, Alert
<1> SUFFICES ASSUME written \in Seq(Pieces) PROVE lpszTemp' = Whole(Meaning, written)
  BY <1>1 DEF CleanInv, AsWritten
<1>2. Shortened /\ Restoring
  BY <1>1 DEF CleanInv, AsWritten
<1>3. PICK w, o, p, r : w = written /\ o = lpszOriginal /\ p = lpszOrigPtr /\ r = lpszReturn
  OBVIOUS
<1>4. Passing(StrippedForm, Meaning, w, o, p, r) /\ Find(o, p, Alert) = 0
  BY <1>1, <1>2, <1>3 DEF Restoring, PatLoc
<1>5. EndsAs(Meaning, w, o, p, r)
  BY ONLY written \in Seq(Pieces), <1>3, <1>4, RestoreTells, FormFacts, FormsAgree, PatternLetters, PassEnds
<1>6. PICK clean : clean = Whole(Meaning, w) /\ clean \in Seq(Characters)
  BY <1>3, FormFacts, WholeFacts
<1>7. lpszReturn' = clean /\ Len(clean) < Len(text)
  BY <1>1, <1>2, <1>3, <1>5, <1>6 DEF Rest, Shortened, EndsAs
<1>8. SubSeq(clean, 1, Len(clean)) = clean
  BY ONLY <1>6, SubSeqFull
<1> QED
  BY <1>1, <1>3, <1>6, <1>7, <1>8

LEMMA CleanStep == TextInv /\ CleanInv /\ [TextNext]_textVars => CleanInv'
<1> SUFFICES ASSUME TextInv, CleanInv, [TextNext]_textVars PROVE CleanInv'
  OBVIOUS
<1>1. CASE UNCHANGED textVars
  BY <1>1 DEF textVars, loop, CleanInv, AsWritten, Escaping, Stripping, Restoring, Shortened
<1>2. CASE Convert
  BY <1>2 DEF Convert, loop, CleanInv, AsWritten
<1> QED
  BY <1>1, <1>2, CheckCleans, EscapedCleans, StripCleans, StrippedCleans, ReplaceCleans,
     RestoredCleans DEF TextNext

(* Whatever way dollar signs, colours, styles and other characters follow   *)
(* each other in a text, CleanupString gives all that they say and nothing  *)
(* else; and it keeps none of its blocks, whichever allocation fails.       *)
THEOREM TextsAlwaysCleaned == TextSpec => []CleanedAsMeant
<1>1. TextInit => TextInv /\ CleanInv
  BY TextStarts, CleanStarts
<1>2. TextInv /\ CleanInv /\ [TextNext]_textVars => (TextInv /\ CleanInv)'
  BY TextStep, CleanStep
<1>3. CleanInv => CleanedAsMeant
  BY DEF CleanInv, AsWritten, CleanedAsMeant
<1> QED
  BY <1>1, <1>2, <1>3, PTL DEF TextSpec
=============================================================================
