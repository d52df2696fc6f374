-------------------------- MODULE WebStorageProofs --------------------------
(***************************************************************************)
(* What the web server stages and commits, for any settings, devices,      *)
(* registers and bounds: the selections of metrics, the settings of        *)
(* config.cfg, the edits of the bridges' databases; and the parts of       *)
(* MCWebStorage together.                                                  *)
(***************************************************************************)
EXTENDS MCWebStorage, DatabaseProofs

----------------------------------------------------------------------------
(* Selections of metrics. *)

SelectionType == [on : [Marks -> BOOLEAN], disk : [Marks -> BOOLEAN], dirty : BOOLEAN]
RowNames == {NameOf[r] : r \in AllRows}

\* Rows that come and go with the files.
RowsInv ==
    /\ DOMAIN csvFile \subseteq DOMAIN registers
    /\ commitStep = "csv" => DOMAIN csvFile \cap leaving = {}
    /\ Devices \X (DOMAIN registers \cap CsvRows) \subseteq DOMAIN selections
    /\ SelectionsHaveRegisters

\* The files, and what they may name.
FilesInv ==
    /\ filters \in [Marks -> [Devices -> SUBSET RowNames]]
    /\ \A dev \in Devices : filters["mask"][dev] \cap filters["screen"][dev] = {}
    /\ \A m \in Marks, dev \in Devices, r \in Synthetics :
          OwnName(r) /\ NameOf[r] \in filters[m][dev] => <<dev, r>> \in DOMAIN selections
    /\ commitStep # "idle" => up /\ filters = NextFilters

\* A selection without a pending change has the marks it had on disk.
SettledInv == \A p \in DOMAIN selections \ discarded : selections[p].dirty \/ selections[p].on = selections[p].disk

SelectionInv == SelectionTypeOK /\ RowsInv /\ FilesInv /\ SettledInv /\ MaskOrScreen /\ DiskMarksAreTrue

LEMMA SelectionOf ==
  ASSUME NEW marks \in [Marks -> BOOLEAN], NEW disk \in [Marks -> BOOLEAN]
  PROVE  /\ Selection(marks, disk) \in SelectionType
         /\ Selection(marks, disk).on = marks /\ Selection(marks, disk).disk = disk
         /\ Selection(marks, disk).dirty \/ marks = disk
<1>1. (marks # disk) \in BOOLEAN
  OBVIOUS
<1> QED BY <1>1 DEF Selection, SelectionType

LEMMA SelectionStart ==
  ASSUME SelectionInit
  PROVE  SelectionInv
<1> USE DEF SelectionInit
<1>1. Unmarked \in [Marks -> BOOLEAN] /\ \A m \in Marks : Unmarked[m] = FALSE
  BY DEF Unmarked
<1>2. \A p \in DOMAIN selections : selections[p] = Selection(Unmarked, Unmarked)
  OBVIOUS
<1>3. \A p \in DOMAIN selections : selections[p] \in SelectionType /\ selections[p].on = Unmarked /\ selections[p].disk = Unmarked
  BY <1>1, <1>2, SelectionOf
<1>4. SelectionTypeOK
  BY <1>3 DEF SelectionTypeOK, SelectionType, AllRows, Definitions
<1>5. RowsInv
  BY DEF RowsInv, SelectionsHaveRegisters
<1>6. FilesInv
  BY DEF FilesInv, Marks
<1>7. SettledInv /\ MaskOrScreen /\ DiskMarksAreTrue
  BY <1>1, <1>3 DEF SettledInv, MaskOrScreen, DiskMarksAreTrue, Marks
<1> QED BY <1>4, <1>5, <1>6, <1>7 DEF SelectionInv

\* What a scan makes of the registers and selections.
LEMMA Scanned ==
  ASSUME SelectionInv
  PROVE  /\ DOMAIN ScannedRegisters = DOMAIN registers
         /\ \A r \in DOMAIN registers : ScannedRegisters[r] \in Definitions
         /\ DOMAIN ScannedSelections = Devices \X DOMAIN registers
         /\ \A dev \in Devices, r \in DOMAIN registers :
              LET sel == ScannedSelections[<<dev, r>>]
              IN /\ sel \in SelectionType /\ (sel.dirty \/ sel.on = sel.disk)
                 /\ ~(sel.on["mask"] /\ sel.on["screen"])
                 /\ \A m \in Marks : sel.disk[m] <=> NameOf[r] \in filters[m][dev]
<1> USE DEF SelectionInv
<1> DEFINE kept == [r \in edited \cap DOMAIN registers |-> registers[r]]
           rest == Over(csvFile, registers)
<1>1. DOMAIN rest = DOMAIN registers /\ \A r \in DOMAIN registers : rest[r] \in Definitions
  BY DEF Over, RowsInv, SelectionTypeOK
<1>2. DOMAIN kept \subseteq DOMAIN registers /\ \A r \in DOMAIN kept : kept[r] \in Definitions
  BY DEF SelectionTypeOK
<1>3. ScannedRegisters = Over(kept, rest)
  BY DEF ScannedRegisters
<1> HIDE DEF kept, rest
<1>4. DOMAIN ScannedRegisters = DOMAIN registers /\ \A r \in DOMAIN registers : ScannedRegisters[r] \in Definitions
  BY <1>1, <1>2, <1>3 DEF Over
<1> DEFINE new == [p \in Devices \X DOMAIN ScannedRegisters |-> Rescanned(selections, p[1], p[2])]
<1>5. ScannedSelections = Over(new, selections)
  BY DEF ScannedSelections
<1>6. DOMAIN new = Devices \X DOMAIN registers /\ DOMAIN selections \subseteq Devices \X DOMAIN registers
  <2>1. DOMAIN selections \subseteq Devices \X AllRows /\ \A p \in DOMAIN selections : p[2] \in DOMAIN registers
    BY DEF RowsInv, SelectionsHaveRegisters, SelectionTypeOK
  <2> QED BY <1>4, <2>1
<1>7. \A dev \in Devices, r \in DOMAIN registers : new[<<dev, r>>] = Rescanned(selections, dev, r)
  BY <1>4
<1> HIDE DEF new
<1>8. /\ DOMAIN ScannedSelections = Devices \X DOMAIN registers
      /\ \A dev \in Devices, r \in DOMAIN registers : ScannedSelections[<<dev, r>>] = Rescanned(selections, dev, r)
  <2>1. DOMAIN Over(new, selections) = DOMAIN new \cup DOMAIN selections /\ \A x \in DOMAIN new : Over(new, selections)[x] = new[x]
    BY DEF Over
  <2>2. \A dev \in Devices, r \in DOMAIN registers : <<dev, r>> \in DOMAIN new
    BY <1>6
  <2> QED BY <1>5, <1>6, <1>7, <2>1, <2>2
<1>9. ASSUME NEW dev \in Devices, NEW r \in DOMAIN registers, NEW sel, sel = Rescanned(selections, dev, r)
      PROVE  /\ sel \in SelectionType /\ (sel.dirty \/ sel.on = sel.disk) /\ ~(sel.on["mask"] /\ sel.on["screen"])
             /\ \A m \in Marks : sel.disk[m] <=> NameOf[r] \in filters[m][dev]
  <2>1. PICK found \in [Marks -> BOOLEAN] :
          /\ \A m \in Marks : found[m] <=> NameOf[r] \in filters[m][dev]
          /\ sel = IF <<dev, r>> \in DOMAIN selections /\ selections[<<dev, r>>].dirty
                   THEN Selection(selections[<<dev, r>>].on, found) ELSE Selection(found, found)
    <3>1. PICK found : found = [m \in Marks |-> NameOf[r] \in filters[m][dev]]
      OBVIOUS
    <3>2. found \in [Marks -> BOOLEAN] /\ \A m \in Marks : found[m] <=> NameOf[r] \in filters[m][dev]
      <4>1. ASSUME NEW m \in Marks PROVE found[m] = (NameOf[r] \in filters[m][dev])
        BY <3>1, Zenon
      <4>2. \A m \in Marks : (NameOf[r] \in filters[m][dev]) \in BOOLEAN
        OBVIOUS
      <4>3. found \in [Marks -> BOOLEAN]
        BY <3>1, <4>2
      <4> QED BY <4>1, <4>3, Zenon
    <3> QED BY <1>9, <3>1, <3>2 DEF Rescanned
  <2>2. ~(found["mask"] /\ found["screen"])
    <3>1. "mask" \in Marks /\ "screen" \in Marks /\ filters["mask"][dev] \cap filters["screen"][dev] = {}
      BY DEF FilesInv, Marks
    <3> QED BY <2>1, <3>1
  <2>3. CASE <<dev, r>> \in DOMAIN selections /\ selections[<<dev, r>>].dirty
    <3>1. PICK on \in [Marks -> BOOLEAN] : on = selections[<<dev, r>>].on /\ ~(on["mask"] /\ on["screen"])
      <4>1. selections[<<dev, r>>] \in SelectionType
        BY <2>3 DEF SelectionTypeOK, SelectionType
      <4> QED BY <2>3, <4>1 DEF MaskOrScreen, SelectionType
    <3>2. sel = Selection(on, found)
      BY <2>1, <2>3, <3>1
    <3> QED BY <2>1, <3>1, <3>2, SelectionOf
  <2>4. CASE ~(<<dev, r>> \in DOMAIN selections /\ selections[<<dev, r>>].dirty)
    <3>1. sel = Selection(found, found)
      BY <2>1, <2>4
    <3> QED BY <2>1, <2>2, <3>1, SelectionOf
  <2> QED BY <2>3, <2>4
<1> QED BY <1>4, <1>8, <1>9

LEMMA ScanKeeps ==
  ASSUME SelectionInv, Scan \/ StartAgain
  PROVE  SelectionInv'
<1>1. /\ registers' = ScannedRegisters /\ selections' = ScannedSelections /\ discarded' = {} /\ up' = TRUE
      /\ UNCHANGED <<edited, leaving, csvFile, filters, commitStep>> /\ (commitStep # "idle" => ~up)
  BY DEF Scan, StartAgain, Quiet
<1>2. commitStep = "idle"
  BY <1>1 DEF SelectionInv, FilesInv
<1>3. /\ DOMAIN registers' = DOMAIN registers /\ \A r \in DOMAIN registers' : registers'[r] \in Definitions
      /\ DOMAIN selections' = Devices \X DOMAIN registers
      /\ \A dev \in Devices, r \in DOMAIN registers :
           LET sel == selections'[<<dev, r>>]
           IN /\ sel \in SelectionType /\ (sel.dirty \/ sel.on = sel.disk)
              /\ ~(sel.on["mask"] /\ sel.on["screen"])
              /\ \A m \in Marks : sel.disk[m] <=> NameOf[r] \in filters[m][dev]
  BY <1>1, Scanned
<1>4. \A p \in DOMAIN selections' :
        /\ p = <<p[1], p[2]>> /\ p[1] \in Devices /\ p[2] \in DOMAIN registers
        /\ selections'[p] \in SelectionType /\ (selections'[p].dirty \/ selections'[p].on = selections'[p].disk)
        /\ ~(selections'[p].on["mask"] /\ selections'[p].on["screen"])
        /\ \A m \in Marks : selections'[p].disk[m] <=> NameOf[p[2]] \in filters[m][p[1]]
  <2> SUFFICES ASSUME NEW p \in DOMAIN selections' PROVE
        /\ p = <<p[1], p[2]>> /\ p[1] \in Devices /\ p[2] \in DOMAIN registers
        /\ selections'[p] \in SelectionType /\ (selections'[p].dirty \/ selections'[p].on = selections'[p].disk)
        /\ ~(selections'[p].on["mask"] /\ selections'[p].on["screen"])
        /\ \A m \in Marks : selections'[p].disk[m] <=> NameOf[p[2]] \in filters[m][p[1]]
    OBVIOUS
  <2>1. PICK dev \in Devices, r \in DOMAIN registers : p = <<dev, r>>
    BY <1>3
  <2> QED BY <1>3, <2>1
<1>5. SelectionTypeOK'
  <2>1. DOMAIN registers \subseteq AllRows /\ edited \cup leaving \subseteq DOMAIN registers \cap CsvRows
    BY DEF SelectionInv, SelectionTypeOK
  <2> QED BY <1>1, <1>3, <1>4, <2>1 DEF SelectionInv, SelectionTypeOK, SelectionType
<1>6. RowsInv'
  <2>1. DOMAIN csvFile \subseteq DOMAIN registers
    BY DEF SelectionInv, RowsInv
  <2> QED BY <1>1, <1>2, <1>3, <1>4, <2>1 DEF RowsInv, SelectionsHaveRegisters
<1>7. FilesInv'
  <2>1. DOMAIN selections \subseteq DOMAIN selections'
    <3>1. DOMAIN selections \subseteq Devices \X AllRows /\ \A p \in DOMAIN selections : p[2] \in DOMAIN registers
      BY DEF SelectionInv, RowsInv, SelectionsHaveRegisters, SelectionTypeOK
    <3> QED BY <1>3, <3>1
  <2> QED BY <1>1, <1>2, <2>1 DEF SelectionInv, FilesInv, OwnName
<1>8. SettledInv' /\ MaskOrScreen' /\ DiskMarksAreTrue'
  BY <1>1, <1>4 DEF SettledInv, MaskOrScreen, DiskMarksAreTrue
<1> QED BY <1>5, <1>6, <1>7, <1>8 DEF SelectionInv

\* Selections that only marks were changed of, or that were begun with a mark.
MarksOnly(sels) ==
    /\ DOMAIN selections \subseteq DOMAIN sels /\ DOMAIN sels \subseteq Devices \X AllRows
    /\ \A p \in DOMAIN sels :
          /\ sels[p] \in SelectionType /\ ~(sels[p].on["mask"] /\ sels[p].on["screen"])
          /\ sels[p].disk = IF p \in DOMAIN selections THEN selections[p].disk ELSE Unmarked
          /\ p \in discarded \/ sels[p].dirty \/ sels[p].on = sels[p].disk

LEMMA MarkedMarksOnly ==
  ASSUME NEW sels, MarksOnly(sels), NEW dev \in Devices, NEW r \in AllRows, NEW mark \in Marks, NEW value \in BOOLEAN
  PROVE  MarksOnly(Marked(sels, dev, r, mark, value))
<1>1. PICK p : p = <<dev, r>>
  OBVIOUS
<1>2. Unmarked \in [Marks -> BOOLEAN] /\ ~Unmarked["mask"]
  BY DEF Unmarked, Marks
<1>3. Selection(Unmarked, Unmarked) \in SelectionType /\ Selection(Unmarked, Unmarked).on = Unmarked
      /\ Selection(Unmarked, Unmarked).disk = Unmarked
  BY <1>2, SelectionOf
<1>4. PICK old \in SelectionType :
        /\ old = IF <<dev, r>> \in DOMAIN sels THEN sels[<<dev, r>>] ELSE Selection(Unmarked, Unmarked)
        /\ ~(old.on["mask"] /\ old.on["screen"])
        /\ old.disk = IF p \in DOMAIN selections THEN selections[p].disk ELSE Unmarked
  <2>1. CASE p \in DOMAIN sels
    <3>1. PICK old : old = sels[p]
      OBVIOUS
    <3>2. /\ old \in SelectionType /\ ~(old.on["mask"] /\ old.on["screen"])
          /\ old.disk = IF p \in DOMAIN selections THEN selections[p].disk ELSE Unmarked
      BY <2>1, <3>1 DEF MarksOnly
    <3> QED BY <1>1, <2>1, <3>1, <3>2
  <2>2. CASE p \notin DOMAIN sels
    <3>1. PICK old : old = Selection(Unmarked, Unmarked)
      OBVIOUS
    <3>2. p \notin DOMAIN selections
      BY <2>2 DEF MarksOnly
    <3> QED BY <1>1, <1>2, <1>3, <2>2, <3>1, <3>2
  <2> QED BY <2>1, <2>2
<1>5. old.on \in [Marks -> BOOLEAN] /\ old.disk \in [Marks -> BOOLEAN]
  BY DEF SelectionType
<1>6. PICK other \in {"mask", "screen"} : other = IF mark = "mask" THEN "screen" ELSE "mask"
  OBVIOUS
<1>7. PICK on \in [Marks -> BOOLEAN] :
        /\ on = IF value /\ mark # "write" THEN [old.on EXCEPT ![mark] = TRUE, ![other] = FALSE] ELSE [old.on EXCEPT ![mark] = value]
        /\ ~(on["mask"] /\ on["screen"])
  <2>1. CASE value /\ mark # "write"
    <3>1. PICK on : on = [old.on EXCEPT ![mark] = TRUE, ![other] = FALSE]
      OBVIOUS
    <3>2. on \in [Marks -> BOOLEAN]
      BY <1>5, <3>1, Zenon
    <3>3. other \in Marks /\ on[other] = FALSE
      BY <1>5, <1>6, <3>1 DEF Marks
    <3>4. ~(on["mask"] /\ on["screen"])
      BY <1>6, <3>3
    <3> QED BY <2>1, <3>1, <3>2, <3>4
  <2>2. CASE ~(value /\ mark # "write")
    <3>1. PICK on : on = [old.on EXCEPT ![mark] = value]
      OBVIOUS
    <3>2. on \in [Marks -> BOOLEAN]
      BY <1>5, <3>1, Zenon
    <3>3. "mask" \in Marks /\ "screen" \in Marks
      BY DEF Marks
    <3>4. CASE mark = "write"
      <4>1. on["mask"] = old.on["mask"] /\ on["screen"] = old.on["screen"]
        BY <1>5, <3>1, <3>3, <3>4
      <4> QED BY <1>4, <2>2, <3>1, <3>2, <4>1
    <3>5. CASE mark # "write" /\ value = FALSE
      <4>1. mark \in {"mask", "screen"} /\ on[mark] = FALSE
        BY <1>5, <3>1, <3>5 DEF Marks
      <4>2. ~(on["mask"] /\ on["screen"])
        BY <4>1
      <4> QED BY <2>2, <3>1, <3>2, <4>2
    <3> QED BY <2>2, <3>4, <3>5
  <2> QED BY <2>1, <2>2
<1>8. PICK new : new = Selection(on, old.disk)
  OBVIOUS
<1>9. new \in SelectionType /\ new.on = on /\ new.disk = old.disk /\ (new.dirty \/ new.on = new.disk)
  BY <1>5, <1>8, SelectionOf
<1>10. PICK res : res = Over([q \in {p} |-> new], sels)
  OBVIOUS
<1>11. Marked(sels, dev, r, mark, value) = res
  BY <1>1, <1>4, <1>6, <1>7, <1>8, <1>10 DEF Marked
<1>12. DOMAIN res = DOMAIN sels \cup {p} /\ res[p] = new /\ \A q \in DOMAIN sels : q # p => res[q] = sels[q]
  BY <1>10 DEF Over
<1>13. p \in Devices \X AllRows
  BY <1>1
<1>14. MarksOnly(res)
  <2>1. DOMAIN selections \subseteq DOMAIN res /\ DOMAIN res \subseteq Devices \X AllRows
    BY <1>12, <1>13 DEF MarksOnly
  <2>2. ASSUME NEW q \in DOMAIN res
        PROVE  /\ res[q] \in SelectionType /\ ~(res[q].on["mask"] /\ res[q].on["screen"])
               /\ res[q].disk = IF q \in DOMAIN selections THEN selections[q].disk ELSE Unmarked
               /\ q \in discarded \/ res[q].dirty \/ res[q].on = res[q].disk
    <3>1. CASE q = p
      BY <1>4, <1>7, <1>9, <1>12, <3>1
    <3>2. CASE q # p
      <4>1. q \in DOMAIN sels /\ res[q] = sels[q]
        BY <1>12, <3>2
      <4> QED BY <4>1 DEF MarksOnly
    <3> QED BY <3>1, <3>2
  <2> QED BY <2>1, <2>2 DEF MarksOnly
<1> QED BY <1>11, <1>14

\* Selections that only marks were changed of, with the registers they need.
LEMMA NewMarksKeep ==
  ASSUME SelectionInv, Quiet, MarksOnly(selections'), DOMAIN registers \subseteq DOMAIN registers',
         DOMAIN registers' \subseteq AllRows, CsvRows \cap DOMAIN registers' \subseteq DOMAIN registers,
         \A r \in DOMAIN registers' : registers'[r] \in Definitions,
         \A p \in DOMAIN selections' : p[2] \in DOMAIN registers',
         UNCHANGED <<edited, leaving, csvFile, filters, commitStep, up, discarded>>
  PROVE  SelectionInv'
<1>1. commitStep = "idle" /\ up = TRUE
  BY DEF Quiet, SelectionInv, SelectionTypeOK
<1>2. /\ DOMAIN selections \subseteq DOMAIN selections' /\ DOMAIN selections' \subseteq Devices \X AllRows
      /\ \A p \in DOMAIN selections' :
          /\ selections'[p] \in SelectionType /\ ~(selections'[p].on["mask"] /\ selections'[p].on["screen"])
          /\ selections'[p].disk = IF p \in DOMAIN selections THEN selections[p].disk ELSE Unmarked
          /\ p \in discarded \/ selections'[p].dirty \/ selections'[p].on = selections'[p].disk
  BY DEF MarksOnly
<1>3. SelectionTypeOK'
  BY <1>1, <1>2 DEF SelectionInv, SelectionTypeOK, SelectionType
<1>4. RowsInv'
  BY <1>1, <1>2 DEF SelectionInv, RowsInv, SelectionsHaveRegisters
<1>5. FilesInv'
  BY <1>1, <1>2 DEF SelectionInv, FilesInv, OwnName
<1>6. SettledInv' /\ MaskOrScreen'
  BY <1>2 DEF SettledInv, MaskOrScreen
<1>7. DiskMarksAreTrue'
  <2> SUFFICES ASSUME NEW p \in DOMAIN selections', p \notin discarded, NEW m \in Marks,
                      p[2] \notin Descriptions, OwnName(p[2]), ~(m = "write" /\ p[2] \notin WritableRows)
               PROVE  selections'[p].disk[m] <=> NameOf[p[2]] \in filters[m][p[1]]
    BY DEF DiskMarksAreTrue, OwnName
  <2>1. CASE p \in DOMAIN selections
    <3>1. selections'[p].disk = selections[p].disk
      BY <1>2, <2>1
    <3> QED BY <2>1, <3>1 DEF SelectionInv, DiskMarksAreTrue
  <2>2. CASE p \notin DOMAIN selections
    <3>1. selections'[p].disk[m] = FALSE
      BY <1>2, <2>2 DEF Unmarked
    <3>2. p = <<p[1], p[2]>> /\ p[1] \in Devices /\ p[2] \in AllRows
      BY <1>2
    <3>3. p[2] \in DOMAIN registers'
      OBVIOUS
    <3>4. p[2] \notin CsvRows
      <4>1. Devices \X (DOMAIN registers \cap CsvRows) \subseteq DOMAIN selections
        BY DEF SelectionInv, RowsInv
      <4> QED BY <2>2, <3>2, <3>3, <4>1
    <3>5. p[2] \in Synthetics
      BY <3>2, <3>4 DEF AllRows
    <3>6. NameOf[p[2]] \notin filters[m][p[1]]
      BY <2>2, <3>2, <3>5 DEF SelectionInv, FilesInv
    <3> QED BY <3>1, <3>6
  <2> QED BY <2>1, <2>2
<1> QED BY <1>3, <1>4, <1>5, <1>6, <1>7 DEF SelectionInv

LEMMA ToggleKeeps ==
  ASSUME SelectionInv, NEW dev \in Devices, NEW r \in AllRows, NEW m \in Marks, NEW b \in BOOLEAN, Toggle(dev, r, m, b)
  PROVE  SelectionInv'
<1>1. MarksOnly(selections)
  BY DEF SelectionInv, SelectionTypeOK, SelectionType, SettledInv, MaskOrScreen, MarksOnly
<1>2. PICK carried : carried = IF m = "write" THEN {} ELSE Counterparts(r)
  OBVIOUS
<1>3. PICK one : one = Marked(selections, dev, r, m, b)
  OBVIOUS
<1>4. /\ Quiet /\ r \in DOMAIN registers \cup Synthetics \cup Descriptions
      /\ selections' = IF carried = {} THEN one ELSE Marked(one, dev, CHOOSE c \in carried : TRUE, m, b)
      /\ registers' = Over(registers, [v \in (carried \cup {r}) \ CsvRows |-> "old"])
      /\ UNCHANGED <<edited, leaving, csvFile, filters, commitStep, up, discarded>>
  BY <1>2, <1>3 DEF Toggle, UserDecides
<1>5. carried \subseteq Descriptions \cup (CsvRows \cap DOMAIN registers) /\ carried \subseteq AllRows
  BY <1>2, SelectionAssumption DEF Counterparts, Descriptions, AllRows
<1>6. MarksOnly(one) /\ DOMAIN one = DOMAIN selections \cup {<<dev, r>>}
  <2>1. PICK sels : sels = selections
    OBVIOUS
  <2>2. MarksOnly(sels)
    BY <1>1, <2>1
  <2>3. MarksOnly(Marked(sels, dev, r, m, b))
    BY <2>2, MarkedMarksOnly, Zenon
  <2>4. DOMAIN Marked(sels, dev, r, m, b) = DOMAIN sels \cup {<<dev, r>>}
    BY DEF Marked, Over
  <2> QED BY <1>3, <2>1, <2>3, <2>4
<1>7. MarksOnly(selections') /\ DOMAIN selections' \subseteq DOMAIN selections \cup {<<dev, x>> : x \in carried \cup {r}}
  <2>1. CASE carried = {}
    BY <1>4, <1>6, <2>1
  <2>2. CASE carried # {}
    <3>1. PICK c \in carried : c = CHOOSE x \in carried : TRUE
      BY <2>2
    <3>2. c \in AllRows
      BY <1>5
    <3>3. selections' = Marked(one, dev, c, m, b)
      BY <1>4, <2>2, <3>1
    <3>4. MarksOnly(selections') /\ DOMAIN selections' = DOMAIN one \cup {<<dev, c>>}
      <4>1. MarksOnly(Marked(one, dev, c, m, b))
        BY <1>6, <3>2, MarkedMarksOnly, Zenon
      <4>2. DOMAIN Marked(one, dev, c, m, b) = DOMAIN one \cup {<<dev, c>>}
        BY DEF Marked, Over
      <4> QED BY <3>3, <4>1, <4>2
    <3> QED BY <1>6, <3>4
  <2> QED BY <2>1, <2>2
<1>8. DOMAIN registers' = DOMAIN registers \cup ((carried \cup {r}) \ CsvRows)
  BY <1>4 DEF Over
<1>9. \A x \in DOMAIN registers' : registers'[x] \in Definitions
  BY <1>4 DEF Over, SelectionInv, SelectionTypeOK, Definitions
<1>10. DOMAIN registers' \subseteq AllRows /\ CsvRows \cap DOMAIN registers' \subseteq DOMAIN registers
  BY <1>5, <1>8 DEF SelectionInv, SelectionTypeOK
<1>11. carried \cup {r} \subseteq DOMAIN registers'
  BY <1>4, <1>5, <1>8, SelectionAssumption
<1>12. \A p \in DOMAIN selections' : p[2] \in DOMAIN registers'
  <2> SUFFICES ASSUME NEW p \in DOMAIN selections' PROVE p[2] \in DOMAIN registers'
    OBVIOUS
  <2>1. CASE p \in DOMAIN selections
    BY <1>8, <2>1 DEF SelectionInv, RowsInv, SelectionsHaveRegisters
  <2>2. CASE p \notin DOMAIN selections
    <3>1. PICK x \in carried \cup {r} : p = <<dev, x>>
      BY <1>7, <2>2
    <3> QED BY <1>11, <3>1
  <2> QED BY <2>1, <2>2
<1> QED BY <1>4, <1>7, <1>8, <1>9, <1>10, <1>12, NewMarksKeep

\* Nothing of the selections and their files changes.
LEMMA RegistersKeep ==
  ASSUME SelectionInv, Quiet,
         \/ \E r \in CsvRows, value \in BOOLEAN : StageDelete(r, value)
         \/ \E r \in CsvRows : EditRegister(r)
  PROVE  SelectionInv'
<1>1. commitStep = "idle" /\ up = TRUE
  BY DEF Quiet, SelectionInv, SelectionTypeOK
<1>2. /\ UNCHANGED <<selections, csvFile, filters, commitStep, up, discarded>>
      /\ DOMAIN registers' = DOMAIN registers /\ edited' \cup leaving' \subseteq DOMAIN registers \cap CsvRows
      /\ \A r \in DOMAIN registers' : registers'[r] \in Definitions
  <2>1. CASE \E r \in CsvRows, value \in BOOLEAN : StageDelete(r, value)
    BY <2>1 DEF StageDelete, SelectionInv, SelectionTypeOK
  <2>2. CASE \E r \in CsvRows : EditRegister(r)
    BY <2>2 DEF EditRegister, SelectionInv, SelectionTypeOK, Definitions
  <2> QED BY <2>1, <2>2
<1>3. SelectionTypeOK'
  BY <1>2 DEF SelectionInv, SelectionTypeOK
<1>4. RowsInv'
  BY <1>1, <1>2 DEF SelectionInv, RowsInv, SelectionsHaveRegisters
<1>5. FilesInv'
  BY <1>1, <1>2 DEF SelectionInv, FilesInv, OwnName
<1>6. SettledInv' /\ MaskOrScreen' /\ DiskMarksAreTrue'
  BY <1>1, <1>2 DEF SelectionInv, SettledInv, MaskOrScreen, DiskMarksAreTrue, OwnName, Quiet
<1> QED BY <1>3, <1>4, <1>5, <1>6 DEF SelectionInv

LEMMA DiscardKeeps ==
  ASSUME SelectionInv, DiscardMarks
  PROVE  SelectionInv'
<1>1. commitStep = "idle" /\ up = TRUE
  BY DEF DiscardMarks, Quiet, SelectionInv, SelectionTypeOK
<1>2. /\ UNCHANGED <<registers, csvFile, filters, commitStep, up>> /\ edited' = {} /\ leaving' = {}
      /\ DOMAIN selections' = DOMAIN selections
      /\ \A p \in DOMAIN selections : selections'[p] = [selections[p] EXCEPT !.dirty = FALSE]
      /\ discarded' = discarded \cup {p \in DOMAIN selections : selections[p].dirty}
  BY DEF DiscardMarks
<1>3. ASSUME NEW p \in DOMAIN selections
      PROVE  /\ selections'[p] \in SelectionType /\ selections'[p].on = selections[p].on
             /\ selections'[p].disk = selections[p].disk
  <2>1. selections[p] \in SelectionType
    BY DEF SelectionInv, SelectionTypeOK, SelectionType
  <2> QED BY <1>2, <2>1 DEF SelectionType
<1>4. SelectionTypeOK'
  BY <1>2, <1>3 DEF SelectionInv, SelectionTypeOK, SelectionType
<1>5. RowsInv'
  BY <1>1, <1>2 DEF SelectionInv, RowsInv, SelectionsHaveRegisters
<1>6. FilesInv'
  BY <1>1, <1>2 DEF SelectionInv, FilesInv, OwnName
<1>7. SettledInv' /\ MaskOrScreen'
  BY <1>2, <1>3 DEF SelectionInv, SettledInv, MaskOrScreen
<1>8. DiskMarksAreTrue'
  BY <1>1, <1>2, <1>3 DEF SelectionInv, DiskMarksAreTrue, OwnName, Quiet
<1> QED BY <1>4, <1>5, <1>6, <1>7, <1>8 DEF SelectionInv

\* What a commit writes.
LEMMA WhatFiltersName ==
  ASSUME SelectionInv
  PROVE  /\ NextFilters \in [Marks -> [Devices -> SUBSET RowNames]]
         /\ \A dev \in Devices : NextFilters["mask"][dev] \cap NextFilters["screen"][dev] = {}
         /\ \A m \in Marks, dev \in Devices, r \in AllRows :
              OwnName(r) /\ NameOf[r] \in NextFilters[m][dev] => <<dev, r>> \in DOMAIN selections
         /\ \A m \in Marks, p \in DOMAIN selections :
              p[2] \notin Descriptions /\ OwnName(p[2]) /\ ~(m = "write" /\ p[2] \notin WritableRows) =>
                 (selections[p].on[m] <=> NameOf[p[2]] \in NextFilters[m][p[1]])
<1>1. DOMAIN registers \subseteq AllRows
  BY DEF SelectionInv, SelectionTypeOK
<1>2. \A m \in Marks, dev \in Devices : NextFilters[m][dev] = FilterNames(dev, m)
  BY DEF NextFilters
<1>3. ASSUME NEW m \in Marks, NEW dev \in Devices
      PROVE  /\ FilterNames(dev, m) \subseteq RowNames
             /\ \A n \in FilterNames(dev, m) : \E r \in DOMAIN registers \ Descriptions :
                  <<dev, r>> \in DOMAIN selections /\ selections[<<dev, r>>].on[m] /\ n = NameOf[r]
  <2>1. CASE m = "write"
    BY <1>1, <2>1, Zenon DEF FilterNames, RowNames
  <2>2. CASE m # "write"
    BY <1>1, <2>2, Zenon DEF FilterNames, RowNames
  <2> QED BY <2>1, <2>2
<1>4. NextFilters \in [Marks -> [Devices -> SUBSET RowNames]]
  BY <1>3 DEF NextFilters
<1>5. ASSUME NEW dev \in Devices
      PROVE  NextFilters["mask"][dev] \cap NextFilters["screen"][dev] = {}
  <2>1. "mask" \in Marks /\ "screen" \in Marks
    BY DEF Marks
  <2> SUFFICES ASSUME NEW n \in FilterNames(dev, "mask"), n \in FilterNames(dev, "screen") PROVE FALSE
    BY <1>2, <2>1
  <2>2. PICK r \in DOMAIN registers \ Descriptions :
          <<dev, r>> \in DOMAIN selections /\ selections[<<dev, r>>].on["mask"] /\ n = NameOf[r]
    <3>1. \A m \in Marks : m = "mask" => \A x \in FilterNames(dev, m) : \E r \in DOMAIN registers \ Descriptions :
            <<dev, r>> \in DOMAIN selections /\ selections[<<dev, r>>].on[m] /\ x = NameOf[r]
      BY <1>3, Zenon
    <3>2. \A x \in FilterNames(dev, "mask") : \E r \in DOMAIN registers \ Descriptions :
            <<dev, r>> \in DOMAIN selections /\ selections[<<dev, r>>].on["mask"] /\ x = NameOf[r]
      BY <2>1, <3>1, Zenon
    <3> QED BY <3>2, Zenon
  <2>3. selections[<<dev, r>>].on["screen"]
    BY <2>2 DEF FilterNames
  <2> QED BY <2>2, <2>3 DEF SelectionInv, MaskOrScreen
<1>6. ASSUME NEW m \in Marks, NEW dev \in Devices, NEW r \in AllRows, OwnName(r), NameOf[r] \in NextFilters[m][dev]
      PROVE  <<dev, r>> \in DOMAIN selections
  <2>1. PICK q \in DOMAIN registers : <<dev, q>> \in DOMAIN selections /\ NameOf[r] = NameOf[q]
    BY <1>2, <1>3, <1>6
  <2> QED BY <1>1, <1>6, <2>1 DEF OwnName
<1>7. ASSUME NEW m \in Marks, NEW p \in DOMAIN selections, p[2] \notin Descriptions, OwnName(p[2]),
             ~(m = "write" /\ p[2] \notin WritableRows)
      PROVE  selections[p].on[m] <=> NameOf[p[2]] \in NextFilters[m][p[1]]
  <2>1. PICK dev \in Devices, r \in DOMAIN registers : p = <<dev, r>>
    BY DEF SelectionInv, SelectionTypeOK, RowsInv, SelectionsHaveRegisters
  <2>2. r \in AllRows \ Descriptions /\ OwnName(r)
    BY <1>1, <1>7, <2>1
  <2>3. ASSUME NEW q \in DOMAIN registers, NameOf[q] = NameOf[r] PROVE q = r
    BY <1>1, <2>2, <2>3 DEF OwnName
  <2>4. selections[p].on[m] => NameOf[r] \in FilterNames(dev, m)
    <3>1. CASE m = "write"
      <4>1. r \in WritableRows
        BY <1>7, <2>1, <3>1
      <4> QED BY <2>1, <2>2, <3>1, <4>1 DEF FilterNames
    <3>2. CASE m # "write"
      BY <2>1, <2>2, <2>3, <3>2 DEF FilterNames
    <3> QED BY <3>1, <3>2
  <2>5. NameOf[r] \in FilterNames(dev, m) => selections[p].on[m]
    <3>1. \A n \in FilterNames(dev, m) : \E q \in DOMAIN registers \ Descriptions :
            <<dev, q>> \in DOMAIN selections /\ selections[<<dev, q>>].on[m] /\ n = NameOf[q]
      BY <1>3, Zenon
    <3> SUFFICES ASSUME NameOf[r] \in FilterNames(dev, m) PROVE selections[p].on[m]
      OBVIOUS
    <3>2. PICK q \in DOMAIN registers : selections[<<dev, q>>].on[m] /\ NameOf[r] = NameOf[q]
      BY <3>1, Zenon
    <3>3. q = r
      BY <2>3, <3>2
    <3> QED BY <2>1, <3>2, <3>3
  <2> QED BY <1>2, <2>1, <2>4, <2>5
<1> QED BY <1>4, <1>5, <1>6, <1>7

LEMMA CommitWritesKeep ==
  ASSUME SelectionInv, CommitFilters \/ CommitCsv \/ Die
  PROVE  SelectionInv'
<1>1. UNCHANGED <<registers, edited, leaving, selections, discarded>>
  BY DEF CommitFilters, CommitCsv, Die
<1>2. NextFilters' = NextFilters
  BY <1>1 DEF NextFilters, FilterNames
<1>3. CASE CommitFilters
  <2>1. commitStep = "idle" /\ up = TRUE /\ filters' = NextFilters /\ commitStep' = "filters" /\ UNCHANGED <<csvFile, up>>
    BY <1>3 DEF CommitFilters, Quiet, SelectionInv, SelectionTypeOK
  <2>2. SelectionTypeOK' /\ RowsInv'
    BY <1>1, <2>1 DEF SelectionInv, SelectionTypeOK, RowsInv, SelectionsHaveRegisters
  <2>3. FilesInv'
    <3>1. Synthetics \subseteq AllRows
      BY DEF AllRows
    <3> QED BY <1>1, <1>2, <2>1, <3>1, WhatFiltersName DEF FilesInv, OwnName
  <2>4. SettledInv' /\ MaskOrScreen' /\ DiskMarksAreTrue'
    BY <1>1, <2>1 DEF SelectionInv, SettledInv, MaskOrScreen, DiskMarksAreTrue, Quiet
  <2> QED BY <2>2, <2>3, <2>4 DEF SelectionInv
<1>4. CASE CommitCsv
  <2>1. /\ commitStep = "filters" /\ commitStep' = "csv" /\ UNCHANGED <<filters, up>>
        /\ csvFile' = IF edited \cup leaving = {} THEN csvFile ELSE [r \in (DOMAIN registers \cap CsvRows) \ leaving |-> registers[r]]
    BY <1>4 DEF CommitCsv
  <2>2. SelectionTypeOK'
    BY <1>1, <2>1 DEF SelectionInv, SelectionTypeOK
  <2>3. RowsInv'
    BY <1>1, <2>1 DEF SelectionInv, RowsInv, SelectionsHaveRegisters
  <2>4. FilesInv'
    BY <1>1, <1>2, <2>1 DEF SelectionInv, FilesInv, OwnName
  <2>5. SettledInv' /\ MaskOrScreen' /\ DiskMarksAreTrue'
    BY <1>1, <2>1 DEF SelectionInv, SettledInv, MaskOrScreen, DiskMarksAreTrue, Quiet
  <2> QED BY <2>2, <2>3, <2>4, <2>5 DEF SelectionInv
<1>5. CASE Die
  <2>1. up' = FALSE /\ commitStep' = "idle" /\ UNCHANGED <<csvFile, filters>>
    BY <1>5 DEF Die
  <2>2. SelectionTypeOK' /\ RowsInv'
    BY <1>1, <2>1 DEF SelectionInv, SelectionTypeOK, RowsInv, SelectionsHaveRegisters
  <2>3. FilesInv'
    BY <1>1, <2>1 DEF SelectionInv, FilesInv, OwnName
  <2>4. SettledInv' /\ MaskOrScreen' /\ DiskMarksAreTrue'
    BY <1>1, <2>1 DEF SelectionInv, SettledInv, MaskOrScreen, DiskMarksAreTrue, Quiet
  <2> QED BY <2>2, <2>3, <2>4 DEF SelectionInv
<1> QED BY <1>3, <1>4, <1>5

\* The database follows the files: what was marked is now on disk.
LEMMA CommitMarksKeeps ==
  ASSUME SelectionInv, CommitMarks
  PROVE  SelectionInv'
<1>1. /\ commitStep = "csv" /\ commitStep' = "idle" /\ edited' = {} /\ leaving' = {}
      /\ UNCHANGED <<csvFile, filters, up, discarded>>
      /\ registers' = [r \in DOMAIN registers \ leaving |-> registers[r]]
      /\ DOMAIN selections' = KeptSelections /\ \A p \in KeptSelections : selections'[p] = Settled(selections[p])
  BY DEF CommitMarks
<1>2. up = TRUE /\ filters = NextFilters
  BY <1>1 DEF SelectionInv, FilesInv, SelectionTypeOK
<1>3. leaving \subseteq CsvRows /\ KeptSelections \subseteq DOMAIN selections /\ \A p \in KeptSelections : p[2] \notin leaving
  BY DEF SelectionInv, SelectionTypeOK, KeptSelections
<1>4. ASSUME NEW p \in KeptSelections
      PROVE  /\ selections'[p] \in SelectionType /\ selections'[p].on = selections[p].on
             /\ p \notin discarded => selections'[p].disk = selections[p].on
  <2>1. PICK sel \in SelectionType : sel = selections[p]
    BY <1>3 DEF SelectionInv, SelectionTypeOK, SelectionType
  <2>2. sel.on \in [Marks -> BOOLEAN]
    BY DEF SelectionType
  <2>3. CASE sel.dirty
    <3>1. selections'[p] = Selection(sel.on, sel.on)
      BY <1>1, <2>1, <2>3 DEF Settled
    <3> QED BY <2>1, <2>2, <3>1, SelectionOf
  <2>4. CASE ~sel.dirty
    <3>1. selections'[p] = sel
      BY <1>1, <2>1, <2>4 DEF Settled
    <3>2. p \notin discarded => sel.on = sel.disk
      BY <1>3, <2>1, <2>4 DEF SelectionInv, SettledInv
    <3> QED BY <2>1, <3>1, <3>2
  <2> QED BY <2>3, <2>4
<1>5. SelectionTypeOK'
  BY <1>1, <1>3, <1>4 DEF SelectionInv, SelectionTypeOK, SelectionType
<1>6. RowsInv'
  <2>1. Devices \X (DOMAIN registers \cap CsvRows) \subseteq DOMAIN selections /\ SelectionsHaveRegisters
    BY DEF SelectionInv, RowsInv
  <2>2. Devices \X ((DOMAIN registers \ leaving) \cap CsvRows) \subseteq KeptSelections
    BY <2>1 DEF KeptSelections
  <2>3. DOMAIN csvFile \subseteq DOMAIN registers \ leaving
    BY <1>1 DEF SelectionInv, RowsInv
  <2> QED BY <1>1, <1>3, <2>1, <2>2, <2>3 DEF RowsInv, SelectionsHaveRegisters
<1>7. FilesInv'
  <2>1. ASSUME NEW m \in Marks, NEW dev \in Devices, NEW r \in Synthetics, OwnName(r), NameOf[r] \in filters[m][dev]
        PROVE  <<dev, r>> \in KeptSelections
    <3>1. <<dev, r>> \in DOMAIN selections
      BY <2>1 DEF SelectionInv, FilesInv
    <3>2. r \notin leaving
      BY <1>3, SelectionAssumption
    <3> QED BY <3>1, <3>2 DEF KeptSelections
  <2>2. /\ filters \in [Marks -> [Devices -> SUBSET RowNames]]
        /\ \A dev \in Devices : filters["mask"][dev] \cap filters["screen"][dev] = {}
    BY DEF SelectionInv, FilesInv
  <2> QED BY <1>1, <2>1, <2>2 DEF FilesInv, OwnName
<1>8. SettledInv' /\ MaskOrScreen'
  BY <1>1, <1>3, <1>4 DEF SelectionInv, SettledInv, MaskOrScreen
<1>9. DiskMarksAreTrue'
  <2> SUFFICES ASSUME NEW p \in KeptSelections, p \notin discarded, NEW m \in Marks, p[2] \notin Descriptions,
                      OwnName(p[2]), ~(m = "write" /\ p[2] \notin WritableRows)
               PROVE  selections'[p].disk[m] <=> NameOf[p[2]] \in filters[m][p[1]]
    BY <1>1 DEF DiskMarksAreTrue, OwnName
  <2>1. selections[p].on[m] <=> NameOf[p[2]] \in NextFilters[m][p[1]]
    BY <1>3, WhatFiltersName
  <2>2. selections'[p].disk = selections[p].on
    BY <1>4
  <2> QED BY <1>2, <2>1, <2>2
<1> QED BY <1>5, <1>6, <1>7, <1>8, <1>9 DEF SelectionInv

\* The selections of the web server stay true, for any devices, registers and names: no register is
\* masked and screened at once, no selection outlives its register, and what a selection says is on
\* disk is what the filter files say, through toggles with their carried marks, discards, commits in
\* three steps (filter files, protocol CSV, database), crashes between them and the scans that
\* follow (_toggle_selection_for_row(), commit_all(), _sync_device_protocol_selections()).
THEOREM SelectionsStayTrue == SelectionSpec => [](SelectionTypeOK /\ SelectionsAreTrue)
<1>1. SelectionInit => SelectionInv
  BY SelectionStart
<1>2. SelectionInv /\ [SelectionNext]_selectionVars => SelectionInv'
  <2> SUFFICES ASSUME SelectionInv, [SelectionNext]_selectionVars PROVE SelectionInv'
    OBVIOUS
  <2>1. CASE Scan \/ StartAgain
    BY <2>1, ScanKeeps
  <2>2. CASE DiscardMarks
    BY <2>2, DiscardKeeps
  <2>3. CASE CommitFilters \/ CommitCsv \/ Die
    BY <2>3, CommitWritesKeep
  <2>4. CASE CommitMarks
    BY <2>4, CommitMarksKeeps
  <2>5. CASE \E dev \in Devices, r \in AllRows, m \in Marks, b \in BOOLEAN : Toggle(dev, r, m, b)
    BY <2>5, ToggleKeeps
  <2>6. CASE \E r \in CsvRows : EditRegister(r) \/ \E b \in BOOLEAN : StageDelete(r, b)
    <3>1. Quiet
      BY <2>6 DEF EditRegister, StageDelete, UserDecides
    <3> QED BY <2>6, <3>1, RegistersKeep
  <2>7. CASE UNCHANGED selectionVars
    <3>1. UNCHANGED <<registers, edited, leaving, selections, csvFile, filters, commitStep, up, discarded>>
      BY <2>7 DEF selectionVars
    <3>2. NextFilters' = NextFilters
      BY <3>1 DEF NextFilters, FilterNames
    <3>3. SelectionTypeOK' /\ RowsInv'
      BY <3>1 DEF SelectionInv, SelectionTypeOK, RowsInv, SelectionsHaveRegisters
    <3>4. FilesInv'
      BY <3>1, <3>2 DEF SelectionInv, FilesInv, OwnName
    <3>5. SettledInv' /\ MaskOrScreen' /\ DiskMarksAreTrue'
      BY <3>1 DEF SelectionInv, SettledInv, MaskOrScreen, DiskMarksAreTrue, OwnName, Quiet
    <3> QED BY <3>3, <3>4, <3>5 DEF SelectionInv
  <2> QED BY <2>1, <2>2, <2>3, <2>4, <2>5, <2>6, <2>7 DEF SelectionNext
<1>3. SelectionInv => SelectionTypeOK /\ SelectionsAreTrue
  BY DEF SelectionInv, SelectionsAreTrue, RowsInv
<1> QED BY <1>1, <1>2, <1>3, PTL DEF SelectionSpec

----------------------------------------------------------------------------
(* Settings of config.cfg.                                                  *)

SettingTexts == SettingValues \cup {Blank}

\* A request that read its row.
PendingEdits == [key : SettingKeys, change : SettingValues \cup {"off", "on"}, seen : RowType]

\* Texts and rows.
StoreTypeOK ==
    /\ file \in Texts /\ DOMAIN settings \subseteq SettingKeys /\ \A k \in DOMAIN settings : settings[k] \in RowType
    /\ backups \in Seq(Texts) /\ (saving = <<>> \/ \E t \in Texts : saving = <<t>>)
    /\ edit = NoEdit \/ edit \in PendingEdits
    /\ \A s \in Scanners : scans[s] \in {"reading", "copied"} => seenFile[s].text \in Texts
    /\ DOMAIN scans = Scanners /\ DOMAIN seenFile = Scanners
    /\ scans["watch"] \in {"idle", "reading", "done"}
    /\ scans["rollback"] \in {"idle", "copied", "recorded", "reading", "done"}
    /\ mishaps \in 0..Mishaps /\ changed \in 0..MaxChanges

\* The history flags and those of the process.
FlagTypeOK == serving \in BOOLEAN /\ cfgTruth \in BOOLEAN /\ unscanned \in BOOLEAN /\ raced \in BOOLEAN

\* A commit or a rollback in progress has room for its backup.
RoomInv ==
    /\ Len(backups) \in 1..(MaxBackups + 1)
    /\ saving # <<>> => Len(backups) < MaxBackups
    /\ scans["rollback"] = "copied" => Len(backups) <= MaxBackups

\* Who excludes whom.
TurnInv ==
    /\ scans["watch"] = "reading" => scans["rollback"] # "reading"
    /\ ~serving => saving = <<>> /\ \A s \in Scanners : scans[s] = "idle"
    /\ saving # <<>> => \A s \in Scanners : scans[s] # "reading"

\* A scan merges the file it read, unless a rollback has replaced it meanwhile and will scan it
\* itself; a commit that wrote settles the rows it wrote.
WorkInv ==
    /\ \A s \in Scanners : scans[s] = "reading" =>
          unscanned \/ file = seenFile[s].text \/ scans["rollback"] = "copied"
    /\ saving # <<>> => unscanned \/ file = Written(settings)

\* A row's flag counts what differs from disk, orphans included.
RowCounted(row) ==
    /\ row.active /\ row.staged # row.disk => row.dirty
    /\ ~row.active /\ row.disk # Blank => row.dirty

CountInv == raced \/ \A k \in DOMAIN settings : RowCounted(settings[k])

\* The rows say what the text says.
SaysOf(rows, text) ==
    /\ \A k \in DOMAIN text : k \in DOMAIN rows /\ rows[k].disk = text[k]
    /\ \A k \in DOMAIN rows \ OtherKeys : ~rows[k].orphan /\ rows[k].disk # Blank => k \in DOMAIN text
    /\ \A k \in DOMAIN rows : rows[k].orphan => k \notin DOMAIN text

DiskInv ==
    serving /\ ~raced /\ ~unscanned /\ saving = <<>> /\ scans["rollback"] \in {"idle", "done"} => SaysOf(settings, file)

StagingInv == StoreTypeOK /\ FlagTypeOK /\ RoomInv /\ TurnInv /\ WorkInv /\ CountInv /\ DiskInv

LEMMA RowOf ==
  ASSUME NEW disk \in SettingTexts, NEW held \in SettingTexts, NEW on \in BOOLEAN
  PROVE  /\ Row(disk, held, on) \in RowType
         /\ Row(disk, held, on).disk = disk /\ Row(disk, held, on).staged = held
         /\ Row(disk, held, on).active = on /\ Row(disk, held, on).orphan = FALSE
         /\ on \/ disk = Blank => RowCounted(Row(disk, held, on))
<1>1. (held # disk) \in BOOLEAN
  OBVIOUS
<1>2. Row(disk, held, on) \in RowType
  BY <1>1 DEF Row, RowType, SettingTexts
<1>3. Row(disk, held, on).dirty = (held # disk)
  BY DEF Row
<1>4. /\ Row(disk, held, on).disk = disk /\ Row(disk, held, on).staged = held
      /\ Row(disk, held, on).active = on /\ Row(disk, held, on).orphan = FALSE
  BY DEF Row
<1> QED BY <1>2, <1>3, <1>4 DEF RowCounted

LEMMA TextSaid ==
  ASSUME NEW text \in Texts
  PROVE  DOMAIN text \subseteq SettingKeys /\ \A k \in DOMAIN text : text[k] \in SettingTexts
<1>1. PICK S \in SUBSET SettingKeys : text \in [S -> SettingValues \cup {Blank}]
  BY DEF Texts
<1> QED BY <1>1 DEF SettingTexts

LEMMA TextFrom ==
  ASSUME NEW text, NEW S \in SUBSET SettingKeys, text = [k \in S |-> text[k]], \A k \in S : text[k] \in SettingTexts
  PROVE  text \in Texts
<1>1. text \in [S -> SettingValues \cup {Blank}]
  BY DEF SettingTexts
<1> QED BY <1>1 DEF Texts

\* A scan merges the text it read: the rows then say what the text says.
LEMMA MergeSays ==
  ASSUME NEW rows, DOMAIN rows \subseteq SettingKeys, \A k \in DOMAIN rows : rows[k] \in RowType,
         NEW text \in Texts, NEW truth
  PROVE  /\ DOMAIN Merge(rows, text, truth) \subseteq SettingKeys
         /\ \A k \in DOMAIN Merge(rows, text, truth) : Merge(rows, text, truth)[k] \in RowType
         /\ SaysOf(Merge(rows, text, truth), text)
         /\ (\A k \in DOMAIN rows : RowCounted(rows[k])) =>
               \A k \in DOMAIN Merge(rows, text, truth) : RowCounted(Merge(rows, text, truth)[k])
<1>1. PICK res : res = Merge(rows, text, truth)
  OBVIOUS
<1>2. DOMAIN text \subseteq SettingKeys /\ \A k \in DOMAIN text : text[k] \in SettingTexts
  BY TextSaid
<1>3. DOMAIN text \subseteq KnownKeys(text) /\ KnownKeys(text) \subseteq SettingKeys
  BY <1>2 DEF KnownKeys, SettingKeys
<1>4. DOMAIN res = DOMAIN rows \cup KnownKeys(text)
  BY <1>1 DEF Merge
<1>5. ASSUME NEW k \in DOMAIN text
      PROVE  res[k] \in RowType /\ res[k].disk = text[k] /\ res[k].orphan = FALSE /\ RowCounted(res[k])
  <2>1. res[k] = Upsert(rows, k, text[k], TRUE, k \in truth)
    BY <1>1, <1>3 DEF Merge
  <2>2. PICK held \in SettingTexts : res[k] = Row(text[k], held, TRUE)
    <3>1. CASE k \notin DOMAIN rows
      BY <1>2, <2>1, <3>1 DEF Upsert
    <3>2. CASE k \in DOMAIN rows
      <4>1. rows[k].staged \in SettingTexts
        BY <3>2 DEF RowType, SettingTexts
      <4>2. PICK held : held = IF k \in truth THEN text[k] ELSE rows[k].staged
        OBVIOUS
      <4>3. held \in SettingTexts /\ res[k] = Row(text[k], held, TRUE)
        BY <1>2, <2>1, <3>2, <4>1, <4>2 DEF Upsert
      <4> QED BY <4>3
    <3> QED BY <3>1, <3>2
  <2>3. text[k] \in SettingTexts /\ TRUE \in BOOLEAN
    BY <1>2
  <2>4. PICK row : row = Row(text[k], held, TRUE)
    OBVIOUS
  <2>5. row \in RowType /\ row.disk = text[k] /\ row.orphan = FALSE /\ RowCounted(row)
    BY <2>3, <2>4, RowOf, Zenon
  <2> QED BY <2>2, <2>4, <2>5
<1>6. ASSUME NEW k \in KnownKeys(text), k \notin DOMAIN text
      PROVE  res[k] \in RowType /\ res[k].disk = Blank /\ res[k].orphan = FALSE /\ RowCounted(res[k])
  <2>1. res[k] = Upsert(rows, k, Blank, FALSE, FALSE)
    BY <1>1, <1>6 DEF Merge
  <2>2. PICK held \in SettingTexts : res[k] = Row(Blank, held, FALSE)
    <3>1. CASE k \notin DOMAIN rows
      BY <2>1, <3>1 DEF Upsert, SettingTexts
    <3>2. CASE k \in DOMAIN rows
      <4>1. rows[k].staged \in SettingTexts
        BY <3>2 DEF RowType, SettingTexts
      <4> QED BY <2>1, <3>2, <4>1 DEF Upsert
    <3> QED BY <3>1, <3>2
  <2>3. Blank \in SettingTexts
    BY DEF SettingTexts
  <2>4. PICK row : row = Row(Blank, held, FALSE)
    OBVIOUS
  <2>5. FALSE \in BOOLEAN
    OBVIOUS
  <2>6. row \in RowType /\ row.disk = Blank /\ row.orphan = FALSE /\ RowCounted(row)
    BY <2>3, <2>4, <2>5, RowOf, Zenon
  <2> QED BY <2>2, <2>4, <2>6
<1>7. ASSUME NEW k \in DOMAIN rows, k \notin KnownKeys(text)
      PROVE  /\ res[k] \in RowType /\ res[k].orphan = TRUE
             /\ RowCounted(rows[k]) => RowCounted(res[k])
  <2>1. res[k] = [rows[k] EXCEPT !.orphan = TRUE] /\ rows[k] \in RowType
    BY <1>1, <1>3, <1>7 DEF Merge
  <2> QED BY <2>1 DEF RowType, RowCounted
<1>8. DOMAIN res \subseteq SettingKeys /\ \A k \in DOMAIN res : res[k] \in RowType
  BY <1>3, <1>4, <1>5, <1>6, <1>7
<1>9. SaysOf(res, text)
  BY <1>3, <1>4, <1>5, <1>6, <1>7 DEF SaysOf
<1>10. (\A k \in DOMAIN rows : RowCounted(rows[k])) => \A k \in DOMAIN res : RowCounted(res[k])
  BY <1>3, <1>4, <1>5, <1>6, <1>7
<1> QED BY <1>1, <1>8, <1>9, <1>10

\* Rows with the disk column they had, and new ones that are not on disk.
LEMMA SaysStill ==
  ASSUME NEW rows, NEW new, NEW text, SaysOf(rows, text), DOMAIN rows \subseteq DOMAIN new,
         \A k \in DOMAIN rows : /\ new[k].disk = rows[k].disk /\ (new[k].orphan => rows[k].orphan)
                                /\ k \in OtherKeys \/ (rows[k].orphan => new[k].orphan),
         \A k \in DOMAIN new \ DOMAIN rows : new[k].disk = Blank /\ ~new[k].orphan
  PROVE  SaysOf(new, text)
<1>1. \A k \in DOMAIN text : k \in DOMAIN new /\ new[k].disk = text[k]
  BY DEF SaysOf
<1>2. ASSUME NEW k \in DOMAIN new, k \notin OtherKeys, ~new[k].orphan, new[k].disk # Blank
      PROVE  k \in DOMAIN text
  BY <1>2 DEF SaysOf
<1>3. ASSUME NEW k \in DOMAIN new, new[k].orphan
      PROVE  k \notin DOMAIN text
  BY <1>3 DEF SaysOf
<1> QED BY <1>1, <1>2, <1>3 DEF SaysOf

\* A request that changes rows while nothing else is under way.
LEMMA RowsChange ==
  ASSUME StagingInv, Idle,
         DOMAIN settings' \subseteq SettingKeys, \A k \in DOMAIN settings' : settings'[k] \in RowType,
         edit' = edit \/ edit' = NoEdit, changed' \in 0..MaxChanges, raced' \in BOOLEAN, raced => raced',
         ~raced' /\ (\A k \in DOMAIN settings : RowCounted(settings[k])) => \A k \in DOMAIN settings' : RowCounted(settings'[k]),
         ~raced' /\ SaysOf(settings, file) => SaysOf(settings', file),
         UNCHANGED <<file, backups, saving, scans, seenFile, cfgTruth, serving, unscanned, mishaps>>
  PROVE  StagingInv'
<1>1. saving = <<>> /\ \A s \in Scanners : scans[s] # "reading"
  BY DEF Idle
<1>2. StoreTypeOK'
  BY DEF StagingInv, StoreTypeOK
<1>3. FlagTypeOK'
  BY DEF StagingInv, FlagTypeOK
<1>4. RoomInv' /\ TurnInv'
  BY DEF StagingInv, RoomInv, TurnInv
<1>5. WorkInv'
  BY <1>1 DEF WorkInv
<1>6. CountInv'
  BY DEF StagingInv, CountInv
<1>7. DiskInv'
  BY DEF StagingInv, DiskInv
<1> QED BY <1>2, <1>3, <1>4, <1>5, <1>6, <1>7 DEF StagingInv

\* An edit of a row keeps its disk column and counts what it changes.
LEMMA ChangedRow ==
  ASSUME NEW row \in RowType, NEW change \in SettingValues \cup {"off", "on"}
  PROVE  /\ Changed(row, change) \in RowType /\ RowCounted(Changed(row, change))
         /\ Changed(row, change).disk = row.disk /\ Changed(row, change).orphan = row.orphan
<1>1. /\ row.disk \in SettingTexts /\ row.staged \in SettingTexts
      /\ row.active \in BOOLEAN /\ row.dirty \in BOOLEAN /\ row.orphan \in BOOLEAN
      /\ row = [disk |-> row.disk, staged |-> row.staged, active |-> row.active, dirty |-> row.dirty, orphan |-> row.orphan]
  BY DEF RowType, SettingTexts
<1>2. PICK new : new = Changed(row, change)
  OBVIOUS
<1>3. PICK on \in BOOLEAN, held \in SettingTexts, dirty \in BOOLEAN :
        /\ new = [disk |-> row.disk, staged |-> held, active |-> on, dirty |-> dirty, orphan |-> row.orphan]
        /\ on /\ held # row.disk => dirty
        /\ ~on /\ row.disk # Blank => dirty
  <2>1. CASE change = "off"
    <3>1. PICK dirty \in BOOLEAN : dirty = (row.disk # Blank)
      OBVIOUS
    <3>2. new = [disk |-> row.disk, staged |-> row.staged, active |-> FALSE, dirty |-> dirty, orphan |-> row.orphan]
      BY <1>1, <1>2, <2>1, <3>1 DEF Changed
    <3> QED BY <1>1, <3>1, <3>2
  <2>2. CASE change # "off"
    <3>1. PICK held : held = IF change # "on" THEN change ELSE IF row.staged = Blank THEN DefaultValue ELSE row.staged
      OBVIOUS
    <3>2. held \in SettingTexts
      BY <1>1, <2>2, <3>1, StagingAssumption DEF SettingTexts
    <3>3. PICK dirty \in BOOLEAN : dirty = (held # row.disk)
      OBVIOUS
    <3>4. new = [disk |-> row.disk, staged |-> held, active |-> TRUE, dirty |-> dirty, orphan |-> row.orphan]
      BY <1>1, <1>2, <2>2, <3>1, <3>3 DEF Changed
    <3> QED BY <3>2, <3>3, <3>4
  <2> QED BY <2>1, <2>2
<1>4. new \in RowType
  BY <1>1, <1>3 DEF RowType, SettingTexts
<1>5. RowCounted(new) /\ new.disk = row.disk /\ new.orphan = row.orphan
  BY <1>3 DEF RowCounted
<1> QED BY <1>2, <1>4, <1>5

\* Of a row, the columns that an edit of the row as it was read changed.
LEMMA PatchedRow ==
  ASSUME NEW row \in RowType, NEW seen \in RowType, NEW new \in RowType,
         NEW res, res = [f \in DOMAIN row |-> IF new[f] # seen[f] THEN new[f] ELSE row[f]]
  PROVE  res \in RowType /\ (row = seen => res = new)
<1>1. DOMAIN row = {"disk", "staged", "active", "dirty", "orphan"} /\ DOMAIN new = DOMAIN row
  BY DEF RowType
<1>2. ASSUME NEW f \in DOMAIN row
      PROVE  res[f] = new[f] \/ res[f] = row[f]
  OBVIOUS
<1>3. DOMAIN res = DOMAIN row
  OBVIOUS
<1>4. /\ res = [disk |-> res["disk"], staged |-> res["staged"], active |-> res["active"], dirty |-> res["dirty"],
                orphan |-> res["orphan"]]
  BY <1>1
<1>5. /\ res["disk"] \in SettingTexts /\ res["staged"] \in SettingTexts
      /\ res["active"] \in BOOLEAN /\ res["dirty"] \in BOOLEAN /\ res["orphan"] \in BOOLEAN
  BY <1>1, <1>2 DEF RowType, SettingTexts
<1>6. res \in RowType
  BY <1>4, <1>5 DEF RowType, SettingTexts
<1>7. row = seen => res = new
  <2> SUFFICES ASSUME row = seen PROVE res = new
    OBVIOUS
  <2>1. \A f \in DOMAIN row : res[f] = new[f]
    OBVIOUS
  <2>2. new = [f \in DOMAIN new |-> new[f]] /\ res = [f \in DOMAIN res |-> res[f]]
    BY DEF RowType
  <2> QED BY <1>1, <1>3, <2>1, <2>2
<1> QED BY <1>6, <1>7

\* What update_setting() makes of the rows, seeded bridge section included.
LEMMA PatchedRows ==
  ASSUME NEW rows, DOMAIN rows \subseteq SettingKeys, \A k \in DOMAIN rows : rows[k] \in RowType,
         NEW k \in DOMAIN rows, NEW seen \in RowType, NEW change \in SettingValues \cup {"off", "on"}, NEW text
  PROVE  /\ DOMAIN Patched(rows, k, seen, change) \subseteq SettingKeys
         /\ \A j \in DOMAIN Patched(rows, k, seen, change) : Patched(rows, k, seen, change)[j] \in RowType
         /\ rows[k] = seen => /\ (\A j \in DOMAIN rows : RowCounted(rows[j])) =>
                                   \A j \in DOMAIN Patched(rows, k, seen, change) : RowCounted(Patched(rows, k, seen, change)[j])
                              /\ SaysOf(rows, text) => SaysOf(Patched(rows, k, seen, change), text)
<1>1. PICK new \in RowType : new = Changed(seen, change) /\ RowCounted(new) /\ new.disk = seen.disk /\ new.orphan = seen.orphan
  BY ChangedRow
<1>2. PICK row : row = [f \in DOMAIN rows[k] |-> IF new[f] # seen[f] THEN new[f] ELSE rows[k][f]]
  OBVIOUS
<1>3. row \in RowType /\ (rows[k] = seen => row = new)
  BY <1>2, PatchedRow
<1>4. PICK mid : mid = [rows EXCEPT ![k] = row]
  OBVIOUS
<1>5. DOMAIN mid = DOMAIN rows /\ mid[k] = row /\ \A j \in DOMAIN rows : j # k => mid[j] = rows[j]
  BY <1>4
<1>6. PICK res : res = Patched(rows, k, seen, change)
  OBVIOUS
<1>7. res = Seeded(mid, k, change)
  BY <1>1, <1>2, <1>4, <1>6 DEF Patched
<1>8. PICK seed : seed = Row(Blank, DefaultValue, TRUE)
  OBVIOUS
<1>9. seed \in RowType /\ seed.disk = Blank /\ seed.orphan = FALSE /\ RowCounted(seed)
  <2>1. Blank \in SettingTexts /\ DefaultValue \in SettingTexts /\ TRUE \in BOOLEAN
    BY StagingAssumption DEF SettingTexts
  <2> QED BY <1>8, <2>1, RowOf, Zenon
<1>10. /\ DOMAIN rows \subseteq DOMAIN res /\ DOMAIN res \subseteq DOMAIN rows \cup BridgeKeys
       /\ \A j \in DOMAIN rows : res[j] = mid[j]
       /\ \A j \in DOMAIN res \ DOMAIN rows : res[j] = seed
  <2>1. CASE k = BridgeRef /\ change = Refers /\ DOMAIN mid \cap BridgeKeys = {}
    <3>1. res = [j \in DOMAIN mid \cup BridgeKeys |-> IF j \in BridgeKeys THEN seed ELSE mid[j]]
      BY <1>7, <1>8, <2>1 DEF Seeded
    <3> QED BY <1>5, <2>1, <3>1
  <2>2. CASE ~(k = BridgeRef /\ change = Refers /\ DOMAIN mid \cap BridgeKeys = {})
    <3>1. res = mid
      BY <1>7, <2>2 DEF Seeded
    <3> QED BY <1>5, <3>1
  <2> QED BY <2>1, <2>2
<1>11. DOMAIN res \subseteq SettingKeys
  BY <1>10 DEF SettingKeys
<1>12. \A j \in DOMAIN res : res[j] \in RowType
  BY <1>3, <1>5, <1>9, <1>10
<1>13. ASSUME rows[k] = seen, \A j \in DOMAIN rows : RowCounted(rows[j])
       PROVE  \A j \in DOMAIN res : RowCounted(res[j])
  BY <1>1, <1>3, <1>5, <1>9, <1>10, <1>13
<1>14. ASSUME rows[k] = seen, SaysOf(rows, text)
       PROVE  SaysOf(res, text)
  <2>1. \A j \in DOMAIN rows : res[j].disk = rows[j].disk /\ res[j].orphan = rows[j].orphan
    BY <1>1, <1>3, <1>5, <1>10, <1>14
  <2>2. \A j \in DOMAIN res \ DOMAIN rows : res[j].disk = Blank /\ ~res[j].orphan
    BY <1>9, <1>10
  <2> QED BY <1>10, <1>14, <2>1, <2>2, SaysStill
<1> QED BY <1>6, <1>11, <1>12, <1>13, <1>14

LEMMA UserCounts ==
  ASSUME StagingInv, UserActs
  PROVE  changed' \in 0..MaxChanges
BY StagingAssumption DEF UserActs, StagingInv, StoreTypeOK

LEMMA RowsTyped ==
  ASSUME StagingInv
  PROVE  DOMAIN settings \subseteq SettingKeys /\ \A k \in DOMAIN settings : settings[k] \in RowType
BY DEF StagingInv, StoreTypeOK

LEMMA ChangeSettingKeeps ==
  ASSUME StagingInv, ChangeSetting
  PROVE  StagingInv'
<1>1. /\ UserActs /\ Idle
      /\ UNCHANGED <<raced, file, backups, saving, edit, scans, seenFile, cfgTruth, serving, unscanned, mishaps>>
  BY DEF ChangeSetting
<1>2. PICK rows, text : rows = settings /\ text = file
  OBVIOUS
<1>3. PICK k \in DOMAIN rows, c \in SettingValues \cup {"off", "on"} : settings' = Patched(rows, k, rows[k], c)
  BY <1>2 DEF ChangeSetting, Offers
<1>4. DOMAIN rows \subseteq SettingKeys /\ \A j \in DOMAIN rows : rows[j] \in RowType
  BY <1>2, RowsTyped
<1>5. PICK res : res = Patched(rows, k, rows[k], c)
  OBVIOUS
<1>6. /\ DOMAIN res \subseteq SettingKeys /\ \A j \in DOMAIN res : res[j] \in RowType
      /\ (\A j \in DOMAIN rows : RowCounted(rows[j])) => \A j \in DOMAIN res : RowCounted(res[j])
      /\ SaysOf(rows, text) => SaysOf(res, text)
  BY <1>4, <1>5, PatchedRows
<1>7. raced \in BOOLEAN /\ changed' \in 0..MaxChanges
  BY <1>1, UserCounts DEF StagingInv, FlagTypeOK
<1> QED BY <1>1, <1>2, <1>3, <1>5, <1>6, <1>7, RowsChange

LEMMA ReadSettingKeeps ==
  ASSUME StagingInv, ReadSetting
  PROVE  StagingInv'
<1>1. /\ UserActs
      /\ UNCHANGED <<raced, file, settings, backups, saving, scans, seenFile, cfgTruth, serving, unscanned, mishaps>>
  BY DEF ReadSetting
<1>2. PICK k \in DOMAIN settings, c \in SettingValues \cup {"off", "on"} : edit' = [key |-> k, change |-> c, seen |-> settings[k]]
  BY DEF ReadSetting, Offers
<1>3. edit' \in PendingEdits
  BY <1>2, RowsTyped DEF PendingEdits
<1>4. StoreTypeOK'
  BY <1>1, <1>3, UserCounts DEF StagingInv, StoreTypeOK
<1>5. FlagTypeOK' /\ RoomInv' /\ TurnInv'
  BY <1>1 DEF StagingInv, FlagTypeOK, RoomInv, TurnInv
<1>6. WorkInv' /\ CountInv' /\ DiskInv'
  BY <1>1 DEF StagingInv, WorkInv, Written, CountInv, DiskInv
<1> QED BY <1>4, <1>5, <1>6 DEF StagingInv

LEMMA WriteSettingKeeps ==
  ASSUME StagingInv, WriteSetting
  PROVE  StagingInv'
<1>1. /\ Idle /\ edit # NoEdit /\ edit' = NoEdit
      /\ settings' = IF edit.key \in DOMAIN settings THEN Patched(settings, edit.key, edit.seen, edit.change) ELSE settings
      /\ raced' = (raced \/ edit.key \notin DOMAIN settings \/ settings[edit.key] # edit.seen)
      /\ UNCHANGED <<file, backups, saving, scans, seenFile, cfgTruth, serving, unscanned, mishaps, changed>>
  BY DEF WriteSetting
<1>2. edit \in PendingEdits /\ changed' \in 0..MaxChanges
  BY <1>1 DEF StagingInv, StoreTypeOK
<1>3. PICK k \in SettingKeys, c \in SettingValues \cup {"off", "on"}, seen \in RowType : k = edit.key /\ c = edit.change /\ seen = edit.seen
  BY <1>2 DEF PendingEdits
<1>4. PICK rows, text : rows = settings /\ text = file
  OBVIOUS
<1>5. DOMAIN rows \subseteq SettingKeys /\ \A j \in DOMAIN rows : rows[j] \in RowType
  BY <1>4, RowsTyped
<1>6. raced' \in BOOLEAN /\ (raced => raced')
  <2>1. (raced \/ edit.key \notin DOMAIN settings \/ settings[edit.key] # edit.seen) \in BOOLEAN
    BY Zenon
  <2>2. raced \in BOOLEAN
    BY DEF StagingInv, FlagTypeOK
  <2> QED BY <1>1, <2>1, <2>2, Zenon
<1>7. ~raced' => k \in DOMAIN rows /\ rows[k] = seen
  BY <1>1, <1>3, <1>4
<1>8. CASE k \notin DOMAIN rows
  <2>1. settings' = settings
    BY <1>1, <1>3, <1>4, <1>8
  <2>2. raced'
    BY <1>7, <1>8
  <2> QED BY <1>1, <1>2, <1>4, <1>5, <1>6, <2>1, <2>2, RowsChange
<1>9. CASE k \in DOMAIN rows
  <2>1. PICK res : res = Patched(rows, k, seen, c)
    OBVIOUS
  <2>2. settings' = res
    BY <1>1, <1>3, <1>4, <1>9, <2>1
  <2>3. /\ DOMAIN res \subseteq SettingKeys /\ \A j \in DOMAIN res : res[j] \in RowType
        /\ rows[k] = seen => /\ (\A j \in DOMAIN rows : RowCounted(rows[j])) => \A j \in DOMAIN res : RowCounted(res[j])
                             /\ SaysOf(rows, text) => SaysOf(res, text)
    BY <1>5, <1>9, <2>1, PatchedRows
  <2> QED BY <1>1, <1>2, <1>4, <1>6, <1>7, <2>2, <2>3, RowsChange
<1> QED BY <1>8, <1>9

LEMMA CreateKeyKeeps ==
  ASSUME StagingInv, CreateKey
  PROVE  StagingInv'
<1>1. /\ UserActs /\ Idle
      /\ UNCHANGED <<raced, file, backups, saving, edit, scans, seenFile, cfgTruth, serving, unscanned, mishaps>>
  BY DEF CreateKey
<1>2. PICK rows, text, seed : rows = settings /\ text = file /\ seed = Row(Blank, DefaultValue, TRUE)
  OBVIOUS
<1>3. PICK k \in OtherKeys \ DOMAIN rows : settings' = [j \in DOMAIN rows \cup {k} |-> IF j = k THEN seed ELSE rows[j]]
  BY <1>2 DEF CreateKey
<1>4. seed \in RowType /\ seed.disk = Blank /\ seed.orphan = FALSE /\ RowCounted(seed)
  <2>1. Blank \in SettingTexts /\ DefaultValue \in SettingTexts /\ TRUE \in BOOLEAN
    BY StagingAssumption DEF SettingTexts
  <2> QED BY <1>2, <2>1, RowOf, Zenon
<1>5. DOMAIN rows \subseteq SettingKeys /\ \A j \in DOMAIN rows : rows[j] \in RowType
  BY <1>2, RowsTyped
<1>6. PICK res : res = settings'
  OBVIOUS
<1>7. DOMAIN res = DOMAIN rows \cup {k} /\ res[k] = seed /\ \A j \in DOMAIN rows : res[j] = rows[j]
  BY <1>3, <1>6
<1>8. DOMAIN res \subseteq SettingKeys /\ \A j \in DOMAIN res : res[j] \in RowType
  BY <1>4, <1>5, <1>7 DEF SettingKeys
<1>9. (\A j \in DOMAIN rows : RowCounted(rows[j])) => \A j \in DOMAIN res : RowCounted(res[j])
  BY <1>4, <1>7
<1>10. SaysOf(rows, text) => SaysOf(res, text)
  BY <1>4, <1>7, SaysStill
<1>11. raced \in BOOLEAN /\ changed' \in 0..MaxChanges
  BY <1>1, UserCounts DEF StagingInv, FlagTypeOK
<1> QED BY <1>1, <1>2, <1>6, <1>8, <1>9, <1>10, <1>11, RowsChange

\* Rows that are changed in place.
LEMMA InPlaceKeeps ==
  ASSUME StagingInv, PreviewTransport \/ DeleteBridge \/ Discard
  PROVE  StagingInv'
<1>1. /\ Idle /\ changed' \in 0..MaxChanges
      /\ UNCHANGED <<raced, file, backups, saving, edit, scans, seenFile, cfgTruth, serving, unscanned, mishaps>>
  <2>1. changed \in 0..MaxChanges
    BY DEF StagingInv, StoreTypeOK
  <2> QED BY <2>1, UserCounts DEF PreviewTransport, DeleteBridge, Discard
<1>2. PICK rows, text : rows = settings /\ text = file
  OBVIOUS
<1>3. DOMAIN rows \subseteq SettingKeys /\ \A j \in DOMAIN rows : rows[j] \in RowType
  BY <1>2, RowsTyped
<1>4. PICK res : res = settings'
  OBVIOUS
<1>5. DOMAIN res = DOMAIN rows
  BY <1>2, <1>4 DEF PreviewTransport, DeleteBridge, Discard
<1>6. ASSUME NEW k \in DOMAIN rows
      PROVE  /\ res[k] \in RowType /\ res[k].disk = rows[k].disk
             /\ res[k].orphan => rows[k].orphan
             /\ k \in OtherKeys \/ res[k].orphan = rows[k].orphan
             /\ RowCounted(rows[k]) => RowCounted(res[k])
  <2>1. PICK row \in RowType : row = rows[k]
    BY <1>3
  <2>2. /\ row.disk \in SettingTexts /\ row.staged \in SettingTexts
        /\ row.active \in BOOLEAN /\ row.dirty \in BOOLEAN /\ row.orphan \in BOOLEAN
        /\ row = [disk |-> row.disk, staged |-> row.staged, active |-> row.active, dirty |-> row.dirty, orphan |-> row.orphan]
    BY DEF RowType, SettingTexts
  <2>3. PICK new : new = res[k]
    OBVIOUS
  <2>4. PICK gone \in BOOLEAN : gone = (row.disk # Blank)
    OBVIOUS
  <2>5. \/ new = row
        \/ k \in OtherKeys /\ new = [row EXCEPT !.orphan = FALSE]
        \/ new = [row EXCEPT !.active = FALSE, !.dirty = gone]
        \/ new = [row EXCEPT !.staged = Blank, !.dirty = gone]
        \/ row.dirty /\ new = [row EXCEPT !.active = row.active \/ gone, !.staged = row.disk, !.dirty = FALSE]
    <3>1. CASE PreviewTransport
      <4>1. res[k] = IF k \in OtherKeys THEN [row EXCEPT !.orphan = FALSE] ELSE row
        BY <1>2, <1>4, <2>1, <3>1 DEF PreviewTransport
      <4> QED BY <2>3, <4>1
    <3>2. CASE DeleteBridge
      <4>1. res[k] = IF k \in BridgeKeys THEN [row EXCEPT !.active = FALSE, !.dirty = gone]
                     ELSE IF k = BridgeRef /\ row.staged = Refers THEN [row EXCEPT !.staged = Blank, !.dirty = gone] ELSE row
        BY <1>2, <1>4, <2>1, <2>4, <3>2 DEF DeleteBridge
      <4> QED BY <2>3, <4>1, SMTT(30)
    <3>3. CASE Discard
      <4>1. res[k] = Discarded(row)
        BY <1>2, <1>4, <2>1, <3>3 DEF Discard
      <4> QED BY <2>3, <2>4, <4>1 DEF Discarded
    <3> QED BY <3>1, <3>2, <3>3
  <2>6. CASE new = row
    BY <2>1, <2>3, <2>6
  <2>7. CASE k \in OtherKeys /\ new = [row EXCEPT !.orphan = FALSE]
    <3>1. new = [disk |-> row.disk, staged |-> row.staged, active |-> row.active, dirty |-> row.dirty, orphan |-> FALSE]
      BY <2>2, <2>7
    <3>2. new \in RowType
      BY <2>2, <3>1 DEF RowType, SettingTexts
    <3> QED BY <2>1, <2>3, <2>7, <3>1, <3>2, ZenonT(60) DEF RowCounted
  <2>8. CASE new = [row EXCEPT !.active = FALSE, !.dirty = gone]
    <3>1. new = [disk |-> row.disk, staged |-> row.staged, active |-> FALSE, dirty |-> gone, orphan |-> row.orphan]
      BY <2>2, <2>8
    <3>2. new \in RowType
      BY <2>2, <3>1 DEF RowType, SettingTexts
    <3>3. new.disk = row.disk /\ new.active = FALSE /\ new.dirty = gone /\ new.orphan = row.orphan
      BY <3>1
    <3>4. row.disk # Blank => new.dirty
      BY <2>4, <3>3
    <3>5. RowCounted(new)
      BY <3>3, <3>4 DEF RowCounted
    <3> QED BY <2>1, <2>3, <3>2, <3>3, <3>5
  <2>9. CASE new = [row EXCEPT !.staged = Blank, !.dirty = gone]
    <3>1. new = [disk |-> row.disk, staged |-> Blank, active |-> row.active, dirty |-> gone, orphan |-> row.orphan]
      BY <2>2, <2>9
    <3>2. new \in RowType
      BY <2>2, <3>1 DEF RowType, SettingTexts
    <3>3. new.disk = row.disk /\ new.staged = Blank /\ new.active = row.active /\ new.dirty = gone /\ new.orphan = row.orphan
      BY <3>1
    <3>4. row.disk # Blank => new.dirty
      BY <2>4, <3>3
    <3>5. RowCounted(new)
      BY <3>3, <3>4 DEF RowCounted
    <3> QED BY <2>1, <2>3, <3>2, <3>3, <3>5
  <2>10. CASE row.dirty /\ new = [row EXCEPT !.active = row.active \/ gone, !.staged = row.disk, !.dirty = FALSE]
    <3>1. PICK on \in BOOLEAN : on = (row.active \/ gone)
      OBVIOUS
    <3>2. new = [disk |-> row.disk, staged |-> row.disk, active |-> on, dirty |-> FALSE, orphan |-> row.orphan]
      BY <2>2, <2>10, <3>1
    <3>3. new \in RowType
      BY <2>2, <3>2 DEF RowType, SettingTexts
    <3>4. new.disk = row.disk /\ new.staged = row.disk /\ new.active = on /\ new.orphan = row.orphan
      BY <3>2
    <3>5. ~new.active => row.disk = Blank
      BY <2>4, <3>1, <3>4
    <3>6. RowCounted(new)
      BY <3>4, <3>5 DEF RowCounted
    <3> QED BY <2>1, <2>3, <3>3, <3>4, <3>6
  <2> QED BY <2>5, <2>6, <2>7, <2>8, <2>9, <2>10
<1>7. SaysOf(rows, text) => SaysOf(res, text)
  BY <1>5, <1>6, SaysStill
<1>8. raced \in BOOLEAN
  BY DEF StagingInv, FlagTypeOK
<1> QED BY <1>1, <1>2, <1>3, <1>4, <1>5, <1>6, <1>7, <1>8, RowsChange

LEMMA DeleteOrphanKeeps ==
  ASSUME StagingInv, DeleteOrphan
  PROVE  StagingInv'
<1>1. /\ UserActs /\ Idle
      /\ UNCHANGED <<raced, file, backups, saving, edit, scans, seenFile, cfgTruth, serving, unscanned, mishaps>>
  BY DEF DeleteOrphan
<1>2. PICK rows, text : rows = settings /\ text = file
  OBVIOUS
<1>3. PICK k \in DOMAIN rows : rows[k].orphan /\ settings' = [j \in DOMAIN rows \ {k} |-> rows[j]]
  BY <1>2 DEF DeleteOrphan
<1>4. DOMAIN rows \subseteq SettingKeys /\ \A j \in DOMAIN rows : rows[j] \in RowType
  BY <1>2, RowsTyped
<1>5. PICK res : res = settings'
  OBVIOUS
<1>6. DOMAIN res = DOMAIN rows \ {k} /\ \A j \in DOMAIN res : res[j] = rows[j]
  BY <1>3, <1>5
<1>7. SaysOf(rows, text) => SaysOf(res, text)
  BY <1>3, <1>6 DEF SaysOf
<1>8. raced \in BOOLEAN /\ changed' \in 0..MaxChanges
  BY <1>1, UserCounts DEF StagingInv, FlagTypeOK
<1> QED BY <1>1, <1>2, <1>4, <1>5, <1>6, <1>7, <1>8, RowsChange

LEMMA CommitWritesText ==
  ASSUME StagingInv, CommitWrites
  PROVE  StagingInv'
<1>1. /\ Idle /\ Len(backups) < MaxBackups /\ saving' = <<file>> /\ file' = Written(settings)
      /\ UNCHANGED <<raced, settings, backups, edit, scans, seenFile, cfgTruth, serving, unscanned, mishaps, changed>>
  BY DEF CommitWrites
<1>2. serving /\ \A s \in Scanners : scans[s] # "reading"
  BY <1>1 DEF Idle
<1>3. Written(settings) \in Texts
  <2>1. PICK text, S : S = {j \in DOMAIN settings : settings[j].active /\ ~settings[j].orphan}
                       /\ text = [k \in S |-> settings[k].staged]
    OBVIOUS
  <2>2. S \subseteq SettingKeys /\ \A k \in S : text[k] \in SettingTexts
    BY <2>1, RowsTyped DEF RowType, SettingTexts
  <2>3. text = [k \in S |-> text[k]]
    BY <2>1
  <2>4. text = Written(settings)
    BY <2>1 DEF Written
  <2> QED BY <2>2, <2>3, <2>4, TextFrom
<1>4. saving' # <<>> /\ file \in Texts
  BY <1>1 DEF StagingInv, StoreTypeOK
<1>5. Written(settings)' = Written(settings)
  BY <1>1 DEF Written
<1>6. StoreTypeOK'
  BY <1>1, <1>3, <1>4 DEF StagingInv, StoreTypeOK
<1>7. FlagTypeOK' /\ RoomInv' /\ CountInv'
  BY <1>1 DEF StagingInv, FlagTypeOK, RoomInv, CountInv
<1>8. TurnInv' /\ WorkInv'
  BY <1>1, <1>2, <1>5 DEF StagingInv, TurnInv, WorkInv
<1>9. DiskInv'
  BY <1>4 DEF DiskInv
<1> QED BY <1>6, <1>7, <1>8, <1>9 DEF StagingInv

\* What _reset_dirty_flags() makes of a row is what was written of it.
LEMMA ResetRow ==
  ASSUME NEW row \in RowType
  PROVE  /\ Reset(row) \in RowType /\ Reset(row).orphan = row.orphan
         /\ RowCounted(row) => /\ RowCounted(Reset(row)) /\ (row.active => Reset(row).disk = row.staged)
                               /\ (~row.active => Reset(row).disk = Blank)
<1>1. /\ row.disk \in SettingTexts /\ row.staged \in SettingTexts
      /\ row.active \in BOOLEAN /\ row.dirty \in BOOLEAN /\ row.orphan \in BOOLEAN
      /\ row = [disk |-> row.disk, staged |-> row.staged, active |-> row.active, dirty |-> row.dirty, orphan |-> row.orphan]
  BY DEF RowType, SettingTexts
<1>2. CASE ~row.dirty
  <2>1. Reset(row) = row
    BY <1>2 DEF Reset
  <2> QED BY <1>2, <2>1 DEF RowCounted
<1>3. CASE row.dirty
  <2>1. PICK value : value = IF row.active THEN row.staged ELSE Blank
    OBVIOUS
  <2>2. PICK new : new = [row EXCEPT !.disk = value, !.staged = value, !.dirty = FALSE]
    OBVIOUS
  <2>3. Reset(row) = new
    BY <1>3, <2>1, <2>2 DEF Reset
  <2>4. value \in SettingTexts
    BY <1>1, <2>1 DEF SettingTexts
  <2>5. new = [disk |-> value, staged |-> value, active |-> row.active, dirty |-> FALSE, orphan |-> row.orphan]
    BY <1>1, <2>2
  <2>6. new \in RowType
    BY <1>1, <2>4, <2>5 DEF RowType, SettingTexts
  <2>7. new.disk = value /\ new.staged = value /\ new.active = row.active /\ new.orphan = row.orphan
    BY <2>5
  <2>8. RowCounted(new)
    BY <2>1, <2>7 DEF RowCounted
  <2> QED BY <2>1, <2>3, <2>6, <2>7, <2>8
<1> QED BY <1>2, <1>3

LEMMA CommitEndsKeeps ==
  ASSUME StagingInv, CommitEnds
  PROVE  StagingInv'
<1>1. /\ saving # <<>> /\ saving' = <<>> /\ backups' = backups \o saving
      /\ settings' = [k \in DOMAIN settings |-> Reset(settings[k])]
      /\ UNCHANGED <<raced, file, edit, scans, seenFile, cfgTruth, serving, unscanned, mishaps, changed>>
  BY DEF CommitEnds
<1>2. PICK t \in Texts : saving = <<t>>
  BY <1>1 DEF StagingInv, StoreTypeOK
<1>3. backups \in Seq(Texts) /\ Len(backups) \in Nat /\ Len(backups) \in 1..(MaxBackups + 1) /\ Len(backups) < MaxBackups
  BY <1>1 DEF StagingInv, StoreTypeOK, RoomInv
<1>4. backups' \in Seq(Texts) /\ Len(backups') = Len(backups) + 1
  BY <1>1, <1>2, <1>3
<1>5. PICK rows, res, text : rows = settings /\ res = settings' /\ text = file
  OBVIOUS
<1>6. DOMAIN rows \subseteq SettingKeys /\ \A k \in DOMAIN rows : rows[k] \in RowType
  BY <1>5, RowsTyped
<1>7. DOMAIN res = DOMAIN rows /\ \A k \in DOMAIN rows : res[k] = Reset(rows[k])
  BY <1>1, <1>5
<1>8. \A k \in DOMAIN rows :
        /\ res[k] \in RowType /\ res[k].orphan = rows[k].orphan
        /\ RowCounted(rows[k]) => /\ RowCounted(res[k]) /\ (rows[k].active => res[k].disk = rows[k].staged)
                                  /\ (~rows[k].active => res[k].disk = Blank)
  BY <1>6, <1>7, ResetRow
<1>9. StoreTypeOK'
  BY <1>1, <1>4, <1>5, <1>6, <1>7, <1>8 DEF StagingInv, StoreTypeOK
<1>10. RoomInv'
  <2>1. MaxBackups \in Nat
    BY StagingAssumption
  <2> QED BY <1>1, <1>3, <1>4, <2>1 DEF RoomInv
<1>11. FlagTypeOK' /\ TurnInv'
  BY <1>1 DEF StagingInv, FlagTypeOK, TurnInv
<1>12. WorkInv'
  BY <1>1 DEF StagingInv, WorkInv, TurnInv
<1>13. CountInv'
  BY <1>1, <1>5, <1>7, <1>8 DEF StagingInv, CountInv
<1>14. DiskInv'
  <2> SUFFICES ASSUME ~raced, ~unscanned PROVE SaysOf(res, text)
    BY <1>1, <1>5 DEF DiskInv
  <2>1. \A k \in DOMAIN rows : RowCounted(rows[k])
    BY <1>5 DEF StagingInv, CountInv
  <2>2. text = Written(rows)
    BY <1>1, <1>5 DEF StagingInv, WorkInv
  <2>3. /\ DOMAIN text = {j \in DOMAIN rows : rows[j].active /\ ~rows[j].orphan}
        /\ \A k \in DOMAIN text : text[k] = rows[k].staged
    BY <2>2 DEF Written
  <2> QED BY <1>7, <1>8, <2>1, <2>3 DEF SaysOf
<1> QED BY <1>9, <1>10, <1>11, <1>12, <1>13, <1>14 DEF StagingInv

LEMMA BeginScanKeeps ==
  ASSUME StagingInv, NEW s \in Scanners, BeginScan(s)
  PROVE  StagingInv'
<1>1. /\ Idle /\ scans' = [scans EXCEPT ![s] = "reading"]
      /\ seenFile' = [seenFile EXCEPT ![s] = [text |-> file, truth |-> cfgTruth]]
      /\ UNCHANGED <<raced, file, settings, backups, saving, edit, cfgTruth, serving, unscanned, mishaps, changed>>
  BY DEF BeginScan
<1>2. s = "watch" \/ (s = "rollback" /\ scans["rollback"] = "recorded")
  BY DEF BeginScan, Scanners
<1>3. DOMAIN scans = Scanners /\ DOMAIN seenFile = Scanners /\ file \in Texts
  BY DEF StagingInv, StoreTypeOK
<1>4. /\ DOMAIN scans' = Scanners /\ scans'[s] = "reading" /\ \A t \in Scanners : t # s => scans'[t] = scans[t]
      /\ DOMAIN seenFile' = Scanners /\ seenFile'[s].text = file /\ \A t \in Scanners : t # s => seenFile'[t] = seenFile[t]
  BY <1>1, <1>3
<1>5. serving /\ saving = <<>> /\ \A t \in Scanners : scans[t] # "reading"
  BY <1>1 DEF Idle
<1>6. StoreTypeOK'
  BY <1>1, <1>2, <1>3, <1>4 DEF StagingInv, StoreTypeOK, Scanners
<1>7. FlagTypeOK' /\ CountInv'
  BY <1>1 DEF StagingInv, FlagTypeOK, CountInv
<1>8. RoomInv' /\ TurnInv'
  BY <1>1, <1>2, <1>4, <1>5 DEF StagingInv, RoomInv, TurnInv, Scanners
<1>9. WorkInv'
  BY <1>1, <1>4, <1>5 DEF StagingInv, WorkInv
<1>10. DiskInv'
  BY <1>1, <1>2, <1>4 DEF StagingInv, DiskInv, Scanners
<1> QED BY <1>6, <1>7, <1>8, <1>9, <1>10 DEF StagingInv

LEMMA FinishScanKeeps ==
  ASSUME StagingInv, NEW s \in Scanners, FinishScan(s)
  PROVE  StagingInv'
<1>1. /\ scans[s] = "reading" /\ scans' = [scans EXCEPT ![s] = "done"]
      /\ unscanned' = (unscanned /\ file # seenFile[s].text)
      /\ UNCHANGED <<raced, file, backups, saving, edit, seenFile, cfgTruth, serving, mishaps, changed>>
  BY DEF FinishScan
<1>2. PICK rows, res, text : rows = settings /\ res = settings' /\ text = seenFile[s].text
  OBVIOUS
<1>3. PICK truth : res = Merge(rows, text, truth)
  BY <1>2 DEF FinishScan
<1>4. text \in Texts /\ DOMAIN scans = Scanners
  BY <1>1, <1>2 DEF StagingInv, StoreTypeOK
<1>5. DOMAIN scans' = Scanners /\ scans'[s] = "done" /\ \A t \in Scanners : t # s => scans'[t] = scans[t]
  BY <1>1, <1>4
<1>6. DOMAIN rows \subseteq SettingKeys /\ \A k \in DOMAIN rows : rows[k] \in RowType
  BY <1>2, RowsTyped
<1>7. /\ DOMAIN res \subseteq SettingKeys /\ \A k \in DOMAIN res : res[k] \in RowType
      /\ SaysOf(res, text)
      /\ (\A k \in DOMAIN rows : RowCounted(rows[k])) => \A k \in DOMAIN res : RowCounted(res[k])
  BY <1>3, <1>4, <1>6, MergeSays
<1>8. saving = <<>> /\ \A t \in Scanners : t # s => scans[t] # "reading"
  BY <1>1 DEF StagingInv, TurnInv, Scanners
<1>9. StoreTypeOK'
  BY <1>1, <1>2, <1>5, <1>7 DEF StagingInv, StoreTypeOK, Scanners
<1>10. FlagTypeOK'
  <2>1. (unscanned /\ file # seenFile[s].text) \in BOOLEAN
    BY Zenon
  <2> QED BY <1>1, <2>1, Zenon DEF StagingInv, FlagTypeOK
<1>11. RoomInv' /\ TurnInv'
  BY <1>1, <1>5, <1>8 DEF StagingInv, RoomInv, TurnInv, Scanners
<1>12. WorkInv'
  BY <1>1, <1>5, <1>8 DEF WorkInv
<1>13. CountInv'
  BY <1>1, <1>2, <1>7 DEF StagingInv, CountInv
<1>14. DiskInv'
  <2>1. CASE scans["rollback"] = "copied"
    <3>1. scans'["rollback"] = "copied"
      BY <1>1, <1>5, <2>1 DEF Scanners
    <3> QED BY <3>1 DEF DiskInv
  <2>2. CASE unscanned \/ file = text
    BY <1>1, <1>2, <1>7, <2>2 DEF DiskInv
  <2> QED BY <1>1, <1>2, <2>1, <2>2 DEF StagingInv, WorkInv
<1> QED BY <1>9, <1>10, <1>11, <1>12, <1>13, <1>14 DEF StagingInv

LEMMA EndScanKeeps ==
  ASSUME StagingInv, NEW s \in Scanners, EndScan(s)
  PROVE  StagingInv'
<1>1. /\ scans[s] = "done" /\ scans' = [scans EXCEPT ![s] = "idle"]
      /\ seenFile' = [seenFile EXCEPT ![s] = [text |-> <<>>, truth |-> FALSE]] /\ cfgTruth' = FALSE
      /\ UNCHANGED <<raced, file, settings, backups, saving, edit, serving, unscanned, mishaps, changed>>
  BY DEF EndScan
<1>2. DOMAIN scans = Scanners /\ DOMAIN seenFile = Scanners
  BY DEF StagingInv, StoreTypeOK
<1>3. /\ DOMAIN scans' = Scanners /\ scans'[s] = "idle" /\ \A t \in Scanners : t # s => scans'[t] = scans[t]
      /\ DOMAIN seenFile' = Scanners /\ \A t \in Scanners : t # s => seenFile'[t] = seenFile[t]
  BY <1>1, <1>2
<1>4. StoreTypeOK'
  BY <1>1, <1>3 DEF StagingInv, StoreTypeOK, Scanners
<1>5. FlagTypeOK' /\ CountInv'
  BY <1>1 DEF StagingInv, FlagTypeOK, CountInv
<1>6. RoomInv' /\ TurnInv'
  BY <1>1, <1>3 DEF StagingInv, RoomInv, TurnInv, Scanners
<1>7. WorkInv'
  BY <1>1, <1>3 DEF StagingInv, WorkInv, Written
<1>8. DiskInv'
  BY <1>1, <1>3 DEF StagingInv, DiskInv, Scanners
<1> QED BY <1>4, <1>5, <1>6, <1>7, <1>8 DEF StagingInv

LEMMA RollbackCopiesKeeps ==
  ASSUME StagingInv, RollbackCopies
  PROVE  StagingInv'
<1>1. /\ serving /\ saving = <<>> /\ Len(backups) < MaxBackups /\ scans["rollback"] = "idle"
      /\ scans' = [scans EXCEPT !["rollback"] = "copied"]
      /\ seenFile' = [seenFile EXCEPT !["rollback"] = [text |-> file, truth |-> FALSE]]
      /\ UNCHANGED <<raced, settings, backups, saving, edit, cfgTruth, serving, unscanned, mishaps, changed>>
  BY DEF RollbackCopies
<1>2. DOMAIN scans = Scanners /\ DOMAIN seenFile = Scanners /\ file \in Texts /\ backups \in Seq(Texts)
  BY DEF StagingInv, StoreTypeOK
<1>3. file' \in Texts
  BY <1>2 DEF RollbackCopies
<1>4. DOMAIN scans' = Scanners /\ scans'["rollback"] = "copied" /\ scans'["watch"] = scans["watch"]
  BY <1>1, <1>2 DEF Scanners
<1>5. DOMAIN seenFile' = Scanners /\ seenFile'["rollback"].text = file
  BY <1>1, <1>2 DEF Scanners
<1>6. StoreTypeOK'
  <2>1. seenFile'["watch"] = seenFile["watch"]
    BY <1>1, <1>2 DEF Scanners
  <2> QED BY <1>1, <1>2, <1>3, <1>4, <1>5, <2>1 DEF StagingInv, StoreTypeOK, Scanners
<1>7. FlagTypeOK' /\ CountInv'
  BY <1>1 DEF StagingInv, FlagTypeOK, CountInv
<1>8. RoomInv'
  <2>1. MaxBackups \in Nat /\ Len(backups) \in 1..(MaxBackups + 1)
    BY StagingAssumption DEF StagingInv, RoomInv
  <2> QED BY <1>1, <2>1 DEF RoomInv
<1>9. TurnInv' /\ WorkInv' /\ DiskInv'
  BY <1>1, <1>4 DEF StagingInv, TurnInv, WorkInv, DiskInv, Scanners
<1> QED BY <1>6, <1>7, <1>8, <1>9 DEF StagingInv

LEMMA RollbackRecordsKeeps ==
  ASSUME StagingInv, RollbackRecords
  PROVE  StagingInv'
<1>1. /\ Idle /\ scans["rollback"] = "copied" /\ scans' = [scans EXCEPT !["rollback"] = "recorded"]
      /\ backups' = Append(backups, seenFile["rollback"].text) /\ cfgTruth' = TRUE
      /\ UNCHANGED <<raced, file, settings, saving, edit, seenFile, serving, unscanned, mishaps, changed>>
  BY DEF RollbackRecords, RollbackTruth
<1>2. /\ DOMAIN scans = Scanners /\ backups \in Seq(Texts) /\ seenFile["rollback"].text \in Texts
      /\ Len(backups) \in 1..(MaxBackups + 1) /\ Len(backups) <= MaxBackups
  BY <1>1 DEF StagingInv, StoreTypeOK, RoomInv, Scanners
<1>3. backups' \in Seq(Texts) /\ Len(backups') = Len(backups) + 1
  BY <1>1, <1>2
<1>4. DOMAIN scans' = Scanners /\ scans'["rollback"] = "recorded" /\ scans'["watch"] = scans["watch"]
  BY <1>1, <1>2 DEF Scanners
<1>5. serving /\ saving = <<>> /\ \A t \in Scanners : scans[t] # "reading"
  BY <1>1 DEF Idle
<1>6. StoreTypeOK'
  BY <1>1, <1>3, <1>4 DEF StagingInv, StoreTypeOK, Scanners
<1>7. FlagTypeOK' /\ CountInv'
  BY <1>1 DEF StagingInv, FlagTypeOK, CountInv
<1>8. RoomInv'
  <2>1. MaxBackups \in Nat
    BY StagingAssumption
  <2> QED BY <1>1, <1>2, <1>3, <1>4, <1>5, <2>1 DEF RoomInv
<1>9. TurnInv' /\ WorkInv' /\ DiskInv'
  BY <1>1, <1>4, <1>5 DEF StagingInv, TurnInv, WorkInv, DiskInv, Scanners
<1> QED BY <1>6, <1>7, <1>8, <1>9 DEF StagingInv

LEMMA HandEditKeeps ==
  ASSUME StagingInv, HandEdit
  PROVE  StagingInv'
<1>1. /\ mishaps < Mishaps /\ mishaps' = mishaps + 1 /\ unscanned' = TRUE
      /\ UNCHANGED <<raced, settings, backups, saving, edit, scans, seenFile, cfgTruth, serving, changed>>
  BY DEF HandEdit
<1>2. PICK k \in SettingKeys, v \in SettingValues : file' = [j \in DOMAIN file \cup {k} |-> IF j = k THEN v ELSE file[j]]
  BY DEF HandEdit
<1>3. file' \in Texts
  <2>1. PICK text, S : text = file' /\ S = DOMAIN file \cup {k}
    OBVIOUS
  <2>2. file \in Texts
    BY DEF StagingInv, StoreTypeOK
  <2>3. DOMAIN file \subseteq SettingKeys /\ \A j \in DOMAIN file : file[j] \in SettingTexts
    BY <2>2, TextSaid
  <2>4. S \subseteq SettingKeys /\ \A j \in S : text[j] \in SettingTexts
    BY <1>2, <2>1, <2>3 DEF SettingTexts
  <2>5. text = [j \in S |-> text[j]]
    BY <1>2, <2>1
  <2> QED BY <2>1, <2>4, <2>5, TextFrom
<1>4. StoreTypeOK'
  BY <1>1, <1>3, StagingAssumption DEF StagingInv, StoreTypeOK
<1>5. FlagTypeOK' /\ RoomInv' /\ TurnInv' /\ CountInv'
  BY <1>1 DEF StagingInv, FlagTypeOK, RoomInv, TurnInv, CountInv
<1>6. WorkInv' /\ DiskInv'
  BY <1>1 DEF WorkInv, DiskInv
<1> QED BY <1>4, <1>5, <1>6 DEF StagingInv

LEMMA ReloadArchivesKeeps ==
  ASSUME StagingInv, ReloadArchives
  PROVE  StagingInv'
<1>1. /\ Idle /\ Len(backups) < MaxBackups /\ backups' = Append(backups, file)
      /\ UNCHANGED <<raced, file, settings, saving, edit, scans, seenFile, cfgTruth, serving, unscanned, mishaps, changed>>
  BY DEF ReloadArchives
<1>2. backups \in Seq(Texts) /\ file \in Texts /\ Len(backups) \in 1..(MaxBackups + 1) /\ saving = <<>>
  BY <1>1 DEF StagingInv, StoreTypeOK, RoomInv, Idle
<1>3. backups' \in Seq(Texts) /\ Len(backups') = Len(backups) + 1
  BY <1>1, <1>2
<1>4. StoreTypeOK'
  BY <1>1, <1>3 DEF StagingInv, StoreTypeOK
<1>5. RoomInv'
  <2>1. MaxBackups \in Nat
    BY StagingAssumption
  <2> QED BY <1>1, <1>2, <1>3, <2>1 DEF RoomInv
<1>6. FlagTypeOK' /\ TurnInv' /\ CountInv'
  BY <1>1 DEF StagingInv, FlagTypeOK, TurnInv, CountInv
<1>7. WorkInv' /\ DiskInv'
  BY <1>1 DEF StagingInv, WorkInv, Written, DiskInv
<1> QED BY <1>4, <1>5, <1>6, <1>7 DEF StagingInv

LEMMA CrashKeeps ==
  ASSUME StagingInv, Crash
  PROVE  StagingInv'
<1>1. /\ mishaps < Mishaps /\ mishaps' = mishaps + 1
      /\ serving' = FALSE /\ saving' = <<>> /\ edit' = NoEdit /\ cfgTruth' = FALSE
      /\ scans' = [s \in Scanners |-> "idle"] /\ seenFile' = [s \in Scanners |-> [text |-> <<>>, truth |-> FALSE]]
      /\ UNCHANGED <<raced, file, settings, backups, unscanned, changed>>
  BY DEF Crash
<1>2. /\ DOMAIN scans' = Scanners /\ DOMAIN seenFile' = Scanners /\ \A s \in Scanners : scans'[s] = "idle"
      /\ "watch" \in Scanners /\ "rollback" \in Scanners
  BY <1>1 DEF Scanners
<1>3. StoreTypeOK'
  BY <1>1, <1>2, StagingAssumption DEF StagingInv, StoreTypeOK
<1>4. FlagTypeOK' /\ CountInv'
  BY <1>1 DEF StagingInv, FlagTypeOK, CountInv
<1>5. RoomInv' /\ TurnInv'
  BY <1>1, <1>2 DEF StagingInv, RoomInv, TurnInv
<1>6. WorkInv' /\ DiskInv'
  BY <1>1, <1>2 DEF WorkInv, DiskInv
<1> QED BY <1>3, <1>4, <1>5, <1>6 DEF StagingInv

LEMMA RestartKeeps ==
  ASSUME StagingInv, Restart
  PROVE  StagingInv'
<1>1. /\ ~serving /\ serving' = TRUE /\ unscanned' = FALSE
      /\ UNCHANGED <<raced, file, backups, saving, edit, scans, seenFile, cfgTruth, mishaps, changed>>
  BY DEF Restart
<1>2. PICK rows, res, text, truth : rows = settings /\ res = settings' /\ text = file /\ truth = StartupTruth
  OBVIOUS
<1>3. res = Merge(rows, text, truth) /\ text \in Texts
  BY <1>2 DEF Restart, StagingInv, StoreTypeOK
<1>4. DOMAIN rows \subseteq SettingKeys /\ \A k \in DOMAIN rows : rows[k] \in RowType
  BY <1>2, RowsTyped
<1>5. /\ DOMAIN res \subseteq SettingKeys /\ \A k \in DOMAIN res : res[k] \in RowType
      /\ SaysOf(res, text)
      /\ (\A k \in DOMAIN rows : RowCounted(rows[k])) => \A k \in DOMAIN res : RowCounted(res[k])
  BY <1>3, <1>4, MergeSays
<1>6. saving = <<>> /\ \A s \in Scanners : scans[s] = "idle"
  BY <1>1 DEF StagingInv, TurnInv
<1>7. StoreTypeOK'
  BY <1>1, <1>2, <1>5 DEF StagingInv, StoreTypeOK
<1>8. FlagTypeOK' /\ RoomInv' /\ TurnInv'
  BY <1>1, <1>6 DEF StagingInv, FlagTypeOK, RoomInv, TurnInv
<1>9. WorkInv'
  BY <1>1, <1>6 DEF WorkInv
<1>10. CountInv' /\ DiskInv'
  BY <1>1, <1>2, <1>5 DEF StagingInv, CountInv, DiskInv
<1> QED BY <1>7, <1>8, <1>9, <1>10 DEF StagingInv

LEMMA StagingStart ==
  ASSUME StagingInit
  PROVE  StagingInv
<1>1. file \in Texts
  <2>1. PICK text, S : text = file /\ S = Committed
    OBVIOUS
  <2>2. S \subseteq SettingKeys /\ \A k \in S : text[k] \in SettingTexts
    BY <2>1, StagingAssumption DEF StagingInit, SettingTexts
  <2>3. text = [k \in S |-> text[k]]
    BY <2>1 DEF StagingInit
  <2> QED BY <2>1, <2>2, <2>3, TextFrom
<1>2. PICK rows, res, text, truth : rows = <<>> /\ res = settings /\ text = file /\ truth = {}
  OBVIOUS
<1>3. res = Merge(rows, text, truth)
  BY <1>2 DEF StagingInit
<1>4. DOMAIN rows = {}
  BY <1>2
<1>5. /\ DOMAIN res \subseteq SettingKeys /\ \A k \in DOMAIN res : res[k] \in RowType
      /\ SaysOf(res, text) /\ \A k \in DOMAIN res : RowCounted(res[k])
  BY <1>1, <1>2, <1>3, <1>4, MergeSays
<1>6. /\ backups = <<file>> /\ saving = <<>> /\ edit = NoEdit /\ scans = [s \in Scanners |-> "idle"] /\ DOMAIN seenFile = Scanners
      /\ cfgTruth = FALSE /\ serving = TRUE /\ unscanned = FALSE /\ raced = FALSE /\ mishaps = 0 /\ changed = 0
  BY DEF StagingInit
<1>7. backups \in Seq(Texts) /\ Len(backups) = 1
  BY <1>1, <1>6
<1>8. DOMAIN scans = Scanners /\ (\A s \in Scanners : scans[s] = "idle") /\ "watch" \in Scanners /\ "rollback" \in Scanners
  BY <1>6 DEF Scanners
<1>9. StoreTypeOK
  BY <1>1, <1>2, <1>5, <1>6, <1>7, <1>8, StagingAssumption DEF StoreTypeOK
<1>10. FlagTypeOK /\ RoomInv /\ TurnInv /\ WorkInv
  <2>1. FlagTypeOK
    BY <1>6 DEF FlagTypeOK
  <2>2. RoomInv
    BY <1>6, <1>7, <1>8, StagingAssumption DEF RoomInv
  <2>3. TurnInv
    BY <1>6, <1>8 DEF TurnInv
  <2>4. WorkInv
    BY <1>6, <1>8 DEF WorkInv
  <2> QED BY <2>1, <2>2, <2>3, <2>4
<1>11. CountInv /\ DiskInv
  BY <1>2, <1>5 DEF CountInv, DiskInv
<1> QED BY <1>9, <1>10, <1>11 DEF StagingInv

LEMMA StagingStep ==
  ASSUME StagingInv, [StagingNext]_stagingVars
  PROVE  StagingInv'
<1>1. CASE ChangeSetting
  BY <1>1, ChangeSettingKeeps
<1>2. CASE ReadSetting
  BY <1>2, ReadSettingKeeps
<1>3. CASE WriteSetting
  BY <1>3, WriteSettingKeeps
<1>4. CASE CreateKey
  BY <1>4, CreateKeyKeeps
<1>5. CASE PreviewTransport \/ DeleteBridge \/ Discard
  BY <1>5, InPlaceKeeps
<1>6. CASE DeleteOrphan
  BY <1>6, DeleteOrphanKeeps
<1>7. CASE CommitWrites
  BY <1>7, CommitWritesText
<1>8. CASE CommitEnds
  BY <1>8, CommitEndsKeeps
<1>9. CASE \E s \in Scanners : BeginScan(s) \/ FinishScan(s) \/ EndScan(s)
  BY <1>9, BeginScanKeeps, FinishScanKeeps, EndScanKeeps
<1>10. CASE RollbackCopies
  BY <1>10, RollbackCopiesKeeps
<1>11. CASE RollbackRecords
  BY <1>11, RollbackRecordsKeeps
<1>12. CASE HandEdit
  BY <1>12, HandEditKeeps
<1>13. CASE ReloadArchives
  BY <1>13, ReloadArchivesKeeps
<1>14. CASE Crash
  BY <1>14, CrashKeeps
<1>15. CASE Restart
  BY <1>15, RestartKeeps
<1>16. CASE UNCHANGED stagingVars
  <2>1. UNCHANGED <<file, settings, backups, saving, edit, scans, seenFile, cfgTruth, serving, unscanned, raced, mishaps, changed>>
    BY <1>16 DEF stagingVars
  <2>2. StoreTypeOK' /\ FlagTypeOK' /\ RoomInv' /\ TurnInv'
    BY <2>1 DEF StagingInv, StoreTypeOK, FlagTypeOK, RoomInv, TurnInv
  <2>3. WorkInv' /\ CountInv' /\ DiskInv'
    BY <2>1 DEF StagingInv, WorkInv, Written, CountInv, DiskInv
  <2> QED BY <2>2, <2>3 DEF StagingInv
<1> QED BY <1>1, <1>2, <1>3, <1>4, <1>5, <1>6, <1>7, <1>8, <1>9, <1>10, <1>11, <1>12, <1>13, <1>14, <1>15, <1>16
        DEF StagingNext

\* The settings of the web server stay true: what is staged and differs from disk is counted as
\* pending, and between operations the disk column is what config.cfg says, through edits, commits
\* that are cut short, discards, rollbacks, scans, crashes and the restart's scan (update_setting(),
\* commit_all(), discard_changes(), rollback_to(), Scanner.run()). Edits by hand and requests that
\* raced another writer are excepted until the next scan, or for good.
THEOREM StagingStaysTrue == StagingSpec => [](StagingTypeOK /\ StagingIsTrue)
<1>1. StagingInit => StagingInv
  BY StagingStart
<1>2. StagingInv /\ [StagingNext]_stagingVars => StagingInv'
  BY StagingStep
<1>3. StagingInv => StagingTypeOK /\ StagingIsTrue
  <2> SUFFICES ASSUME StagingInv PROVE StagingTypeOK /\ StagingIsTrue
    OBVIOUS
  <2>1. DOMAIN file \subseteq SettingKeys /\ \A k \in DOMAIN file : file[k] \in SettingValues \cup {Blank}
    <3>1. file \in Texts
      BY DEF StagingInv, StoreTypeOK
    <3> QED BY <3>1, TextSaid DEF SettingTexts
  <2>2. {serving, cfgTruth, unscanned, raced} \subseteq BOOLEAN
    BY DEF StagingInv, FlagTypeOK
  <2>3. StagingTypeOK
    BY <2>1, <2>2 DEF StagingTypeOK, StagingInv, StoreTypeOK, RoomInv, TurnInv
  <2>4. PendingIsCounted
    BY DEF PendingIsCounted, StagingInv, CountInv, RowCounted
  <2>5. DiskColumnIsTrue
    BY DEF DiskColumnIsTrue, StagingInv, DiskInv, SaysOf, Idle
  <2> QED BY <2>3, <2>4, <2>5 DEF StagingIsTrue
<1> QED BY <1>1, <1>2, <1>3, PTL DEF StagingSpec

\* Where no scan runs beside a rollback's, that one takes config.cfg for the truth.
TruthInv ==
    /\ scans["watch"] = "idle" \/ scans["rollback"] = "idle"
    /\ scans["rollback"] \in {"recorded", "reading"} => cfgTruth = TRUE
    /\ scans["rollback"] = "reading" => seenFile["rollback"].truth = TRUE

LEMMA TruthStep ==
  ASSUME StagingInv, TruthInv, ~ScansOverlap, [StagingNext]_stagingVars
  PROVE  TruthInv'
<1>1. DOMAIN scans = Scanners /\ DOMAIN seenFile = Scanners /\ "rollback" \in Scanners
  BY DEF StagingInv, StoreTypeOK, Scanners
<1>2. scans["watch"] = "idle" \/ scans["rollback"] = "idle"
  BY DEF TruthInv
<1>3. ASSUME NEW s \in Scanners, BeginScan(s) PROVE TruthInv'
  BY <1>1, <1>2, <1>3 DEF BeginScan, TruthInv, Scanners
<1>4. ASSUME NEW s \in Scanners, FinishScan(s) PROVE TruthInv'
  BY <1>1, <1>2, <1>4 DEF FinishScan, TruthInv, Scanners
<1>5. ASSUME NEW s \in Scanners, EndScan(s) PROVE TruthInv'
  BY <1>1, <1>2, <1>5 DEF EndScan, TruthInv, Scanners
<1>6. CASE RollbackCopies
  BY <1>1, <1>6 DEF RollbackCopies, TruthInv, Scanners
<1>7. CASE RollbackRecords
  BY <1>1, <1>7 DEF RollbackRecords, RollbackTruth, TruthInv, Scanners
<1>8. CASE Crash
  <2>1. scans'["rollback"] = "idle" /\ scans'["watch"] = "idle"
    BY <1>8 DEF Crash, Scanners
  <2> QED BY <2>1 DEF TruthInv
<1>9. CASE UNCHANGED <<scans, seenFile, cfgTruth>>
  BY <1>9, SMTT(30) DEF TruthInv
<1>10. CASE ChangeSetting \/ ReadSetting \/ WriteSetting \/ CreateKey \/ PreviewTransport \/ DeleteBridge \/ DeleteOrphan
            \/ Discard \/ CommitWrites \/ CommitEnds \/ HandEdit \/ ReloadArchives \/ Restart \/ UNCHANGED stagingVars
  BY <1>9, <1>10 DEF ChangeSetting, ReadSetting, WriteSetting, CreateKey, PreviewTransport, DeleteBridge, DeleteOrphan,
                     Discard, CommitWrites, CommitEnds, HandEdit, ReloadArchives, Restart, stagingVars
<1> QED BY <1>3, <1>4, <1>5, <1>6, <1>7, <1>8, <1>10 DEF StagingNext

\* A rollback leaves no staged edit of a setting of the file it restored, whatever was staged and
\* whatever requests and commits came between its steps, while the watcher's scans keep off it
\* (do_rollback() and its set_cfg_is_truth(True)).
THEOREM RollbackIsClean == ~ScansOverlap => (StagingSpec => RollbackLeavesNoEdits)
<1> SUFFICES ASSUME ~ScansOverlap PROVE StagingSpec => RollbackLeavesNoEdits
  OBVIOUS
<1>1. StagingInit => StagingInv /\ TruthInv
  BY StagingStart DEF StagingInit, TruthInv, Scanners
<1>2. StagingInv /\ TruthInv /\ [StagingNext]_stagingVars => (StagingInv /\ TruthInv)'
  BY StagingStep, TruthStep
<1> DEFINE Clean == scans["rollback"] = "reading" /\ scans'["rollback"] = "done" =>
                      \A k \in DOMAIN seenFile["rollback"].text :
                        ~settings'[k].dirty /\ settings'[k].staged = seenFile["rollback"].text[k]
<1>3. StagingInv /\ TruthInv /\ [StagingNext]_stagingVars => [Clean]_stagingVars
  <2> SUFFICES ASSUME StagingInv, TruthInv, StagingNext, scans["rollback"] = "reading", scans'["rollback"] = "done",
                      NEW k \in DOMAIN seenFile["rollback"].text
               PROVE  ~settings'[k].dirty /\ settings'[k].staged = seenFile["rollback"].text[k]
    OBVIOUS
  <2>1. DOMAIN scans = Scanners /\ seenFile["rollback"].text \in Texts
    BY DEF StagingInv, StoreTypeOK, Scanners
  <2>2. FinishScan("rollback")
    <3>1. \A s \in Scanners : BeginScan(s) \/ EndScan(s) \/ (FinishScan(s) /\ s # "rollback") => scans'["rollback"] # "done" \/ scans'["rollback"] = scans["rollback"]
      BY <2>1 DEF BeginScan, EndScan, FinishScan, Scanners
    <3>2. RollbackCopies \/ RollbackRecords \/ Crash => scans'["rollback"] # "done"
      BY <2>1, SMTT(30) DEF RollbackCopies, RollbackRecords, Crash, Scanners
    <3>3. (\/ ChangeSetting \/ ReadSetting \/ WriteSetting \/ CreateKey \/ PreviewTransport \/ DeleteBridge \/ DeleteOrphan
           \/ Discard \/ CommitWrites \/ CommitEnds \/ HandEdit \/ ReloadArchives \/ Restart) => scans' = scans
      BY DEF ChangeSetting, ReadSetting, WriteSetting, CreateKey, PreviewTransport, DeleteBridge, DeleteOrphan,
             Discard, CommitWrites, CommitEnds, HandEdit, ReloadArchives, Restart
    <3>4. PICK s \in Scanners : BeginScan(s) \/ FinishScan(s) \/ EndScan(s)
      BY <3>2, <3>3 DEF StagingNext
    <3> QED BY <3>1, <3>4
  <2>3. PICK rows, text : rows = settings /\ text = seenFile["rollback"].text
    OBVIOUS
  <2>4. TruthFor("rollback") = {SettingKeys}
    BY DEF TruthFor, TruthInv
  <2>5. settings' = Merge(rows, text, SettingKeys)
    BY <2>2, <2>3, <2>4 DEF FinishScan
  <2>6. k \in SettingKeys /\ k \in DOMAIN text /\ text[k] \in SettingTexts
    BY <2>1, <2>3, TextSaid
  <2>7. settings'[k] = Upsert(rows, k, text[k], TRUE, k \in SettingKeys)
    BY <2>5, <2>6 DEF Merge, KnownKeys
  <2>8. settings'[k] = Row(text[k], text[k], TRUE)
    BY <2>6, <2>7 DEF Upsert
  <2>9. PICK row : row = Row(text[k], text[k], TRUE)
    OBVIOUS
  <2>10. row.dirty = FALSE /\ row.staged = text[k]
    BY <2>9 DEF Row
  <2> QED BY <2>3, <2>8, <2>9, <2>10
<1> QED BY <1>1, <1>2, <1>3, PTL DEF StagingSpec, RollbackLeavesNoEdits

----------------------------------------------------------------------------
(* Edits of the databases. *)

\* One request commits at a time.
OneCommitter == \A c, d \in Committers : c = d

CommitState ==
    {Resting} \cup [at : {"next"}, store : 2..4]
    \cup [at : {"planned", "apply"}, store : {1}, plan : SUBSET Columns]
    \cup [at : {"planned", "apply"}, store : {2, 3}, plan : Seq(Edits) \ {<<>>}]
    \cup [at : {"narrow"}, store : {2}, plan : Seq(Edits) \ {<<>>}]

EditsShape ==
    /\ staged \in [Stores -> (SUBSET Columns) \cup Seq(Edits)] /\ staged["columns"] \subseteq Columns
    /\ \A s \in EditStores : staged[s] \in Seq(Edits)
    /\ finished \in [EditStores -> Seq(Edits)] /\ commit \in [Committers -> CommitState]
    /\ holder \in [Stores -> {<<>>} \cup {<<c>> : c \in Committers}] /\ changes \in 0..MaxStaged
    /\ wideColumns \in (SUBSET Columns) \ {{}} /\ rollups \in BOOLEAN
    /\ range \in [Tables -> 0..MaxStaged] /\ unstaged \subseteq EditIds

LocksHeld == \A s \in Stores, c \in Committers : holder[s] = <<c>> <=> Applies(c, s)

\* The plan of a commit under way over a store of edits.
PlannedFor(c, s) == commit[c].at \in {"planned", "apply", "narrow"} /\ Order[commit[c].store] = s
IdsIn(queued) == {queued[i].id : i \in DOMAIN queued}
Ascending(queued) == \A i, j \in DOMAIN queued : i < j => queued[i].id < queued[j].id
Before(these, those) == \A i \in DOMAIN these, j \in DOMAIN those : these[i].id < those[j].id
Upto(queued, n) == \A i \in DOMAIN queued : queued[i].id <= n

\* Edits are staged, planned and finished in the order of their numbers. What is staged is
\* planned or came after the plan, and what is planned is staged or was taken back.
Ordered(waiting, did, n) ==
    Ascending(waiting) /\ Ascending(did) /\ Before(did, waiting) /\ Upto(waiting, n) /\ Upto(did, n)
Planned(plan, waiting, did, n, gone) ==
    /\ Ascending(plan) /\ Before(did, plan) /\ Upto(plan, n)
    /\ \A i \in DOMAIN waiting :
          waiting[i].id \in IdsIn(plan) \/ \A j \in DOMAIN plan : plan[j].id < waiting[i].id
    /\ IdsIn(plan) \subseteq IdsIn(waiting) \cup gone

OrderOfEdits ==
    \A s \in EditStores :
        /\ Ordered(staged[s], finished[s], changes)
        /\ \A c \in Committers :
              PlannedFor(c, s) => Planned(commit[c].plan, staged[s], finished[s], changes, unstaged)

\* Between the wide transaction and its narrow companion.
HalfDone ==
    \A c \in Committers : commit[c].at = "narrow" =>
        Head(commit[c].plan).narrow /\ range["wide"] = Head(commit[c].plan).id

EditsInv == EditsShape /\ LocksHeld /\ OrderOfEdits /\ HalfDone /\ EditsReachTheirTables

----------------------------------------------------------------------------
LEMMA RemoveAtIs ==
  ASSUME NEW T, NEW list \in Seq(T), NEW k \in DOMAIN list
  PROVE  /\ RemoveAt(list, k) \in Seq(T) /\ Len(RemoveAt(list, k)) = Len(list) - 1
         /\ \A i \in 1..(Len(list) - 1) : RemoveAt(list, k)[i] = list[IF i < k THEN i ELSE i + 1]
<1> DEFINE first == SubSeq(list, 1, k - 1)
           rest == SubSeq(list, k + 1, Len(list))
<1>1. Len(list) \in Nat /\ k \in 1..Len(list)
  OBVIOUS
<1>2. /\ first \in Seq(T) /\ Len(first) = k - 1
      /\ \A i \in 1..(k - 1) : first[i] = list[i]
  <2>1. k - 1 \in Int /\ \A i \in 1..(k - 1) : list[i] \in T
    BY <1>1
  <2>2. Len(first) = (IF 1 <= k - 1 THEN k - 1 - 1 + 1 ELSE 0) /\ first \in Seq(T) /\ \A i \in 1..(k - 1 - 1 + 1) : first[i] = list[1 + i - 1]
    BY <2>1, SubSeqProperties
  <2> QED BY <1>1, <2>2
<1>3. /\ rest \in Seq(T) /\ Len(rest) = Len(list) - k
      /\ \A i \in 1..(Len(list) - k) : rest[i] = list[k + i]
  <2>1. k + 1 \in Int /\ Len(list) \in Int /\ \A i \in (k + 1)..Len(list) : list[i] \in T
    BY <1>1
  <2>2. /\ Len(rest) = (IF k + 1 <= Len(list) THEN Len(list) - (k + 1) + 1 ELSE 0) /\ rest \in Seq(T)
        /\ \A i \in 1..(Len(list) - (k + 1) + 1) : rest[i] = list[(k + 1) + i - 1]
    BY <2>1, SubSeqProperties
  <2> QED BY <1>1, <2>2
<1>4. RemoveAt(list, k) = first \o rest
  BY DEF RemoveAt
<1>5. PICK whole : whole = first \o rest
  OBVIOUS
<1>6. /\ whole \in Seq(T) /\ Len(whole) = Len(list) - 1
      /\ \A i \in 1..(Len(list) - 1) : whole[i] = IF i <= k - 1 THEN first[i] ELSE rest[i - (k - 1)]
  <2>1. /\ whole \in Seq(T) /\ Len(whole) = Len(first) + Len(rest)
        /\ \A i \in 1..(Len(first) + Len(rest)) : whole[i] = IF i <= Len(first) THEN first[i] ELSE rest[i - Len(first)]
    BY <1>2, <1>3, <1>5, ConcatProperties
  <2>2. PICK p, q \in Nat : p = k - 1 /\ q = Len(list) - k
    BY <1>1
  <2>3. p + q = Len(list) - 1
    BY <1>1, <2>2
  <2>4. Len(first) = p /\ Len(rest) = q
    BY <1>2, <1>3, <2>2
  <2> HIDE DEF first, rest
  <2> QED BY <2>1, <2>2, <2>3, <2>4
<1>7. \A i \in 1..(Len(list) - 1) : whole[i] = list[IF i < k THEN i ELSE i + 1]
  <2> HIDE DEF first, rest
  <2> TAKE i \in 1..(Len(list) - 1)
  <2>1. whole[i] = IF i <= k - 1 THEN first[i] ELSE rest[i - (k - 1)]
    BY <1>6
  <2>2. CASE i < k
    <3>1. i \in 1..(k - 1) /\ i <= k - 1
      BY <1>1, <2>2
    <3>2. first[i] = list[i]
      BY <1>2, <3>1
    <3> QED BY <2>1, <2>2, <3>1, <3>2
  <2>3. CASE ~(i < k)
    <3>1. i - (k - 1) \in 1..(Len(list) - k)
      BY <1>1, <2>3
    <3>2. rest[i - (k - 1)] = list[k + (i - (k - 1))]
      BY <1>3, <3>1
    <3> QED BY <1>1, <2>1, <2>3, <3>2
  <2> QED BY <2>2, <2>3
<1>8. RemoveAt(list, k) = whole
  BY <1>4, <1>5
<1> HIDE DEF first, rest
<1> QED BY <1>6, <1>7, <1>8

\* What is left when one entry goes: in order, all but that one.
LEMMA LeftInOrder ==
  ASSUME NEW list \in Seq(Edits), Ascending(list), NEW k \in DOMAIN list, NEW left, left = RemoveAt(list, k)
  PROVE  /\ left \in Seq(Edits) /\ Ascending(left)
         /\ \A i \in DOMAIN left : \E j \in DOMAIN list : left[i] = list[j] /\ j # k
         /\ \A j \in DOMAIN list : j # k => \E i \in DOMAIN left : left[i] = list[j]
<1>1. /\ left \in Seq(Edits) /\ Len(left) = Len(list) - 1
      /\ \A i \in 1..(Len(list) - 1) : left[i] = list[IF i < k THEN i ELSE i + 1]
  BY RemoveAtIs
<1>2. Len(list) \in Nat /\ DOMAIN list = 1..Len(list) /\ DOMAIN left = 1..(Len(list) - 1) /\ k \in 1..Len(list)
  BY <1>1
<1>3. \A i \in DOMAIN left : \E j \in DOMAIN list :
        left[i] = list[j] /\ j # k /\ j = (IF i < k THEN i ELSE i + 1)
  BY <1>1, <1>2
<1>4. ASSUME NEW i \in DOMAIN left, NEW j \in DOMAIN left, i < j
      PROVE  left[i].id < left[j].id
  <2>1. PICK p \in DOMAIN list : left[i] = list[p] /\ p = (IF i < k THEN i ELSE i + 1)
    BY <1>3
  <2>2. PICK q \in DOMAIN list : left[j] = list[q] /\ q = (IF j < k THEN j ELSE j + 1)
    BY <1>3
  <2>3. p < q
    BY <1>2, <1>4, <2>1, <2>2
  <2> QED BY <2>1, <2>2, <2>3 DEF Ascending
<1>5. \A j \in DOMAIN list : j # k => \E i \in DOMAIN left : i = (IF j < k THEN j ELSE j - 1) /\ left[i] = list[j]
  BY <1>1, <1>2
<1> QED BY <1>1, <1>3, <1>4, <1>5 DEF Ascending

LEMMA EditsApart ==
  ASSUME NEW list \in Seq(Edits), Ascending(list), NEW i \in DOMAIN list, NEW j \in DOMAIN list, list[i].id = list[j].id
  PROVE  i = j
<1>1. MaxStaged \in Nat
  BY AdminAssumption
<1>2. list[i] \in Edits /\ list[j] \in Edits /\ i \in Nat /\ j \in Nat
  OBVIOUS
<1>3. list[i].id \in Nat /\ list[j].id \in Nat
  BY <1>1, <1>2 DEF Edits, EditIds
<1> QED BY <1>2, <1>3 DEF Ascending

LEMMA PoppedIs ==
  ASSUME NEW list \in Seq(Edits), Ascending(list), NEW id
  PROVE  /\ Popped(list, id) \in Seq(Edits) /\ Ascending(Popped(list, id))
         /\ \A i \in DOMAIN Popped(list, id) :
               Popped(list, id)[i].id # id /\ \E j \in DOMAIN list : Popped(list, id)[i] = list[j]
         /\ \A j \in DOMAIN list : list[j].id # id => \E i \in DOMAIN Popped(list, id) : Popped(list, id)[i] = list[j]
<1> DEFINE at == {i \in DOMAIN list : list[i].id = id}
<1>1. CASE at = {}
  BY <1>1 DEF Popped
<1>2. CASE at # {}
  <2>1. PICK k \in at : k = CHOOSE i \in at : TRUE
    BY <1>2
  <2>2. Popped(list, id) = RemoveAt(list, k) /\ k \in DOMAIN list
    BY <1>2, <2>1 DEF Popped
  <2>3. \A j \in DOMAIN list : list[j].id = id => j = k
    BY <2>1, EditsApart
  <2>4. PICK left : left = RemoveAt(list, k)
    OBVIOUS
  <2>5. /\ left \in Seq(Edits) /\ Ascending(left)
        /\ \A i \in DOMAIN left : \E j \in DOMAIN list : left[i] = list[j] /\ j # k
        /\ \A j \in DOMAIN list : j # k => \E i \in DOMAIN left : left[i] = list[j]
    BY <2>2, <2>4, LeftInOrder
  <2>6. \A j \in DOMAIN list : list[j].id # id <=> j # k
    BY <2>1, <2>3
  <2>7. \A i \in DOMAIN left : left[i].id # id /\ \E j \in DOMAIN list : left[i] = list[j]
    BY <2>5, <2>6
  <2>8. \A j \in DOMAIN list : list[j].id # id => \E i \in DOMAIN left : left[i] = list[j]
    BY <2>5, <2>6
  <2>9. Popped(list, id) = left
    BY <2>2, <2>4
  <2> HIDE DEF at
  <2> QED BY <2>5, <2>7, <2>8, <2>9
<1> QED BY <1>1, <1>2

\* Numbers are numbers.
LEMMA IdsAreNumbers ==
  ASSUME NEW list \in Seq(Edits)
  PROVE  \A i \in DOMAIN list : list[i] \in Edits /\ list[i].id \in Nat /\ list[i].id \in EditIds
<1>1. MaxStaged \in Nat
  BY AdminAssumption
<1>2. \A i \in DOMAIN list : list[i] \in Edits
  OBVIOUS
<1> QED BY <1>1, <1>2 DEF Edits, EditIds

----------------------------------------------------------------------------
(* What the steps do to the order, for one store. *)

LEMMA OrderStays ==
  ASSUME NEW waiting \in Seq(Edits), NEW did \in Seq(Edits), NEW n \in Nat, NEW m \in Nat, n <= m
  PROVE  /\ Ordered(waiting, did, n) => Ordered(waiting, did, m)
         /\ \A plan \in Seq(Edits) : \A gone, more : Planned(plan, waiting, did, n, gone) /\ gone \subseteq more =>
               Planned(plan, waiting, did, m, more)
<1>1. ASSUME NEW list \in Seq(Edits), Upto(list, n)
      PROVE  Upto(list, m)
  BY <1>1, IdsAreNumbers DEF Upto
<1> QED BY <1>1 DEF Ordered, Planned

LEMMA OrderStaged ==
  ASSUME NEW waiting \in Seq(Edits), NEW did \in Seq(Edits), NEW n \in Nat, NEW e \in Edits, e.id = n + 1
  PROVE  /\ Ordered(waiting, did, n) => Ordered(Append(waiting, e), did, n + 1)
         /\ \A plan \in Seq(Edits) : \A gone : Planned(plan, waiting, did, n, gone) =>
               Planned(plan, Append(waiting, e), did, n + 1, gone)
<1> DEFINE now == Append(waiting, e)
<1>1. now \in Seq(Edits) /\ \A i \in DOMAIN now : now[i] = e \/ (i \in DOMAIN waiting /\ now[i] = waiting[i])
  OBVIOUS
<1>2. \A i \in DOMAIN waiting : i \in DOMAIN now /\ now[i] = waiting[i]
  OBVIOUS
<1>3. Ascending(waiting) /\ Upto(waiting, n) => Ascending(now)
  <2> SUFFICES ASSUME Ascending(waiting), Upto(waiting, n), NEW i \in DOMAIN now, NEW j \in DOMAIN now, i < j
               PROVE  now[i].id < now[j].id
    BY DEF Ascending
  <2>1. i \in DOMAIN waiting /\ now[i] = waiting[i] /\ waiting[i].id \in Nat
    BY IdsAreNumbers
  <2>2. CASE now[j] = e
    BY <2>1, <2>2 DEF Upto
  <2>3. CASE j \in DOMAIN waiting /\ now[j] = waiting[j]
    BY <2>1, <2>3 DEF Ascending
  <2> QED BY <1>1, <2>2, <2>3
<1>4. ASSUME NEW list \in Seq(Edits), Upto(list, n)
      PROVE  Upto(list, n + 1) /\ \A i \in DOMAIN list : list[i].id < e.id
  BY <1>4, IdsAreNumbers DEF Upto
<1>5. Upto(waiting, n) => Upto(now, n + 1)
  BY <1>1, <1>4 DEF Upto
<1>6. Before(did, waiting) /\ Upto(did, n) => Before(did, now)
  BY <1>1, <1>4 DEF Before
<1>7. Ordered(waiting, did, n) => Ordered(now, did, n + 1)
  BY <1>3, <1>4, <1>5, <1>6 DEF Ordered
<1>8. ASSUME NEW plan \in Seq(Edits), NEW gone, Planned(plan, waiting, did, n, gone)
      PROVE  Planned(plan, now, did, n + 1, gone)
  <2>1. IdsIn(waiting) \subseteq IdsIn(now)
    BY <1>2 DEF IdsIn
  <2>2. ASSUME NEW i \in DOMAIN now
        PROVE  now[i].id \in IdsIn(plan) \/ \A j \in DOMAIN plan : plan[j].id < now[i].id
    <3>1. CASE now[i] = e
      BY <1>4, <1>8, <3>1 DEF Planned
    <3>2. CASE i \in DOMAIN waiting /\ now[i] = waiting[i]
      BY <1>8, <3>2 DEF Planned
    <3> QED BY <1>1, <3>1, <3>2
  <2> QED BY <1>4, <1>8, <2>1, <2>2 DEF Planned
<1> QED BY <1>7, <1>8

LEMMA OrderTaken ==
  ASSUME NEW waiting \in Seq(Edits), NEW did \in Seq(Edits), NEW n \in Nat, Ordered(waiting, did, n),
         NEW left \in Seq(Edits), Ascending(left),
         \A i \in DOMAIN left : \E j \in DOMAIN waiting : left[i] = waiting[j]
  PROVE  /\ Ordered(left, did, n)
         /\ \A plan \in Seq(Edits) : \A gone, more :
               /\ Planned(plan, waiting, did, n, gone)
               /\ \A j \in DOMAIN waiting : waiting[j].id \in more \/ \E i \in DOMAIN left : left[i] = waiting[j]
               => Planned(plan, left, did, n, gone \cup more)
<1>1. Ordered(left, did, n)
  BY DEF Ordered, Before, Upto
<1>2. ASSUME NEW plan \in Seq(Edits), NEW gone, NEW more, Planned(plan, waiting, did, n, gone),
             \A j \in DOMAIN waiting : waiting[j].id \in more \/ \E i \in DOMAIN left : left[i] = waiting[j]
      PROVE  Planned(plan, left, did, n, gone \cup more)
  <2>1. IdsIn(waiting) \subseteq IdsIn(left) \cup more
    BY <1>2 DEF IdsIn
  <2>2. \A i \in DOMAIN left : left[i].id \in IdsIn(plan) \/ \A j \in DOMAIN plan : plan[j].id < left[i].id
    BY <1>2 DEF Planned
  <2> QED BY <1>2, <2>1, <2>2 DEF Planned
<1> QED BY <1>1, <1>2

LEMMA OrderPlanned ==
  ASSUME NEW waiting \in Seq(Edits), NEW did, NEW n, NEW gone, Ordered(waiting, did, n)
  PROVE  Planned(waiting, waiting, did, n, gone)
  BY DEF Ordered, Planned, IdsIn

LEMMA OrderDone ==
  ASSUME NEW waiting \in Seq(Edits), NEW did \in Seq(Edits), NEW n \in Nat, NEW plan \in Seq(Edits), NEW gone,
         plan # <<>>, Ordered(waiting, did, n), Planned(plan, waiting, did, n, gone),
         NEW left, left = Popped(waiting, Head(plan).id)
  PROVE  /\ Ordered(left, Append(did, Head(plan)), n)
         /\ Planned(Tail(plan), left, Append(did, Head(plan)), n, gone)
<1> DEFINE h == Head(plan)
           fin == Append(did, Head(plan))
           rest == Tail(plan)
<1>1. /\ 1 \in DOMAIN plan /\ h = plan[1] /\ h \in Edits /\ rest \in Seq(Edits) /\ fin \in Seq(Edits)
      /\ \A i \in DOMAIN rest : i + 1 \in DOMAIN plan /\ rest[i] = plan[i + 1] /\ 1 < i + 1
      /\ \A i \in DOMAIN plan : i = 1 \/ (i - 1 \in DOMAIN rest /\ rest[i - 1] = plan[i])
  OBVIOUS
<1>2. /\ left \in Seq(Edits) /\ Ascending(left)
      /\ \A i \in DOMAIN left : left[i].id # h.id /\ \E j \in DOMAIN waiting : left[i] = waiting[j]
      /\ \A j \in DOMAIN waiting : waiting[j].id # h.id => \E i \in DOMAIN left : left[i] = waiting[j]
  BY PoppedIs DEF Ordered
<1>3. \A i \in DOMAIN fin : fin[i] = h \/ (i \in DOMAIN did /\ fin[i] = did[i])
  BY <1>1
<1>4. Ascending(fin)
  <2> SUFFICES ASSUME NEW i \in DOMAIN fin, NEW j \in DOMAIN fin, i < j
               PROVE  fin[i].id < fin[j].id
    BY DEF Ascending
  <2>1. i \in DOMAIN did /\ fin[i] = did[i]
    BY <1>1
  <2>2. CASE fin[j] = h
    BY <1>1, <2>1, <2>2 DEF Planned, Before
  <2>3. CASE j \in DOMAIN did /\ fin[j] = did[j]
    BY <2>1, <2>3 DEF Ordered, Ascending
  <2> QED BY <1>3, <2>2, <2>3
<1>5. \A j \in DOMAIN rest : h.id < rest[j].id
  BY <1>1 DEF Planned, Ascending
<1>6. ASSUME NEW i \in DOMAIN left
      PROVE  h.id < left[i].id /\ (left[i].id \in IdsIn(rest) \/ \A j \in DOMAIN rest : rest[j].id < left[i].id)
  <2>1. PICK k \in DOMAIN waiting : left[i] = waiting[k] /\ waiting[k].id # h.id
    BY <1>2
  <2>2. CASE waiting[k].id \in IdsIn(plan)
    <3>1. PICK j \in DOMAIN plan : plan[j].id = waiting[k].id
      BY <2>2 DEF IdsIn
    <3>2. j - 1 \in DOMAIN rest /\ rest[j - 1].id = waiting[k].id
      BY <1>1, <2>1, <3>1
    <3> QED BY <1>5, <2>1, <3>2 DEF IdsIn
  <2>3. CASE \A j \in DOMAIN plan : plan[j].id < waiting[k].id
    BY <1>1, <2>1, <2>3
  <2> QED BY <2>2, <2>3 DEF Planned
<1>7. Ordered(left, fin, n)
  <2>1. Before(fin, left)
    BY <1>2, <1>3, <1>6 DEF Before, Ordered
  <2>2. Upto(fin, n)
    BY <1>1, <1>3 DEF Upto, Ordered, Planned
  <2>3. Upto(left, n)
    BY <1>2 DEF Upto, Ordered
  <2> QED BY <1>2, <1>4, <2>1, <2>2, <2>3 DEF Ordered
<1>8. Planned(rest, left, fin, n, gone)
  <2>1. Ascending(rest)
    BY <1>1 DEF Planned, Ascending
  <2>2. Before(fin, rest)
    BY <1>1, <1>3, <1>5 DEF Planned, Before
  <2>3. Upto(rest, n)
    BY <1>1 DEF Planned, Upto
  <2>4. IdsIn(rest) \subseteq IdsIn(left) \cup gone
    <3> SUFFICES ASSUME NEW j \in DOMAIN rest, rest[j].id \notin gone
                 PROVE  rest[j].id \in IdsIn(left)
      BY DEF IdsIn
    <3>1. rest[j].id \in IdsIn(waiting)
      BY <1>1 DEF Planned, IdsIn
    <3>2. PICK k \in DOMAIN waiting : waiting[k].id = rest[j].id
      BY <3>1 DEF IdsIn
    <3>3. waiting[k].id # h.id
      <4>1. h.id < rest[j].id /\ h.id \in Nat
        BY <1>1, <1>5, IdsAreNumbers
      <4> QED BY <3>2, <4>1
    <3> QED BY <1>2, <3>2, <3>3 DEF IdsIn
  <2> QED BY <1>6, <2>1, <2>2, <2>3, <2>4 DEF Planned
<1> QED BY <1>7, <1>8

----------------------------------------------------------------------------
(* The steps. *)

LEMMA PlanOf ==
  ASSUME EditsShape, NEW c \in Committers, NEW s \in EditStores, PlannedFor(c, s)
  PROVE  /\ commit[c].plan \in Seq(Edits) /\ commit[c].plan # <<>>
         /\ commit[c].store = (IF s = "timescale" THEN 2 ELSE 3)
         /\ DOMAIN commit[c] = {"at", "store", "plan"}
<1>1. commit[c] \in CommitState
  BY DEF EditsShape
<1>2. Order[1] = "columns" /\ Order[2] = "timescale" /\ Order[3] = "influx"
  BY DEF Order
<1> QED BY <1>1, <1>2 DEF CommitState, PlannedFor, EditStores, Resting

LEMMA NextPlanIs ==
  ASSUME EditsShape, NEW i \in 1..4
  PROVE  /\ NextPlan(i) \in CommitState
         /\ \/ NextPlan(i) = Resting
            \/ \E k \in 1..3 : /\ NextPlan(i) = [at |-> "planned", store |-> k, plan |-> staged[Order[k]]]
                              /\ Waits(Order[k])
<1> DEFINE later == {k \in i..Len(Order) : Waits(Order[k])}
<1>1. Len(Order) = 3 /\ Order[1] = "columns" /\ Order[2] = "timescale" /\ Order[3] = "influx"
  BY DEF Order
<1>2. CASE later = {}
  BY <1>2 DEF NextPlan, CommitState
<1>3. CASE later # {}
  <2>1. later \subseteq 1..3 /\ \A k \in later : Waits(Order[k])
    BY <1>1
  <2>2. \E n \in later : \A m \in later : n <= m
    BY <1>3, <2>1
  <2>3. PICK k \in later : k = CHOOSE n \in later : \A m \in later : n <= m
    BY <2>2
  <2>4. NextPlan(i) = [at |-> "planned", store |-> k, plan |-> staged[Order[k]]]
    BY <1>3, <2>3 DEF NextPlan
  <2>5. CASE k = 1
    BY <1>1, <2>4, <2>5 DEF CommitState, EditsShape
  <2>6. CASE k \in {2, 3}
    <3>1. staged[Order[k]] \in Seq(Edits) /\ staged[Order[k]] # <<>>
      BY <1>1, <2>1, <2>6 DEF EditsShape, EditStores, Waits
    <3> QED BY <2>4, <2>6, <3>1 DEF CommitState
  <2> QED BY <2>1, <2>3, <2>4, <2>5, <2>6
<1> QED BY <1>2, <1>3, <1>1

\* A step that neither stages nor finishes an edit.
LEMMA OrderUnmoved ==
  ASSUME EditsShape, OrderOfEdits, changes' \in Nat, changes <= changes', unstaged \subseteq unstaged',
         NEW s \in EditStores, staged'[s] = staged[s], finished'[s] = finished[s],
         \A c \in Committers : PlannedFor(c, s)' =>
            (PlannedFor(c, s) /\ commit'[c].plan = commit[c].plan) \/ commit'[c].plan = staged[s]
  PROVE  /\ Ordered(staged[s], finished[s], changes)'
         /\ \A c \in Committers :
              PlannedFor(c, s)' => Planned(commit[c].plan, staged[s], finished[s], changes, unstaged)'
<1>1. staged[s] \in Seq(Edits) /\ finished[s] \in Seq(Edits) /\ changes \in Nat
  BY AdminAssumption DEF EditsShape
<1>2. Ordered(staged[s], finished[s], changes')
  BY <1>1, OrderStays DEF OrderOfEdits
<1>3. ASSUME NEW c \in Committers, PlannedFor(c, s)'
      PROVE  Planned(commit'[c].plan, staged[s], finished[s], changes', unstaged')
  <2>1. CASE PlannedFor(c, s) /\ commit'[c].plan = commit[c].plan
    <3>1. commit[c].plan \in Seq(Edits) /\ Planned(commit[c].plan, staged[s], finished[s], changes, unstaged)
      BY <2>1, PlanOf DEF OrderOfEdits
    <3> QED BY <1>1, <2>1, <3>1, OrderStays
  <2>2. CASE commit'[c].plan = staged[s]
    BY <1>1, <1>2, <2>2, OrderPlanned
  <2> QED BY <1>3, <2>1, <2>2
<1> QED BY <1>2, <1>3 DEF Ordered, Planned, IdsIn, Ascending, Before, Upto

LEMMA LastIs ==
  ASSUME NEW did \in Seq(Edits), NEW e \in Edits, NEW narrows
  PROVE  /\ e.narrow \in narrows => IsLast(e.id, Append(did, e), narrows)
         /\ \A n : e.narrow \notin narrows /\ IsLast(n, did, narrows) => IsLast(n, Append(did, e), narrows)
<1> DEFINE now == Append(did, e)
           k == Len(did) + 1
<1>1. k \in DOMAIN now /\ now[k] = e /\ \A i \in DOMAIN now : i <= k
  OBVIOUS
<1>2. \A i : i \in DOMAIN now <=> i = k \/ i \in DOMAIN did
  OBVIOUS
<1>3. \A i \in DOMAIN did : now[i] = did[i]
  OBVIOUS
<1>4. e.narrow \in narrows => IsLast(e.id, now, narrows)
  BY <1>1 DEF IsLast
<1>5. ASSUME NEW n, e.narrow \notin narrows, IsLast(n, did, narrows)
      PROVE  IsLast(n, now, narrows)
  <2>1. {i \in DOMAIN now : now[i].narrow \in narrows} = {i \in DOMAIN did : did[i].narrow \in narrows}
    BY <1>1, <1>2, <1>3, <1>5
  <2> QED BY <1>3, <1>5, <2>1 DEF IsLast
<1> QED BY <1>4, <1>5

LEMMA StagedTo ==
  ASSUME EditsShape, NEW s \in EditStores, NEW left \in Seq(Edits), staged' = [staged EXCEPT ![s] = left]
  PROVE  /\ s \in Stores /\ s # "columns" /\ staged[s] \in Seq(Edits) /\ finished[s] \in Seq(Edits)
         /\ staged' \in [Stores -> (SUBSET Columns) \cup Seq(Edits)] /\ staged'["columns"] = staged["columns"]
         /\ staged'[s] = left /\ \A t \in EditStores \ {s} : staged'[t] = staged[t]
         /\ \A t \in EditStores : staged'[t] \in Seq(Edits)
<1>1. s \in Stores /\ s # "columns" /\ staged[s] \in Seq(Edits) /\ finished[s] \in Seq(Edits)
  BY DEF EditsShape, Stores, EditStores
<1>2. "columns" \in Stores /\ EditStores \subseteq Stores
  BY DEF Stores
<1>3. DOMAIN staged = Stores
  BY DEF EditsShape
<1>4. staged' = [t \in Stores |-> IF t = s THEN left ELSE staged[t]]
  BY <1>3
<1>5. \A t \in Stores : staged[t] \in (SUBSET Columns) \cup Seq(Edits)
  BY DEF EditsShape
<1>6. \A t \in EditStores : staged[t] \in Seq(Edits)
  BY DEF EditsShape
<1>7. staged' \in [Stores -> (SUBSET Columns) \cup Seq(Edits)]
  <2>1. PICK W : W = (SUBSET Columns) \cup Seq(Edits)
    OBVIOUS
  <2>2. left \in W
    <3>1. left \in (SUBSET Columns) \cup Seq(Edits)
      BY Zenon
    <3> QED BY <2>1, <3>1, Zenon
  <2>3. \A t \in Stores : staged[t] \in W
    BY ONLY <1>5, <2>1
  <2>4. staged' \in [Stores -> W]
    BY ONLY <1>4, <2>2, <2>3
  <2> QED BY ONLY <2>1, <2>4
<1>8. \A t \in Stores : staged'[t] = IF t = s THEN left ELSE staged[t]
  BY <1>4
<1>9. staged'["columns"] = staged["columns"] /\ staged'[s] = left
  BY <1>1, <1>2, <1>8
<1>10. \A t \in EditStores \ {s} : staged'[t] = staged[t]
  BY <1>2, <1>8
<1>11. \A t \in EditStores : staged'[t] \in Seq(Edits)
  BY <1>6, <1>9, <1>10
<1> QED BY <1>1, <1>7, <1>9, <1>10, <1>11

LEMMA AdminSteps ==
  ASSUME EditsInv, StageColumn \/ (\E s \in EditStores : StageEdit(s) \/ Unstage(s)) \/ \E s \in Stores : DiscardStore(s)
  PROVE  EditsInv'
<1> DEFINE others == <<holder, commit, wideColumns, rollups, range, finished>>
<1> EditsShape /\ LocksHeld /\ OrderOfEdits /\ HalfDone /\ EditsReachTheirTables
  BY DEF EditsInv
<1>0. MaxStaged \in Nat /\ changes \in Nat /\ changes \in 0..MaxStaged
  BY AdminAssumption DEF EditsShape
<1>1. ASSUME UNCHANGED others, \A s \in EditStores : StagedIds(s) \cup unstaged \subseteq StagedIds(s)' \cup unstaged'
      PROVE  LocksHeld' /\ HalfDone' /\ EditsReachTheirTables'
  <2>1. LocksHeld' /\ HalfDone'
    BY <1>1 DEF LocksHeld, HalfDone, Applies
  <2>2. "timescale" \in EditStores
    BY DEF EditStores
  <2> QED BY <1>1, <2>1, <2>2 DEF EditsReachTheirTables
<1>2. ASSUME UNCHANGED others, staged' \in [Stores -> (SUBSET Columns) \cup Seq(Edits)], staged'["columns"] \subseteq Columns,
             \A s \in EditStores : staged'[s] \in Seq(Edits), changes' \in 0..MaxStaged, unstaged' \subseteq EditIds
      PROVE  EditsShape'
  BY <1>2 DEF EditsShape
<1>3. \A c \in Committers, s \in EditStores : UNCHANGED commit =>
        (PlannedFor(c, s)' <=> PlannedFor(c, s)) /\ commit'[c].plan = commit[c].plan
  BY DEF PlannedFor
<1>4. CASE StageColumn
  <2>1. UNCHANGED others /\ unstaged' = unstaged /\ changes' = changes + 1 /\ changes < MaxStaged
    BY <1>4 DEF StageColumn, AdminActs
  <2>2. PICK c \in wideColumns : staged' = [staged EXCEPT !["columns"] = IF c \in @ THEN @ \ {c} ELSE @ \cup {c}]
    BY <1>4 DEF StageColumn
  <2>3. c \in Columns /\ "columns" \in Stores /\ EditStores \subseteq Stores /\ "columns" \notin EditStores
    BY DEF EditsShape, Stores, EditStores
  <2>4. /\ staged' \in [Stores -> (SUBSET Columns) \cup Seq(Edits)] /\ staged'["columns"] \subseteq Columns
        /\ \A s \in EditStores : staged'[s] = staged[s]
    BY <2>2, <2>3 DEF EditsShape
  <2>5. EditsShape'
    BY <1>0, <1>2, <2>1, <2>4 DEF EditsShape
  <2>6. \A s \in EditStores : StagedIds(s)' = StagedIds(s)
    BY <2>3, <2>4 DEF StagedIds
  <2>7. OrderOfEdits'
    BY <1>0, <1>3, <2>1, <2>4, OrderUnmoved DEF OrderOfEdits
  <2> QED BY <1>1, <2>1, <2>5, <2>6, <2>7 DEF EditsInv
<1>5. ASSUME NEW s \in EditStores, StageEdit(s)
      PROVE  EditsInv'
  <2>1. UNCHANGED others /\ unstaged' = unstaged /\ changes' = changes + 1 /\ changes < MaxStaged
    BY <1>5 DEF StageEdit, AdminActs
  <2>2. PICK both \in BOOLEAN : staged' = [staged EXCEPT ![s] = Append(@, [id |-> changes', narrow |-> both])]
    BY <1>5 DEF StageEdit
  <2>3. PICK e \in Edits : e = [id |-> changes', narrow |-> both] /\ e.id = changes + 1
    <3>1. changes' \in EditIds
      BY <1>0, <2>1 DEF EditIds
    <3>2. [id |-> changes', narrow |-> both] \in Edits
      BY <3>1 DEF Edits
    <3> QED BY <2>1, <3>2
  <2>4. PICK more \in Seq(Edits) : more = Append(staged[s], e)
    <3>1. staged[s] \in Seq(Edits)
      BY DEF EditsShape
    <3>2. \A list \in Seq(Edits) : Append(list, e) \in Seq(Edits)
      OBVIOUS
    <3> QED BY <3>1, <3>2
  <2>5. /\ s # "columns" /\ staged[s] \in Seq(Edits) /\ finished[s] \in Seq(Edits)
        /\ staged' \in [Stores -> (SUBSET Columns) \cup Seq(Edits)] /\ staged'["columns"] = staged["columns"]
        /\ staged'[s] = Append(staged[s], e) /\ \A t \in EditStores \ {s} : staged'[t] = staged[t]
        /\ \A t \in EditStores : staged'[t] \in Seq(Edits)
    <3>1. staged' = [staged EXCEPT ![s] = more]
      BY <2>2, <2>3, <2>4
    <3> QED BY <2>4, <3>1, StagedTo
  <2>6. EditsShape'
    <3>1. changes' \in 0..MaxStaged
      BY <1>0, <2>1
    <3>2. unstaged' \subseteq EditIds /\ staged'["columns"] \subseteq Columns
      BY <2>1, <2>5 DEF EditsShape
    <3> QED BY <1>2, <2>1, <2>5, <3>1, <3>2
  <2>7. \A t \in EditStores : StagedIds(t) \subseteq StagedIds(t)'
    <3>1. \A i \in DOMAIN staged[s] : i \in DOMAIN staged'[s] /\ staged'[s][i] = staged[s][i]
      BY <2>5
    <3> QED BY <2>5, <3>1, ZenonT(60) DEF StagedIds
  <2>8. Ordered(staged[s], finished[s], changes)'
    BY <1>0, <2>1, <2>3, <2>5, OrderStaged DEF OrderOfEdits
  <2>9. ASSUME NEW c \in Committers, PlannedFor(c, s)'
        PROVE  Planned(commit[c].plan, staged[s], finished[s], changes, unstaged)'
    <3>1. PlannedFor(c, s) /\ commit'[c].plan = commit[c].plan
      BY <1>3, <2>1, <2>9
    <3>2. commit[c].plan \in Seq(Edits) /\ Planned(commit[c].plan, staged[s], finished[s], changes, unstaged)
      BY <3>1, PlanOf DEF OrderOfEdits
    <3>3. Planned(commit[c].plan, Append(staged[s], e), finished[s], changes + 1, unstaged)
      BY <1>0, <2>3, <2>5, <3>2, OrderStaged
    <3> QED BY <2>1, <2>5, <3>1, <3>3
  <2>10. \A t \in EditStores \ {s} :
           /\ Ordered(staged[t], finished[t], changes)'
           /\ \A c \in Committers :
                PlannedFor(c, t)' => Planned(commit[c].plan, staged[t], finished[t], changes, unstaged)'
    BY <1>0, <1>3, <2>1, <2>5, OrderUnmoved
  <2>11. OrderOfEdits'
    BY <2>8, <2>9, <2>10 DEF OrderOfEdits
  <2> QED BY <1>1, <2>1, <2>6, <2>7, <2>11 DEF EditsInv
<1>6. ASSUME NEW s \in EditStores, NEW left \in Seq(Edits), NEW more \in SUBSET EditIds, Ascending(left),
             staged' = [staged EXCEPT ![s] = left], unstaged' = unstaged \cup more, UNCHANGED others, changes' = changes,
             \A i \in DOMAIN left : \E j \in DOMAIN staged[s] : left[i] = staged[s][j],
             \A j \in DOMAIN staged[s] : staged[s][j].id \in more \/ \E i \in DOMAIN left : left[i] = staged[s][j]
      PROVE  EditsInv'
  <2>1. s # "columns" /\ staged[s] \in Seq(Edits) /\ finished[s] \in Seq(Edits)
    BY <1>6, StagedTo
  <2>2. /\ staged' \in [Stores -> (SUBSET Columns) \cup Seq(Edits)] /\ staged'["columns"] = staged["columns"]
        /\ staged'[s] = left /\ \A t \in EditStores \ {s} : staged'[t] = staged[t]
        /\ \A t \in EditStores : staged'[t] \in Seq(Edits)
    BY <1>6, StagedTo
  <2>3. EditsShape'
    <3>1. unstaged' \subseteq EditIds /\ staged'["columns"] \subseteq Columns
      BY <1>6, <2>2 DEF EditsShape
    <3> QED BY <1>0, <1>2, <1>6, <2>2, <3>1
  <2>4. \A t \in EditStores : StagedIds(t) \cup unstaged \subseteq StagedIds(t)' \cup unstaged'
    <3>1. \A j \in DOMAIN staged[s] : staged[s][j].id \in more \/ \E i \in DOMAIN staged'[s] : staged'[s][i].id = staged[s][j].id
      BY <1>6, <2>2
    <3> QED BY <1>6, <2>1, <2>2, <3>1 DEF StagedIds
  <2>5. Ordered(staged[s], finished[s], changes)'
    BY <1>0, <1>6, <2>1, <2>2, OrderTaken DEF OrderOfEdits
  <2>6. ASSUME NEW c \in Committers, PlannedFor(c, s)'
        PROVE  Planned(commit[c].plan, staged[s], finished[s], changes, unstaged)'
    <3>1. PlannedFor(c, s) /\ commit'[c].plan = commit[c].plan
      BY <1>3, <1>6, <2>6
    <3>2. commit[c].plan \in Seq(Edits) /\ Planned(commit[c].plan, staged[s], finished[s], changes, unstaged)
      BY <3>1, PlanOf DEF OrderOfEdits
    <3>3. Ordered(staged[s], finished[s], changes)
      BY DEF OrderOfEdits
    <3>4. Planned(commit[c].plan, left, finished[s], changes, unstaged \cup more)
      BY <1>0, <1>6, <2>1, <3>2, <3>3, OrderTaken
    <3> QED BY <1>6, <2>2, <3>1, <3>4
  <2>7. \A t \in EditStores \ {s} :
          /\ Ordered(staged[t], finished[t], changes)'
          /\ \A c \in Committers :
               PlannedFor(c, t)' => Planned(commit[c].plan, staged[t], finished[t], changes, unstaged)'
    <3>1. UNCHANGED <<commit, finished>> /\ unstaged \subseteq unstaged' /\ changes' = changes
      BY <1>6
    <3>2. \A c \in Committers, t \in EditStores : PlannedFor(c, t)' => PlannedFor(c, t) /\ commit'[c].plan = commit[c].plan
      BY <1>3, <3>1
    <3> QED BY <1>0, <2>2, <3>1, <3>2, OrderUnmoved
  <2>8. OrderOfEdits'
    BY <2>5, <2>6, <2>7 DEF OrderOfEdits
  <2> QED BY <1>1, <1>6, <2>3, <2>4, <2>8 DEF EditsInv
<1>7. ASSUME NEW s \in EditStores, Unstage(s)
      PROVE  EditsInv'
  <2>1. PICK i \in DOMAIN staged[s] : /\ staged' = [staged EXCEPT ![s] = RemoveAt(@, i)]
                                     /\ unstaged' = unstaged \cup {staged[s][i].id}
    BY <1>7 DEF Unstage
  <2>2. staged[s] \in Seq(Edits) /\ Ascending(staged[s]) /\ s \in Stores
    BY DEF EditsShape, OrderOfEdits, Ordered, Stores
  <2>3. PICK left : left = RemoveAt(staged[s], i)
    OBVIOUS
  <2>4. /\ left \in Seq(Edits) /\ Ascending(left)
        /\ \A j \in DOMAIN left : \E k \in DOMAIN staged[s] : left[j] = staged[s][k] /\ k # i
        /\ \A k \in DOMAIN staged[s] : k # i => \E j \in DOMAIN left : left[j] = staged[s][k]
    BY <2>2, <2>3, LeftInOrder
  <2>5. PICK more \in SUBSET EditIds : more = {staged[s][i].id}
    BY <2>2, IdsAreNumbers
  <2>6. staged' = [staged EXCEPT ![s] = left]
    BY <2>1, <2>3
  <2>7. UNCHANGED others /\ changes' = changes
    BY <1>7 DEF Unstage
  <2>8. unstaged' = unstaged \cup more
    BY <2>1, <2>5
  <2>9. \A k \in DOMAIN staged[s] : staged[s][k].id \in more \/ \E j \in DOMAIN left : left[j] = staged[s][k]
    BY <2>4, <2>5
  <2>10. \A j \in DOMAIN left : \E k \in DOMAIN staged[s] : left[j] = staged[s][k]
    BY <2>4
  <2> HIDE DEF others
  <2> QED BY <1>6, <2>4, <2>6, <2>7, <2>8, <2>9, <2>10
<1>8. ASSUME NEW s \in Stores, DiscardStore(s)
      PROVE  EditsInv'
  <2>1. UNCHANGED others /\ changes' = changes
    BY <1>8 DEF DiscardStore
  <2>2. CASE s \in EditStores
    <3>1. staged' = [staged EXCEPT ![s] = <<>>] /\ unstaged' = unstaged \cup StagedIds(s)
      BY <1>8, <2>2 DEF DiscardStore, EditStores
    <3>2. staged[s] \in Seq(Edits)
      BY <2>2 DEF EditsShape
    <3>3. \A j \in DOMAIN staged[s] : staged[s][j].id \in StagedIds(s)
      BY <2>2 DEF StagedIds, EditStores
    <3>4. StagedIds(s) \in SUBSET EditIds
      BY <2>2, <3>2, IdsAreNumbers DEF StagedIds, EditStores
    <3>5. <<>> \in Seq(Edits) /\ Ascending(<<>>) /\ DOMAIN <<>> = {}
      BY DEF Ascending
    <3> QED BY <1>6, <2>1, <2>2, <3>1, <3>3, <3>4, <3>5
  <2>3. CASE s = "columns"
    <3>1. staged' = [staged EXCEPT !["columns"] = {}] /\ unstaged' = unstaged
      BY <1>8, <2>3 DEF DiscardStore, StagedIds
    <3>2. /\ staged' \in [Stores -> (SUBSET Columns) \cup Seq(Edits)] /\ staged'["columns"] \subseteq Columns
          /\ \A t \in EditStores : staged'[t] = staged[t]
      BY <3>1 DEF EditsShape, EditStores, Stores
    <3>3. EditsShape'
      BY <1>0, <1>2, <2>1, <3>1, <3>2 DEF EditsShape
    <3>4. \A t \in EditStores : StagedIds(t)' = StagedIds(t)
      BY <3>2 DEF StagedIds
    <3>5. OrderOfEdits'
      BY <1>0, <1>3, <2>1, <3>1, <3>2, OrderUnmoved DEF OrderOfEdits
    <3> QED BY <1>1, <2>1, <3>1, <3>3, <3>4, <3>5 DEF EditsInv
  <2> QED BY <2>2, <2>3 DEF Stores
<1> QED BY <1>4, <1>5, <1>7, <1>8

LEMMA OrderIs ==
  /\ Len(Order) = 3 /\ Order[1] = "columns" /\ Order[2] = "timescale" /\ Order[3] = "influx"
  /\ Stores = {"columns", "timescale", "influx"} /\ EditStores = {"timescale", "influx"}
  BY DEF Order, Stores, EditStores

\* A step of a commit that finishes no edit.
LEMMA CommitMoves ==
  ASSUME EditsShape, LocksHeld, OrderOfEdits, OneCommitter, NEW c \in Committers, NEW new \in CommitState,
         commit' = [commit EXCEPT ![c] = new], UNCHANGED <<finished, unstaged, changes>>,
         staged' \in [Stores -> (SUBSET Columns) \cup Seq(Edits)], staged'["columns"] \subseteq Columns,
         \A s \in EditStores : staged'[s] = staged[s],
         wideColumns' \in (SUBSET Columns) \ {{}}, rollups' \in BOOLEAN, range' \in [Tables -> 0..MaxStaged],
         holder' \in [Stores -> {<<>>} \cup {<<d>> : d \in Committers}],
         \A s \in Stores : holder'[s] = <<c>> <=> new.at \in {"apply", "narrow"} /\ Order[new.store] = s,
         \A s \in EditStores : new.at \in {"planned", "apply", "narrow"} /\ Order[new.store] = s =>
            (PlannedFor(c, s) /\ new.plan = commit[c].plan) \/ new.plan = staged[s]
  PROVE  EditsShape' /\ LocksHeld' /\ OrderOfEdits'
<1>1. commit \in [Committers -> CommitState] /\ commit' \in [Committers -> CommitState] /\ commit'[c] = new
  BY DEF EditsShape
<1>2. \A d \in Committers : d = c
  BY DEF OneCommitter
<1>3. EditsShape'
  BY <1>1 DEF EditsShape
<1>4. LocksHeld'
  BY <1>1, <1>2 DEF LocksHeld, Applies
<1>5. changes \in Nat
  BY AdminAssumption DEF EditsShape
<1>6. OrderOfEdits'
  <2> SUFFICES ASSUME NEW s \in EditStores
               PROVE  /\ Ordered(staged[s], finished[s], changes)'
                      /\ \A d \in Committers :
                           PlannedFor(d, s)' => Planned(commit[d].plan, staged[s], finished[s], changes, unstaged)'
    BY DEF OrderOfEdits
  <2>1. \A d \in Committers : PlannedFor(d, s)' =>
          (PlannedFor(d, s) /\ commit'[d].plan = commit[d].plan) \/ commit'[d].plan = staged[s]
    BY <1>1, <1>2 DEF PlannedFor
  <2> QED BY <1>5, <2>1, OrderUnmoved
<1> QED BY <1>3, <1>4, <1>6

\* A commit that leaves its store.
LEMMA CommitLeaves ==
  ASSUME EditsShape, NEW c \in Committers, NEW s \in Stores, Applies(c, s), OneCommitter,
         NEW new, new = Resting \/ new = [at |-> "next", store |-> commit[c].store + 1],
         holder' = [holder EXCEPT ![Order[commit[c].store]] = <<>>]
  PROVE  /\ new \in CommitState /\ new.at \in {"rest", "next"}
         /\ holder' \in [Stores -> {<<>>} \cup {<<d>> : d \in Committers}]
         /\ LocksHeld => \A t \in Stores : holder'[t] # <<c>>
<1>1. Order[commit[c].store] = s /\ commit[c].at \in {"apply", "narrow"}
  BY DEF Applies
<1>2. commit[c] \in CommitState
  BY DEF EditsShape
<1>3. commit[c].store \in 1..3
  BY <1>1, <1>2 DEF CommitState, Resting
<1>4. new \in CommitState /\ new.at \in {"rest", "next"}
  <2>1. CASE new = Resting
    BY <2>1 DEF CommitState, Resting
  <2>2. CASE new = [at |-> "next", store |-> commit[c].store + 1]
    <3>1. commit[c].store + 1 \in 2..4
      BY <1>3
    <3>2. new \in [at : {"next"}, store : 2..4]
      BY <2>2, <3>1
    <3> QED BY <2>2, <3>2 DEF CommitState
  <2> QED BY <2>1, <2>2
<1>5. holder \in [Stores -> {<<>>} \cup {<<d>> : d \in Committers}] /\ <<>> # <<c>>
  BY DEF EditsShape
<1>6. holder' = [t \in Stores |-> IF t = s THEN <<>> ELSE holder[t]]
  BY <1>1, <1>5
<1>7. holder' \in [Stores -> {<<>>} \cup {<<d>> : d \in Committers}]
  BY <1>5, <1>6
<1>8. LocksHeld => \A t \in Stores \ {s} : holder[t] # <<c>>
  BY <1>1 DEF LocksHeld, Applies
<1> QED BY <1>4, <1>5, <1>6, <1>7, <1>8

\* What the tables hold is as it was.
LEMMA TablesUnmoved ==
  ASSUME EditsShape, EditsReachTheirTables, UNCHANGED <<range, finished>>,
         \A s \in EditStores : staged'[s] = staged[s], unstaged' = unstaged
  PROVE  EditsReachTheirTables'
<1>1. StagedIds("timescale")' = StagedIds("timescale")
  BY OrderIs DEF StagedIds
<1> QED BY <1>1 DEF EditsReachTheirTables

\* A step of a commit that edits no table.
LEMMA CommitSteps ==
  ASSUME EditsInv, OneCommitter, NEW c \in Committers,
         \/ StartCommit(c) \/ NextStore(c) \/ Lock(c) \/ DropColumns(c) \/ DropFails(c) \/ EditFails(c)
  PROVE  EditsInv'
<1> EditsShape /\ LocksHeld /\ OrderOfEdits /\ HalfDone /\ EditsReachTheirTables
  BY DEF EditsInv
<1>1. \A d \in Committers : d = c
  BY DEF OneCommitter
<1>2. commit \in [Committers -> CommitState] /\ commit[c] \in CommitState
  BY DEF EditsShape
<1>3. ASSUME NEW new, commit' = [commit EXCEPT ![c] = new], new.at # "narrow"
      PROVE  HalfDone'
  <2>1. \A d \in Committers : commit'[d] = new
    BY <1>1, <1>2, <1>3
  <2> QED BY <1>3, <2>1 DEF HalfDone
<1>4. /\ staged \in [Stores -> (SUBSET Columns) \cup Seq(Edits)] /\ staged["columns"] \subseteq Columns
      /\ wideColumns \in (SUBSET Columns) \ {{}} /\ rollups \in BOOLEAN /\ range \in [Tables -> 0..MaxStaged]
      /\ holder \in [Stores -> {<<>>} \cup {<<d>> : d \in Committers}]
  BY DEF EditsShape
<1>5. ASSUME NEW i \in 1..4, commit[c].at \in {"rest", "next"}, commit' = [commit EXCEPT ![c] = NextPlan(i)],
             UNCHANGED <<staged, holder, wideColumns, rollups, range, finished, unstaged, changes>>
      PROVE  EditsInv'
  <2>1. PICK new \in CommitState : new = NextPlan(i)
    BY NextPlanIs
  <2>2. /\ new.at \in {"rest", "planned"}
        /\ \A s \in EditStores : new.at = "planned" /\ Order[new.store] = s => new.plan = staged[s]
    BY <2>1, NextPlanIs DEF Resting
  <2>3. \A s \in Stores : holder[s] # <<c>>
    BY <1>5 DEF LocksHeld, Applies
  <2>4. EditsShape' /\ LocksHeld' /\ OrderOfEdits'
    BY <1>4, <1>5, <2>1, <2>2, <2>3, CommitMoves
  <2>5. HalfDone'
    BY <1>3, <1>5, <2>1, <2>2
  <2>6. EditsReachTheirTables'
    BY <1>5, TablesUnmoved
  <2> QED BY <2>4, <2>5, <2>6 DEF EditsInv
<1>6. CASE StartCommit(c)
  BY <1>5, <1>6 DEF StartCommit, Resting
<1>7. CASE NextStore(c)
  <2>1. commit[c].store \in 1..4
    BY <1>2, <1>7 DEF NextStore, CommitState, Resting
  <2> QED BY <1>5, <1>7, <2>1 DEF NextStore
<1>8. CASE Lock(c)
  <2> DEFINE new == [commit[c] EXCEPT !.at = "apply"]
  <2>1. /\ commit[c].at = "planned" /\ holder[Order[commit[c].store]] = <<>>
        /\ holder' = [holder EXCEPT ![Order[commit[c].store]] = <<c>>] /\ commit' = [commit EXCEPT ![c] = new]
        /\ UNCHANGED <<staged, wideColumns, rollups, range, finished, unstaged, changes>>
    BY <1>8 DEF Lock
  <2>2. /\ new \in CommitState /\ new.at = "apply" /\ new.store = commit[c].store /\ new.plan = commit[c].plan
        /\ commit[c].store \in 1..3
    BY <1>2, <2>1 DEF CommitState, Resting
  <2>3. PICK s \in Stores : s = Order[commit[c].store]
    BY <2>2, OrderIs
  <2>4. /\ holder' \in [Stores -> {<<>>} \cup {<<d>> : d \in Committers}]
        /\ holder'[s] = <<c>> /\ \A t \in Stores \ {s} : holder'[t] = holder[t]
    BY <1>4, <2>1, <2>3
  <2>5. \A t \in Stores : holder[t] # <<c>>
    BY <2>1 DEF LocksHeld, Applies
  <2>6. \A t \in EditStores : Order[new.store] = t => PlannedFor(c, t)
    BY <2>1, <2>2 DEF PlannedFor
  <2> HIDE DEF new
  <2>7. EditsShape' /\ LocksHeld' /\ OrderOfEdits'
    BY <1>4, <2>1, <2>2, <2>3, <2>4, <2>5, <2>6, CommitMoves, ZenonT(60)
  <2>8. HalfDone'
    BY <1>3, <2>1, <2>2
  <2>9. EditsReachTheirTables'
    BY <2>1, TablesUnmoved
  <2> QED BY <2>7, <2>8, <2>9 DEF EditsInv
<1>9. ASSUME NEW s \in Stores, Applies(c, s),
             NEW new, new = Resting \/ new = [at |-> "next", store |-> commit[c].store + 1],
             holder' = [holder EXCEPT ![Order[commit[c].store]] = <<>>], commit' = [commit EXCEPT ![c] = new],
             staged' = staged \/ staged' = [staged EXCEPT !["columns"] = {}],
             wideColumns' \in (SUBSET Columns) \ {{}}, rollups' \in BOOLEAN,
             UNCHANGED <<range, finished, unstaged, changes>>
      PROVE  EditsInv'
  <2>1. /\ new \in CommitState /\ new.at \in {"rest", "next"}
        /\ holder' \in [Stores -> {<<>>} \cup {<<d>> : d \in Committers}]
        /\ \A t \in Stores : holder'[t] # <<c>>
    <3>1. new \in CommitState /\ new.at \in {"rest", "next"}
      BY ONLY EditsShape, OneCommitter, <1>9, CommitLeaves, Zenon
    <3>2. holder' \in [Stores -> {<<>>} \cup {<<d>> : d \in Committers}]
      BY ONLY EditsShape, OneCommitter, <1>9, CommitLeaves
    <3>3. \A t \in Stores : holder'[t] # <<c>>
      BY ONLY EditsShape, LocksHeld, OneCommitter, <1>9, CommitLeaves
    <3> QED BY <3>1, <3>2, <3>3
  <2>2. /\ staged' \in [Stores -> (SUBSET Columns) \cup Seq(Edits)] /\ staged'["columns"] \subseteq Columns
        /\ \A t \in EditStores : staged'[t] = staged[t]
    BY <1>4, <1>9, OrderIs
  <2>3. EditsShape' /\ LocksHeld' /\ OrderOfEdits'
    BY <1>4, <1>9, <2>1, <2>2, CommitMoves
  <2>4. HalfDone'
    BY <1>3, <1>9, <2>1
  <2>5. EditsReachTheirTables'
    BY <1>9, <2>2, TablesUnmoved
  <2> QED BY <2>3, <2>4, <2>5 DEF EditsInv
<1>10. CASE DropColumns(c)
  <2>1. /\ Applies(c, "columns") /\ "columns" \in Stores
        /\ holder' = [holder EXCEPT ![Order[commit[c].store]] = <<>>]
        /\ commit' = [commit EXCEPT ![c] = [at |-> "next", store |-> commit[c].store + 1]]
        /\ staged' = [staged EXCEPT !["columns"] = {}] /\ UNCHANGED <<range, finished, unstaged, changes>>
    BY <1>10, OrderIs DEF DropColumns, Through
  <2>2. wideColumns' \in (SUBSET Columns) \ {{}} /\ rollups' \in BOOLEAN
    BY <1>4, <1>10 DEF DropColumns
  <2> QED BY <1>9, <2>1, <2>2
<1>11. CASE DropFails(c)
  <2>1. /\ Applies(c, "columns") /\ "columns" \in Stores
        /\ holder' = [holder EXCEPT ![Order[commit[c].store]] = <<>>]
        /\ commit' = [commit EXCEPT ![c] = Resting] /\ UNCHANGED <<staged, range, finished, unstaged, changes>>
    BY <1>11, OrderIs DEF DropFails, Abort
  <2>2. wideColumns' \in (SUBSET Columns) \ {{}} /\ rollups' \in BOOLEAN
    BY <1>4, <1>11 DEF DropFails
  <2> QED BY <1>9, <2>1, <2>2
<1>12. CASE EditFails(c)
  <2>1. /\ \E s \in Stores : Applies(c, s)
        /\ holder' = [holder EXCEPT ![Order[commit[c].store]] = <<>>]
        /\ commit' = [commit EXCEPT ![c] = Resting]
        /\ UNCHANGED <<staged, wideColumns, rollups, range, finished, unstaged, changes>>
    BY <1>12, OrderIs DEF EditFails, Abort
  <2> QED BY <1>4, <1>9, <2>1
<1> QED BY <1>6, <1>7, <1>8, <1>10, <1>11, <1>12

LEMMA HeadOfList ==
  ASSUME NEW T, NEW list \in Seq(T), list # <<>>
  PROVE  /\ Head(list) \in T /\ Tail(list) \in Seq(T) /\ Len(list) \in Nat \ {0}
         /\ Len(list) # 1 => Tail(list) # <<>>
<1>1. Head(list) \in T /\ Tail(list) \in Seq(T) /\ Len(list) \in Nat \ {0} /\ Len(Tail(list)) = Len(list) - 1
  OBVIOUS
<1>2. Tail(list) = <<>> <=> Len(Tail(list)) = 0
  BY <1>1, EmptySeq
<1> QED BY <1>1, <1>2

\* The edit at the head of the plan is through.
LEMMA EditDone ==
  ASSUME EditsInv, OneCommitter, NEW c \in Committers, NEW s \in EditStores, Applies(c, s), Done(c, s),
         UNCHANGED <<wideColumns, rollups, unstaged, changes>>, range' \in [Tables -> 0..MaxStaged]
  PROVE  /\ EditsShape' /\ LocksHeld' /\ OrderOfEdits' /\ HalfDone'
         /\ Head(commit[c].plan) \in Edits /\ finished[s] \in Seq(Edits)
         /\ finished'[s] = Append(finished[s], Head(commit[c].plan))
         /\ \A t \in EditStores \ {s} : finished'[t] = finished[t] /\ staged'[t] = staged[t]
<1> DEFINE plan == commit[c].plan
<1> EditsShape /\ LocksHeld /\ OrderOfEdits /\ HalfDone /\ EditsReachTheirTables
  BY DEF EditsInv
<1>1. \A d \in Committers : d = c
  BY DEF OneCommitter
<1>2. /\ PlannedFor(c, s) /\ Order[commit[c].store] = s /\ commit[c].at \in {"apply", "narrow"}
      /\ s \in Stores /\ s # "columns"
  BY OrderIs DEF Applies, PlannedFor
<1>3. /\ plan \in Seq(Edits) /\ plan # <<>> /\ commit[c].store = (IF s = "timescale" THEN 2 ELSE 3)
      /\ DOMAIN commit[c] = {"at", "store", "plan"}
  BY <1>2, PlanOf
<1>4. /\ Head(plan) \in Edits /\ Tail(plan) \in Seq(Edits) /\ Len(plan) \in Nat \ {0}
      /\ Len(plan) # 1 => Tail(plan) # <<>>
  BY <1>3, HeadOfList
<1>5. /\ staged[s] \in Seq(Edits) /\ finished[s] \in Seq(Edits) /\ changes \in Nat
      /\ staged["columns"] \subseteq Columns /\ finished \in [EditStores -> Seq(Edits)]
      /\ commit \in [Committers -> CommitState] /\ commit[c] \in CommitState
      /\ holder \in [Stores -> {<<>>} \cup {<<d>> : d \in Committers}]
  BY AdminAssumption DEF EditsShape
<1>6. /\ Ordered(staged[s], finished[s], changes)
      /\ Planned(plan, staged[s], finished[s], changes, unstaged)
  BY <1>2 DEF OrderOfEdits
<1>7. PICK left : left = Popped(staged[s], Head(plan).id)
  OBVIOUS
<1>8. /\ Ordered(left, Append(finished[s], Head(plan)), changes)
      /\ Planned(Tail(plan), left, Append(finished[s], Head(plan)), changes, unstaged)
  BY <1>3, <1>5, <1>6, <1>7, OrderDone
<1>9. left \in Seq(Edits)
  BY <1>5, <1>6, <1>7, PoppedIs DEF Ordered
<1>10. staged' = [staged EXCEPT ![s] = left] /\ finished' = [finished EXCEPT ![s] = Append(@, Head(plan))]
  BY <1>7 DEF Done
<1>11. /\ staged' \in [Stores -> (SUBSET Columns) \cup Seq(Edits)] /\ staged'["columns"] = staged["columns"]
       /\ staged'[s] = left /\ \A t \in EditStores \ {s} : staged'[t] = staged[t]
       /\ \A t \in EditStores : staged'[t] \in Seq(Edits)
  BY <1>9, <1>10, StagedTo
<1>12. /\ finished'[s] = Append(finished[s], Head(plan)) /\ \A t \in EditStores \ {s} : finished'[t] = finished[t]
       /\ finished' \in [EditStores -> Seq(Edits)]
  <2>1. PICK more \in Seq(Edits) : more = Append(finished[s], Head(plan))
    <3>1. \A list \in Seq(Edits), e \in Edits : Append(list, e) \in Seq(Edits)
      OBVIOUS
    <3> QED BY <1>4, <1>5, <3>1
  <2>2. finished' = [finished EXCEPT ![s] = more]
    BY <1>10, <2>1
  <2> QED BY <1>5, <2>1, <2>2
<1>13. PICK new \in CommitState :
         /\ commit' = [commit EXCEPT ![c] = new]
         /\ \/ new.at = "next" /\ holder' = [holder EXCEPT ![s] = <<>>]
            \/ new.at = "apply" /\ new.store = commit[c].store /\ new.plan = Tail(plan) /\ holder' = holder
  <2>1. CASE Len(plan) = 1
    <3>1. PICK new : new = [at |-> "next", store |-> commit[c].store + 1]
      OBVIOUS
    <3>2. holder' = [holder EXCEPT ![Order[commit[c].store]] = <<>>] /\ commit' = [commit EXCEPT ![c] = new]
      BY <2>1, <3>1 DEF Done, Through
    <3>3. new \in CommitState
      BY ONLY EditsShape, OneCommitter, Applies(c, s), <1>2, <3>1, <3>2, CommitLeaves, Zenon
    <3>4. new.at = "next"
      BY <3>1
    <3> QED BY <1>2, <3>2, <3>3, <3>4
  <2>2. CASE Len(plan) # 1
    <3>1. PICK new : new = [at |-> "apply", store |-> commit[c].store, plan |-> Tail(plan)]
      OBVIOUS
    <3>2. commit' = [commit EXCEPT ![c] = new] /\ holder' = holder
      BY <1>5, <2>2, <3>1 DEF Done
    <3>3. new \in CommitState /\ new.at = "apply" /\ new.store = commit[c].store /\ new.plan = Tail(plan)
      <4>1. commit[c].store \in {2, 3}
        BY <1>3
      <4>2. Tail(plan) \in Seq(Edits) \ {<<>>}
        BY <1>4, <2>2
      <4> HIDE DEF plan
      <4> QED BY <3>1, <4>1, <4>2 DEF CommitState
    <3> QED BY <3>2, <3>3
  <2> QED BY <2>1, <2>2
<1>14. commit' \in [Committers -> CommitState] /\ \A d \in Committers : commit'[d] = new
  BY <1>1, <1>5, <1>13
<1>15. holder' \in [Stores -> {<<>>} \cup {<<d>> : d \in Committers}]
  BY <1>2, <1>5, <1>13
<1>16. EditsShape'
  BY <1>11, <1>12, <1>14, <1>15, <1>5 DEF EditsShape
<1>17. LocksHeld'
  <2>1. \A t \in Stores : holder[t] = <<c>> <=> t = s
    BY <1>2 DEF LocksHeld, Applies
  <2>2. <<>> # <<c>>
    OBVIOUS
  <2>3. CASE new.at = "next" /\ holder' = [holder EXCEPT ![s] = <<>>]
    <3>1. \A t \in Stores : holder'[t] # <<c>>
      BY <1>2, <1>5, <2>1, <2>2, <2>3
    <3> QED BY <1>1, <1>14, <2>3, <3>1 DEF LocksHeld, Applies
  <2>4. CASE new.at = "apply" /\ new.store = commit[c].store /\ holder' = holder
    BY <1>1, <1>2, <1>14, <2>1, <2>4 DEF LocksHeld, Applies
  <2> QED BY <1>13, <2>3, <2>4
<1>18. HalfDone'
  BY <1>13, <1>14 DEF HalfDone
<1>19. OrderOfEdits'
  <2>1. Ordered(staged[s], finished[s], changes)'
    BY <1>8, <1>11, <1>12
  <2>2. \A d \in Committers : PlannedFor(d, s)' => commit'[d].plan = Tail(plan)
    BY <1>13, <1>14 DEF PlannedFor
  <2>3. \A d \in Committers :
          PlannedFor(d, s)' => Planned(commit[d].plan, staged[s], finished[s], changes, unstaged)'
    BY <1>8, <1>11, <1>12, <2>2
  <2>4. \A t \in EditStores \ {s} : \A d \in Committers : ~PlannedFor(d, t)'
    BY <1>2, <1>13, <1>14 DEF PlannedFor
  <2>5. \A t \in EditStores \ {s} :
          /\ Ordered(staged[t], finished[t], changes)'
          /\ \A d \in Committers :
               PlannedFor(d, t)' => Planned(commit[d].plan, staged[t], finished[t], changes, unstaged)'
    BY <1>5, <1>11, <1>12, <2>4, OrderUnmoved
  <2> QED BY <2>1, <2>3, <2>5 DEF OrderOfEdits
<1> QED BY <1>4, <1>5, <1>11, <1>12, <1>16, <1>17, <1>18, <1>19

LEMMA EditSteps ==
  ASSUME EditsInv, OneCommitter, NEW c \in Committers, EditWide(c) \/ EditNarrow(c) \/ EditInflux(c)
  PROVE  EditsInv'
<1> DEFINE h == Head(commit[c].plan)
<1> EditsShape /\ LocksHeld /\ OrderOfEdits /\ HalfDone /\ EditsReachTheirTables
  BY DEF EditsInv
<1>1. ASSUME NEW s \in EditStores, Applies(c, s)
      PROVE  PlannedFor(c, s) /\ commit[c].plan \in Seq(Edits) /\ commit[c].plan # <<>> /\ h \in Edits /\ h.id \in 0..MaxStaged
  <2>1. PlannedFor(c, s)
    BY <1>1 DEF PlannedFor, Applies
  <2>2. commit[c].plan \in Seq(Edits) /\ commit[c].plan # <<>>
    BY <2>1, PlanOf
  <2>3. h \in Edits /\ MaxStaged \in Nat
    BY <2>2, HeadOfList, AdminAssumption
  <2> QED BY <2>1, <2>2, <2>3 DEF Edits, EditIds
<1>2. ASSUME NEW t \in Tables, NEW n \in 0..MaxStaged, range' = [range EXCEPT ![t] = n]
      PROVE  range' \in [Tables -> 0..MaxStaged] /\ range'[t] = n /\ \A u \in Tables \ {t} : range'[u] = range[u]
  BY <1>2 DEF EditsShape
<1>3. {"wide", "narrow", "influx"} = Tables /\ TRUE \in {TRUE} /\ FALSE \notin {TRUE} /\ {TRUE, FALSE} = BOOLEAN
  BY DEF Tables
<1>4. CASE EditInflux(c)
  <2>1. /\ Applies(c, "influx") /\ Done(c, "influx") /\ range' = [range EXCEPT !["influx"] = h.id]
        /\ UNCHANGED <<wideColumns, rollups, unstaged, changes>>
    BY <1>4 DEF EditInflux
  <2>2. h \in Edits /\ h.id \in 0..MaxStaged /\ h.narrow \in BOOLEAN
    BY <1>1, <2>1, OrderIs DEF Edits
  <2>3. /\ range' \in [Tables -> 0..MaxStaged] /\ range'["influx"] = h.id
        /\ range'["wide"] = range["wide"] /\ range'["narrow"] = range["narrow"]
    BY <1>2, <1>3, <2>1, <2>2
  <2>4. /\ EditsShape' /\ LocksHeld' /\ OrderOfEdits' /\ HalfDone' /\ finished["influx"] \in Seq(Edits)
        /\ finished'["influx"] = Append(finished["influx"], h)
        /\ finished'["timescale"] = finished["timescale"] /\ staged'["timescale"] = staged["timescale"]
    BY <2>1, <2>3, EditDone, OrderIs
  <2>5. IsLast(range["influx"], finished["influx"], BOOLEAN)'
    BY <2>2, <2>3, <2>4, LastIs
  <2>6. StagedIds("timescale")' = StagedIds("timescale")
    BY <2>4 DEF StagedIds
  <2>7. EditsReachTheirTables'
    BY <2>1, <2>3, <2>4, <2>5, <2>6 DEF EditsReachTheirTables
  <2> QED BY <2>4, <2>7 DEF EditsInv
<1>5. CASE EditNarrow(c)
  <2>1. /\ Applies(c, "timescale") /\ Done(c, "timescale") /\ range' = [range EXCEPT !["narrow"] = h.id]
        /\ UNCHANGED <<wideColumns, rollups, unstaged, changes>> /\ h.narrow /\ range["wide"] = h.id
    BY <1>5 DEF EditNarrow, HalfDone
  <2>2. h \in Edits /\ h.id \in 0..MaxStaged /\ h.narrow \in BOOLEAN
    BY <1>1, <2>1, OrderIs DEF Edits
  <2>3. /\ range' \in [Tables -> 0..MaxStaged] /\ range'["narrow"] = h.id
        /\ range'["wide"] = h.id /\ range'["influx"] = range["influx"]
    BY <1>2, <1>3, <2>1, <2>2
  <2>4. /\ EditsShape' /\ LocksHeld' /\ OrderOfEdits' /\ HalfDone' /\ finished["timescale"] \in Seq(Edits)
        /\ finished'["timescale"] = Append(finished["timescale"], h)
        /\ finished'["influx"] = finished["influx"]
    BY <2>1, <2>3, EditDone, OrderIs
  <2>5. h.narrow \in {TRUE}
    BY <2>1, <2>2
  <2>6. IsLast(range["narrow"], finished["timescale"], {TRUE})' /\ IsLast(range["wide"], finished["timescale"], BOOLEAN)'
    BY <2>2, <2>3, <2>4, <2>5, LastIs
  <2>7. EditsReachTheirTables'
    BY <2>3, <2>4, <2>6 DEF EditsReachTheirTables
  <2> QED BY <2>4, <2>7 DEF EditsInv
<1>6. CASE EditWide(c)
  <2>1. /\ Applies(c, "timescale") /\ range' = [range EXCEPT !["wide"] = h.id] /\ WideDone(c) /\ commit[c].at = "apply"
        /\ UNCHANGED <<wideColumns, rollups, unstaged, changes>>
    BY <1>6 DEF EditWide
  <2>2. h \in Edits /\ h.id \in 0..MaxStaged /\ h.narrow \in BOOLEAN /\ PlannedFor(c, "timescale")
    BY <1>1, <2>1, OrderIs DEF Edits
  <2>3. /\ range' \in [Tables -> 0..MaxStaged] /\ range'["wide"] = h.id
        /\ range'["narrow"] = range["narrow"] /\ range'["influx"] = range["influx"]
    BY <1>2, <1>3, <2>1, <2>2
  <2>4. CASE ~h.narrow
    <3>1. /\ EditsShape' /\ LocksHeld' /\ OrderOfEdits' /\ HalfDone' /\ finished["timescale"] \in Seq(Edits)
          /\ finished'["timescale"] = Append(finished["timescale"], h)
          /\ finished'["influx"] = finished["influx"]
      BY <2>1, <2>3, <2>4, EditDone, OrderIs DEF WideDone
    <3>2. h.narrow \notin {TRUE} /\ IsLast(range["narrow"], finished["timescale"], {TRUE})
      BY <2>2, <2>4 DEF EditsReachTheirTables
    <3>3. IsLast(range["narrow"], finished["timescale"], {TRUE})' /\ IsLast(range["wide"], finished["timescale"], BOOLEAN)'
      BY <2>2, <2>3, <3>1, <3>2, LastIs
    <3>4. EditsReachTheirTables'
      BY <2>3, <3>1, <3>3 DEF EditsReachTheirTables
    <3> QED BY <3>1, <3>4 DEF EditsInv
  <2>5. CASE h.narrow
    <3> DEFINE new == [commit[c] EXCEPT !.at = "narrow"]
    <3>1. commit' = [commit EXCEPT ![c] = new] /\ UNCHANGED <<holder, staged, finished>>
      BY <2>1, <2>5 DEF WideDone
    <3>2. commit \in [Committers -> CommitState] /\ commit[c] \in CommitState
      BY DEF EditsShape
    <3>3. /\ new \in CommitState /\ new.at = "narrow" /\ new.store = commit[c].store /\ new.plan = commit[c].plan
          /\ commit[c].store = 2
      <4>1. commit[c].store = 2 /\ commit[c].plan \in Seq(Edits) /\ commit[c].plan # <<>>
        BY <2>2, OrderIs, PlanOf
      <4> QED BY <2>1, <3>2, <4>1 DEF CommitState, Resting
    <3>4. /\ \A s \in Stores : holder'[s] = <<c>> <=> Order[new.store] = s
          /\ \A s \in EditStores : Order[new.store] = s => PlannedFor(c, s)
      BY <2>1, <3>1, <3>3 DEF LocksHeld, Applies, PlannedFor
    <3>5. /\ staged' \in [Stores -> (SUBSET Columns) \cup Seq(Edits)] /\ staged'["columns"] \subseteq Columns
          /\ wideColumns' \in (SUBSET Columns) \ {{}} /\ rollups' \in BOOLEAN
          /\ holder' \in [Stores -> {<<>>} \cup {<<d>> : d \in Committers}]
      BY <2>1, <3>1 DEF EditsShape
    <3>6. EditsShape' /\ LocksHeld' /\ OrderOfEdits'
      <4> HIDE DEF new, h
      <4>1. \A s \in Stores : holder'[s] = <<c>> <=> new.at \in {"apply", "narrow"} /\ Order[new.store] = s
        BY <3>3, <3>4
      <4>2. \A s \in EditStores : new.at \in {"planned", "apply", "narrow"} /\ Order[new.store] = s =>
              (PlannedFor(c, s) /\ new.plan = commit[c].plan) \/ new.plan = staged[s]
        BY <3>3, <3>4
      <4>3. UNCHANGED <<finished, unstaged, changes>> /\ \A s \in EditStores : staged'[s] = staged[s]
        BY <2>1, <3>1
      <4> QED BY <2>3, <3>1, <3>3, <3>5, <4>1, <4>2, <4>3, CommitMoves
    <3>7. HalfDone'
      <4>1. \A d \in Committers : d = c /\ commit'[d] = new
        BY <3>1, <3>2 DEF OneCommitter
      <4> HIDE DEF new
      <4> QED BY <2>3, <2>5, <3>3, <4>1 DEF HalfDone
    <3>8. range'["wide"] \in StagedIds("timescale")' \cup unstaged'
      <4>1. commit[c].plan \in Seq(Edits) /\ commit[c].plan # <<>>
        BY <1>1, <2>1, OrderIs
      <4>2. 1 \in DOMAIN commit[c].plan /\ h = commit[c].plan[1]
        BY <4>1
      <4>3. h.id \in IdsIn(commit[c].plan)
        BY <4>2 DEF IdsIn
      <4>4. IdsIn(commit[c].plan) \subseteq IdsIn(staged["timescale"]) \cup unstaged
        BY <2>2, OrderIs DEF OrderOfEdits, Planned
      <4>5. IdsIn(staged["timescale"]) = StagedIds("timescale") /\ StagedIds("timescale")' = StagedIds("timescale")
        BY <3>1 DEF IdsIn, StagedIds
      <4> QED BY <2>1, <2>3, <4>3, <4>4, <4>5
    <3>9. EditsReachTheirTables'
      BY <2>3, <3>1, <3>8 DEF EditsReachTheirTables
    <3> QED BY <3>6, <3>7, <3>9 DEF EditsInv
  <2> QED BY <2>4, <2>5
<1> QED BY <1>4, <1>5, <1>6

\* With one request that commits at a time, every edit is finished once and in the order of
\* staging, and each table holds what its last finished edit gave (do_commit(),
\* commit_staged_metric_edits()), whichever steps the databases refuse and whatever the admin
\* stages or takes back in between. A lock is held by the request that applies its store.
THEOREM EditsStayInOrder == OneCommitter => (AdminSpec => [](AdminTypeOK /\ EditsAreDoneOnce))
<1> SUFFICES ASSUME OneCommitter
             PROVE  AdminSpec => [](AdminTypeOK /\ EditsAreDoneOnce)
  OBVIOUS
<1>1. AdminInit => EditsInv
  <2> SUFFICES ASSUME AdminInit
               PROVE  EditsInv
    OBVIOUS
  <2>1. MaxStaged \in Nat /\ Columns # {} /\ DOMAIN <<>> = {} /\ <<>> \in Seq(Edits)
    BY AdminAssumption
  <2>2. /\ staged = [columns |-> {}, timescale |-> <<>>, influx |-> <<>>] /\ staged["columns"] = {}
        /\ staged["timescale"] = <<>> /\ staged["influx"] = <<>> /\ changes = 0 /\ unstaged = {}
        /\ \A c \in Committers : commit[c] = Resting
        /\ \A s \in EditStores : finished[s] = <<>>
        /\ \A t \in Tables : range[t] = 0
        /\ \A s \in Stores : holder[s] = <<>>
    BY DEF AdminInit
  <2>3. staged \in [Stores -> (SUBSET Columns) \cup Seq(Edits)]
    <3>1. {} \in SUBSET Columns /\ <<>> \in Seq(Edits)
      BY <2>1
    <3>2. PICK W : W = (SUBSET Columns) \cup Seq(Edits)
      OBVIOUS
    <3>3. {} \in W /\ <<>> \in W
      BY <3>1, <3>2, Zenon
    <3>4. DOMAIN staged = Stores
      BY <2>2, OrderIs
    <3>5. staged = [s \in Stores |-> staged[s]]
      BY <2>2, <3>4
    <3>6. \A s \in Stores : staged[s] \in W
      BY <2>2, <3>3, OrderIs
    <3>7. staged \in [Stores -> W]
      BY ONLY <3>5, <3>6
    <3> QED BY ONLY <3>2, <3>7
  <2>4. EditsShape
    <3>1. \A s \in EditStores : staged[s] \in Seq(Edits)
      BY <2>1, <2>2, OrderIs
    <3>2. commit \in [Committers -> CommitState]
      BY DEF AdminInit, CommitState
    <3>3. finished \in [EditStores -> Seq(Edits)] /\ holder \in [Stores -> {<<>>} \cup {<<c>> : c \in Committers}]
      BY <2>1 DEF AdminInit
    <3>4. range \in [Tables -> 0..MaxStaged] /\ wideColumns \in (SUBSET Columns) \ {{}} /\ rollups \in BOOLEAN
      BY <2>1 DEF AdminInit
    <3> QED BY <2>1, <2>2, <2>3, <3>1, <3>2, <3>3, <3>4 DEF EditsShape
  <2>5. LocksHeld
    <3>1. \A c \in Committers : <<>> # <<c>>
      OBVIOUS
    <3> QED BY <2>2, <3>1 DEF LocksHeld, Applies, Resting
  <2>6. OrderOfEdits
    BY <2>1, <2>2, OrderIs DEF OrderOfEdits, Ordered, Ascending, Before, Upto, PlannedFor, Resting
  <2>7. HalfDone
    BY <2>2 DEF HalfDone, Resting
  <2>8. EditsReachTheirTables
    BY <2>1, <2>2, OrderIs DEF EditsReachTheirTables, IsLast, Tables
  <2> QED BY <2>4, <2>5, <2>6, <2>7, <2>8 DEF EditsInv
<1>2. EditsInv /\ [AdminNext]_adminVars => EditsInv'
  <2> SUFFICES ASSUME EditsInv, [AdminNext]_adminVars
               PROVE  EditsInv'
    OBVIOUS
  <2>1. CASE AdminNext
    BY <2>1, AdminSteps, CommitSteps, EditSteps DEF AdminNext
  <2>2. CASE UNCHANGED adminVars
    BY <2>2 DEF adminVars, EditsInv, EditsShape, LocksHeld, Applies, OrderOfEdits, PlannedFor, HalfDone,
                EditsReachTheirTables, StagedIds
  <2> QED BY <2>1, <2>2
<1>3. EditsInv => AdminTypeOK /\ EditsAreDoneOnce
  <2> SUFFICES ASSUME EditsInv
               PROVE  AdminTypeOK /\ EditsAreDoneOnce
    OBVIOUS
  <2>1. FinishedOnceInOrder
    BY DEF EditsInv, OrderOfEdits, Ordered, Ascending, FinishedOnceInOrder
  <2>2. \A c \in Committers : commit[c].at \in {"rest", "planned", "apply", "narrow", "next"}
    BY DEF EditsInv, EditsShape, CommitState, Resting
  <2>3. \A s \in Stores : holder[s] \in {<<>>} \cup {<<c>> : c \in Committers}
    BY DEF EditsInv, EditsShape
  <2>4. AdminTypeOK
    BY <2>2, <2>3 DEF EditsInv, EditsShape, LocksHeld, AdminTypeOK
  <2> QED BY <2>1, <2>4 DEF EditsInv, EditsAreDoneOnce
<1> QED BY <1>1, <1>2, <1>3, PTL DEF AdminSpec

=============================================================================
