------------------------- MODULE ManifestStoreProofs -------------------------
(***************************************************************************)
(* Proofs of the properties of ManifestStore, for any edge apps, statuses  *)
(* and bound on times.                                                     *)
(***************************************************************************)
EXTENDS ManifestStore, TLAPS

(***************************************************************************)
(* A save that has been alone so far is the only one, what it encoded is   *)
(* still what is in memory, and the file it writes to is empty.            *)
(***************************************************************************)
AloneIsCurrent(w) ==
    Active(w) /\ saves[w].alone =>
        /\ ~ Active(Other(w))
        /\ SameButInitiated(saves[w].snap)
        /\ saves[w].pc = "write" => file = Empty

StoreInv ==
    /\ TypeOK
    /\ up \/ Quiet
    /\ hit => ~ up
    /\ \A w \in Writers : AloneIsCurrent(w)
    /\ \A w \in Writers : Active(w) /\ ~ suspect => saves[w].alone
    /\ UnreadableOnlyIfTorn
    /\ FileIsCurrent

USE DEF Writers, Other

LEMMA OtherWriter == \A w \in Writers : Other(w) \in Writers /\ Other(w) # w
OBVIOUS

LEMMA RecordTypes ==
    /\ NoRecords \in Records
    /\ NoSave \in Save
    /\ Empty \in File /\ Torn \in File
    /\ \A recs \in Records : Json(recs) \in File
BY DEF NoRecords, Records, NoSave, Save, Empty, Torn, File, Json

LEMMA InitStore == Init => StoreInv
<1> SUFFICES ASSUME Init PROVE StoreInv
  OBVIOUS
<1>1. file \in File
  BY RecordTypes DEF Init, File
<1>2. TypeOK
  BY <1>1, RecordTypes DEF Init, TypeOK
<1>3. \A w \in Writers : ~ Active(w)
  BY DEF Init, Active, NoSave
<1>4. UnreadableOnlyIfTorn
  BY DEF Init, UnreadableOnlyIfTorn, Readable
<1>5. FileIsCurrent
  BY DEF Init, FileIsCurrent, SameButInitiated
<1> QED
  BY <1>2, <1>3, <1>4, <1>5 DEF Init, StoreInv, AloneIsCurrent

(***************************************************************************)
(* Beginning a save: what the other save may have seen does not matter, as *)
(* it is not alone any more.                                               *)
(***************************************************************************)
LEMMA BeginSaveStore ==
    ASSUME StoreInv, up, NEW w \in Writers, ~ Active(w),
           mem' \in Records,
           NEW other \in Save, other.pc = saves[Other(w)].pc,
           BeginSave(w, mem', other), UNCHANGED <<up, file, hit>>
    PROVE  StoreInv'
<1>1. Other(w) \in Writers /\ Other(w) # w /\ Other(Other(w)) = w
  OBVIOUS
<1>2. /\ Begin(w, mem') \in Save
      /\ NotAlone(other) \in Save
      /\ NotAlone(other).alone = FALSE
      /\ NotAlone(other).pc = other.pc
  BY DEF Begin, Save, NotAlone, Active
<1>3. /\ saves'[w] = Begin(w, mem')
      /\ saves'[Other(w)] = NotAlone(other)
      /\ saves' \in [Writers -> Save]
  BY <1>1, <1>2 DEF BeginSave
<1>4. TypeOK'
  BY <1>3 DEF StoreInv, TypeOK, BeginSave
<1>5. /\ saves'[w].pc = "marshal"
      /\ saves'[w].snap = mem'
      /\ saves'[w].alone = ~ Active(Other(w))
      /\ saves'[Other(w)].pc = saves[Other(w)].pc
      /\ saves'[Other(w)].alone = FALSE
  BY <1>2, <1>3 DEF Begin
<1>6. AloneIsCurrent(w)' /\ AloneIsCurrent(Other(w))'
  BY <1>1, <1>5 DEF AloneIsCurrent, SameButInitiated, Active
<1>7. \A v \in Writers : v = w \/ v = Other(w)
  OBVIOUS
<1>8. \A v \in Writers : AloneIsCurrent(v)'
  BY <1>6, <1>7
<1>9. suspect' = (suspect \/ Active(Other(w)))
  BY DEF BeginSave
<1>10. \A v \in Writers : Active(v)' /\ ~ suspect' => saves'[v].alone
  BY <1>5, <1>7, <1>9 DEF Active
<1>11. UnreadableOnlyIfTorn'
  BY <1>1, <1>5, <1>7, <1>9 DEF StoreInv, UnreadableOnlyIfTorn, Readable, Active
<1>12. ~ Quiet'
  BY <1>5 DEF Quiet, Active
<1> QED
  BY <1>4, <1>8, <1>10, <1>11, <1>12 DEF StoreInv, FileIsCurrent

LEMMA SetInPlaceStore ==
    ASSUME StoreInv, up, NEW w \in Writers, ~ Active(w),
           NEW a \in Apps, NEW rec \in Record, SetInPlace(w, a, rec)
    PROVE  StoreInv'
<1>1. mem' \in Records /\ mem' = [mem EXCEPT ![a] = rec]
  BY DEF StoreInv, TypeOK, SetInPlace, Records
<1>2. PICK other \in MaySee(saves[Other(w)], a, rec) : BeginSave(w, mem', other)
  BY DEF SetInPlace
<1>3. saves[Other(w)] \in Save
  BY DEF StoreInv, TypeOK
<1>4. [rec EXCEPT !.status = Garbled] \in Record
  BY DEF Record
<1>5. other \in Save /\ other.pc = saves[Other(w)].pc
  <2>1. CASE other = saves[Other(w)]
    BY <2>1, <1>3
  <2>2. ASSUME NEW r \in Record, other = [saves[Other(w)] EXCEPT !.snap[a] = r]
        PROVE  other \in Save /\ other.pc = saves[Other(w)].pc
    BY <2>2, <1>3 DEF Save, Records
  <2> QED
    BY <1>2, <1>4, <2>1, <2>2 DEF MaySee
<1> QED
  BY <1>1, <1>2, <1>5, BeginSaveStore DEF SetInPlace

LEMMA SetStatusStore ==
    ASSUME StoreInv, NEW a \in Apps, NEW status \in Statuses, SetStatus(a, status)
    PROVE  StoreInv'
<1>1. [mem[a] EXCEPT !.status = status] \in Record
  BY DEF StoreInv, TypeOK, SetStatus, Records, Record
<1> QED
  BY <1>1, SetInPlaceStore DEF SetStatus

LEMMA SetLastLogReadStore ==
    ASSUME StoreInv, NEW a \in Apps, NEW time \in 1 .. MaxRead,
           SetLastLogRead(a, time)
    PROVE  StoreInv'
<1>1. [mem[a] EXCEPT !.read = time] \in Record
  BY StoreAssumption DEF StoreInv, TypeOK, SetLastLogRead, Records, Record
<1> QED
  BY <1>1, SetInPlaceStore DEF SetLastLogRead

LEMMA LoseType ==
    ASSUME NEW s \in Save, NEW a \in Apps
    PROVE  /\ Lose(s, a) \in Save
           /\ Lose(s, a).pc = s.pc
           /\ Lose(s, a).alone = s.alone
           /\ Lose(s, a).snap = s.snap
BY DEF Lose, Save

LEMMA DeleteStore ==
    ASSUME StoreInv, NEW a \in Apps, DeleteKnownManifest(a)
    PROVE  StoreInv'
<1>1. mem' \in Records
  BY DEF StoreInv, TypeOK, DeleteKnownManifest, Records
<1>2. saves["logs"] \in Save
  BY DEF StoreInv, TypeOK
<1>3. "handler" \in Writers /\ Other("handler") = "logs"
  OBVIOUS
<1> DEFINE other == Lose(saves["logs"], a)
<1>4. other \in Save /\ other.pc = saves["logs"].pc
  BY <1>2, LoseType
<1>5. BeginSave("handler", mem', other)
  BY DEF DeleteKnownManifest
<1> HIDE DEF other
<1> QED
  BY <1>1, <1>3, <1>4, <1>5, BeginSaveStore DEF DeleteKnownManifest

(***************************************************************************)
(* AddKnownManifest changes no save but what "logs" may still see, and     *)
(* memory only in a way that FileIsCurrent allows.                         *)
(***************************************************************************)
LEMMA AddStore ==
    ASSUME StoreInv, NEW a \in Apps, AddKnownManifest(a)
    PROVE  StoreInv'
<1> DEFINE new == [status |-> "Initiated", read |-> 0]
<1>1. new \in Record
  BY StoreAssumption DEF Record
<1>2. mem' \in Records /\ mem' = [mem EXCEPT ![a] = new]
  BY <1>1 DEF AddKnownManifest, StoreInv, TypeOK, Records
<1>3. saves["logs"] \in Save
  BY DEF StoreInv, TypeOK
<1>4. \A v \in Writers :
         /\ saves'[v].pc = saves[v].pc
         /\ saves'[v].alone = saves[v].alone
         /\ saves'[v].snap = saves[v].snap
         /\ saves'[v] \in Save
  BY <1>3, LoseType DEF AddKnownManifest, StoreInv, TypeOK
<1>5. TypeOK'
  BY <1>2, <1>4 DEF AddKnownManifest, StoreInv, TypeOK
<1>6. ASSUME NEW recs \in Records, SameButInitiated(recs)
      PROVE  SameButInitiated(recs)'
  BY <1>2, <1>6 DEF SameButInitiated, StoreInv, TypeOK, Records
<1>7. \A v \in Writers : saves[v].snap \in Records
  BY DEF StoreInv, TypeOK, Save
<1>8. \A v \in Writers : SameButInitiated(saves[v].snap) => SameButInitiated(saves[v].snap)'
  BY <1>2, <1>4, <1>6, <1>7 DEF SameButInitiated, StoreInv, TypeOK, Records
<1>9. \A v \in Writers : AloneIsCurrent(v)'
  BY <1>4, <1>8 DEF AloneIsCurrent, StoreInv, Active, AddKnownManifest
<1>10. file.recs \in Records /\ file' = file
  BY DEF StoreInv, TypeOK, File, AddKnownManifest
<1>11. FileIsCurrent'
  BY <1>4, <1>6, <1>10 DEF FileIsCurrent, StoreInv, Quiet, Active, AddKnownManifest
<1> QED
  BY <1>4, <1>5, <1>9, <1>11
     DEF StoreInv, AddKnownManifest, Quiet, Active, UnreadableOnlyIfTorn, Readable

LEMMA TruncateStore ==
    ASSUME StoreInv, NEW w \in Writers, Truncate(w)
    PROVE  StoreInv'
<1>1. saves[w] \in Save /\ saves \in [Writers -> Save]
  BY DEF StoreInv, TypeOK
<1>2. /\ saves'[w] \in Save
      /\ saves'[w].pc = "write"
      /\ saves'[w].snap = saves[w].snap
      /\ saves'[w].alone = saves[w].alone
      /\ \A v \in Writers \ {w} : saves'[v] = saves[v]
      /\ saves' \in [Writers -> Save]
  BY <1>1 DEF Truncate, Save
<1>3. TypeOK'
  BY <1>2, RecordTypes DEF StoreInv, TypeOK, Truncate, Truncated
<1>4. \A v \in Writers : Active(v)' = Active(v)
  BY <1>2 DEF Active, Truncate
<1>5. \A v \in Writers : AloneIsCurrent(v)'
  BY <1>2, <1>4 DEF StoreInv, AloneIsCurrent, SameButInitiated, Truncate, Truncated
<1> QED
  BY <1>2, <1>3, <1>4, <1>5
     DEF StoreInv, Truncate, Quiet, Active, UnreadableOnlyIfTorn, FileIsCurrent

(***************************************************************************)
(* A save that was alone replaces the file; one that was not leaves it     *)
(* suspect.                                                                *)
(***************************************************************************)
LEMMA WriteStore ==
    ASSUME StoreInv, NEW w \in Writers, Write(w)
    PROVE  StoreInv'
<1> DEFINE recs == saves[w].snap
<1>1. saves[w] \in Save /\ saves \in [Writers -> Save] /\ recs \in Records
  BY DEF StoreInv, TypeOK, Save
<1>2. file' \in File
  BY <1>1, RecordTypes DEF Write, Overwritten
<1>3. /\ saves'[w] = NoSave
      /\ \A v \in Writers \ {w} : saves'[v] = saves[v]
      /\ saves' \in [Writers -> Save]
  BY <1>1, RecordTypes DEF Write
<1>4. TypeOK'
  BY <1>2, <1>3 DEF StoreInv, TypeOK, Write
<1>5. Active(w) /\ ~ Active(w)' /\ Active(Other(w))' = Active(Other(w))
  BY <1>3 DEF Active, Write, NoSave
<1>6. \A v \in Writers : v = w \/ v = Other(w)
  OBVIOUS
<1>7. CASE saves[w].alone
  <2>1. /\ ~ Active(Other(w))
        /\ SameButInitiated(recs)
        /\ file = Empty
    BY <1>5, <1>7 DEF StoreInv, AloneIsCurrent, Write
  <2>2. file' = Json(recs)
    BY <2>1 DEF Write, Overwritten
  <2>3. \A v \in Writers : ~ Active(v)'
    BY <2>1, <1>5, <1>6
  <2>4. SameButInitiated(file.recs)'
    BY <2>1, <2>2 DEF SameButInitiated, Write, Json
  <2>5. Readable'
    BY <2>2 DEF Readable, Json
  <2> QED
    BY <1>4, <2>3, <2>4, <2>5
       DEF StoreInv, AloneIsCurrent, UnreadableOnlyIfTorn, FileIsCurrent, Quiet, Write
<1>8. CASE ~ saves[w].alone
  <2>1. suspect /\ suspect'
    BY <1>1, <1>5, <1>8 DEF StoreInv, TypeOK, Write
  <2>2. AloneIsCurrent(w)'
    BY <1>5 DEF AloneIsCurrent
  <2>3. AloneIsCurrent(Other(w))'
    <3>1. Active(Other(w)) => ~ saves[Other(w)].alone
      BY <1>5 DEF StoreInv, AloneIsCurrent
    <3> QED
      BY <1>3, <1>5, <3>1 DEF AloneIsCurrent
  <2> QED
    BY <1>4, <1>6, <2>1, <2>2, <2>3
       DEF StoreInv, UnreadableOnlyIfTorn, FileIsCurrent, Write, Quiet
<1> QED
  BY <1>7, <1>8

LEMMA KillStore ==
    ASSUME StoreInv, Kill
    PROVE  StoreInv'
<1>1. \A v \in Writers : saves'[v] = NoSave
  BY DEF Kill
<1>2. \A v \in Writers : ~ Active(v)'
  BY <1>1 DEF Active, NoSave
<1>3. file' \in File
  BY RecordTypes DEF Kill, StoreInv, TypeOK, Save
<1>4. TypeOK'
  BY <1>3, RecordTypes DEF StoreInv, TypeOK, Kill
<1>5. UnreadableOnlyIfTorn'
  BY DEF StoreInv, UnreadableOnlyIfTorn, Kill, Readable
<1> QED
  BY <1>2, <1>4, <1>5
     DEF StoreInv, Kill, Quiet, AloneIsCurrent, FileIsCurrent

LEMMA StartStore ==
    ASSUME StoreInv, Start
    PROVE  StoreInv'
<1>1. \A v \in Writers : ~ Active(v) /\ ~ Active(v)'
  BY DEF StoreInv, Start, Quiet, Active
<1>2. TypeOK'
  BY DEF StoreInv, TypeOK, Start, File
<1> QED
  BY <1>1, <1>2
     DEF StoreInv, Start, Quiet, AloneIsCurrent, FileIsCurrent, SameButInitiated,
         UnreadableOnlyIfTorn, Readable

LEMMA NextStore == StoreInv /\ [Next]_vars => StoreInv'
<1> SUFFICES ASSUME StoreInv, [Next]_vars PROVE StoreInv'
  OBVIOUS
<1>1. CASE \E a \in Apps : AddKnownManifest(a)
  BY <1>1, AddStore
<1>2. CASE \E a \in Apps : \E status \in Statuses : SetStatus(a, status)
  BY <1>2, SetStatusStore
<1>3. CASE \E a \in Apps : DeleteKnownManifest(a)
  BY <1>3, DeleteStore
<1>4. CASE \E a \in Apps : \E time \in 1 .. MaxRead : SetLastLogRead(a, time)
  BY <1>4, SetLastLogReadStore
<1>5. CASE \E w \in Writers : Truncate(w)
  BY <1>5, TruncateStore
<1>6. CASE \E w \in Writers : Write(w)
  BY <1>6, WriteStore
<1>7. CASE Kill
  BY <1>7, KillStore
<1>8. CASE Start
  BY <1>8, StartStore
<1>9. CASE UNCHANGED vars
  BY <1>9
     DEF vars, StoreInv, TypeOK, Quiet, Active, AloneIsCurrent, UnreadableOnlyIfTorn,
         FileIsCurrent, SameButInitiated, Readable
<1> QED
  BY <1>1, <1>2, <1>3, <1>4, <1>5, <1>6, <1>7, <1>8, <1>9 DEF Next, FailToStart

LEMMA AlwaysStoreInv == Spec => []StoreInv
BY InitStore, NextStore, PTL DEF Spec

(***************************************************************************)
(* The agent can always read its records at the start, but when it ended   *)
(* in the middle of a write or two saves overlapped                        *)
(* (manifest/status.go:129, agent.go:51).                                  *)
(***************************************************************************)
THEOREM UnreadableOnlyAfterTear == Spec => []UnreadableOnlyIfTorn
<1>1. StoreInv => UnreadableOnlyIfTorn
  BY DEF StoreInv
<1> QED
  BY <1>1, AlwaysStoreInv, PTL

(***************************************************************************)
(* As long as saves do not overlap, the file has what is in memory after   *)
(* each of them, and a restart loses Initiated records only: the           *)
(* assumption under which EdgeApp takes a save for one step.               *)
(***************************************************************************)
THEOREM SavesAreCurrent == Spec => []FileIsCurrent
<1>1. StoreInv => FileIsCurrent
  BY DEF StoreInv
<1> QED
  BY <1>1, AlwaysStoreInv, PTL
=============================================================================
