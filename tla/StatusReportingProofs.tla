------------------------ MODULE StatusReportingProofs ------------------------
(***************************************************************************)
(* Proofs about StatusReporting, for any number of edge apps, containers   *)
(* and reporters and any bounds: whatever happens while a message is       *)
(* built, its entries were right at some time, and the monitor notices a   *)
(* change whatever the orders of its lists.                                *)
(***************************************************************************)
EXTENDS StatusReporting, SequenceTheorems, FiniteSetTheorems, TLAPS

\* What the variables hold.
EntryType == [app : Apps, status : Status]
Listed == [con : Containers, state : ContainerState]
AtType == [app : Apps \cup {NoApp}, status : Status, live : BOOLEAN, reported : Status,
           listed : SUBSET Listed, truths : SUBSET Status, moved : BOOLEAN]
RepType == [pc : {"idle", "pick", "list", "inspect", "publish"}, compare : BOOLEAN,
            todo : SUBSET Apps, done : SUBSET Apps, at : AtType, out : Seq(EntryType),
            node : {"Connected", "Deleted"}]

TypeOK ==
    /\ status \in [Apps -> Status]
    /\ ctr \in [Apps -> [Containers -> ContainerState]]
    /\ nodeStatus \in {"Connected", "Deleted"}
    /\ rep \in [Reporters -> RepType]
    /\ monitor \in [seen : Seq(EntryType), latest : Seq(EntryType)]
    /\ retained \in [node : {"Connected", "Deleted"}, apps : SUBSET EntryType]
    /\ faults \in Nat

\* Of an edge app at hand that is in the map, or was when the range came to it.
HasApp(m) == m.at.live \/ m.pc \in {"list", "inspect"} => m.at.app \in Apps
AppAtHand == \A r \in Reporters : HasApp(rep[r])

TypeInv == TypeOK /\ AppAtHand

-----------------------------------------------------------------------------
(* Types *)

LEMMA NoEntryType == NoEntry \in AtType /\ Nothing \in RepType
<1>1. NoEntry \in AtType
  BY DEF NoEntry, AtType, Status
<1>2. <<>> \in Seq(EntryType)
  BY EmptySeq
<1> QED
  BY <1>1, <1>2 DEF Nothing, RepType

LEMMA BeginType ==
  ASSUME NEW apps \in SUBSET Apps, NEW compare \in BOOLEAN
  PROVE  /\ Begin(apps, compare) \in RepType
         /\ Begin(apps, compare).at = NoEntry /\ Begin(apps, compare).pc = "pick"
<1>1. Nothing.at = NoEntry
  BY DEF Nothing
<1> QED
  BY <1>1, NoEntryType DEF Begin, RepType

\* An entry is complete.
LEMMA CompletedFields ==
  ASSUME NEW m \in RepType, NEW s \in Status, m.at.app \in Apps
  PROVE  /\ Completed(m, s) \in RepType
         /\ Completed(m, s).pc = "pick" /\ Completed(m, s).at = NoEntry
         /\ Completed(m, s).out = Append(m.out, [app |-> m.at.app, status |-> s])
<1>1. m.out \in Seq(EntryType) /\ [app |-> m.at.app, status |-> s] \in EntryType
  BY DEF RepType, EntryType
<1>2. Append(m.out, [app |-> m.at.app, status |-> s]) \in Seq(EntryType)
  BY <1>1, AppendProperties
<1> QED
  BY <1>2, NoEntryType DEF Completed, RepType

\* The containers are listed.
Relisted(at, reported, listed) == [at EXCEPT !.reported = reported, !.listed = listed]
WithList(m, reported, listed) ==
    [m EXCEPT !.pc = "inspect", !.at.reported = reported, !.at.listed = listed]

LEMMA ListedFields ==
  ASSUME NEW m \in RepType, NEW reported \in Status, NEW listed \in SUBSET Listed
  PROVE  /\ WithList(m, reported, listed) \in RepType
         /\ WithList(m, reported, listed).pc = "inspect"
         /\ WithList(m, reported, listed).out = m.out
         /\ WithList(m, reported, listed).at
              = Relisted(m.at, reported, listed)
<1>1. m.at \in AtType
  BY DEF RepType
<1>2. [m.at EXCEPT !.reported = reported, !.listed = listed] \in AtType
  BY <1>1 DEF AtType
<1> QED
  BY <1>1, <1>2 DEF WithList, Relisted, RepType, AtType

LEMMA InspectedFields ==
  ASSUME NEW m \in RepType, NEW reported \in Status, NEW l
  PROVE  LET n == [m EXCEPT !.at.listed = @ \ {l}, !.at.reported = reported]
         IN  /\ n \in RepType
             /\ n.pc = m.pc /\ n.out = m.out
             /\ n.at = [m.at EXCEPT !.listed = @ \ {l}, !.reported = reported]
<1>1. m.at \in AtType
  BY DEF RepType
<1>2. [m.at EXCEPT !.listed = @ \ {l}, !.reported = reported] \in AtType
  BY <1>1 DEF AtType
<1> QED
  BY <1>1, <1>2 DEF RepType, AtType

LEMMA TrueStatusType ==
  /\ status \in [Apps -> Status] => \A a \in Apps : TrueStatus(a) \in Status
  /\ status' \in [Apps -> Status] => \A a \in Apps : TrueStatus(a)' \in Status
<1>1. "Error" \in Status
  BY DEF Status
<1> QED
  BY <1>1 DEF TrueStatus

(***************************************************************************)
(* What becomes of a message that is being built.                          *)
(***************************************************************************)
LEMMA GoneType ==
  ASSUME NEW l \in Listed
  PROVE  Gone(l) \in Listed /\ Gone(l).con = l.con /\ Gone(l).state = Absent
  BY DEF Gone, Listed, ContainerState

LEMMA FollowEntryFields ==
  ASSUME NEW r, NEW at \in AtType, at.live => at.app \in Apps,
         status' \in [Apps -> Status]
  PROVE  /\ FollowEntry(r, at) \in AtType
         /\ FollowEntry(r, at).app = at.app
         /\ FollowEntry(r, at).live = StillPointsTo(at)
         /\ FollowEntry(r, at).status = IF StillPointsTo(at) THEN status'[at.app] ELSE at.status
         /\ FollowEntry(r, at).reported = at.reported
         /\ FollowEntry(r, at).listed =
              {IF ctr'[at.app][l.con] = Absent THEN Gone(l) ELSE l : l \in at.listed}
         /\ FollowEntry(r, at).moved = (at.moved \/ (Moves(at) /\ r \in Watched))
         /\ FollowEntry(r, at).truths =
              IF at.live /\ ~ at.moved /\ ~ Moves(at)
              THEN at.truths \cup Noticed(r, {TrueStatus(a)' : a \in {at.app}})
              ELSE {}
<1> DEFINE truths == IF at.live /\ ~ at.moved /\ ~ Moves(at)
                     THEN at.truths \cup Noticed(r, {TrueStatus(a)' : a \in {at.app}})
                     ELSE {}
           listed == {IF ctr'[at.app][l.con] = Absent THEN Gone(l) ELSE l : l \in at.listed}
           live == StillPointsTo(at)
           now == IF live THEN status'[at.app] ELSE at.status
           moved == at.moved \/ (Moves(at) /\ r \in Watched)
<1>2. truths \in SUBSET Status
  <2>1. at.truths \in SUBSET Status
    BY DEF AtType
  <2>2. at.live => Noticed(r, {TrueStatus(a)' : a \in {at.app}}) \in SUBSET Status
    BY TrueStatusType DEF Noticed
  <2> QED
    BY <2>1, <2>2
<1>3. listed \in SUBSET Listed
  <2>1. \A l \in at.listed : l \in Listed
    BY DEF AtType
  <2> QED
    BY <2>1, GoneType
<1>4. live \in BOOLEAN /\ now \in Status /\ moved \in BOOLEAN
  <2>1. at.live \in BOOLEAN /\ at.status \in Status /\ at.moved \in BOOLEAN
    BY DEF AtType
  <2>2. live => status'[at.app] \in Status
    BY DEF StillPointsTo
  <2> QED
    BY <2>1, <2>2 DEF StillPointsTo, Moves
<1>5. FollowEntry(r, at) = [at EXCEPT !.live = live, !.status = now, !.listed = listed,
                                      !.moved = moved, !.truths = truths]
  BY DEF FollowEntry
<1> HIDE DEF truths, listed, live, now, moved
<1>6. /\ FollowEntry(r, at) \in AtType
      /\ FollowEntry(r, at).app = at.app
      /\ FollowEntry(r, at).live = live /\ FollowEntry(r, at).status = now
      /\ FollowEntry(r, at).reported = at.reported
      /\ FollowEntry(r, at).listed = listed
      /\ FollowEntry(r, at).moved = moved
      /\ FollowEntry(r, at).truths = truths
  BY <1>2, <1>3, <1>4, <1>5 DEF AtType
<1> QED
  BY <1>6 DEF truths, listed, live, now, moved

LEMMA FollowFields ==
  ASSUME NEW r, NEW m \in RepType, m.at.live => m.at.app \in Apps,
         status' \in [Apps -> Status]
  PROVE  /\ Follow(r, m) \in RepType
         /\ Follow(r, m).pc = m.pc /\ Follow(r, m).compare = m.compare
         /\ Follow(r, m).out = m.out
         /\ Follow(r, m).at = FollowEntry(r, m.at)
<1> DEFINE todo == m.todo \cap KnownApps'
           done == IF Len(m.out) < MaxEntries THEN m.done \cap KnownApps' ELSE m.done
<1>1. m.at \in AtType
  BY DEF RepType
<1>2. FollowEntry(r, m.at) \in AtType
  BY <1>1, FollowEntryFields
<1>3. todo \in SUBSET Apps /\ done \in SUBSET Apps
  BY DEF RepType
<1>4. Follow(r, m) = [m EXCEPT !.todo = todo, !.done = done, !.at = FollowEntry(r, m.at)]
  BY DEF Follow
<1> HIDE DEF todo, done
<1> QED
  BY <1>2, <1>3, <1>4 DEF RepType
-----------------------------------------------------------------------------
(* The type invariant *)

LEMMA InitTypes == Init => TypeInv
<1> SUFFICES ASSUME Init PROVE TypeInv
  OBVIOUS
<1>1. <<>> \in Seq(EntryType)
  BY EmptySeq
<1>2. Nothing.at.live = FALSE /\ Nothing.pc = "idle"
  BY DEF Nothing, NoEntry
<1>3. AppAtHand
  BY <1>2 DEF Init, AppAtHand, HasApp
<1>4. status \in [Apps -> Status] /\ ctr \in [Apps -> [Containers -> ContainerState]]
  BY DEF Init, Status, ContainerState
<1>5. rep \in [Reporters -> RepType]
  BY NoEntryType DEF Init
<1> QED
  BY <1>1, <1>3, <1>4, <1>5 DEF Init, TypeInv, TypeOK, Message

\* A step of one reporter.
LEMMA GoesTypes ==
  ASSUME TypeInv, NEW r \in Reporters, NEW new \in RepType, HasApp(new), Goes(r, new)
  PROVE  rep' \in [Reporters -> RepType] /\ AppAtHand'
<1>1. rep \in [Reporters -> RepType] /\ rep' = [rep EXCEPT ![r] = new]
  BY DEF TypeInv, TypeOK, Goes
<1>2. \A q \in Reporters : rep'[q] = IF q = r THEN new ELSE rep[q]
  BY <1>1
<1> QED
  BY <1>1, <1>2 DEF TypeInv, AppAtHand, HasApp

\* What the range has come to.
LEMMA PickedEntry ==
  ASSUME NEW a \in Apps, NEW s \in Status, NEW truths \in SUBSET Status
  PROVE  LET at == [NoEntry EXCEPT !.app = a, !.status = s, !.live = TRUE, !.reported = s,
                                   !.truths = truths]
         IN  /\ at \in AtType
             /\ at.app = a /\ at.status = s /\ at.live /\ at.reported = s
             /\ at.truths = truths /\ ~ at.moved
<1>1. NoEntry.moved = FALSE
  BY DEF NoEntry
<1> QED
  BY <1>1, NoEntryType DEF AtType

LEMMA PickFields ==
  ASSUME TypeOK, NEW r \in Reporters, Pick(r)
  PROVE  \E a \in Apps, m \in RepType :
           /\ IsKnown(a)
           /\ m.pc = "list" /\ m.out = rep[r].out /\ m.compare = rep[r].compare
           /\ m.at.app = a /\ m.at.status = status[a] /\ m.at.live
           /\ m.at.reported = status[a]
           /\ m.at.truths = Noticed(r, {TrueStatus(a)}) /\ ~ m.at.moved
           /\ Goes(r, IF status[a] = "Undeployed" THEN Completed(m, "Undeployed") ELSE m)
<1> DEFINE At(a) == [NoEntry EXCEPT
                       !.app = a, !.status = status[a], !.live = TRUE,
                       !.reported = status[a],
                       !.truths = Noticed(r, {TrueStatus(a)})]
           M(a) == [rep[r] EXCEPT !.pc = "list", !.todo = @ \ {a}, !.done = @ \cup {a},
                                  !.at = At(a)]
<1>1. PICK a \in KnownApps \ rep[r].done :
        Goes(r, IF status[a] = "Undeployed" THEN Completed(M(a), "Undeployed") ELSE M(a))
  BY DEF Pick
<1>2. a \in Apps /\ IsKnown(a)
  BY <1>1 DEF KnownApps
<1>3. rep[r] \in RepType /\ status[a] \in Status
  BY <1>2 DEF TypeOK
<1>4. Noticed(r, {TrueStatus(a)}) \in SUBSET Status
  BY <1>2, TrueStatusType DEF Noticed, TypeOK
<1> DEFINE todo == rep[r].todo \ {a}
           done == rep[r].done \cup {a}
           at == At(a)
<1>5. /\ at \in AtType
      /\ at.app = a /\ at.status = status[a] /\ at.live /\ at.reported = status[a]
      /\ at.truths = Noticed(r, {TrueStatus(a)}) /\ ~ at.moved
  BY <1>2, <1>3, <1>4, PickedEntry
<1>6. M(a) = [rep[r] EXCEPT !.pc = "list", !.todo = todo, !.done = done, !.at = at]
  OBVIOUS
<1>7. todo \in SUBSET Apps /\ done \in SUBSET Apps
  BY <1>2, <1>3 DEF RepType
<1> HIDE DEF M, todo, done, at
<1>8. /\ M(a) \in RepType
      /\ M(a).pc = "list" /\ M(a).out = rep[r].out /\ M(a).compare = rep[r].compare
      /\ M(a).at = at
  BY <1>3, <1>5, <1>6, <1>7 DEF RepType
<1> QED
  BY <1>1, <1>2, <1>5, <1>8

\* Nothing and a message that is complete have no app at hand.
LEMMA AtNoApp ==
  ASSUME NEW m, m.at = NoEntry, m.pc \notin {"list", "inspect"}
  PROVE  HasApp(m)
  BY DEF HasApp, NoEntry

LEMMA JudgedType ==
  ASSUME NEW at \in AtType, NEW l
  PROVE  Judged(at, l) \in Status
  BY DEF Judged, AtType, Status

\* The status by the number of containers, and the containers that are listed.
Counted(at) ==
    IF at.status \in {"Running", "Stopped"} /\ Cardinality(ContainersOf(at.app)) # Modules
    THEN "Error"
    ELSE at.reported
ListedOf(a) == {[con |-> c, state |-> ctr[a][c]] : c \in ContainersOf(a)}

LEMMA ListFields ==
  ASSUME TypeInv, NEW r \in Reporters, List(r)
  PROVE  /\ rep[r] \in RepType /\ rep[r].at \in AtType /\ rep[r].pc = "list"
         /\ rep[r].at.app \in Apps /\ Counted(rep[r].at) \in Status
         /\ \/ /\ ContainersOf(rep[r].at.app) = {}
               /\ Goes(r, Completed(rep[r], Counted(rep[r].at)))
            \/ \E m \in RepType :
                 /\ m.pc = "inspect" /\ m.out = rep[r].out
                 /\ m.at = [rep[r].at EXCEPT !.reported = Counted(rep[r].at),
                                             !.listed = ListedOf(rep[r].at.app)]
                 /\ Goes(r, m)
<1>0. PICK m : m = rep[r]
  OBVIOUS
<1> DEFINE at == m.at
           reported == Counted(at)
           listed == ListedOf(at.app)
           n == WithList(m, reported, listed)
<1>1. m \in RepType /\ m.pc = "list" /\ HasApp(m)
  BY <1>0 DEF TypeInv, TypeOK, AppAtHand, List
<1>2. at \in AtType /\ at.app \in Apps
  BY <1>1 DEF RepType, HasApp
<1>3. reported \in Status
  BY <1>2 DEF Counted, AtType, Status
<1>4. listed \in SUBSET Listed
  BY <1>2 DEF ListedOf, ContainersOf, Listed, TypeInv, TypeOK
<1>5. Goes(r, IF ContainersOf(at.app) = {} THEN Completed(m, reported) ELSE n)
  BY <1>0 DEF List, Counted, ListedOf, WithList
<1> HIDE DEF reported, listed
<1>6. n \in RepType /\ n.pc = "inspect" /\ n.out = m.out
      /\ n.at = Relisted(at, reported, listed)
  BY <1>1, <1>3, <1>4, ListedFields
<1> HIDE DEF n
<1> QED
  BY <1>0, <1>1, <1>2, <1>3, <1>5, <1>6 DEF reported, listed, Relisted

LEMMA InspectFields ==
  ASSUME TypeInv, NEW r \in Reporters, Inspect(r)
  PROVE  /\ rep[r] \in RepType /\ rep[r].at \in AtType /\ rep[r].pc = "inspect"
         /\ rep[r].at.app \in Apps
         /\ \/ Goes(r, Nothing)
            \/ \E l \in rep[r].at.listed :
                 /\ l.state # Absent /\ l \in Listed /\ Judged(rep[r].at, l) \in Status
                 /\ \/ /\ rep[r].at.listed = {l}
                       /\ Goes(r, Completed(rep[r], Judged(rep[r].at, l)))
                    \/ \E m \in RepType :
                         /\ m.pc = "inspect" /\ m.out = rep[r].out
                         /\ m.at = [rep[r].at EXCEPT !.listed = @ \ {l},
                                                     !.reported = Judged(rep[r].at, l)]
                         /\ Goes(r, m)
<1>0. PICK m : m = rep[r]
  OBVIOUS
<1> DEFINE at == m.at
           n(l, s) == [m EXCEPT !.at.listed = @ \ {l}, !.at.reported = s]
<1>1. m \in RepType /\ m.pc = "inspect" /\ HasApp(m)
  BY <1>0 DEF TypeInv, TypeOK, AppAtHand, Inspect
<1>2. at \in AtType /\ at.app \in Apps
  BY <1>1 DEF RepType, HasApp
<1>3. PICK l \in at.listed :
        Goes(r, IF l.state = Absent
                THEN Nothing
                ELSE IF at.listed = {l}
                THEN Completed(m, Judged(at, l))
                ELSE n(l, Judged(at, l)))
  BY <1>0 DEF Inspect
<1>4. l \in Listed /\ Judged(at, l) \in Status
  BY <1>2, JudgedType DEF AtType
<1>5. \A s \in Status :
        n(l, s) \in RepType /\ n(l, s).pc = "inspect" /\ n(l, s).out = m.out
          /\ n(l, s).at = [at EXCEPT !.listed = @ \ {l}, !.reported = s]
  BY <1>1, InspectedFields
<1> HIDE DEF n
<1>6. CASE l.state = Absent
  BY <1>0, <1>1, <1>2, <1>3, <1>6
<1>7. CASE l.state # Absent /\ at.listed = {l}
  BY <1>0, <1>1, <1>2, <1>3, <1>4, <1>7
<1>8. CASE l.state # Absent /\ at.listed # {l}
  <2>1. Goes(r, n(l, Judged(at, l)))
    BY <1>3, <1>8
  <2> QED
    BY <1>0, <1>1, <1>2, <1>4, <1>5, <1>8, <2>1
<1> QED
  BY <1>6, <1>7, <1>8

LEMMA CompletedTypes ==
  ASSUME TypeInv, NEW r \in Reporters, NEW m \in RepType, NEW s \in Status,
         m.at.app \in Apps, Goes(r, Completed(m, s))
  PROVE  rep' \in [Reporters -> RepType] /\ AppAtHand'
<1>1. Completed(m, s) \in RepType /\ HasApp(Completed(m, s))
  BY CompletedFields, AtNoApp
<1> QED
  BY <1>1, GoesTypes

LEMMA NothingTypes ==
  ASSUME TypeInv, NEW r \in Reporters, Goes(r, Nothing)
  PROVE  rep' \in [Reporters -> RepType] /\ AppAtHand'
<1>1. Nothing.at = NoEntry /\ Nothing.pc = "idle"
  BY DEF Nothing
<1> QED
  BY <1>1, NoEntryType, AtNoApp, GoesTypes

LEMMA BeginTypes ==
  ASSUME TypeInv, NEW r \in Reporters, NEW compare \in BOOLEAN,
         Goes(r, Begin(KnownApps, compare))
  PROVE  rep' \in [Reporters -> RepType] /\ AppAtHand'
<1>1. KnownApps \in SUBSET Apps
  BY DEF KnownApps
<1> QED
  BY <1>1, BeginType, AtNoApp, GoesTypes

\* A reporter's steps keep the types of what it is busy with.
LEMMA ReportTypes ==
  ASSUME TypeInv, NEW r \in Reporters, Report(r)
  PROVE  rep' \in [Reporters -> RepType] /\ AppAtHand'
<1>1. CASE Wake(r)
  <2>1. Goes(r, Begin(KnownApps, r = "monitor")) /\ (r = "monitor") \in BOOLEAN
    BY <1>1 DEF Wake
  <2> QED
    BY <2>1, BeginTypes
<1>2. CASE Pick(r)
  <2>1. PICK a \in Apps, m \in RepType :
          /\ m.at.app = a /\ m.pc = "list"
          /\ Goes(r, IF status[a] = "Undeployed" THEN Completed(m, "Undeployed") ELSE m)
    BY <1>2, PickFields DEF TypeInv
  <2>2. CASE status[a] = "Undeployed"
    <3>1. "Undeployed" \in Status
      BY DEF Status
    <3> QED
      BY <2>1, <2>2, <3>1, CompletedTypes
  <2>3. CASE status[a] # "Undeployed"
    <3>1. HasApp(m)
      BY <2>1 DEF HasApp
    <3> QED
      BY <2>1, <2>3, <3>1, GoesTypes
  <2> QED
    BY <2>2, <2>3
<1>3. CASE List(r)
  <2>1. \A m \in RepType :
          m.at = [rep[r].at EXCEPT !.reported = Counted(rep[r].at),
                                   !.listed = ListedOf(rep[r].at.app)] => HasApp(m)
    BY <1>3, ListFields DEF AtType, HasApp
  <2> QED
    BY <1>3, <2>1, ListFields, CompletedTypes, GoesTypes
<1>4. CASE Inspect(r)
  <2>1. \A l : \A m \in RepType :
          m.at = [rep[r].at EXCEPT !.listed = @ \ {l}, !.reported = Judged(rep[r].at, l)]
            => HasApp(m)
    BY <1>4, InspectFields DEF AtType, HasApp
  <2> QED
    BY <1>4, <2>1, InspectFields, CompletedTypes, NothingTypes, GoesTypes
<1>5. CASE Compare(r)
  BY <1>5, NothingTypes, BeginTypes DEF Compare
<1>6. CASE MakeMessage(r)
  <2> DEFINE n == [rep[r] EXCEPT !.pc = "publish", !.node = nodeStatus, !.done = {}]
  <2>1. rep[r] \in RepType /\ HasApp(rep[r]) /\ nodeStatus \in {"Connected", "Deleted"}
    BY DEF TypeInv, TypeOK, AppAtHand
  <2>2. n \in RepType /\ n.pc = "publish" /\ n.at = rep[r].at
    BY <2>1 DEF RepType
  <2>3. HasApp(n)
    BY <2>1, <2>2 DEF HasApp
  <2>4. Goes(r, n) \/ Goes(r, Nothing)
    BY <1>6 DEF MakeMessage
  <2> HIDE DEF n
  <2> QED
    BY <2>2, <2>3, <2>4, GoesTypes, NothingTypes
<1>7. CASE Publish(r)
  BY <1>7, NothingTypes DEF Publish
<1> QED
  BY <1>1, <1>2, <1>3, <1>4, <1>5, <1>6, <1>7 DEF Report

LEMMA FollowsType == \A s \in Status : Follows[s] \subseteq Status
  BY DEF Follows, Status

\* The step of somebody else keeps them, too.
LEMMA EverybodyTypes ==
  ASSUME TypeInv, status' \in [Apps -> Status], Everybody
  PROVE  rep' \in [Reporters -> RepType] /\ AppAtHand'
<1>1. ASSUME NEW r \in Reporters
      PROVE  rep'[r] \in RepType /\ HasApp(rep'[r])
  <2>1. CASE rep'[r] = Begin(KnownApps', FALSE)
    <3>1. KnownApps' \in SUBSET Apps
      BY DEF KnownApps
    <3>2. \A apps \in SUBSET Apps : Begin(apps, FALSE) \in RepType /\ HasApp(Begin(apps, FALSE))
      BY BeginType, AtNoApp
    <3> QED
      BY <2>1, <3>1, <3>2
  <2>2. CASE rep'[r] = Follow(r, rep[r])
    <3>1. rep[r] \in RepType /\ HasApp(rep[r])
      BY DEF TypeInv, TypeOK, AppAtHand
    <3>2. rep[r].at \in AtType /\ (rep[r].at.live => rep[r].at.app \in Apps)
      BY <3>1 DEF RepType, HasApp
    <3>3. /\ Follow(r, rep[r]) \in RepType
          /\ Follow(r, rep[r]).pc = rep[r].pc
          /\ Follow(r, rep[r]).at = FollowEntry(r, rep[r].at)
      BY <3>1, <3>2, FollowFields
    <3>4. /\ FollowEntry(r, rep[r].at).app = rep[r].at.app
          /\ FollowEntry(r, rep[r].at).live => rep[r].at.live
      <4>1. ASSUME NEW at \in AtType, at.live => at.app \in Apps
            PROVE  FollowEntry(r, at).app = at.app /\ FollowEntry(r, at).live = StillPointsTo(at)
        BY <4>1, FollowEntryFields
      <4>2. FollowEntry(r, rep[r].at).app = rep[r].at.app
        BY <3>2, <4>1
      <4>3. FollowEntry(r, rep[r].at).live = StillPointsTo(rep[r].at)
        BY <3>2, <4>1
      <4> QED
        BY <4>2, <4>3 DEF StillPointsTo
    <3> QED
      BY <2>2, <3>1, <3>3, <3>4 DEF HasApp
  <2> QED
    BY <2>1, <2>2 DEF Everybody
<1>2. rep' = [r \in Reporters |-> rep'[r]]
  BY DEF Everybody
<1> QED
  BY <1>1, <1>2 DEF AppAtHand, HasApp

\* What records and containers, and the messages are after a step.
LEMMA EnvTypes ==
  ASSUME TypeInv, [Next]_vars
  PROVE  /\ status' \in [Apps -> Status]
         /\ ctr' \in [Apps -> [Containers -> ContainerState]]
         /\ nodeStatus' \in {"Connected", "Deleted"}
<1>0. /\ status \in [Apps -> Status] /\ ctr \in [Apps -> [Containers -> ContainerState]]
      /\ nodeStatus \in {"Connected", "Deleted"}
  BY DEF TypeInv, TypeOK
<1>1. \A a \in Apps, c \in Containers, state \in ContainerState :
        SetContainer(a, c, state) => ctr' \in [Apps -> [Containers -> ContainerState]]
  BY <1>0 DEF SetContainer
<1>2. CASE HandlerActs
  <2>1. PICK a \in Apps :
          \/ /\ \E s \in Follows[status[a]] \cap Reached : status' = [status EXCEPT ![a] = s]
             /\ UNCHANGED ctr
          \/ /\ \E c \in Containers : HandleContainer(a, c)
             /\ UNCHANGED status
    BY <1>2 DEF HandlerActs
  <2>2. \A s \in Follows[status[a]] : s \in Status
    BY <1>0, FollowsType
  <2>3. \A c \in Containers :
          HandleContainer(a, c) => \E state \in ContainerState : SetContainer(a, c, state)
    BY DEF HandleContainer, ContainerState
  <2> QED
    BY <1>0, <1>1, <1>2, <2>1, <2>2, <2>3 DEF HandlerActs
<1>3. CASE DeleteNode
  BY <1>0, <1>3 DEF DeleteNode
<1>4. CASE ContainerActs
  <2>1. \E a \in Apps, c \in Containers, state \in ContainerState : SetContainer(a, c, state)
    BY <1>4 DEF ContainerActs, ContainerState
  <2> QED
    BY <1>0, <1>1, <1>4, <2>1 DEF ContainerActs
<1>5. CASE (\E r \in Reporters : Report(r)) \/ UNCHANGED vars
  <2>1. UNCHANGED envVars
    BY <1>5 DEF Report, Wake, Pick, List, Inspect, Compare, MakeMessage, Publish, Quietly, vars
  <2> QED
    BY <1>0, <2>1 DEF envVars
<1> QED
  BY <1>2, <1>3, <1>4, <1>5 DEF Next

LEMMA MessageTypes ==
  ASSUME TypeInv, [Next]_vars
  PROVE  /\ monitor' \in [seen : Seq(EntryType), latest : Seq(EntryType)]
         /\ retained' \in [node : {"Connected", "Deleted"}, apps : SUBSET EntryType]
         /\ faults' \in Nat
<1>0. /\ monitor \in [seen : Seq(EntryType), latest : Seq(EntryType)]
      /\ retained \in [node : {"Connected", "Deleted"}, apps : SUBSET EntryType]
      /\ faults \in Nat
  BY DEF TypeInv, TypeOK
<1>1. CASE UNCHANGED <<monitor, retained, faults>>
  BY <1>0, <1>1
<1>2. ASSUME NEW r \in Reporters, Report(r)
      PROVE  /\ monitor' \in [seen : Seq(EntryType), latest : Seq(EntryType)]
             /\ retained' \in [node : {"Connected", "Deleted"}, apps : SUBSET EntryType]
             /\ faults' \in Nat
  <2>1. rep[r].out \in Seq(EntryType) /\ rep[r].node \in {"Connected", "Deleted"}
    BY DEF TypeInv, TypeOK, RepType
  <2>2. EntriesOf(rep[r].out) \in SUBSET EntryType
    BY <2>1, ElementOfSeq DEF EntriesOf
  <2>3. CASE Wake(r) \/ Pick(r) \/ List(r) \/ Inspect(r)
    BY <1>0, <2>3 DEF Wake, Pick, List, Inspect, Quietly
  <2>4. CASE Compare(r)
    <3>1. monitor' = monitor \/ monitor' = [monitor EXCEPT !.latest = rep[r].out]
      BY <2>4 DEF Compare
    <3> QED
      BY <1>0, <2>1, <2>4, <3>1 DEF Compare
  <2>5. CASE MakeMessage(r)
    BY <1>0, <2>5 DEF MakeMessage, Fault
  <2>6. CASE Publish(r)
    <3>1. Noted(r) \in [seen : Seq(EntryType), latest : Seq(EntryType)]
      BY <1>0, EmptySeq DEF Noted
    <3>2. Message(rep[r].node, EntriesOf(rep[r].out))
            \in [node : {"Connected", "Deleted"}, apps : SUBSET EntryType]
      BY <2>1, <2>2 DEF Message
    <3>3. /\ monitor' \in {monitor, Noted(r)}
          /\ retained' \in {retained, Message(rep[r].node, EntriesOf(rep[r].out))}
          /\ faults' \in {faults, faults + 1}
      BY <2>6 DEF Publish, Fault
    <3> QED
      BY <1>0, <3>1, <3>2, <3>3
  <2> QED
    BY <1>2, <2>3, <2>4, <2>5, <2>6 DEF Report
<1>3. CASE HandlerActs \/ DeleteNode \/ ContainerActs \/ UNCHANGED vars
  BY <1>1, <1>3 DEF HandlerActs, DeleteNode, ContainerActs, vars
<1> QED
  BY <1>2, <1>3 DEF Next

LEMMA NextTypes == TypeInv /\ [Next]_vars => TypeInv'
<1> SUFFICES ASSUME TypeInv, [Next]_vars PROVE TypeInv'
  OBVIOUS
<1>1. rep' \in [Reporters -> RepType] /\ AppAtHand'
  <2>1. CASE \E r \in Reporters : Report(r)
    BY <2>1, ReportTypes
  <2>2. CASE HandlerActs \/ DeleteNode \/ ContainerActs
    <3>1. Everybody
      BY <2>2 DEF HandlerActs, DeleteNode, ContainerActs
    <3> QED
      BY <3>1, EnvTypes, EverybodyTypes
  <2>3. CASE UNCHANGED vars
    BY <2>3 DEF vars, TypeInv, TypeOK, AppAtHand
  <2> QED
    BY <2>1, <2>2, <2>3 DEF Next
<1> QED
  BY <1>1, EnvTypes, MessageTypes DEF TypeInv, TypeOK

\* The lists, the entries and the messages are of the types of the code's, and
\* containers are only asked for of an edge app that the range has come to.
THEOREM TypesHold == Spec => []TypeInv
  BY InitTypes, NextTypes, PTL DEF Spec
-----------------------------------------------------------------------------
(***************************************************************************)
(* Why an entry was right at some time.  As long as the record is the one  *)
(* that was picked, with its status, what is right at the moment has been  *)
(* noted.  An Error was right when it was found: a wrong number or a wrong *)
(* state when the containers were listed, a wrong exit code when they were *)
(* inspected.  And if there is none, all containers that were listed had   *)
(* the right state then, or one is still to be inspected: the exit code of *)
(* a container does not change while the edge app is Stopped.              *)
(***************************************************************************)
\* The state that a container has in an edge app with this status.
Right(s) == IF s = "Running" THEN "running" ELSE "exited"

\* TrueStatus, by the status s of the record and the states cs of the containers.
StatusOf(s, cs) ==
    LET cons == {c \in Containers : cs[c] # Absent}
    IN  IF /\ s \in {"Running", "Stopped"}
           /\ Cardinality(cons) # Modules \/ \E c \in cons : cs[c] # Right(s)
        THEN "Error"
        ELSE s

IsNow(at, s, cs) == at.live /\ at.status = s /\ StatusOf(s, cs) \in at.truths

FoundSoFar(at, cs) ==
    /\ at.reported \in {at.status, "Error"}
    /\ at.reported = "Error" /\ at.status # "Error" => "Error" \in at.truths
    /\ at.status \in {"Running", "Stopped"} =>
         /\ \A l \in at.listed : l.state \notin {Right(at.status), Absent} => "Error" \in at.truths
         /\ at.reported = at.status =>
              at.status \in at.truths \/ \E l \in at.listed : l.state # Right(at.status)
    /\ at.status = "Stopped" =>
         \A l \in at.listed : l.state = "failed" => cs[l.con] = "failed"

\* Of a message m that is being built.
EntryOK(m, s, cs) ==
    m.pc \in {"list", "inspect"} /\ ~ m.at.moved =>
      /\ IsNow(m.at, s, cs)
      /\ m.pc = "list" => m.at.reported = m.at.status
      /\ m.pc = "inspect" => FoundSoFar(m.at, cs)

EntryInv ==
    \A r \in Reporters \cap Watched :
        EntryOK(rep[r], status[rep[r].at.app], ctr[rep[r].at.app])

LEMMA TrueStatusIs ==
  /\ \A a \in Apps : TrueStatus(a) = StatusOf(status[a], ctr[a])
  /\ \A a \in Apps : TrueStatus(a)' = StatusOf(status'[a], ctr'[a])
<1>1. \A a \in Apps : TrueStatus(a) = StatusOf(status[a], ctr[a])
  BY DEF TrueStatus, StatusOf, ContainersOf, Right
<1>2. \A a \in Apps : TrueStatus(a)' = StatusOf(status'[a], ctr'[a])
  BY DEF TrueStatus, StatusOf, ContainersOf, Right
<1> QED
  BY <1>1, <1>2

\* A complete message, or one that has just begun, is not about an app yet.
LEMMA NoneAtHand ==
  ASSUME NEW m, m.pc \notin {"list", "inspect"}, NEW s, NEW cs
  PROVE  EntryOK(m, s, cs)
  BY DEF EntryOK

LEMMA ErrorIsRight ==
  ASSUME NEW s \in {"Running", "Stopped"}, NEW cs, NEW c \in Containers,
         cs[c] # Absent, cs[c] # Right(s)
  PROVE  StatusOf(s, cs) = "Error"
  BY DEF StatusOf

\* What is found when the containers are listed.
LEMMA ListFinds ==
  ASSUME TypeInv, NEW at \in AtType, at.app \in Apps, at.reported = at.status,
         IsNow(at, status[at.app], ctr[at.app])
  PROVE  /\ FoundSoFar([at EXCEPT !.reported = Counted(at), !.listed = ListedOf(at.app)],
                       ctr[at.app])
         /\ ContainersOf(at.app) = {} => Counted(at) \in at.truths
<1> DEFINE s == at.status
           cs == ctr[at.app]
           new == [at EXCEPT !.reported = Counted(at), !.listed = ListedOf(at.app)]
<1>1. at.live /\ s = status[at.app] /\ StatusOf(s, cs) \in at.truths
  BY DEF IsNow
<1>2. new.reported = Counted(at) /\ new.listed = ListedOf(at.app)
      /\ new.status = s /\ new.truths = at.truths
  BY DEF AtType
<1>3. Counted(at) = IF s \in {"Running", "Stopped"} /\ Cardinality(ContainersOf(at.app)) # Modules
                    THEN "Error" ELSE s
  BY DEF Counted
<1>4. ContainersOf(at.app) = {c \in Containers : cs[c] # Absent}
  BY DEF ContainersOf
<1>5. \A l \in ListedOf(at.app) : l.con \in Containers /\ l.state # Absent /\ l.state = cs[l.con]
  BY <1>4 DEF ListedOf
<1>6. ASSUME NEW l \in ListedOf(at.app), s \in {"Running", "Stopped"}, l.state # Right(s)
      PROVE  "Error" \in at.truths
  BY <1>1, <1>5, <1>6, ErrorIsRight
<1>7. ASSUME s \in {"Running", "Stopped"}, Cardinality(ContainersOf(at.app)) # Modules
      PROVE  "Error" \in at.truths
  BY <1>1, <1>4, <1>7 DEF StatusOf
<1>8. ASSUME s \in {"Running", "Stopped"}, Cardinality(ContainersOf(at.app)) = Modules,
             \A l \in ListedOf(at.app) : l.state = Right(s)
      PROVE  s \in at.truths
  <2>1. \A c \in ContainersOf(at.app) : cs[c] = Right(s)
    <3>1. \A c \in ContainersOf(at.app) : [con |-> c, state |-> cs[c]] \in ListedOf(at.app)
      BY DEF ListedOf
    <3> QED
      BY <1>8, <3>1
  <2>2. StatusOf(s, cs) = s
    BY <1>4, <1>8, <2>1 DEF StatusOf
  <2> QED
    BY <1>1, <2>2
<1>9. FoundSoFar(new, cs)
  <2>1. s \in {"Running", "Stopped"} => s # "Error"
    OBVIOUS
  <2> HIDE DEF new, s, cs
  <2> QED
    BY <1>2, <1>3, <1>5, <1>6, <1>7, <1>8, <2>1 DEF FoundSoFar
<1>10. ASSUME ContainersOf(at.app) = {} PROVE Counted(at) \in at.truths
  <2>1. ListedOf(at.app) = {}
    BY <1>10 DEF ListedOf
  <2>2. CASE s \in {"Running", "Stopped"}
    BY <1>3, <1>7, <1>8, <2>1, <2>2
  <2>3. CASE s \notin {"Running", "Stopped"}
    BY <1>1, <1>3, <2>3 DEF StatusOf
  <2> QED
    BY <2>2, <2>3
<1> QED
  BY <1>9, <1>10

\* What is found when a container is inspected.
LEMMA InspectFinds ==
  ASSUME TypeInv, NEW at \in AtType, at.app \in Apps,
         IsNow(at, status[at.app], ctr[at.app]), FoundSoFar(at, ctr[at.app]),
         NEW l \in at.listed, l \in Listed, l.state # Absent
  PROVE  /\ FoundSoFar([at EXCEPT !.listed = @ \ {l}, !.reported = Judged(at, l)], ctr[at.app])
         /\ at.listed = {l} => Judged(at, l) \in at.truths
<1> DEFINE s == at.status
           cs == ctr[at.app]
           new == [at EXCEPT !.listed = @ \ {l}, !.reported = Judged(at, l)]
<1>1. at.live /\ s = status[at.app] /\ StatusOf(s, cs) \in at.truths
  BY DEF IsNow
<1>2. new.reported = Judged(at, l) /\ new.listed = at.listed \ {l}
      /\ new.status = s /\ new.truths = at.truths
  BY DEF AtType
<1>3. Judged(at, l) = IF s \in {"Running", "Stopped"} /\ ~ AsExpected(s, l.state, cs[l.con])
                      THEN "Error" ELSE at.reported
  BY DEF Judged, AsExpected
<1>4. l.con \in Containers
  BY DEF Listed
<1>5. ASSUME s \in {"Running", "Stopped"}, ~ AsExpected(s, l.state, cs[l.con])
      PROVE  "Error" \in at.truths
  <2>1. CASE l.state # Right(s)
    BY <1>5, <2>1 DEF FoundSoFar
  <2>2. CASE l.state = Right(s)
    <3>1. s = "Stopped" /\ cs[l.con] = "failed"
      BY <1>5, <2>2 DEF AsExpected, Right
    <3>2. cs[l.con] # Absent /\ cs[l.con] # Right(s)
      BY <3>1 DEF Absent, Right
    <3> QED
      BY <1>1, <1>4, <1>5, <3>2, ErrorIsRight
  <2> QED
    BY <2>1, <2>2
<1>6. ASSUME s \in {"Running", "Stopped"}, AsExpected(s, l.state, cs[l.con])
      PROVE  l.state = Right(s)
  BY <1>6 DEF AsExpected, Right, FoundSoFar
<1>7. FoundSoFar(at, cs)
  OBVIOUS
<1>8. s \in {"Running", "Stopped"} => s # "Error"
  OBVIOUS
<1> HIDE DEF new, s, cs
<1>9. FoundSoFar(new, cs)
  <2>1. CASE s \notin {"Running", "Stopped"}
    BY <1>2, <1>3, <1>7, <2>1 DEF FoundSoFar, s
  <2>2. CASE s \in {"Running", "Stopped"}
    <3>1. CASE AsExpected(s, l.state, cs[l.con])
      BY <1>2, <1>3, <1>6, <1>7, <1>8, <2>2, <3>1 DEF FoundSoFar, s
    <3>2. CASE ~ AsExpected(s, l.state, cs[l.con])
      BY <1>2, <1>3, <1>5, <1>7, <1>8, <2>2, <3>2 DEF FoundSoFar, s
    <3> QED
      BY <3>1, <3>2
  <2> QED
    BY <2>1, <2>2
<1>10. ASSUME at.listed = {l} PROVE Judged(at, l) \in at.truths
  <2>1. new.listed = {}
    BY <1>2, <1>10
  <2>2. CASE s \in {"Running", "Stopped"}
    BY <1>2, <1>9, <2>1, <2>2 DEF FoundSoFar
  <2>3. CASE s \notin {"Running", "Stopped"}
    <3>1. StatusOf(s, cs) = s
      BY <2>3 DEF StatusOf
    <3> QED
      BY <1>1, <1>2, <1>9, <3>1 DEF FoundSoFar
  <2> QED
    BY <2>2, <2>3
<1> QED
  BY <1>9, <1>10 DEF new, cs

LEMMA InitEntries == Init => EntryInv
<1>1. Nothing.pc = "idle"
  BY DEF Nothing
<1> QED
  BY <1>1, NoneAtHand DEF Init, EntryInv

LEMMA GoesEntries ==
  ASSUME TypeInv, EntryInv, NEW r \in Reporters, NEW new, Goes(r, new), UNCHANGED envVars,
         r \in Watched => EntryOK(new, status[new.at.app], ctr[new.at.app])
  PROVE  EntryInv'
<1>1. status' = status /\ ctr' = ctr
  BY DEF envVars
<1>2. \A q \in Reporters : rep'[q] = IF q = r THEN new ELSE rep[q]
  BY DEF TypeInv, TypeOK, Goes
<1>3. \A q \in Reporters \cap Watched :
        EntryOK(rep'[q], status[rep'[q].at.app], ctr[rep'[q].at.app])
  BY <1>2 DEF EntryInv
<1> QED
  BY <1>1, <1>3 DEF EntryInv

\* A step of a reporter that leaves it without an app at hand.
LEMMA GoesNowhere ==
  ASSUME TypeInv, EntryInv, NEW r \in Reporters, NEW new, Goes(r, new), UNCHANGED envVars,
         new.pc \notin {"list", "inspect"}
  PROVE  EntryInv'
  BY GoesEntries, NoneAtHand

LEMMA ReportEntries ==
  ASSUME TypeInv, EntryInv, NEW r \in Reporters, Report(r)
  PROVE  EntryInv'
<1>0. UNCHANGED envVars
  BY DEF Report, Wake, Pick, List, Inspect, Compare, MakeMessage, Publish, Quietly
<1>1. Nothing.pc = "idle" /\ \A apps, compare : Begin(apps, compare).pc = "pick"
  BY DEF Nothing, Begin
<1>2. \A m \in RepType, s \in Status : m.at.app \in Apps => Completed(m, s).pc = "pick"
  BY CompletedFields
<1>3. CASE Wake(r)
  BY <1>0, <1>1, <1>3, GoesNowhere DEF Wake
<1>4. CASE Pick(r)
  <2>1. PICK a \in Apps, m \in RepType :
           /\ m.pc = "list"
           /\ m.at.app = a /\ m.at.status = status[a] /\ m.at.live
           /\ m.at.reported = status[a]
           /\ m.at.truths = Noticed(r, {TrueStatus(a)})
           /\ Goes(r, IF status[a] = "Undeployed" THEN Completed(m, "Undeployed") ELSE m)
    BY <1>4, PickFields DEF TypeInv
  <2>2. CASE status[a] = "Undeployed"
    <3>1. "Undeployed" \in Status
      BY DEF Status
    <3> QED
      BY <1>0, <1>2, <2>1, <2>2, <3>1, GoesNowhere
  <2>3. CASE status[a] # "Undeployed"
    <3>1. r \in Watched => EntryOK(m, status[a], ctr[a])
      BY <2>1, TrueStatusIs DEF EntryOK, IsNow, Noticed
    <3> QED
      BY <1>0, <2>1, <2>3, <3>1, GoesEntries
  <2> QED
    BY <2>2, <2>3
<1>5. CASE List(r)
  <2>1. PICK at \in AtType : at = rep[r].at
    BY <1>5, ListFields
  <2>2. rep[r].pc = "list" /\ at.app \in Apps
    BY <1>5, <2>1, ListFields
  <2>3. CASE Goes(r, Completed(rep[r], Counted(at)))
    BY <1>0, <1>2, <1>5, <2>1, <2>3, ListFields, GoesNowhere
  <2>4. ASSUME NEW m \in RepType, m.pc = "inspect",
               m.at = [at EXCEPT !.reported = Counted(at), !.listed = ListedOf(at.app)],
               Goes(r, m)
        PROVE  EntryInv'
    <3>1. m.at.app = at.app /\ m.at.live = at.live /\ m.at.moved = at.moved
          /\ m.at.status = at.status /\ m.at.truths = at.truths
      BY <2>4 DEF AtType
    <3>2. ASSUME r \in Watched, ~ at.moved PROVE EntryOK(m, status[at.app], ctr[at.app])
      <4>1. IsNow(at, status[at.app], ctr[at.app]) /\ at.reported = at.status
        BY <2>1, <2>2, <3>2 DEF EntryInv, EntryOK
      <4>2. FoundSoFar(m.at, ctr[at.app])
        BY <2>2, <2>4, <4>1, ListFinds
      <4>3. IsNow(m.at, status[at.app], ctr[at.app])
        BY <3>1, <4>1 DEF IsNow
      <4> QED
        BY <2>4, <4>2, <4>3 DEF EntryOK
    <3>3. at.moved => EntryOK(m, status[at.app], ctr[at.app])
      BY <3>1 DEF EntryOK
    <3> QED
      BY <1>0, <2>4, <3>1, <3>2, <3>3, GoesEntries
  <2> QED
    BY <1>5, <2>1, <2>3, <2>4, ListFields
<1>6. CASE Inspect(r)
  <2>1. PICK at \in AtType : at = rep[r].at
    BY <1>6, InspectFields
  <2>2. rep[r].pc = "inspect" /\ at.app \in Apps
    BY <1>6, <2>1, InspectFields
  <2>3. ASSUME NEW l \in at.listed, l \in Listed, Judged(at, l) \in Status,
               Goes(r, Completed(rep[r], Judged(at, l)))
        PROVE  EntryInv'
    BY <1>0, <1>2, <1>6, <2>1, <2>3, InspectFields, GoesNowhere
  <2>4. ASSUME NEW l \in at.listed, l \in Listed, l.state # Absent,
               NEW m \in RepType, m.pc = "inspect",
               m.at = [at EXCEPT !.listed = @ \ {l}, !.reported = Judged(at, l)],
               Goes(r, m)
        PROVE  EntryInv'
    <3>1. m.at.app = at.app /\ m.at.live = at.live /\ m.at.moved = at.moved
          /\ m.at.status = at.status /\ m.at.truths = at.truths
      BY <2>4 DEF AtType
    <3>2. ASSUME r \in Watched, ~ at.moved PROVE EntryOK(m, status[at.app], ctr[at.app])
      <4>1. IsNow(at, status[at.app], ctr[at.app]) /\ FoundSoFar(at, ctr[at.app])
        BY <2>1, <2>2, <3>2 DEF EntryInv, EntryOK
      <4>2. FoundSoFar(m.at, ctr[at.app])
        BY <2>2, <2>4, <4>1, InspectFinds
      <4>3. IsNow(m.at, status[at.app], ctr[at.app])
        BY <3>1, <4>1 DEF IsNow
      <4> QED
        BY <2>4, <4>2, <4>3 DEF EntryOK
    <3>3. at.moved => EntryOK(m, status[at.app], ctr[at.app])
      BY <3>1 DEF EntryOK
    <3> QED
      BY <1>0, <2>4, <3>1, <3>2, <3>3, GoesEntries
  <2>5. CASE Goes(r, Nothing)
    BY <1>0, <1>1, <2>5, GoesNowhere
  <2> QED
    BY <1>6, <2>1, <2>3, <2>4, <2>5, InspectFields
<1>7. CASE Compare(r)
  BY <1>0, <1>1, <1>7, GoesNowhere DEF Compare
<1>8. CASE MakeMessage(r)
  <2> DEFINE n == [rep[r] EXCEPT !.pc = "publish", !.node = nodeStatus, !.done = {}]
  <2>1. rep[r] \in RepType
    BY DEF TypeInv, TypeOK
  <2>2. n.pc = "publish"
    BY <2>1 DEF RepType
  <2>3. Goes(r, n) \/ Goes(r, Nothing)
    BY <1>8 DEF MakeMessage
  <2> HIDE DEF n
  <2> QED
    BY <1>0, <1>1, <2>2, <2>3, GoesNowhere
<1>9. CASE Publish(r)
  BY <1>0, <1>1, <1>9, GoesNowhere DEF Publish
<1> QED
  BY <1>3, <1>4, <1>5, <1>6, <1>7, <1>8, <1>9 DEF Report

\* An exit code stays while nobody starts the container, or removes it.
LEMMA FailedStays ==
  ASSUME TypeInv, HandlerActs \/ DeleteNode \/ ContainerActs,
         NEW a \in Apps, NEW c \in Containers, status[a] = "Stopped", ctr[a][c] = "failed"
  PROVE  ctr'[a][c] \in {"failed", Absent}
<1>0. ctr \in [Apps -> [Containers -> ContainerState]]
  BY DEF TypeInv, TypeOK
<1>1. \A state : \A b \in Apps, d \in Containers :
        SetContainer(b, d, state) /\ (b # a \/ d # c) => ctr'[a][c] = ctr[a][c]
  BY <1>0 DEF SetContainer
<1>2. \A state : SetContainer(a, c, state) => ctr'[a][c] = state
  BY <1>0 DEF SetContainer
<1>3. CASE HandlerActs
  <2>1. PICK b \in Apps : (\E d \in Containers : HandleContainer(b, d)) \/ UNCHANGED ctr
    BY <1>3 DEF HandlerActs
  <2>2. ASSUME NEW d \in Containers, HandleContainer(b, d)
        PROVE  ctr'[a][c] = ctr[a][c]
    <3>1. b # a
      BY <2>2 DEF HandleContainer
    <3> QED
      BY <1>1, <2>2, <3>1 DEF HandleContainer
  <2> QED
    BY <2>1, <2>2
<1>4. CASE DeleteNode
  BY <1>4 DEF DeleteNode
<1>5. CASE ContainerActs
  <2>1. PICK b \in Apps, d \in Containers :
          \/ ctr[b][d] \in {"running", "restarting"} /\ \E state : SetContainer(b, d, state)
          \/ SetContainer(b, d, Absent)
    BY <1>5 DEF ContainerActs
  <2> QED
    BY <1>1, <1>2, <2>1
<1> QED
  BY <1>3, <1>4, <1>5

\* What was found is still so when others have taken a step.
LEMMA StillFound ==
  ASSUME NEW r \in Watched, NEW at \in AtType, at.app \in Apps,
         TypeInv, status' \in [Apps -> Status],
         HandlerActs \/ DeleteNode \/ ContainerActs,
         ~ FollowEntry(r, at).moved, IsNow(at, status[at.app], ctr[at.app])
  PROVE  /\ IsNow(FollowEntry(r, at), status'[at.app], ctr'[at.app])
         /\ FollowEntry(r, at).status = at.status
         /\ FollowEntry(r, at).reported = at.reported
         /\ FoundSoFar(at, ctr[at.app]) => FoundSoFar(FollowEntry(r, at), ctr'[at.app])
<1> DEFINE new == FollowEntry(r, at)
           s == at.status
           cs == ctr[at.app]
           ncs == ctr'[at.app]
<1>1. /\ new.live = StillPointsTo(at)
      /\ new.status = IF StillPointsTo(at) THEN status'[at.app] ELSE at.status
      /\ new.reported = at.reported
      /\ new.listed = {IF ncs[l.con] = Absent THEN Gone(l) ELSE l : l \in at.listed}
      /\ new.moved = (at.moved \/ (Moves(at) /\ r \in Watched))
      /\ new.truths = IF at.live /\ ~ at.moved /\ ~ Moves(at)
                      THEN at.truths \cup Noticed(r, {TrueStatus(a)' : a \in {at.app}})
                      ELSE {}
  BY FollowEntryFields
<1>2. at.live /\ s = status[at.app]
  BY DEF IsNow
<1> HIDE DEF new, ncs
<1>3. ~ at.moved /\ ~ Moves(at)
  BY <1>1 DEF new
<1>4. status'[at.app] = s
  BY <1>2, <1>3 DEF Moves
<1>5. StillPointsTo(at)
  BY <1>2, <1>4 DEF StillPointsTo, Replaced
<1>6. new.live /\ new.status = s /\ new.reported = at.reported
  BY <1>1, <1>4, <1>5
<1>7. new.truths = at.truths \cup {StatusOf(s, ncs)}
  <2>1. {TrueStatus(a)' : a \in {at.app}} = {StatusOf(status'[a], ctr'[a]) : a \in {at.app}}
    BY TrueStatusIs
  <2>2. Noticed(r, {TrueStatus(a)' : a \in {at.app}}) = {StatusOf(s, ncs)}
    BY <1>4, <2>1 DEF Noticed, ncs
  <2>3. new.truths = at.truths \cup Noticed(r, {TrueStatus(a)' : a \in {at.app}})
    BY <1>1, <1>2, <1>3
  <2> QED
    BY <2>2, <2>3
<1>8. IsNow(new, s, ncs)
  BY <1>6, <1>7 DEF IsNow
<1>9. ASSUME FoundSoFar(at, cs) PROVE FoundSoFar(new, ncs)
  <2>1. \A k \in new.listed : k.state = Absent \/ (k \in at.listed /\ ncs[k.con] # Absent)
    BY <1>1 DEF Gone, Listed, AtType
  <2>2. \A l \in at.listed : l \in new.listed \/ \E k \in new.listed : k.state = Absent
    <3>1. \A l \in at.listed : Gone(l).state = Absent
      BY GoneType DEF AtType
    <3>2. \A l \in at.listed : ncs[l.con] = Absent => Gone(l) \in new.listed
      BY <1>1
    <3>3. \A l \in at.listed : ncs[l.con] # Absent => l \in new.listed
      BY <1>1
    <3> QED
      BY <3>1, <3>2, <3>3
  <2>3. \A l \in at.listed : l.con \in Containers
    BY DEF AtType, Listed
  <2>4. ASSUME s = "Stopped", NEW k \in new.listed, k.state = "failed"
        PROVE  ncs[k.con] = "failed"
    <3>1. k \in at.listed /\ ncs[k.con] # Absent
      BY <2>1, <2>4 DEF Absent
    <3>2. cs[k.con] = "failed"
      BY <1>9, <2>4, <3>1 DEF FoundSoFar
    <3>3. ctr'[at.app][k.con] \in {"failed", Absent}
      BY <1>2, <2>3, <2>4, <3>1, <3>2, FailedStays
    <3> QED
      BY <3>1, <3>3 DEF ncs
  <2>5. Right(s) # Absent
    BY DEF Right, Absent
  <2>6. \A k \in new.listed : k.state # Absent => k \in at.listed
    BY <2>1
  <2>7. (\E l \in at.listed : l.state # Right(s)) => \E k \in new.listed : k.state # Right(s)
    BY <2>2, <2>5
  <2> HIDE DEF s
  <2> QED
    BY <1>6, <1>7, <1>9, <2>4, <2>6, <2>7 DEF FoundSoFar, s
<1> QED
  BY <1>4, <1>6, <1>8, <1>9 DEF new, ncs

LEMMA EverybodyEntries ==
  ASSUME TypeInv, EntryInv, status' \in [Apps -> Status],
         HandlerActs \/ DeleteNode \/ ContainerActs
  PROVE  EntryInv'
<1>0. Everybody
  BY DEF HandlerActs, DeleteNode, ContainerActs
<1>1. ASSUME NEW r \in Reporters \cap Watched
      PROVE  EntryOK(rep'[r], status'[rep'[r].at.app], ctr'[rep'[r].at.app])
  <2>1. CASE rep'[r] = Begin(KnownApps', FALSE)
    <3>1. \A apps : Begin(apps, FALSE).pc = "pick"
      BY DEF Begin, Nothing
    <3>2. rep'[r].pc = "pick"
      BY <2>1, <3>1
    <3> QED
      BY <3>2, NoneAtHand
  <2>2. CASE rep'[r] = Follow(r, rep[r])
    <3>1. PICK m \in RepType : m = rep[r]
      BY DEF TypeInv, TypeOK
    <3>2. PICK at \in AtType : at = m.at
      BY DEF RepType
    <3>3. (at.live => at.app \in Apps) /\ (m.pc \in {"list", "inspect"} => at.app \in Apps)
      BY <3>1, <3>2 DEF TypeInv, AppAtHand, HasApp
    <3>4. rep'[r].pc = m.pc /\ rep'[r].at = FollowEntry(r, at)
      BY <2>2, <3>1, <3>2, <3>3, FollowFields
    <3>5. /\ FollowEntry(r, at).app = at.app
          /\ FollowEntry(r, at).moved = (at.moved \/ (Moves(at) /\ r \in Watched))
      BY <3>3, FollowEntryFields
    <3>6. ASSUME m.pc \in {"list", "inspect"}, ~ FollowEntry(r, at).moved
          PROVE  EntryOK(rep'[r], status'[at.app], ctr'[at.app])
      <4>1. ~ at.moved /\ at.app \in Apps
        BY <3>3, <3>5, <3>6
      <4>2. EntryOK(m, status[at.app], ctr[at.app])
        BY <3>1, <3>2 DEF EntryInv
      <4>3. /\ IsNow(at, status[at.app], ctr[at.app])
            /\ m.pc = "list" => at.reported = at.status
            /\ m.pc = "inspect" => FoundSoFar(at, ctr[at.app])
        BY <3>2, <3>6, <4>1, <4>2 DEF EntryOK
      <4>4. /\ IsNow(FollowEntry(r, at), status'[at.app], ctr'[at.app])
            /\ FollowEntry(r, at).status = at.status
            /\ FollowEntry(r, at).reported = at.reported
            /\ FoundSoFar(at, ctr[at.app]) => FoundSoFar(FollowEntry(r, at), ctr'[at.app])
        BY <3>6, <4>1, <4>3, StillFound
      <4> QED
        BY <3>4, <4>3, <4>4 DEF EntryOK
    <3>7. m.pc \notin {"list", "inspect"} \/ FollowEntry(r, at).moved
            => EntryOK(rep'[r], status'[at.app], ctr'[at.app])
      BY <3>4 DEF EntryOK
    <3> QED
      BY <3>4, <3>5, <3>6, <3>7
  <2> QED
    BY <1>0, <2>1, <2>2 DEF Everybody
<1> QED
  BY <1>1 DEF EntryInv

LEMMA NextEntries == TypeInv /\ EntryInv /\ [Next]_vars => EntryInv'
<1> SUFFICES ASSUME TypeInv, EntryInv, [Next]_vars PROVE EntryInv'
  OBVIOUS
<1>1. CASE \E r \in Reporters : Report(r)
  BY <1>1, ReportEntries
<1>2. CASE HandlerActs \/ DeleteNode \/ ContainerActs
  BY <1>2, EnvTypes, EverybodyEntries
<1>3. CASE UNCHANGED vars
  BY <1>3 DEF vars, envVars, EntryInv
<1> QED
  BY <1>1, <1>2, <1>3 DEF Next

(***************************************************************************)
(* EntryWasTrue: what a completed entry says was right at some time while  *)
(* it was built, or its record changed meanwhile.                          *)
(***************************************************************************)
WasTrue(r) ==
    r \in Watched /\ Len(rep'[r].out) > Len(rep[r].out) =>
        LET entry == rep'[r].out[Len(rep'[r].out)]
        IN  \/ entry.status \in rep[r].at.truths
            \/ rep[r].at.moved
            \/ entry.status = "Undeployed" /\ status[entry.app] = "Undeployed"

LEMMA NotLonger ==
  ASSUME TypeInv, NEW r \in Reporters, rep'[r].out = rep[r].out \/ rep'[r].out = <<>>
  PROVE  WasTrue(r)
<1>1. Len(rep[r].out) \in Nat
  BY DEF TypeInv, TypeOK, RepType
<1> QED
  BY <1>1 DEF WasTrue

LEMMA CompletedEntry ==
  ASSUME TypeInv, NEW r \in Reporters, NEW m \in RepType, NEW s \in Status,
         m.at.app \in Apps, m.out = rep[r].out, Goes(r, Completed(m, s))
  PROVE  LET entry == rep'[r].out[Len(rep'[r].out)]
         IN  entry.status = s /\ entry.app = m.at.app
<1> DEFINE e == [app |-> m.at.app, status |-> s]
<1>1. rep'[r] = Completed(m, s)
  BY DEF Goes, TypeInv, TypeOK
<1>2. m.out \in Seq(EntryType) /\ e \in EntryType
  BY DEF RepType, EntryType
<1>3. rep'[r].out = Append(m.out, e)
  BY <1>1, CompletedFields
<1>4. Len(Append(m.out, e)) = Len(m.out) + 1 /\ Append(m.out, e)[Len(m.out) + 1] = e
  BY <1>2, AppendProperties
<1> QED
  BY <1>3, <1>4

LEMMA NextWasTrue ==
  ASSUME TypeInv, EntryInv, [Next]_vars, NEW q \in Reporters
  PROVE  WasTrue(q)
<1>0. rep[q] \in RepType
  BY DEF TypeInv, TypeOK
<1>1. ASSUME NEW new, new.out = rep[q].out \/ new.out = <<>>, rep'[q] = new
      PROVE  WasTrue(q)
  BY <1>1, NotLonger
<1>2. Nothing.out = <<>> /\ \A apps, compare : Begin(apps, compare).out = <<>>
  BY DEF Nothing, Begin
<1>3. CASE HandlerActs \/ DeleteNode \/ ContainerActs
  <2>1. rep'[q] = Begin(KnownApps', FALSE) \/ rep'[q] = Follow(q, rep[q])
    BY <1>3 DEF HandlerActs, DeleteNode, ContainerActs, Everybody
  <2>2. rep[q].at.live => rep[q].at.app \in Apps
    BY DEF TypeInv, AppAtHand, HasApp
  <2>3. Follow(q, rep[q]).out = rep[q].out
    BY <1>0, <1>3, <2>2, EnvTypes, FollowFields DEF Next
  <2> QED
    BY <1>1, <1>2, <2>1, <2>3
<1>4. CASE UNCHANGED vars
  BY <1>1, <1>4 DEF vars
<1>5. ASSUME NEW r \in Reporters, Report(r), r # q
      PROVE  WasTrue(q)
  <2>1. \E new : Goes(r, new)
    BY <1>5 DEF Report, Wake, Pick, List, Inspect, Compare, MakeMessage, Publish
  <2>2. rep'[q] = rep[q]
    BY <1>5, <2>1 DEF Goes, TypeInv, TypeOK
  <2> QED
    BY <1>1, <2>2
<1>6. ASSUME Report(q)
      PROVE  WasTrue(q)
  <2>0. \A new : Goes(q, new) => rep'[q] = new
    BY DEF Goes, TypeInv, TypeOK
  <2>1. CASE Wake(q)
    BY <1>1, <1>2, <2>0, <2>1 DEF Wake
  <2>2. CASE Pick(q)
    <3>1. PICK a \in Apps, m \in RepType :
           /\ m.at.app = a /\ m.out = rep[q].out
           /\ Goes(q, IF status[a] = "Undeployed" THEN Completed(m, "Undeployed") ELSE m)
      BY <2>2, PickFields DEF TypeInv
    <3>2. CASE status[a] = "Undeployed"
      <4>1. "Undeployed" \in Status
        BY DEF Status
      <4> QED
        BY <3>1, <3>2, <4>1, CompletedEntry DEF WasTrue
    <3>3. CASE status[a] # "Undeployed"
      BY <1>1, <2>0, <3>1, <3>3
    <3> QED
      BY <3>2, <3>3
  <2>3. CASE List(q)
    <3>1. PICK at \in AtType : at = rep[q].at
      BY <2>3, ListFields
    <3>2. rep[q].pc = "list" /\ at.app \in Apps /\ Counted(at) \in Status
      BY <2>3, <3>1, ListFields
    <3>3. ASSUME ContainersOf(at.app) = {}, Goes(q, Completed(rep[q], Counted(at)))
          PROVE  WasTrue(q)
      <4>1. q \in Watched /\ ~ at.moved => Counted(at) \in at.truths
        <5>1. q \in Watched /\ ~ at.moved =>
                IsNow(at, status[at.app], ctr[at.app]) /\ at.reported = at.status
          BY <3>1, <3>2 DEF EntryInv, EntryOK
        <5> QED
          BY <3>2, <3>3, <5>1, ListFinds
      <4>2. rep'[q].out[Len(rep'[q].out)].status = Counted(at)
        BY <1>0, <3>1, <3>2, <3>3, CompletedEntry
      <4> QED
        BY <3>1, <4>1, <4>2 DEF WasTrue
    <3> QED
      BY <1>1, <2>0, <2>3, <3>1, <3>3, ListFields
  <2>4. CASE Inspect(q)
    <3>1. PICK at \in AtType : at = rep[q].at
      BY <2>4, InspectFields
    <3>2. rep[q].pc = "inspect" /\ at.app \in Apps
      BY <2>4, <3>1, InspectFields
    <3>3. ASSUME NEW l \in at.listed, l.state # Absent, l \in Listed, Judged(at, l) \in Status,
                 at.listed = {l}, Goes(q, Completed(rep[q], Judged(at, l)))
          PROVE  WasTrue(q)
      <4>1. q \in Watched /\ ~ at.moved => Judged(at, l) \in at.truths
        <5>1. q \in Watched /\ ~ at.moved =>
                IsNow(at, status[at.app], ctr[at.app]) /\ FoundSoFar(at, ctr[at.app])
          BY <3>1, <3>2 DEF EntryInv, EntryOK
        <5> QED
          BY <3>2, <3>3, <5>1, InspectFinds
      <4>2. rep'[q].out[Len(rep'[q].out)].status = Judged(at, l)
        BY <1>0, <3>1, <3>2, <3>3, CompletedEntry
      <4> QED
        BY <3>1, <4>1, <4>2 DEF WasTrue
    <3> QED
      BY <1>1, <1>2, <2>0, <2>4, <3>1, <3>3, InspectFields
  <2>5. CASE Compare(q)
    BY <1>1, <1>2, <2>0, <2>5 DEF Compare
  <2>6. CASE MakeMessage(q)
    <3> DEFINE n == [rep[q] EXCEPT !.pc = "publish", !.node = nodeStatus, !.done = {}]
    <3>1. n.out = rep[q].out
      BY <1>0 DEF RepType
    <3>2. Goes(q, n) \/ Goes(q, Nothing)
      BY <2>6 DEF MakeMessage
    <3> HIDE DEF n
    <3> QED
      BY <1>1, <1>2, <2>0, <3>1, <3>2
  <2>7. CASE Publish(q)
    BY <1>1, <1>2, <2>0, <2>7 DEF Publish
  <2> QED
    BY <1>6, <2>1, <2>2, <2>3, <2>4, <2>5, <2>6, <2>7 DEF Report
<1> QED
  BY <1>3, <1>4, <1>5, <1>6 DEF Next

\* Whatever the readings an entry of a message is put together from, what it
\* says was right at some time since the range came to the edge app, unless its
\* record has changed in between (status.go 63-104).
THEOREM EntriesWereTrue == Spec => EntryWasTrue
<1>1. TypeInv /\ EntryInv /\ [Next]_vars =>
        [\A r \in Reporters : WasTrue(r)]_vars
  BY NextWasTrue
<1>2. Spec => [][\A r \in Reporters : WasTrue(r)]_vars
  BY <1>1, InitTypes, NextTypes, InitEntries, NextEntries, PTL DEF Spec
<1> QED
  BY <1>2 DEF EntryWasTrue, WasTrue
-----------------------------------------------------------------------------
(***************************************************************************)
(* Why one change is noticed although lists are compared by position: as   *)
(* many entries of the one as of the other have the status of the entry    *)
(* that is only in the first, and when the others are in both there cannot *)
(* be as many.                                                             *)
(***************************************************************************)
\* The places of a list with a status, and the entries at them.
Places(list, s) == {i \in DOMAIN list : list[i].status = s}
With(list, s) == {list[i] : i \in Places(list, s)}

LEMMA EntryAt ==
  ASSUME NEW list \in Seq(EntryType)
  PROVE  /\ DOMAIN list = 1..Len(list) /\ IsFiniteSet(DOMAIN list)
         /\ \A i \in DOMAIN list : list[i] \in EntryType
         /\ EntriesOf(list) \subseteq EntryType
<1>1. Len(list) \in Nat /\ DOMAIN list = 1..Len(list)
  BY LenProperties
<1>2. IsFiniteSet(1..Len(list))
  BY <1>1, FS_Interval
<1>3. \A i \in DOMAIN list : list[i] \in EntryType
  BY <1>1, ElementOfSeq
<1> QED
  BY <1>1, <1>2, <1>3 DEF EntriesOf

\* If no edge app is in a list twice, there are as many entries as places.
LEMMA AsManyEntries ==
  ASSUME NEW list \in Seq(EntryType), OnceEach(list), NEW s
  PROVE  /\ IsFiniteSet(With(list, s))
         /\ Cardinality(With(list, s)) = Cardinality(Places(list, s))
<1> DEFINE P == Places(list, s)
           f == [i \in P |-> list[i]]
<1>1. IsFiniteSet(P)
  BY EntryAt, FS_Subset DEF Places
<1>2. f \in [P -> With(list, s)]
  BY DEF With
<1>3. \A i, j \in P : f[i] = f[j] => i = j
  BY DEF OnceEach, Places
<1>4. \A e \in With(list, s) : \E i \in P : f[i] = e
  BY DEF With
<1>5. ExistsBijection(P, With(list, s))
  BY <1>2, <1>3, <1>4 DEF ExistsBijection, Bijection, Injection, Surjection, IsInjective
<1> QED
  BY <1>1, <1>5, FS_Bijection

\* The entries of two lists that have been compared and found to be the same.
LEMMA SameListSameEntries ==
  ASSUME NEW seen \in Seq(EntryType), NEW latest \in Seq(EntryType), SameList(seen, latest)
  PROVE  ~ OneChange(seen, latest)
<1> SUFFICES ASSUME OneChange(seen, latest) PROVE FALSE
  OBVIOUS
<1> DEFINE E == EntriesOf(seen)
           F == EntriesOf(latest)
<1>1. OnceEach(seen) /\ OnceEach(latest) /\ Cardinality(E \ F) = 1
      /\ {e.app : e \in E} = {e.app : e \in F}
  BY DEF OneChange
<1>2. PICK e : E \ F = {e}
  <2>1. E = {seen[i] : i \in DOMAIN seen}
    BY DEF EntriesOf
  <2>2. IsFiniteSet(E)
    <3> DEFINE f == [i \in DOMAIN seen |-> seen[i]]
    <3>1. IsFiniteSet(DOMAIN seen)
      BY EntryAt
    <3>2. f \in Surjection(DOMAIN seen, E)
      BY <2>1 DEF Surjection
    <3> QED
      BY <3>1, <3>2, FS_Surjection
  <2>3. IsFiniteSet(E \ F)
    BY <2>2, FS_Subset
  <2> QED
    BY <1>1, <2>3, FS_Singleton
<1> DEFINE s == e.status
<1>3. Places(seen, s) = Places(latest, s)
  <2>1. DOMAIN seen = DOMAIN latest
    BY EntryAt DEF SameList
  <2> QED
    BY <2>1 DEF SameList, Places
<1>4. e \in With(seen, s)
  BY <1>2 DEF With, Places, EntriesOf
<1>5. With(latest, s) \subseteq With(seen, s) \ {e}
  <2>1. SUFFICES ASSUME NEW x \in With(latest, s) PROVE x \in With(seen, s) \ {e}
    OBVIOUS
  <2>2. x \in F /\ x.status = s
    BY DEF With, Places, EntriesOf
  <2>3. x # e
    BY <1>2, <2>2
  <2>4. PICK y \in E : y.app = x.app
    <3>1. x.app \in {z.app : z \in F}
      BY <2>2
    <3>2. x.app \in {z.app : z \in E}
      BY <1>1, <3>1
    <3> QED
      BY <3>2
  <2>5. y # e
    <3>1. e \in EntryType /\ x \in EntryType
      BY <1>2, <2>2, EntryAt
    <3> QED
      BY <2>2, <2>3, <2>4, <3>1 DEF EntryType
  <2>6. y \in F
    BY <1>2, <2>4, <2>5
  <2>7. y = x
    <3>1. \A i, j \in DOMAIN latest : latest[i].app = latest[j].app => latest[i] = latest[j]
      BY <1>1 DEF OnceEach
    <3> QED
      BY <2>2, <2>4, <2>6, <3>1 DEF EntriesOf
  <2>8. x \in With(seen, s)
    BY <2>2, <2>4, <2>7 DEF With, Places, EntriesOf
  <2> QED
    BY <2>3, <2>8
<1>6. IsFiniteSet(With(seen, s))
      /\ Cardinality(With(seen, s)) = Cardinality(With(latest, s))
  BY <1>1, <1>3, AsManyEntries
<1>7. Cardinality(With(seen, s)) \in Nat /\ With(latest, s) \in SUBSET With(seen, s)
  BY <1>5, <1>6, FS_CardinalityType
<1>8. With(seen, s) = With(latest, s)
  BY <1>6, <1>7, FS_Subset
<1> QED
  BY <1>4, <1>5, <1>8

LEMMA NextNoticed ==
  ASSUME TypeInv, [Next]_vars, NEW q \in Reporters,
         rep[q].compare, RangeEnds(q), rep'[q].pc = "idle"
  PROVE  ~ OneChange(monitor.seen, rep[q].out)
<1>1. rep[q] \in RepType /\ rep[q].pc = "pick" /\ rep[q].todo = {}
  BY DEF TypeInv, TypeOK, RangeEnds
<1>2. rep[q].out \in Seq(EntryType) /\ monitor.seen \in Seq(EntryType)
  BY <1>1 DEF TypeInv, TypeOK, RepType
<1>3. \A new : Goes(q, new) => rep'[q] = new
  BY DEF Goes, TypeInv, TypeOK
<1>4. \A apps, compare : Begin(apps, compare).pc = "pick"
  BY DEF Begin, Nothing
<1>5. CASE HandlerActs \/ DeleteNode \/ ContainerActs
  <2>1. rep'[q] = Begin(KnownApps', FALSE) \/ rep'[q] = Follow(q, rep[q])
    BY <1>5 DEF HandlerActs, DeleteNode, ContainerActs, Everybody
  <2>2. rep[q].at.live => rep[q].at.app \in Apps
    BY DEF TypeInv, AppAtHand, HasApp
  <2>3. Follow(q, rep[q]).pc = "pick"
    BY <1>1, <1>5, <2>2, EnvTypes, FollowFields DEF Next
  <2> QED
    BY <1>4, <2>1, <2>3
<1>6. CASE UNCHANGED vars
  BY <1>1, <1>6 DEF vars
<1>7. ASSUME NEW r \in Reporters, Report(r), r # q
      PROVE  FALSE
  <2>1. \E new : Goes(r, new)
    BY <1>7 DEF Report, Wake, Pick, List, Inspect, Compare, MakeMessage, Publish
  <2>2. rep'[q] = rep[q]
    BY <1>7, <2>1 DEF Goes, TypeInv, TypeOK
  <2> QED
    BY <1>1, <2>2
<1>8. ASSUME Report(q)
      PROVE  SameList(monitor.seen, rep[q].out)
  <2>1. Pick(q) \/ Compare(q)
    BY <1>1, <1>8 DEF Report, Wake, List, Inspect, MakeMessage, Publish
  <2>2. CASE Pick(q)
    <3>1. PICK a \in Apps, m \in RepType :
           /\ m.at.app = a /\ m.pc = "list"
           /\ Goes(q, IF status[a] = "Undeployed" THEN Completed(m, "Undeployed") ELSE m)
      BY <2>2, PickFields DEF TypeInv
    <3>2. "Undeployed" \in Status
      BY DEF Status
    <3>3. Completed(m, "Undeployed").pc = "pick"
      BY <3>1, <3>2, CompletedFields
    <3> QED
      BY <1>3, <3>1, <3>3
  <2>3. CASE Compare(q)
    BY <1>3, <1>4, <2>3 DEF Compare
  <2> QED
    BY <2>1, <2>2, <2>3
<1>9. CASE Report(q)
  BY <1>2, <1>8, <1>9, SameListSameEntries
<1> QED
  BY <1>5, <1>6, <1>7, <1>9 DEF Next

\* In whatever orders the range over the map came to the edge apps, the monitor
\* does not go back to sleep without a message when the status of one of them
\* has changed and those of the others have not (status.go 106-124).
THEOREM ChangesAreNoticed == Spec => OneChangeNoticed
<1> DEFINE Noticing ==
      \A r \in Reporters :
         rep[r].compare /\ RangeEnds(r) /\ rep'[r].pc = "idle" =>
            ~ OneChange(monitor.seen, rep[r].out)
<1>1. TypeInv /\ [Next]_vars => [Noticing]_vars
  BY NextNoticed
<1> HIDE DEF Noticing
<1>2. Spec => [][Noticing]_vars
  BY <1>1, InitTypes, NextTypes, PTL DEF Spec
<1> QED
  BY <1>2 DEF OneChangeNoticed, Noticing
=============================================================================
