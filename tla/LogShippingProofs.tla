-------------------------- MODULE LogShippingProofs --------------------------
(***************************************************************************)
(* Proofs about LogShipping, for any edge apps, containers and numbers of  *)
(* lines: its type invariant, that no line is skipped, and that none is    *)
(* received twice but for the excuses.                                     *)
(***************************************************************************)
EXTENDS LogShipping, TLAPS

RecordType == [known : BOOLEAN, undeployed : BOOLEAN, since : Time]
RoundType == [pc : {"sleep", "pick", "list", "read", "publish", "save"},
              until : Time, todo : SUBSET Apps, app : Apps \cup {NoApp},
              since : Time, unread : SUBSET Containers, msg : SUBSET Line]

LEMMA BasicTypes ==
    /\ Never \in Time
    /\ Unknown \in RecordType
    /\ \A u \in BOOLEAN, t \in Time : Record(u, t) \in RecordType
    /\ Sleeping \in RoundType
BY ShippingAssumption DEF Never, Time, Unknown, Record, RecordType, Sleeping, RoundType

LEMMA NextAppType == TypeOK => NextApp \in RoundType
BY BasicTypes DEF TypeOK, NextApp, RoundType

LEMMA RoundTypes ==
    ASSUME TypeOK, SendEdgeAppLogs
    PROVE  round' \in RoundType
<1>0. round \in RoundType
  BY DEF TypeOK, RoundType
<1>1. CASE Begin
  BY <1>1, BasicTypes DEF Begin, Advances, RoundType, TypeOK
<1>2. CASE Pick
  <2>1. PICK a \in round.todo :
          LET rest == [round EXCEPT !.todo = @ \ {a}]
          IN  round' = IF ~ IsKnown(a) \/ known[a].undeployed
                       THEN rest
                       ELSE [rest EXCEPT !.pc = "list", !.app = a,
                                         !.since = known[a].since]
    BY <1>2 DEF Pick, Advances
  <2>2. a \in Apps /\ known[a].since \in Time
    BY <1>0 DEF TypeOK, RoundType
  <2> QED
    BY <1>0, <2>1, <2>2 DEF RoundType
<1>3. CASE List
  <2>1. ContainersOf(round.app) \in SUBSET Containers
    BY DEF ContainersOf, TypeOK
  <2> QED
    BY <1>0, <1>3, <2>1, NextAppType DEF List, Advances, Fails, RoundType
<1>4. CASE ReadLogs
  <2>1. \A c : {l \in Between(round.since, round.until) : l[1] = c} \in SUBSET Line
    BY DEF Between
  <2>2. ASSUME NEW read \in SUBSET Line, NEW left \in SUBSET Containers,
               NEW pc \in {"read", "publish"}
        PROVE  [round EXCEPT !.pc = pc, !.unread = left, !.msg = @ \cup read] \in RoundType
    BY <1>0 DEF RoundType
  <2>3. \A c : round.unread \ {c} \in SUBSET Containers
    BY <1>0 DEF RoundType
  <2>4. round' \notin {NextApp, Sleeping} =>
          \E c \in round.unread :
            LET left == round.unread \ {c}
                read == {l \in Between(round.since, round.until) : l[1] = c}
            IN  round' = [round EXCEPT
                            !.pc = IF left = {} THEN "publish" ELSE "read",
                            !.unread = left,
                            !.msg = @ \cup read]
    BY <1>4 DEF ReadLogs, Reads, Panics, Advances, Fails
  <2>5. CASE round' \notin {NextApp, Sleeping}
    <3>1. PICK c \in round.unread :
            round' = [round EXCEPT
                        !.pc = IF round.unread \ {c} = {} THEN "publish" ELSE "read",
                        !.unread = round.unread \ {c},
                        !.msg = @ \cup {l \in Between(round.since, round.until) : l[1] = c}]
      BY <2>4, <2>5
    <3> DEFINE left == round.unread \ {c}
               read == {l \in Between(round.since, round.until) : l[1] = c}
               pc == IF left = {} THEN "publish" ELSE "read"
    <3>2. read \in SUBSET Line /\ left \in SUBSET Containers /\ pc \in {"read", "publish"}
      BY <2>1, <2>3
    <3>3. round' = [round EXCEPT !.pc = pc, !.unread = left, !.msg = @ \cup read]
      BY <3>1
    <3> HIDE DEF left, read, pc
    <3> QED
      BY <2>2, <3>2, <3>3
  <2> QED
    BY <2>5, NextAppType, BasicTypes
<1>5. CASE Publish
  BY <1>0, <1>5, NextAppType DEF Publish, Fails, RoundType
<1>6. CASE SetLastLogRead
  BY <1>6, NextAppType DEF SetLastLogRead
<1>7. CASE Sleep
  BY <1>7, BasicTypes DEF Sleep, Advances
<1> QED
  BY <1>1, <1>2, <1>3, <1>4, <1>5, <1>6, <1>7 DEF SendEdgeAppLogs

LEMMA ReceivedType ==
    ASSUME TypeOK, NEW msg, Received(msg)
    PROVE  times' \in [Line -> 0 .. 2]
BY DEF TypeOK, Received

LEMMA FaultType == TypeOK /\ Fault => faults' \in 0 .. MaxFaults
BY ShippingAssumption DEF TypeOK, Fault

\* All variables but round keep their types in a step of the goroutine.
LEMMA RoundKeepsTypes == TypeOK /\ SendEdgeAppLogs => TypeOK'
<1> SUFFICES ASSUME TypeOK, SendEdgeAppLogs PROVE TypeOK'
  OBVIOUS
<1>0. round' \in RoundType
  BY RoundTypes
<1>1. CASE Begin \/ Pick \/ Sleep
  BY <1>0, <1>1 DEF Begin, Pick, Sleep, Advances, dockerVars, history, TypeOK, RoundType
<1>2. CASE List
  BY <1>0, <1>2, FaultType
     DEF List, Fails, Advances, dockerVars, history, TypeOK, RoundType
<1>3. CASE ReadLogs
  BY <1>0, <1>3, FaultType
     DEF ReadLogs, Reads, Panics, Fails, Advances, dockerVars, history, TypeOK, RoundType
<1>4. CASE Publish
  <2>1. times' \in [Line -> 0 .. 2]
    BY <1>4, ReceivedType DEF Publish, Fails, history, TypeOK
  <2>2. lost' \in SUBSET Line
    BY <1>4 DEF Publish, Fails, history, TypeOK
  <2>3. faults' \in 0 .. MaxFaults
    BY <1>4, FaultType DEF Publish, Fails, TypeOK
  <2> QED
    BY <1>0, <1>4, <2>1, <2>2, <2>3
       DEF Publish, Fails, dockerVars, history, TypeOK, RoundType
<1>5. CASE SetLastLogRead
  <2>1. known' \in [Apps -> RecordType]
    <3>1. round.until \in Time
      BY DEF TypeOK
    <3> QED
      BY <1>5, <3>1 DEF SetLastLogRead, Store, TypeOK, RecordType
  <2>2. disk' \in [Apps -> RecordType]
    BY <1>5, <2>1 DEF SetLastLogRead, TypeOK, RecordType
  <2> QED
    BY <1>0, <1>5, <2>1, <2>2
       DEF SetLastLogRead, dockerVars, history, TypeOK, RoundType, RecordType
<1> QED
  BY <1>1, <1>2, <1>3, <1>4, <1>5 DEF SendEdgeAppLogs

LEMMA OthersKeepTypes ==
    ASSUME TypeOK, Next, ~ SendEdgeAppLogs
    PROVE  TypeOK'
<1>1. CASE \E a \in Apps : AddKnownManifest(a)
  <2>1. PICK a \in Apps : AddKnownManifest(a)
    BY <1>1
  <2>2. Record(FALSE, Never) \in RecordType
    BY BasicTypes
  <2>3. known' \in [Apps -> RecordType]
    BY <2>1, <2>2 DEF AddKnownManifest, TypeOK, RecordType
  <2>4. excused' \in SUBSET Containers
    BY <2>1 DEF AddKnownManifest, ContainersOf, TypeOK
  <2> QED
    BY <2>1, <2>3, <2>4 DEF AddKnownManifest, dockerVars, TypeOK, RecordType
<1>2. CASE \E a \in Apps : Undeploy(a)
  <2>1. PICK a \in Apps : Undeploy(a)
    BY <1>2
  <2>2. /\ Record(TRUE, known[a].since) \in RecordType
        /\ Unknown \in RecordType
    BY BasicTypes DEF TypeOK
  <2> QED
    BY <2>1, <2>2 DEF Undeploy, dockerVars, history, TypeOK, RecordType
<1>3. CASE SetStatus
  BY <1>3 DEF SetStatus, dockerVars, history, TypeOK
<1>4. CASE \E a \in Apps, c \in Containers : CreateContainer(a, c)
  BY <1>4 DEF CreateContainer, history, TypeOK
<1>5. CASE \E c \in Containers : RemoveContainer(c)
  BY <1>5 DEF RemoveContainer, history, TypeOK
<1>6. CASE \E c \in Containers : WriteLine(c)
  <2>1. lines' \in Time
    BY <1>6, ShippingAssumption DEF WriteLine, TypeOK, Time
  <2> QED
    BY <1>6, <2>1 DEF WriteLine, history, TypeOK
<1>7. CASE Restart
  <2>1. kills' \in 0 .. MaxKills
    BY <1>7, ShippingAssumption DEF Restart, TypeOK
  <2>2. excused' \in SUBSET Containers
    <3>1. \A l \in Line : l[1] \in Containers
      BY DEF Line
    <3> QED
      BY <1>7, <3>1 DEF Restart, TypeOK
  <2> QED
    BY <1>7, <2>1, <2>2, BasicTypes DEF Restart, dockerVars, TypeOK, RoundType
<1> QED
  BY <1>1, <1>2, <1>3, <1>4, <1>5, <1>6, <1>7 DEF Next

LEMMA InitType == Init => TypeOK
BY BasicTypes, ShippingAssumption DEF Init, TypeOK, RecordType, RoundType, Line

(***************************************************************************)
(* Every variable keeps its type (the record and the round of the          *)
(* goroutine are what agent.go:219-234 and manifest/status.go handle).     *)
(***************************************************************************)
THEOREM TypeCorrect == Spec => []TypeOK
<1>1. TypeOK /\ [Next]_vars => TypeOK'
  <2>1. TypeOK /\ UNCHANGED vars => TypeOK'
    BY DEF vars, dockerVars, history, TypeOK
  <2> QED
    BY <2>1, RoundKeepsTypes, OthersKeepTypes
<1> QED
  BY <1>1, InitType, PTL DEF Spec
-----------------------------------------------------------------------------
(***************************************************************************)
(* Why no line is skipped.  All lines up to the time in a record, in the   *)
(* file and in the goroutine's copy have been sent; the lines between the  *)
(* copy's time and the round's are collected in the message or are of      *)
(* containers still to be read; and of a container that does not exist yet *)
(* no time says anything, so one that is created meanwhile is not missed.  *)
(***************************************************************************)
SentUpTo(a, since) ==
    \A l \in Line : l[1] \in here /\ owner[l[1]] = a /\ l[2] <= since[l[1]] => IsSent(l)

Copied == round.pc \in {"list", "read", "publish", "save"}
Collecting == round.pc \in {"read", "publish", "save"}

IsCollected(l) == l[1] \in round.unread \/ l \in round.msg

AllCollected ==
    \A l \in Line :
        /\ l[1] \in here /\ owner[l[1]] = round.app
        /\ round.since[l[1]] < l[2] /\ l[2] <= round.until[l[1]]
        => IsCollected(l)

IsFresh(c) ==
    /\ c \notin here /\ lines[c] = 0
    /\ round.until[c] = 0 /\ round.since[c] = 0
    /\ \A a \in Apps : known[a].since[c] = 0 /\ disk[a].since[c] = 0

RecordsSent == \A a \in Apps : known[a].known => SentUpTo(a, known[a].since)
DiskSent == \A a \in Apps : disk[a].known => SentUpTo(a, disk[a].since)
RoundInv ==
    /\ Copied => SentUpTo(round.app, round.since)
    /\ Collecting => AllCollected
    /\ round.pc \in {"publish", "save"} => round.unread = {}
    /\ round.pc = "save" => \A l \in round.msg : IsSent(l)
Fresh == \A c \in Containers : owner[c] = NoApp => IsFresh(c)

SkipInv == TypeOK /\ RecordsSent /\ DiskSent /\ RoundInv /\ Fresh

LEMMA LineParts ==
    \A l \in Line : l[1] \in Containers /\ l[2] \in Nat /\ l[2] >= 1
BY ShippingAssumption DEF Line

LEMMA SkipInvSuffices == SkipInv => NothingSkipped
<1> SUFFICES ASSUME SkipInv, NEW a \in Apps, NEW c \in ContainersOf(a), IsKnown(a),
                    NEW l \in Between(Never, known[a].since), l[1] = c
             PROVE  IsSent(l)
  BY DEF NothingSkipped
<1>1. l \in Line /\ l[2] <= known[a].since[l[1]]
  BY DEF Between
<1> QED
  BY <1>1 DEF SkipInv, RecordsSent, SentUpTo, IsKnown, ContainersOf

LEMMA InitSkip == Init => SkipInv
<1> SUFFICES ASSUME Init PROVE SkipInv
  OBVIOUS
<1>1. TypeOK
  BY InitType
<1>2. RecordsSent /\ DiskSent
  BY DEF Init, RecordsSent, DiskSent, Unknown
<1>3. RoundInv
  BY DEF Init, RoundInv, Copied, Collecting, Sleeping
<1>4. Fresh
  BY DEF Init, Fresh, IsFresh, Sleeping, Never, Unknown
<1> QED
  BY <1>1, <1>2, <1>3, <1>4 DEF SkipInv

\* What has been sent stays sent.
LEMMA StaysSent ==
    ASSUME TypeOK, Next, NEW l \in Line, IsSent(l)
    PROVE  IsSent(l)'
<1>1. times[l] \in 0 .. 2
  BY DEF TypeOK
<1>2. CASE Publish
  BY <1>1, <1>2 DEF Publish, Received, Fails, history, IsSent
<1>3. CASE UNCHANGED <<times, lost>>
  BY <1>3 DEF IsSent
<1>4. Publish \/ UNCHANGED <<times, lost>>
  BY DEF Next, SendEdgeAppLogs, Begin, Pick, List, ReadLogs, SetLastLogRead, Sleep,
         Reads, Panics, Advances, Fails, history, AddKnownManifest, SetStatus, Undeploy,
         CreateContainer, RemoveContainer, WriteLine, Restart
<1> QED
  BY <1>2, <1>3, <1>4

(***************************************************************************)
(* Containers go, lines are written, and one that comes is fresh: what was *)
(* sent up to a time still is.                                             *)
(***************************************************************************)
LEMMA StillSentUpTo ==
    ASSUME TypeOK, Next, NEW a, NEW s \in Time, SentUpTo(a, s),
           \A c \in Containers : c \in here' /\ owner'[c] = a =>
                                   (c \in here /\ owner[c] = a) \/ s[c] = 0
    PROVE  \A l \in Line : l[1] \in here' /\ owner'[l[1]] = a /\ l[2] <= s[l[1]] => IsSent(l)'
<1> SUFFICES ASSUME NEW l \in Line, l[1] \in here', owner'[l[1]] = a, l[2] <= s[l[1]]
             PROVE  IsSent(l)'
  OBVIOUS
<1>1. l[1] \in here /\ owner[l[1]] = a
  BY LineParts
<1>2. IsSent(l)
  BY <1>1 DEF SentUpTo
<1> QED
  BY <1>2, StaysSent

\* The steps of the goroutine that leave the records alone.
LEMMA RecordsStaySent ==
    ASSUME SkipInv, Next, UNCHANGED <<known, disk, here, owner>>
    PROVE  RecordsSent' /\ DiskSent'
<1>1. ASSUME NEW a \in Apps, known[a].known PROVE SentUpTo(a, known[a].since)'
  <2>1. SentUpTo(a, known[a].since) /\ known[a].since \in Time
    BY <1>1 DEF SkipInv, RecordsSent, TypeOK
  <2> QED
    BY <2>1, StillSentUpTo DEF SkipInv, SentUpTo
<1>2. ASSUME NEW a \in Apps, disk[a].known PROVE SentUpTo(a, disk[a].since)'
  <2>1. SentUpTo(a, disk[a].since) /\ disk[a].since \in Time
    BY <1>2 DEF SkipInv, DiskSent, TypeOK
  <2> QED
    BY <2>1, StillSentUpTo DEF SkipInv, SentUpTo
<1> QED
  BY <1>1, <1>2 DEF RecordsSent, DiskSent

LEMMA CopyStaysSent ==
    ASSUME SkipInv, Next, UNCHANGED <<here, owner>>, Copied,
           round'.app = round.app, round'.since = round.since
    PROVE  SentUpTo(round.app, round.since)'
<1>1. SentUpTo(round.app, round.since) /\ round.since \in Time
  BY DEF SkipInv, RoundInv, TypeOK
<1> QED
  BY <1>1, StillSentUpTo DEF SkipInv, SentUpTo

\* A step that leaves the edge app has nothing left to show of the round.
LEMMA LeavesApp ==
    ASSUME SkipInv, round' = NextApp, UNCHANGED <<known, disk, dockerVars>>
    PROVE  RoundInv' /\ Fresh'
<1>1. round.pc \in {"sleep", "pick", "list", "read", "publish", "save"}
  BY DEF SkipInv, TypeOK
<1>2. /\ round'.pc = "pick"
      /\ round'.since = Never
      /\ round'.until = round.until
  BY DEF NextApp, SkipInv, TypeOK
<1>3. RoundInv'
  BY <1>2 DEF RoundInv, Copied, Collecting
<1>4. Fresh'
  BY <1>2 DEF SkipInv, Fresh, IsFresh, Never, dockerVars
<1> QED
  BY <1>3, <1>4

LEMMA BeginSkip == SkipInv /\ Begin => SkipInv'
<1> SUFFICES ASSUME SkipInv, Begin PROVE SkipInv'
  OBVIOUS
<1>1. TypeOK' /\ Next
  BY RoundKeepsTypes DEF SkipInv, SendEdgeAppLogs, Next
<1>2. RecordsSent' /\ DiskSent'
  BY <1>1, RecordsStaySent DEF Begin, Advances, dockerVars
<1>3. round'.pc = "pick" /\ round'.until = lines /\ round'.since = Never
  BY DEF Begin, Advances, Sleeping
<1>4. RoundInv'
  BY <1>3 DEF RoundInv, Copied, Collecting
<1>5. Fresh'
  BY <1>3 DEF Begin, Advances, dockerVars, SkipInv, Fresh, IsFresh, Never
<1> QED
  BY <1>1, <1>2, <1>4, <1>5 DEF SkipInv

LEMMA PickSkip == SkipInv /\ Pick => SkipInv'
<1> SUFFICES ASSUME SkipInv, Pick PROVE SkipInv'
  OBVIOUS
<1>1. TypeOK' /\ Next
  BY RoundKeepsTypes DEF SkipInv, SendEdgeAppLogs, Next
<1>2. RecordsSent' /\ DiskSent'
  BY <1>1, RecordsStaySent DEF Pick, Advances, dockerVars
<1>3. PICK a \in round.todo :
        LET rest == [round EXCEPT !.todo = @ \ {a}]
        IN  round' = IF ~ IsKnown(a) \/ known[a].undeployed
                     THEN rest
                     ELSE [rest EXCEPT !.pc = "list", !.app = a,
                                       !.since = known[a].since]
  BY DEF Pick, Advances
<1>4. a \in Apps /\ round \in RoundType /\ round.pc = "pick"
  BY DEF SkipInv, TypeOK, RoundType, Pick
<1>5. CASE ~ IsKnown(a) \/ known[a].undeployed
  <2>1. round'.pc = "pick" /\ round'.until = round.until /\ round'.since = round.since
    BY <1>3, <1>4, <1>5 DEF RoundType
  <2> QED
    BY <1>1, <1>2, <2>1
       DEF Pick, Advances, dockerVars, SkipInv, RoundInv, Copied, Collecting, Fresh, IsFresh
<1>6. CASE IsKnown(a) /\ ~ known[a].undeployed
  <2>1. /\ round'.pc = "list" /\ round'.until = round.until
        /\ round'.app = a /\ round'.since = known[a].since
    BY <1>3, <1>4, <1>6 DEF RoundType
  <2>2. known' = known /\ known[a].known
    BY <1>6 DEF Pick, Advances, IsKnown
  <2>3. SentUpTo(a, known[a].since)'
    BY <1>2, <1>4, <2>2 DEF RecordsSent
  <2>4. RoundInv'
    BY <2>1, <2>2, <2>3 DEF RoundInv, Copied, Collecting, SentUpTo
  <2>5. Fresh'
    BY <1>4, <2>1 DEF Pick, Advances, dockerVars, SkipInv, Fresh, IsFresh
  <2> QED
    BY <1>1, <1>2, <2>4, <2>5 DEF SkipInv
<1> QED
  BY <1>5, <1>6

\* A call fails.
LEMMA FailsSkip == SkipInv /\ Fails /\ SendEdgeAppLogs => SkipInv'
<1> SUFFICES ASSUME SkipInv, Fails, SendEdgeAppLogs PROVE SkipInv'
  OBVIOUS
<1>1. TypeOK' /\ Next
  BY RoundKeepsTypes DEF SkipInv, Next
<1>2. RecordsSent' /\ DiskSent'
  BY <1>1, RecordsStaySent DEF Fails, dockerVars
<1>3. RoundInv' /\ Fresh'
  BY LeavesApp DEF Fails
<1> QED
  BY <1>1, <1>2, <1>3 DEF SkipInv

LEMMA ListSkip == SkipInv /\ List => SkipInv'
<1> SUFFICES ASSUME SkipInv, List, ~ Fails PROVE SkipInv'
  BY FailsSkip DEF SendEdgeAppLogs
<1> DEFINE cons == ContainersOf(round.app)
<1>1. TypeOK' /\ Next
  BY RoundKeepsTypes DEF SkipInv, SendEdgeAppLogs, Next
<1>2. UNCHANGED <<known, disk, dockerVars>> /\ Copied /\ round \in RoundType
  BY DEF List, Advances, Copied, SkipInv, TypeOK, RoundType
<1>3. RecordsSent' /\ DiskSent'
  BY <1>1, <1>2, RecordsStaySent DEF dockerVars
<1>4. /\ round'.pc = IF cons = {} THEN "publish" ELSE "read"
      /\ round'.unread = cons
      /\ round'.until = round.until
      /\ round'.app = round.app /\ round'.since = round.since
  BY <1>2 DEF List, Advances, RoundType
<1>5. SentUpTo(round.app, round.since)'
  BY <1>1, <1>2, <1>4, CopyStaysSent DEF dockerVars
<1>6. AllCollected'
  BY <1>2, <1>4 DEF AllCollected, IsCollected, ContainersOf, dockerVars
<1>7. RoundInv'
  BY <1>4, <1>5, <1>6 DEF RoundInv
<1>8. Fresh'
  BY <1>2, <1>4 DEF SkipInv, Fresh, IsFresh, dockerVars
<1> QED
  BY <1>1, <1>3, <1>7, <1>8 DEF SkipInv

\* The agent starts again, with the records of the file.
LEMMA StartAgainSkip ==
    ASSUME SkipInv, Next, known' = disk, round' = Sleeping,
           UNCHANGED <<disk, dockerVars, times, lost>>
    PROVE  SkipInv'
<1>1. TypeOK'
  BY RoundKeepsTypes, OthersKeepTypes DEF SkipInv
<1>2. RoundInv'
  BY DEF Sleeping, RoundInv, Copied, Collecting
<1>3. RecordsSent' /\ DiskSent'
  BY DEF dockerVars, SkipInv, RecordsSent, DiskSent, SentUpTo, IsSent
<1>4. Fresh'
  BY DEF dockerVars, Sleeping, SkipInv, Fresh, IsFresh, Never
<1> QED
  BY <1>1, <1>2, <1>3, <1>4 DEF SkipInv

LEMMA PanicSkip == SkipInv /\ ReadLogs /\ Panics => SkipInv'
BY StartAgainSkip DEF Panics, Next, SendEdgeAppLogs, history

LEMMA ReadSkip == SkipInv /\ ReadLogs => SkipInv'
<1> SUFFICES ASSUME SkipInv, ReadLogs, ~ Fails, ~ Panics PROVE SkipInv'
  BY FailsSkip, PanicSkip DEF SendEdgeAppLogs
<1>1. TypeOK' /\ Next
  BY RoundKeepsTypes DEF SkipInv, SendEdgeAppLogs, Next
<1>2. UNCHANGED <<known, disk, dockerVars>> /\ Copied /\ Collecting /\ round \in RoundType
  BY DEF ReadLogs, Reads, Advances, Copied, Collecting, SkipInv, TypeOK, RoundType
<1>3. RecordsSent' /\ DiskSent'
  BY <1>1, <1>2, RecordsStaySent DEF dockerVars
<1>4. CASE round' = NextApp
  BY <1>1, <1>2, <1>3, <1>4, LeavesApp DEF SkipInv
<1>5. CASE round' # NextApp
  <2>1. PICK c \in round.unread :
          round' = [round EXCEPT
                      !.pc = IF round.unread \ {c} = {} THEN "publish" ELSE "read",
                      !.unread = round.unread \ {c},
                      !.msg = @ \cup {l \in Between(round.since, round.until) : l[1] = c}]
    BY <1>5 DEF ReadLogs, Reads, Advances
  <2>2. /\ round'.pc = IF round.unread \ {c} = {} THEN "publish" ELSE "read"
        /\ round'.unread = round.unread \ {c}
        /\ round'.msg = round.msg \cup {l \in Between(round.since, round.until) : l[1] = c}
        /\ round'.until = round.until
        /\ round'.app = round.app /\ round'.since = round.since
    BY <1>2, <2>1 DEF RoundType
  <2>3. SentUpTo(round.app, round.since)'
    BY <1>1, <1>2, <2>2, CopyStaysSent DEF dockerVars
  <2>4. AllCollected'
    <3> SUFFICES ASSUME NEW l \in Line, l[1] \in here, owner[l[1]] = round.app,
                        round.since[l[1]] < l[2], l[2] <= round.until[l[1]]
                 PROVE  l[1] \in round'.unread \/ l \in round'.msg
      BY <1>2, <2>2 DEF AllCollected, IsCollected, dockerVars
    <3>1. l[1] \in round.unread \/ l \in round.msg
      BY <1>2 DEF SkipInv, RoundInv, AllCollected, IsCollected
    <3>2. CASE l[1] = c
      BY <2>2, <3>2 DEF Between
    <3> QED
      BY <2>2, <3>1, <3>2
  <2>5. RoundInv'
    BY <2>2, <2>3, <2>4 DEF RoundInv
  <2>6. Fresh'
    BY <1>2, <2>2 DEF SkipInv, Fresh, IsFresh, dockerVars
  <2> QED
    BY <1>1, <1>3, <2>5, <2>6 DEF SkipInv
<1> QED
  BY <1>4, <1>5

LEMMA PublishSkip == SkipInv /\ Publish => SkipInv'
<1> SUFFICES ASSUME SkipInv, Publish, ~ Fails PROVE SkipInv'
  BY FailsSkip DEF SendEdgeAppLogs
<1>1. TypeOK' /\ Next
  BY RoundKeepsTypes DEF SkipInv, SendEdgeAppLogs, Next
<1>2. UNCHANGED <<known, disk, dockerVars>> /\ Copied /\ Collecting /\ round \in RoundType
  BY DEF Publish, Copied, Collecting, SkipInv, TypeOK, RoundType
<1>3. RecordsSent' /\ DiskSent'
  BY <1>1, <1>2, RecordsStaySent DEF dockerVars
<1>4. /\ round'.pc = "save"
      /\ round'.unread = round.unread /\ round'.msg = round.msg
      /\ round'.until = round.until
      /\ round'.app = round.app /\ round'.since = round.since
  BY <1>2 DEF Publish, RoundType
<1>5. SentUpTo(round.app, round.since)'
  BY <1>1, <1>2, <1>4, CopyStaysSent DEF dockerVars
<1>6. AllCollected'
  BY <1>2, <1>4 DEF SkipInv, RoundInv, AllCollected, IsCollected, dockerVars
<1>7. \A l \in round.msg : IsSent(l)'
  <2> SUFFICES ASSUME NEW l \in round.msg PROVE IsSent(l)'
    OBVIOUS
  <2>1. l \in Line
    BY <1>2 DEF RoundType
  <2>2. times[l] \in 0 .. 2
    BY <2>1 DEF SkipInv, TypeOK
  <2>3. Received(round.msg) \/ lost' = lost \cup round.msg
    BY DEF Publish
  <2> QED
    BY <2>1, <2>2, <2>3 DEF Received, IsSent
<1>8. round.unread = {}
  BY DEF SkipInv, RoundInv, Publish
<1>9. RoundInv'
  BY <1>4, <1>5, <1>6, <1>7, <1>8 DEF RoundInv, IsSent
<1>10. Fresh'
  BY <1>2, <1>4 DEF SkipInv, Fresh, IsFresh, dockerVars
<1> QED
  BY <1>1, <1>3, <1>9, <1>10 DEF SkipInv

(***************************************************************************)
(* The time of the round is stored, perhaps in another record than the one *)
(* that was copied: the lines up to the copy's time were sent before, the  *)
(* others are in the message, as nothing is left to be read.               *)
(***************************************************************************)
LEMMA StoreSkip == SkipInv /\ SetLastLogRead => SkipInv'
<1> SUFFICES ASSUME SkipInv, SetLastLogRead PROVE SkipInv'
  OBVIOUS
<1>1. TypeOK' /\ Next
  BY RoundKeepsTypes DEF SkipInv, SendEdgeAppLogs, Next
<1>2. /\ UNCHANGED <<here, owner, lines, times, lost>>
      /\ Copied /\ Collecting /\ round.pc = "save" /\ round' = NextApp
  BY DEF SetLastLogRead, dockerVars, history, Copied, Collecting
<1>3. /\ round'.pc = "pick" /\ round'.since = Never /\ round'.until = round.until
  BY <1>2 DEF NextApp, SkipInv, TypeOK
<1>4. RoundInv'
  BY <1>3 DEF RoundInv, Copied, Collecting
<1>5. CASE ~ IsKnown(round.app)
  <2>1. UNCHANGED <<known, disk>>
    BY <1>5 DEF SetLastLogRead
  <2> QED
    BY <1>1, <1>2, <1>4, <2>1, RecordsStaySent, LeavesApp DEF SkipInv, dockerVars
<1>6. CASE IsKnown(round.app)
  <2>1. known' = [known EXCEPT ![round.app].since = round.until] /\ disk' = known'
    BY <1>6 DEF SetLastLogRead, Store
  <2>2. SentUpTo(round.app, round.until)
    <3> SUFFICES ASSUME NEW l \in Line, l[1] \in here, owner[l[1]] = round.app,
                        l[2] <= round.until[l[1]]
                 PROVE  IsSent(l)
      BY DEF SentUpTo
    <3>1. round.since[l[1]] \in Nat /\ l[2] \in Nat
      BY LineParts, ShippingAssumption DEF SkipInv, TypeOK, Time
    <3>2. CASE l[2] <= round.since[l[1]]
      BY <1>2, <3>2 DEF SkipInv, RoundInv, SentUpTo
    <3>3. CASE round.since[l[1]] < l[2]
      <4>1. l \in round.msg
        BY <1>2, <3>3 DEF SkipInv, RoundInv, AllCollected, IsCollected
      <4> QED
        BY <1>2, <4>1 DEF SkipInv, RoundInv
    <3> QED
      BY <3>1, <3>2, <3>3
  <2>3. ASSUME NEW a \in Apps, known'[a].known PROVE SentUpTo(a, known'[a].since)
    <3>1. CASE a = round.app
      <4>1. known'[a].since = round.until
        BY <2>1, <3>1 DEF SkipInv, TypeOK
      <4> QED
        BY <2>2, <3>1, <4>1
    <3>2. CASE a # round.app
      <4>1. known'[a] = known[a]
        BY <2>1, <3>2 DEF SkipInv, TypeOK
      <4> QED
        BY <2>3, <4>1 DEF SkipInv, RecordsSent
    <3> QED
      BY <3>1, <3>2
  <2>4. RecordsSent' /\ DiskSent'
    BY <1>2, <2>1, <2>3 DEF RecordsSent, DiskSent, SentUpTo, IsSent
  <2>5. Fresh'
    <3> SUFFICES ASSUME NEW c \in Containers, owner[c] = NoApp PROVE IsFresh(c)'
      BY <1>2 DEF Fresh
    <3>1. IsFresh(c)
      BY DEF SkipInv, Fresh
    <3>2. \A a \in Apps : known'[a].since = known[a].since \/ known'[a].since = round.until
      BY <2>1 DEF SkipInv, TypeOK
    <3> QED
      BY <1>2, <1>3, <2>1, <3>1, <3>2 DEF IsFresh, Never
  <2> QED
    BY <1>1, <1>4, <2>4, <2>5 DEF SkipInv
<1> QED
  BY <1>5, <1>6

LEMMA SleepSkip == SkipInv /\ Sleep => SkipInv'
<1> SUFFICES ASSUME SkipInv, Sleep PROVE SkipInv'
  OBVIOUS
<1>1. TypeOK' /\ Next
  BY RoundKeepsTypes DEF SkipInv, SendEdgeAppLogs, Next
<1>2. RecordsSent' /\ DiskSent'
  BY <1>1, RecordsStaySent DEF Sleep, Advances, dockerVars
<1>3. RoundInv'
  BY DEF Sleep, Advances, Sleeping, RoundInv, Copied, Collecting
<1>4. Fresh'
  BY DEF Sleep, Advances, dockerVars, Sleeping, SkipInv, Fresh, IsFresh, Never
<1> QED
  BY <1>1, <1>2, <1>3, <1>4 DEF SkipInv

(***************************************************************************)
(* What goes on meanwhile.  The goroutine stands still, nothing is sent.   *)
(***************************************************************************)
LEMMA RoundStands ==
    ASSUME SkipInv, Next, round' = round, UNCHANGED <<times, lost>>,
           \A c \in Containers : c \in here' => (c \in here /\ owner'[c] = owner[c])
                                                  \/ owner[c] = NoApp
    PROVE  /\ RoundInv'
           /\ \A a \in Apps : known'[a] = known[a] /\ known[a].known =>
                SentUpTo(a, known[a].since)'
           /\ \A a \in Apps : disk'[a] = disk[a] /\ disk[a].known =>
                SentUpTo(a, disk[a].since)'
<1>1. ASSUME NEW a, NEW s \in Time, SentUpTo(a, s),
             \A c \in Containers : owner[c] = NoApp => s[c] = 0
      PROVE  \A l \in Line : l[1] \in here' /\ owner'[l[1]] = a /\ l[2] <= s[l[1]] => IsSent(l)'
  BY <1>1, StillSentUpTo DEF SkipInv
<1>2. ASSUME NEW a \in Apps, known'[a] = known[a], known[a].known
      PROVE  SentUpTo(a, known[a].since)'
  <2>1. /\ known[a].since \in Time /\ SentUpTo(a, known[a].since)
        /\ \A c \in Containers : owner[c] = NoApp => known[a].since[c] = 0
    BY <1>2 DEF SkipInv, TypeOK, RecordsSent, Fresh, IsFresh
  <2> QED
    BY <1>1, <1>2, <2>1 DEF SentUpTo
<1>3. ASSUME NEW a \in Apps, disk'[a] = disk[a], disk[a].known
      PROVE  SentUpTo(a, disk[a].since)'
  <2>1. /\ disk[a].since \in Time /\ SentUpTo(a, disk[a].since)
        /\ \A c \in Containers : owner[c] = NoApp => disk[a].since[c] = 0
    BY <1>3 DEF SkipInv, TypeOK, DiskSent, Fresh, IsFresh
  <2> QED
    BY <1>1, <1>3, <2>1 DEF SentUpTo
<1>4. Copied => SentUpTo(round.app, round.since)'
  <2> SUFFICES ASSUME Copied PROVE SentUpTo(round.app, round.since)'
    OBVIOUS
  <2>1. /\ round.since \in Time /\ SentUpTo(round.app, round.since)
        /\ \A c \in Containers : owner[c] = NoApp => round.since[c] = 0
    BY DEF SkipInv, TypeOK, RoundInv, Fresh, IsFresh
  <2> QED
    BY <1>1, <2>1 DEF SentUpTo
<1>5. Collecting => AllCollected'
  <2> SUFFICES ASSUME Collecting, NEW l \in Line, l[1] \in here', owner'[l[1]] = round.app,
                      round.since[l[1]] < l[2], l[2] <= round.until[l[1]]
               PROVE  IsCollected(l)
    BY DEF AllCollected, IsCollected
  <2>1. l[1] \in Containers /\ l[2] \in Nat /\ l[2] >= 1
    BY LineParts
  <2>2. owner[l[1]] # NoApp
    BY <2>1 DEF SkipInv, Fresh, IsFresh
  <2> QED
    BY <2>1, <2>2 DEF SkipInv, RoundInv, AllCollected
<1>6. RoundInv'
  BY <1>4, <1>5 DEF SkipInv, RoundInv, Copied, Collecting, IsSent
<1> QED
  BY <1>2, <1>3, <1>6

LEMMA RecordSkip ==
    ASSUME SkipInv, NEW a \in Apps, AddKnownManifest(a) \/ Undeploy(a)
    PROVE  SkipInv'
<1>1. Next /\ UNCHANGED <<dockerVars, round, times, lost>>
  BY DEF Next, AddKnownManifest, Undeploy, history
<1>2. TypeOK'
  <2>1. ~ SendEdgeAppLogs \/ SendEdgeAppLogs
    OBVIOUS
  <2> QED
    BY <1>1, <2>1, RoundKeepsTypes, OthersKeepTypes DEF SkipInv
<1>3. \A b \in Apps : /\ known'[b].known => known'[b].since = Never
                                             \/ known'[b] = known[b]
                                             \/ (known[b].known /\ known'[b].since = known[b].since)
                      /\ known'[b].since = Never \/ known'[b].since = known[b].since
  <2> SUFFICES ASSUME NEW b \in Apps
               PROVE  /\ known'[b].known => known'[b].since = Never
                                             \/ known'[b] = known[b]
                                             \/ (known[b].known /\ known'[b].since = known[b].since)
                      /\ known'[b].since = Never \/ known'[b].since = known[b].since
    OBVIOUS
  <2>1. CASE known'[b] = known[b]
    BY <2>1
  <2>2. CASE b = a /\ AddKnownManifest(a)
    <3>1. known'[a] = Record(FALSE, Never)
      BY <2>2 DEF AddKnownManifest, SkipInv, TypeOK
    <3> QED
      BY <2>2, <3>1 DEF Record
  <2>3. CASE b = a /\ Undeploy(a)
    <3>1. /\ known[a].known
          /\ known'[a] = IF known[a].undeployed THEN Unknown
                         ELSE Record(TRUE, known[a].since)
      BY <2>3 DEF Undeploy, IsKnown, SkipInv, TypeOK
    <3>2. Unknown.since = Never /\ Record(TRUE, known[a].since).since = known[a].since
      BY DEF Unknown, Record
    <3> QED
      BY <2>3, <3>1, <3>2
  <2>4. b # a => known'[b] = known[b]
    BY DEF AddKnownManifest, Undeploy, SkipInv, TypeOK
  <2> QED
    BY <2>1, <2>2, <2>3, <2>4
<1>4. UNCHANGED disk \/ disk' = known'
  BY DEF AddKnownManifest, Undeploy
<1>5. /\ RoundInv'
      /\ \A b \in Apps : disk' = disk /\ disk[b].known => SentUpTo(b, disk[b].since)'
  BY <1>1, RoundStands DEF dockerVars
<1>6. ASSUME NEW b \in Apps, known'[b].known PROVE SentUpTo(b, known'[b].since)
  <2>1. CASE known'[b].since = Never
    BY <2>1, LineParts DEF SentUpTo, Never
  <2>2. CASE known[b].known /\ known'[b].since = known[b].since
    BY <2>2 DEF SkipInv, RecordsSent
  <2> QED
    BY <1>3, <1>6, <2>1, <2>2
<1>7. RecordsSent'
  BY <1>1, <1>6 DEF RecordsSent, SentUpTo, IsSent, dockerVars
<1>8. DiskSent'
  BY <1>1, <1>4, <1>6, <1>7 DEF SkipInv, DiskSent, SentUpTo, IsSent, dockerVars
<1>9. Fresh'
  BY <1>1, <1>3, <1>4 DEF SkipInv, Fresh, IsFresh, Never, dockerVars
<1> QED
  BY <1>2, <1>5, <1>7, <1>8, <1>9 DEF SkipInv

LEMMA SetStatusSkip == SkipInv /\ SetStatus => SkipInv'
<1> SUFFICES ASSUME SkipInv, SetStatus PROVE SkipInv'
  OBVIOUS
<1>1. Next /\ TypeOK'
  BY DEF Next, SetStatus, dockerVars, history, SkipInv, TypeOK
<1>2. RoundInv' /\ RecordsSent'
  BY <1>1, RoundStands DEF SetStatus, dockerVars, history, RecordsSent, SentUpTo
<1>3. DiskSent'
  BY <1>2 DEF SetStatus, RecordsSent, DiskSent, SentUpTo
<1>4. Fresh'
  BY DEF SetStatus, dockerVars, SkipInv, Fresh, IsFresh
<1> QED
  BY <1>1, <1>2, <1>3, <1>4 DEF SkipInv

LEMMA ContainerSkip ==
    ASSUME SkipInv, NEW c \in Containers,
           \/ \E a \in Apps : CreateContainer(a, c)
           \/ RemoveContainer(c) \/ WriteLine(c)
    PROVE  SkipInv'
<1>1. /\ Next /\ UNCHANGED <<known, disk, round, times, lost>>
      /\ NoApp \notin Apps
  BY ShippingAssumption DEF Next, CreateContainer, RemoveContainer, WriteLine, history
<1>2. TypeOK'
  BY <1>1, RoundKeepsTypes, OthersKeepTypes DEF SkipInv
<1>3. \A d \in Containers :
        d \in here' => (d \in here /\ owner'[d] = owner[d]) \/ owner[d] = NoApp
  BY DEF CreateContainer, RemoveContainer, WriteLine, SkipInv, TypeOK
<1>4. RoundInv' /\ RecordsSent' /\ DiskSent'
  BY <1>1, <1>3, RoundStands DEF RecordsSent, DiskSent, SentUpTo
<1>5. Fresh'
  <2> SUFFICES ASSUME NEW d \in Containers, owner'[d] = NoApp PROVE IsFresh(d)'
    BY DEF Fresh
  <2>1. /\ owner[d] = NoApp
        /\ d \in here' => d \in here
        /\ d \in here \/ lines'[d] = lines[d]
    <3>1. CASE \E a \in Apps : CreateContainer(a, c)
      BY <1>1, <3>1 DEF CreateContainer, SkipInv, TypeOK
    <3>2. CASE RemoveContainer(c)
      BY <3>2 DEF RemoveContainer
    <3>3. CASE WriteLine(c)
      BY <3>3 DEF WriteLine, SkipInv, TypeOK, Time
    <3> QED
      BY <3>1, <3>2, <3>3
  <2> QED
    BY <1>1, <2>1 DEF SkipInv, Fresh, IsFresh
<1> QED
  BY <1>2, <1>4, <1>5 DEF SkipInv

LEMMA RestartSkip == SkipInv /\ Restart => SkipInv'
BY StartAgainSkip DEF Restart, Next

(***************************************************************************)
(* No line of an existing container that is before LastLogReadTime was     *)
(* left out, whatever is deployed, removed or restarted during a round     *)
(* (logs.go:36-47).                                                        *)
(***************************************************************************)
THEOREM NoLineSkipped == Spec => []NothingSkipped
<1>1. SkipInv /\ [Next]_vars => SkipInv'
  <2> SUFFICES ASSUME SkipInv, [Next]_vars PROVE SkipInv'
    OBVIOUS
  <2>1. CASE SendEdgeAppLogs
    BY <2>1, BeginSkip, PickSkip, ListSkip, ReadSkip, PublishSkip, StoreSkip, SleepSkip
       DEF SendEdgeAppLogs
  <2>2. CASE \E a \in Apps : AddKnownManifest(a) \/ Undeploy(a)
    BY <2>2, RecordSkip
  <2>3. CASE SetStatus
    BY <2>3, SetStatusSkip
  <2>4. CASE \E a \in Apps, c \in Containers : CreateContainer(a, c)
    BY <2>4, ContainerSkip
  <2>5. CASE \E c \in Containers : RemoveContainer(c) \/ WriteLine(c)
    BY <2>5, ContainerSkip
  <2>6. CASE Restart
    BY <2>6, RestartSkip
  <2>7. CASE UNCHANGED vars
    BY <2>7 DEF vars, dockerVars, history, SkipInv, TypeOK, RecordsSent, DiskSent, RoundInv,
                Copied, Collecting, AllCollected, IsCollected, Fresh, IsFresh, SentUpTo, IsSent
  <2> QED
    BY <2>1, <2>2, <2>3, <2>4, <2>5, <2>6, <2>7 DEF Next
<1> QED
  BY <1>1, InitSkip, SkipInvSuffices, PTL DEF Spec
-----------------------------------------------------------------------------
(***************************************************************************)
(* Why no line is received twice.  A line that has been received is not    *)
(* later than the time in the record, in the file and in the goroutine's   *)
(* copy, or it is in the message whose time is about to be stored; so what *)
(* is read since the copy's time is new.  A record that is added in place  *)
(* of another begins with no time at all: hence the excuse of the          *)
(* containers that are left over.  And a time that is stored is not before *)
(* the one it replaces, whichever record that is by now.                   *)
(***************************************************************************)
AboutToStore(a, l) == round.pc = "save" /\ round.app = a /\ l \in round.msg

ReceivedUpTo(a, since) ==
    \A l \in Line :
        l[1] \in here /\ owner[l[1]] = a /\ times[l] > 0
        => l[2] <= since[l[1]] \/ l[1] \in excused \/ AboutToStore(a, l)

RecordsUpToDate == \A a \in Apps : known[a].known => ReceivedUpTo(a, known[a].since)
FileUpToDate ==
    \A a \in Apps : disk[a].known => known[a].known /\ ReceivedUpTo(a, disk[a].since)

\* Of what the goroutine has collected, and is to collect.
MessageInv ==
    /\ round.pc \in {"list", "read"} => ReceivedUpTo(round.app, round.since)
    /\ round.pc \in {"sleep", "pick", "list"} => round.msg = {}
    /\ round.pc \in {"sleep", "pick", "list", "read", "publish"}
         => \A l \in round.msg : times[l] = 0 \/ l[1] \in excused
    /\ round.pc = "read" => \A c \in round.unread : owner[c] = round.app
    /\ round.pc \in {"read", "publish", "save"}
         => \A l \in round.msg : owner[l[1]] = round.app /\ l[2] <= round.until[l[1]]
    /\ round.pc \in {"list", "read", "publish", "save"} => round.app \in Apps

\* Times only grow.
TimesInOrder ==
    \A c \in Containers :
        /\ round.until[c] <= lines[c]
        /\ \A a \in Apps :
             /\ known[a].since[c] <= lines[c] /\ disk[a].since[c] <= lines[c]
             /\ round.pc # "sleep" => known[a].since[c] <= round.until[c]

NoneOfNobody ==
    /\ \A c \in here : owner[c] # NoApp
    /\ \A l \in Line : times[l] > 0 => owner[l[1]] # NoApp

TwiceInv ==
    /\ TypeOK /\ NothingTwice
    /\ RecordsUpToDate /\ FileUpToDate /\ MessageInv /\ TimesInOrder /\ NoneOfNobody

LEMMA TwiceInvSuffices == TwiceInv => NothingTwice
  BY DEF TwiceInv

LEMMA InitTwice == Init => TwiceInv
<1> SUFFICES ASSUME Init PROVE TwiceInv
  OBVIOUS
<1>1. TypeOK
  BY InitType
<1>2. \A l \in Line : times[l] = 0
  BY DEF Init
<1>3. NothingTwice /\ NoneOfNobody
  BY <1>2 DEF Init, NothingTwice, NoneOfNobody
<1>4. RecordsUpToDate /\ FileUpToDate
  BY DEF Init, RecordsUpToDate, FileUpToDate, Unknown
<1>5. MessageInv
  BY DEF Init, MessageInv, Sleeping
<1>6. TimesInOrder
  BY DEF Init, TimesInOrder, Sleeping, Never, Unknown
<1> QED
  BY <1>1, <1>3, <1>4, <1>5, <1>6 DEF TwiceInv

(***************************************************************************)
(* What has been received up to a time s stays so while nothing is         *)
(* received, but for the message whose time was about to be stored.        *)
(***************************************************************************)
LEMMA StaysReceived ==
    ASSUME NoneOfNobody, NEW a \in Apps, NEW s \in Time, ReceivedUpTo(a, s),
           times' = times, excused \subseteq excused',
           \A c \in Containers : c \in here' => (c \in here /\ owner'[c] = owner[c])
                                                  \/ owner[c] = NoApp
    PROVE  \A l \in Line :
              l[1] \in here' /\ owner'[l[1]] = a /\ times'[l] > 0
              => l[2] <= s[l[1]] \/ l[1] \in excused' \/ AboutToStore(a, l)
<1> SUFFICES ASSUME NEW l \in Line, l[1] \in here', owner'[l[1]] = a, times'[l] > 0
             PROVE  l[2] <= s[l[1]] \/ l[1] \in excused' \/ AboutToStore(a, l)
  OBVIOUS
<1>1. l[1] \in Containers /\ times[l] > 0
  BY LineParts
<1>2. owner[l[1]] # NoApp
  BY <1>1 DEF NoneOfNobody
<1>3. l[1] \in here /\ owner[l[1]] = a
  BY <1>1, <1>2
<1> QED
  BY <1>1, <1>3 DEF ReceivedUpTo

(***************************************************************************)
(* The steps of the goroutine that receive and store nothing: only its own *)
(* variables need another look.                                            *)
(***************************************************************************)
LEMMA QuietRound ==
    ASSUME TwiceInv, TypeOK', round.pc # "save",
           UNCHANGED <<known, disk, dockerVars, times, excused>>,
           MessageInv',
           \A c \in Containers :
              /\ round'.until[c] <= lines[c]
              /\ round'.pc # "sleep" => \A a \in Apps : known[a].since[c] <= round'.until[c]
    PROVE  TwiceInv'
<1>1. UNCHANGED <<here, owner, lines>>
  BY DEF dockerVars
<1>2. \A a, l : ~ AboutToStore(a, l)
  BY DEF AboutToStore
<1>3. RecordsUpToDate'
  BY <1>1, <1>2 DEF TwiceInv, RecordsUpToDate, ReceivedUpTo
<1>4. FileUpToDate'
  BY <1>1, <1>2 DEF TwiceInv, FileUpToDate, ReceivedUpTo
<1>5. TimesInOrder'
  BY <1>1 DEF TwiceInv, TimesInOrder
<1>6. NothingTwice' /\ NoneOfNobody'
  BY <1>1 DEF TwiceInv, NothingTwice, NoneOfNobody
<1> QED
  BY <1>3, <1>4, <1>5, <1>6 DEF TwiceInv

\* On to the next edge app: nothing is collected.
LEMMA NextAppTwice ==
    ASSUME TwiceInv, TypeOK', round' = NextApp, round.pc \in {"list", "read", "publish"},
           UNCHANGED <<known, disk, dockerVars, times, excused>>
    PROVE  TwiceInv'
<1>1. round'.pc = "pick" /\ round'.msg = {} /\ round'.until = round.until
  BY DEF NextApp, TwiceInv, TypeOK
<1>2. MessageInv'
  BY <1>1 DEF MessageInv
<1> QED
  BY <1>1, <1>2, QuietRound DEF TwiceInv, TimesInOrder

LEMMA FailsTwice ==
    ASSUME TwiceInv, TypeOK', Fails, round.pc \in {"list", "read", "publish"}
    PROVE  TwiceInv'
  BY NextAppTwice DEF Fails, history

LEMMA BeginTwice == TwiceInv /\ Begin => TwiceInv'
<1> SUFFICES ASSUME TwiceInv, Begin PROVE TwiceInv'
  OBVIOUS
<1>1. TypeOK'
  BY RoundKeepsTypes DEF TwiceInv, SendEdgeAppLogs
<1>2. round.pc = "sleep" /\ UNCHANGED <<known, disk, dockerVars, times, excused>>
  BY DEF Begin, Advances, history
<1>3. round'.pc = "pick" /\ round'.msg = {} /\ round'.until = lines
  BY DEF Begin, Advances, Sleeping
<1>4. MessageInv'
  BY <1>3 DEF MessageInv
<1>5. \A c \in Containers : lines[c] \in Int
  BY ShippingAssumption DEF TwiceInv, TypeOK, Time
<1> QED
  BY <1>1, <1>2, <1>3, <1>4, <1>5, QuietRound DEF TwiceInv, TimesInOrder

(***************************************************************************)
(* The copy of a record is as much up to date as the record.               *)
(***************************************************************************)
LEMMA PickTwice == TwiceInv /\ Pick => TwiceInv'
<1> SUFFICES ASSUME TwiceInv, Pick PROVE TwiceInv'
  OBVIOUS
<1>1. TypeOK'
  BY RoundKeepsTypes DEF TwiceInv, SendEdgeAppLogs
<1>2. /\ round.pc = "pick" /\ round.msg = {}
      /\ UNCHANGED <<known, disk, dockerVars, times, excused>>
  BY DEF Pick, Advances, history, TwiceInv, MessageInv
<1>3. PICK a \in round.todo :
        LET rest == [round EXCEPT !.todo = @ \ {a}]
        IN  round' = IF ~ IsKnown(a) \/ known[a].undeployed
                     THEN rest
                     ELSE [rest EXCEPT !.pc = "list", !.app = a,
                                       !.since = known[a].since]
  BY DEF Pick, Advances
<1>4. a \in Apps /\ round \in RoundType
  BY DEF TwiceInv, TypeOK, RoundType
<1>5. round'.msg = {} /\ round'.until = round.until
  BY <1>2, <1>3, <1>4 DEF RoundType
<1>6. CASE ~ IsKnown(a) \/ known[a].undeployed
  <2>1. round'.pc = "pick"
    BY <1>2, <1>3, <1>4, <1>6 DEF RoundType
  <2>2. MessageInv'
    BY <1>5, <2>1 DEF MessageInv
  <2> QED
    BY <1>1, <1>2, <1>5, <2>2, QuietRound DEF TwiceInv, TimesInOrder
<1>7. CASE ~ (~ IsKnown(a) \/ known[a].undeployed)
  <2>1. round'.pc = "list" /\ round'.app = a /\ round'.since = known[a].since
    BY <1>3, <1>4, <1>7 DEF RoundType
  <2>2. ReceivedUpTo(a, known[a].since)
    BY <1>4, <1>7 DEF IsKnown, TwiceInv, RecordsUpToDate
  <2>3. ReceivedUpTo(round.app, round.since)'
    BY <1>2, <2>1, <2>2 DEF ReceivedUpTo, AboutToStore, dockerVars
  <2>4. MessageInv'
    BY <1>4, <1>5, <2>1, <2>3 DEF MessageInv
  <2> QED
    BY <1>1, <1>2, <1>5, <2>4, QuietRound DEF TwiceInv, TimesInOrder
<1> QED
  BY <1>6, <1>7

LEMMA ListTwice == TwiceInv /\ List => TwiceInv'
<1> SUFFICES ASSUME TwiceInv, List, ~ Fails PROVE TwiceInv'
  <2>1. TwiceInv /\ List => TypeOK'
    BY RoundKeepsTypes DEF TwiceInv, SendEdgeAppLogs
  <2> QED
    BY <2>1, FailsTwice DEF List
<1>1. TypeOK'
  BY RoundKeepsTypes DEF TwiceInv, SendEdgeAppLogs
<1>2. /\ round.pc = "list" /\ round.msg = {} /\ round.app \in Apps
      /\ UNCHANGED <<known, disk, dockerVars, times, excused>>
  BY DEF List, Advances, history, TwiceInv, MessageInv
<1>3. round \in RoundType
  BY DEF TwiceInv, TypeOK, RoundType
<1>4. /\ round' = [round EXCEPT !.pc = IF ContainersOf(round.app) = {} THEN "publish"
                                       ELSE "read",
                                !.unread = ContainersOf(round.app)]
  BY DEF List, Advances
<1>5. /\ round'.pc \in {"read", "publish"} /\ round'.unread = ContainersOf(round.app)
      /\ round'.app = round.app /\ round'.since = round.since
      /\ round'.until = round.until /\ round'.msg = {}
  BY <1>2, <1>3, <1>4 DEF RoundType
<1>6. ReceivedUpTo(round.app, round.since)'
  <2>1. ReceivedUpTo(round.app, round.since)
    BY <1>2 DEF TwiceInv, MessageInv
  <2> QED
    BY <1>2, <1>5, <2>1 DEF ReceivedUpTo, AboutToStore, dockerVars
<1>7. \A c \in round'.unread : owner'[c] = round'.app
  BY <1>2, <1>5 DEF ContainersOf, dockerVars
<1>8. MessageInv'
  BY <1>2, <1>5, <1>6, <1>7 DEF MessageInv
<1> QED
  BY <1>1, <1>2, <1>5, <1>8, QuietRound DEF TwiceInv, TimesInOrder

(***************************************************************************)
(* The agent starts again with the records of the file; a message whose    *)
(* time was about to be stored is excused.                                 *)
(***************************************************************************)
LEMMA StartAgainTwice ==
    ASSUME TwiceInv, Next, known' = disk, round' = Sleeping,
           UNCHANGED <<disk, dockerVars, times>>, excused \subseteq excused',
           \A a, l : AboutToStore(a, l) => l[1] \in excused'
    PROVE  TwiceInv'
<1>1. UNCHANGED <<disk, owner, here, lines, times>>
  BY DEF dockerVars
<1>2. TypeOK'
  BY RoundKeepsTypes, OthersKeepTypes DEF TwiceInv
<1>3. round'.pc = "sleep" /\ round'.msg = {} /\ round'.until = Never
  BY DEF Sleeping
<1>4. MessageInv'
  BY <1>3 DEF MessageInv
<1>5. RecordsUpToDate' /\ FileUpToDate'
  BY <1>1 DEF TwiceInv, RecordsUpToDate, FileUpToDate, ReceivedUpTo
<1>6. TimesInOrder'
  <2>1. \A c \in Containers : Never[c] <= lines[c]
    BY ShippingAssumption DEF Never, TwiceInv, TypeOK, Time
  <2> QED
    BY <1>1, <1>3, <2>1 DEF TwiceInv, TimesInOrder
<1>7. NothingTwice' /\ NoneOfNobody'
  BY <1>1 DEF TwiceInv, NothingTwice, NoneOfNobody
<1> QED
  BY <1>2, <1>4, <1>5, <1>6, <1>7 DEF TwiceInv

LEMMA PanicTwice == TwiceInv /\ ReadLogs /\ Panics => TwiceInv'
<1> SUFFICES ASSUME TwiceInv, ReadLogs, Panics PROVE TwiceInv'
  OBVIOUS
<1>1. Next /\ round.pc # "save"
  BY DEF ReadLogs, Next, SendEdgeAppLogs
<1> QED
  BY <1>1, StartAgainTwice DEF Panics, history, AboutToStore

(***************************************************************************)
(* What is read since the copy's time has not been received.               *)
(***************************************************************************)
LEMMA ReadTwice == TwiceInv /\ ReadLogs => TwiceInv'
<1> SUFFICES ASSUME TwiceInv, ReadLogs, ~ Panics PROVE TwiceInv'
  BY PanicTwice
<1>1. TypeOK'
  BY RoundKeepsTypes DEF TwiceInv, SendEdgeAppLogs
<1>2. /\ round.pc = "read" /\ UNCHANGED <<known, disk, dockerVars, times, excused>>
      /\ round \in RoundType /\ round.app \in Apps
  BY DEF ReadLogs, Reads, Advances, Fails, history, TwiceInv, TypeOK, RoundType, MessageInv
<1>3. CASE round' = NextApp
  BY <1>1, <1>2, <1>3, NextAppTwice
<1>4. CASE round' # NextApp
  <2>1. PICK c \in round.unread :
          /\ c \in here
          /\ round' = [round EXCEPT
                        !.pc = IF round.unread \ {c} = {} THEN "publish" ELSE "read",
                        !.unread = round.unread \ {c},
                        !.msg = @ \cup {l \in Between(round.since, round.until) : l[1] = c}]
    BY <1>4 DEF ReadLogs, Reads, Advances, Fails
  <2> DEFINE read == {l \in Between(round.since, round.until) : l[1] = c}
  <2>2. /\ round'.pc \in {"read", "publish"}
        /\ round'.unread \subseteq round.unread /\ round'.msg = round.msg \cup read
        /\ round'.app = round.app /\ round'.since = round.since
        /\ round'.until = round.until
    BY <1>2, <2>1 DEF RoundType
  <2>3. ReceivedUpTo(round.app, round.since)
    BY <1>2 DEF TwiceInv, MessageInv
  <2>4. ASSUME NEW l \in read
        PROVE  /\ times[l] = 0 \/ l[1] \in excused
               /\ owner[l[1]] = round.app /\ l[2] <= round.until[l[1]]
    <3>1. l \in Line /\ l[1] = c /\ round.since[c] < l[2] /\ l[2] <= round.until[l[1]]
      BY DEF Between
    <3>2. owner[c] = round.app
      BY <1>2 DEF TwiceInv, MessageInv
    <3>3. times[l] \in 0 .. 2 /\ l[2] \in Nat /\ round.since[c] \in Int
      BY <3>1, LineParts, ShippingAssumption DEF TwiceInv, TypeOK, Time
    <3>4. ~ (l[2] <= round.since[c])
      BY <3>1, <3>3
    <3>5. times[l] > 0 => l[1] \in excused
      BY <1>2, <2>1, <2>3, <3>1, <3>2, <3>4 DEF ReceivedUpTo, AboutToStore
    <3> QED
      BY <3>1, <3>2, <3>3, <3>5
  <2> HIDE DEF read
  <2>5. ReceivedUpTo(round.app, round.since)'
    BY <1>2, <2>2, <2>3 DEF ReceivedUpTo, AboutToStore, dockerVars
  <2>6. \A l \in round'.msg : /\ times[l] = 0 \/ l[1] \in excused
                              /\ owner[l[1]] = round.app /\ l[2] <= round.until[l[1]]
    BY <1>2, <2>2, <2>4 DEF TwiceInv, MessageInv
  <2>7. \A d \in round'.unread : owner[d] = round.app
    BY <1>2, <2>2 DEF TwiceInv, MessageInv
  <2>8. MessageInv'
    BY <1>2, <2>2, <2>5, <2>6, <2>7 DEF MessageInv, dockerVars
  <2> QED
    BY <1>1, <1>2, <2>2, <2>8, QuietRound DEF TwiceInv, TimesInOrder
<1> QED
  BY <1>3, <1>4

(***************************************************************************)
(* A message that is received has only lines that were not, and its time   *)
(* is about to be stored.                                                  *)
(***************************************************************************)
LEMMA PublishTwice == TwiceInv /\ Publish => TwiceInv'
<1> SUFFICES ASSUME TwiceInv, Publish, ~ Fails PROVE TwiceInv'
  <2>1. TwiceInv /\ Publish => TypeOK'
    BY RoundKeepsTypes DEF TwiceInv, SendEdgeAppLogs
  <2> QED
    BY <2>1, FailsTwice DEF Publish
<1>1. TypeOK'
  BY RoundKeepsTypes DEF TwiceInv, SendEdgeAppLogs
<1>2. /\ round.pc = "publish" /\ UNCHANGED <<known, disk, dockerVars, excused>>
      /\ round \in RoundType /\ round' = [round EXCEPT !.pc = "save"]
      /\ Received(round.msg) \/ UNCHANGED times
  BY DEF Publish, TwiceInv, TypeOK, RoundType
<1>3. /\ round'.pc = "save" /\ round'.app = round.app /\ round'.msg = round.msg
      /\ round'.until = round.until
  BY <1>2 DEF RoundType
<1>4. /\ \A l \in round.msg : times[l] = 0 \/ l[1] \in excused
      /\ \A l \in round.msg : owner[l[1]] = round.app /\ l[2] <= round.until[l[1]]
      /\ round.app \in Apps
  BY <1>2 DEF TwiceInv, MessageInv
<1>5. ASSUME NEW l \in Line
      PROVE  /\ times'[l] # times[l] => l \in round.msg /\ times'[l] = times[l] + 1
             /\ times[l] \in 0 .. 2
    BY <1>2 DEF Received, TwiceInv, TypeOK
<1>6. NothingTwice'
  <2> SUFFICES ASSUME NEW l \in Line, times'[l] > 1 PROVE l[1] \in excused
    BY <1>2 DEF NothingTwice
  <2> QED
    BY <1>4, <1>5 DEF TwiceInv, NothingTwice
<1>7. ASSUME NEW a \in Apps, NEW s \in Time, ReceivedUpTo(a, s)
      PROVE  \A l \in Line : l[1] \in here /\ owner[l[1]] = a /\ times'[l] > 0
                => l[2] <= s[l[1]] \/ l[1] \in excused \/ AboutToStore(a, l)'
  <2> SUFFICES ASSUME NEW l \in Line, l[1] \in here, owner[l[1]] = a, times'[l] > 0
               PROVE  l[2] <= s[l[1]] \/ l[1] \in excused \/ AboutToStore(a, l)'
    OBVIOUS
  <2>1. CASE times'[l] = times[l]
    BY <1>2, <1>7, <2>1 DEF ReceivedUpTo, AboutToStore
  <2>2. CASE times'[l] # times[l]
    BY <1>3, <1>4, <1>5, <2>2 DEF AboutToStore
  <2> QED
    BY <2>1, <2>2
<1>8. \A a \in Apps : known[a].since \in Time /\ disk[a].since \in Time
  BY DEF TwiceInv, TypeOK
<1>9. RecordsUpToDate'
  <2> SUFFICES ASSUME NEW a \in Apps, known[a].known PROVE ReceivedUpTo(a, known[a].since)'
    BY <1>2 DEF RecordsUpToDate
  <2>1. ReceivedUpTo(a, known[a].since)
    BY DEF TwiceInv, RecordsUpToDate
  <2> QED
    BY <1>2, <1>7, <1>8, <2>1 DEF ReceivedUpTo, dockerVars
<1>10. FileUpToDate'
  <2> SUFFICES ASSUME NEW a \in Apps, disk[a].known
               PROVE  known[a].known /\ ReceivedUpTo(a, disk[a].since)'
    BY <1>2 DEF FileUpToDate
  <2>1. known[a].known /\ ReceivedUpTo(a, disk[a].since)
    BY DEF TwiceInv, FileUpToDate
  <2> QED
    BY <1>2, <1>7, <1>8, <2>1 DEF ReceivedUpTo, dockerVars
<1>11. MessageInv'
  BY <1>2, <1>3, <1>4 DEF MessageInv, dockerVars
<1>12. TimesInOrder'
  BY <1>2, <1>3 DEF TwiceInv, TimesInOrder, dockerVars
<1>13. NoneOfNobody'
  <2>1. \A l \in Line : times'[l] > 0 => owner[l[1]] # NoApp
    BY <1>4, <1>5, ShippingAssumption DEF TwiceInv, NoneOfNobody
  <2> QED
    BY <1>2, <2>1 DEF TwiceInv, NoneOfNobody, dockerVars
<1> QED
  BY <1>1, <1>6, <1>9, <1>10, <1>11, <1>12, <1>13 DEF TwiceInv

(***************************************************************************)
(* The time that is stored is not before the one it replaces, and covers   *)
(* the message; if the record is gone, it is gone in the file, too.        *)
(***************************************************************************)
LEMMA StoreTwice == TwiceInv /\ SetLastLogRead => TwiceInv'
<1> SUFFICES ASSUME TwiceInv, SetLastLogRead PROVE TwiceInv'
  OBVIOUS
<1>1. TypeOK'
  BY RoundKeepsTypes DEF TwiceInv, SendEdgeAppLogs
<1>2. /\ round.pc = "save" /\ round' = NextApp /\ UNCHANGED <<dockerVars, times, excused>>
      /\ UNCHANGED <<here, owner, lines>>
      /\ round.app \in Apps /\ round.until \in Time
  BY DEF SetLastLogRead, history, dockerVars, TwiceInv, TypeOK, MessageInv
<1>3. round'.pc = "pick" /\ round'.msg = {} /\ round'.until = round.until
  BY <1>2 DEF NextApp, TwiceInv, TypeOK
<1>4. MessageInv'
  BY <1>3 DEF MessageInv
<1>5. NothingTwice' /\ NoneOfNobody'
  BY <1>2 DEF TwiceInv, NothingTwice, NoneOfNobody
<1>6. \A a, l : ~ AboutToStore(a, l)'
  BY <1>3 DEF AboutToStore
<1>7. CASE ~ IsKnown(round.app)
  <2>1. UNCHANGED <<known, disk>>
    BY <1>7 DEF SetLastLogRead
  <2>2. \A a \in Apps, l \in Line : known[a].known => ~ AboutToStore(a, l)
    BY <1>7 DEF AboutToStore, IsKnown
  <2>3. RecordsUpToDate'
    BY <1>2, <2>1, <2>2 DEF TwiceInv, RecordsUpToDate, ReceivedUpTo
  <2>4. FileUpToDate'
    BY <1>2, <2>1, <2>2 DEF TwiceInv, FileUpToDate, ReceivedUpTo
  <2>5. TimesInOrder'
    BY <1>2, <1>3, <2>1 DEF TwiceInv, TimesInOrder
  <2> QED
    BY <1>1, <1>4, <1>5, <2>3, <2>4, <2>5 DEF TwiceInv
<1>8. CASE IsKnown(round.app)
  <2>1. known' = [known EXCEPT ![round.app].since = round.until] /\ disk' = known'
    BY <1>8 DEF SetLastLogRead, Store
  <2>2. /\ known'[round.app].since = round.until
        /\ \A a \in Apps : a # round.app => known'[a] = known[a]
        /\ \A a \in Apps : known'[a].known = known[a].known
    BY <1>2, <2>1 DEF TwiceInv, TypeOK
  <2>3. ASSUME NEW a \in Apps, known'[a].known
        PROVE  ReceivedUpTo(a, known[a].since)'
    <3> SUFFICES ASSUME NEW l \in Line, l[1] \in here, owner[l[1]] = a, times[l] > 0
                 PROVE  l[2] <= known'[a].since[l[1]] \/ l[1] \in excused
      BY <1>2 DEF ReceivedUpTo
    <3>1. l[2] <= known[a].since[l[1]] \/ l[1] \in excused \/ AboutToStore(a, l)
      BY <2>2, <2>3 DEF TwiceInv, RecordsUpToDate, ReceivedUpTo
    <3>2. CASE a # round.app
      BY <2>2, <3>1, <3>2 DEF AboutToStore
    <3>3. CASE a = round.app
      <4>1. known'[a].since[l[1]] = round.until[l[1]]
        BY <2>2, <3>3
      <4>2. AboutToStore(a, l) => l[2] <= round.until[l[1]]
        BY <1>2 DEF AboutToStore, TwiceInv, MessageInv
      <4>3. /\ l[2] \in Nat /\ known[a].since[l[1]] \in Int /\ round.until[l[1]] \in Int
            /\ l[1] \in Containers
        BY <1>2, LineParts, ShippingAssumption DEF TwiceInv, TypeOK, Time
      <4>4. known[a].since[l[1]] <= round.until[l[1]]
        BY <1>2, <4>3 DEF TwiceInv, TimesInOrder
      <4> QED
        BY <3>1, <4>1, <4>2, <4>3, <4>4
    <3> QED
      BY <3>2, <3>3
  <2>4. RecordsUpToDate'
    BY <2>3 DEF RecordsUpToDate
  <2>5. FileUpToDate'
    BY <2>1, <2>3 DEF FileUpToDate
  <2>6. TimesInOrder'
    <3> SUFFICES ASSUME NEW c \in Containers, NEW a \in Apps
                 PROVE  /\ round.until[c] <= lines[c]
                        /\ known'[a].since[c] <= lines[c]
                        /\ known'[a].since[c] <= round.until[c]
      BY <1>2, <1>3, <2>1 DEF TimesInOrder
    <3>1. /\ round.until[c] <= lines[c] /\ known[a].since[c] <= lines[c]
          /\ known[a].since[c] <= round.until[c]
      BY <1>2 DEF TwiceInv, TimesInOrder
    <3>2. round.until[c] \in Int
      BY <1>2, ShippingAssumption DEF Time
    <3> QED
      BY <2>2, <3>1, <3>2
  <2> QED
    BY <1>1, <1>4, <1>5, <2>4, <2>5, <2>6 DEF TwiceInv
<1> QED
  BY <1>7, <1>8

LEMMA SleepTwice == TwiceInv /\ Sleep => TwiceInv'
<1> SUFFICES ASSUME TwiceInv, Sleep PROVE TwiceInv'
  OBVIOUS
<1>1. TypeOK'
  BY RoundKeepsTypes DEF TwiceInv, SendEdgeAppLogs
<1>2. round.pc = "pick" /\ UNCHANGED <<known, disk, dockerVars, times, excused>>
  BY DEF Sleep, Advances, history
<1>3. round'.pc = "sleep" /\ round'.msg = {} /\ round'.until = Never
  BY DEF Sleep, Advances, Sleeping
<1>4. MessageInv'
  BY <1>3 DEF MessageInv
<1>5. \A c \in Containers : round'.until[c] <= lines[c]
  BY <1>3, ShippingAssumption DEF Never, TwiceInv, TypeOK, Time
<1> QED
  BY <1>1, <1>2, <1>3, <1>4, <1>5, QuietRound

(***************************************************************************)
(* What goes on meanwhile: the goroutine stands still, nothing is          *)
(* received, and no container that exists is given to another edge app.    *)
(***************************************************************************)
LEMMA MessageStands ==
    ASSUME TwiceInv, round' = round, times' = times, excused \subseteq excused',
           \A c \in Containers : owner[c] # NoApp => owner'[c] = owner[c],
           \A c \in Containers : c \in here' => (c \in here /\ owner'[c] = owner[c])
                                                  \/ owner[c] = NoApp
    PROVE  MessageInv'
<1>0. round \in RoundType /\ NoneOfNobody /\ NoApp \notin Apps
  BY ShippingAssumption DEF TwiceInv, TypeOK, RoundType
<1>1. round.pc \in {"list", "read"} => ReceivedUpTo(round.app, round.since)'
  <2> SUFFICES ASSUME round.pc \in {"list", "read"}
               PROVE  ReceivedUpTo(round.app, round.since)'
    OBVIOUS
  <2>1. round.app \in Apps /\ round.since \in Time /\ ReceivedUpTo(round.app, round.since)
    BY <1>0 DEF TwiceInv, MessageInv, RoundType
  <2>2. \A l : ~ AboutToStore(round.app, l)
    BY DEF AboutToStore
  <2> QED
    BY <1>0, <2>1, <2>2, StaysReceived DEF ReceivedUpTo
<1>2. \A c \in round.unread : c \in Containers
  BY <1>0 DEF RoundType
<1>3. \A l \in round.msg : l[1] \in Containers
  BY <1>0, LineParts DEF RoundType
<1>4. round.pc = "read" => \A c \in round.unread : owner'[c] = round.app
  BY <1>0, <1>2 DEF TwiceInv, MessageInv
<1>5. round.pc \in {"read", "publish", "save"}
         => \A l \in round.msg : owner'[l[1]] = round.app /\ l[2] <= round.until[l[1]]
  BY <1>0, <1>3 DEF TwiceInv, MessageInv
<1>6. /\ round.pc \in {"sleep", "pick", "list"} => round.msg = {}
      /\ round.pc \in {"sleep", "pick", "list", "read", "publish"}
           => \A l \in round.msg : times[l] = 0 \/ l[1] \in excused'
      /\ round.pc \in {"list", "read", "publish", "save"} => round.app \in Apps
  BY DEF TwiceInv, MessageInv
<1> QED
  BY <1>1, <1>4, <1>5, <1>6 DEF MessageInv

(***************************************************************************)
(* DEPLOY: the new record has no time, so the containers that are left     *)
(* over are excused; the file is as it was.                                *)
(***************************************************************************)
LEMMA AddTwice ==
    ASSUME TwiceInv, NEW a \in Apps, AddKnownManifest(a)
    PROVE  TwiceInv'
<1>1. /\ UNCHANGED <<disk, owner, here, lines, round, times>>
      /\ excused' = excused \cup ContainersOf(a)
      /\ known' = [known EXCEPT ![a] = Record(FALSE, Never)]
  BY DEF AddKnownManifest, dockerVars
<1>2. TypeOK'
  <2>1. Next
    BY DEF Next
  <2> QED
    BY <2>1, RoundKeepsTypes, OthersKeepTypes DEF TwiceInv
<1>3. MessageInv'
  BY <1>1, MessageStands DEF TwiceInv, NoneOfNobody
<1>4. /\ known'[a].known /\ known'[a].since = Never
      /\ \A b \in Apps : b # a => known'[b] = known[b]
  BY <1>1 DEF Record, TwiceInv, TypeOK
<1>5. \A b, l : AboutToStore(b, l)' = AboutToStore(b, l)
  BY <1>1 DEF AboutToStore
<1>6. RecordsUpToDate'
  <2> SUFFICES ASSUME NEW b \in Apps, known'[b].known,
                      NEW l \in Line, l[1] \in here, owner[l[1]] = b, times[l] > 0
               PROVE  l[2] <= known'[b].since[l[1]] \/ l[1] \in excused' \/ AboutToStore(b, l)
    BY <1>1, <1>5 DEF RecordsUpToDate, ReceivedUpTo
  <2>1. CASE b = a
    BY <1>1, <2>1 DEF ContainersOf
  <2>2. CASE b # a
    BY <1>1, <1>4, <2>2 DEF TwiceInv, RecordsUpToDate, ReceivedUpTo
  <2> QED
    BY <2>1, <2>2
<1>7. FileUpToDate'
  <2> SUFFICES ASSUME NEW b \in Apps, disk[b].known
               PROVE  known'[b].known /\ ReceivedUpTo(b, disk[b].since)'
    BY <1>1 DEF FileUpToDate
  <2>1. known[b].known /\ ReceivedUpTo(b, disk[b].since)
    BY DEF TwiceInv, FileUpToDate
  <2> QED
    BY <1>1, <1>4, <1>5, <2>1 DEF ReceivedUpTo
<1>8. TimesInOrder'
  <2> SUFFICES ASSUME NEW c \in Containers, NEW b \in Apps
               PROVE  /\ round.until[c] <= lines[c]
                      /\ known'[b].since[c] <= lines[c] /\ disk[b].since[c] <= lines[c]
                      /\ round.pc # "sleep" => known'[b].since[c] <= round.until[c]
    BY <1>1 DEF TimesInOrder
  <2>1. lines[c] >= 0 /\ round.until[c] >= 0 /\ Never[c] = 0
    BY ShippingAssumption DEF TwiceInv, TypeOK, Time, Never
  <2> QED
    BY <1>4, <2>1 DEF TwiceInv, TimesInOrder
<1>9. NothingTwice' /\ NoneOfNobody'
  BY <1>1 DEF TwiceInv, NothingTwice, NoneOfNobody
<1> QED
  BY <1>2, <1>3, <1>6, <1>7, <1>8, <1>9 DEF TwiceInv

(***************************************************************************)
(* UNDEPLOY and REMOVE: the edge app has no containers.                    *)
(***************************************************************************)
LEMMA UndeployTwice ==
    ASSUME TwiceInv, NEW a \in Apps, Undeploy(a)
    PROVE  TwiceInv'
<1>1. /\ UNCHANGED <<owner, here, lines, round, times, excused>>
      /\ known' = [known EXCEPT ![a] = IF @.undeployed THEN Unknown ELSE Record(TRUE, @.since)]
      /\ disk' = known' /\ ContainersOf(a) = {}
  BY DEF Undeploy, dockerVars, history
<1>2. TypeOK'
  <2>1. Next
    BY DEF Next
  <2> QED
    BY <2>1, RoundKeepsTypes, OthersKeepTypes DEF TwiceInv
<1>3. MessageInv'
  BY <1>1, MessageStands DEF TwiceInv, NoneOfNobody
<1>4. \A b \in Apps : b # a => known'[b] = known[b]
  BY <1>1 DEF TwiceInv, TypeOK
<1>5. known'[a].since \in {Never, known[a].since}
  <2>1. known'[a] = IF known[a].undeployed THEN Unknown ELSE Record(TRUE, known[a].since)
    BY <1>1 DEF TwiceInv, TypeOK
  <2> QED
    BY <2>1 DEF Unknown, Record
<1>6. ASSUME NEW b \in Apps, known'[b].known PROVE ReceivedUpTo(b, known[b].since)'
  <2>1. CASE b = a
    BY <1>1, <2>1, LineParts DEF ReceivedUpTo, ContainersOf
  <2>2. CASE b # a
    <3>1. ReceivedUpTo(b, known[b].since) /\ known'[b] = known[b]
      BY <1>4, <1>6, <2>2 DEF TwiceInv, RecordsUpToDate
    <3> QED
      BY <1>1, <3>1 DEF ReceivedUpTo, AboutToStore
  <2> QED
    BY <2>1, <2>2
<1>7. RecordsUpToDate'
  BY <1>6 DEF RecordsUpToDate
<1>8. FileUpToDate'
  BY <1>1, <1>6 DEF FileUpToDate
<1>9. TimesInOrder'
  <2> SUFFICES ASSUME NEW c \in Containers, NEW b \in Apps
               PROVE  /\ round.until[c] <= lines[c]
                      /\ known'[b].since[c] <= lines[c]
                      /\ round.pc # "sleep" => known'[b].since[c] <= round.until[c]
    BY <1>1 DEF TimesInOrder
  <2>1. lines[c] >= 0 /\ round.until[c] >= 0 /\ Never[c] = 0
    BY ShippingAssumption DEF TwiceInv, TypeOK, Time, Never
  <2>2. known'[b].since \in {Never, known[b].since}
    BY <1>4, <1>5
  <2> QED
    BY <2>1, <2>2 DEF TwiceInv, TimesInOrder
<1>10. NothingTwice' /\ NoneOfNobody'
  BY <1>1 DEF TwiceInv, NothingTwice, NoneOfNobody
<1> QED
  BY <1>2, <1>3, <1>7, <1>8, <1>9, <1>10 DEF TwiceInv

\* The file is written.
LEMMA SetStatusTwice == TwiceInv /\ SetStatus => TwiceInv'
<1> SUFFICES ASSUME TwiceInv, SetStatus PROVE TwiceInv'
  OBVIOUS
<1>1. disk' = known /\ UNCHANGED <<known, owner, here, lines, round, times, excused>>
  BY DEF SetStatus, dockerVars, history
<1>2. TypeOK'
  BY DEF SetStatus, dockerVars, history, TwiceInv, TypeOK
<1>3. MessageInv'
  BY <1>1, MessageStands DEF TwiceInv, NoneOfNobody
<1>4. RecordsUpToDate' /\ FileUpToDate'
  BY <1>1 DEF TwiceInv, RecordsUpToDate, FileUpToDate, ReceivedUpTo, AboutToStore
<1>5. TimesInOrder' /\ NothingTwice' /\ NoneOfNobody'
  BY <1>1 DEF TwiceInv, TimesInOrder, NothingTwice, NoneOfNobody
<1> QED
  BY <1>2, <1>3, <1>4, <1>5 DEF TwiceInv

(***************************************************************************)
(* A container that is created has written no lines; one that is removed   *)
(* does not come back; and a line that is written is a new one.            *)
(***************************************************************************)
LEMMA ContainerTwice ==
    ASSUME TwiceInv, NEW c \in Containers,
           \/ \E a \in Apps : CreateContainer(a, c)
           \/ RemoveContainer(c) \/ WriteLine(c)
    PROVE  TwiceInv'
<1>1. UNCHANGED <<known, disk, round, times, excused>> /\ NoApp \notin Apps
  BY ShippingAssumption DEF CreateContainer, RemoveContainer, WriteLine, history
<1>2. TypeOK'
  <2>1. Next
    BY DEF Next
  <2> QED
    BY <2>1, RoundKeepsTypes, OthersKeepTypes DEF TwiceInv
<1>3. /\ \A d \in Containers : owner[d] # NoApp => owner'[d] = owner[d]
      /\ \A d \in Containers :
           d \in here' => (d \in here /\ owner'[d] = owner[d]) \/ owner[d] = NoApp
  BY DEF CreateContainer, RemoveContainer, WriteLine, TwiceInv, TypeOK
<1>4. MessageInv'
  BY <1>1, <1>3, MessageStands
<1>5. \A a, l : AboutToStore(a, l)' = AboutToStore(a, l)
  BY <1>1 DEF AboutToStore
<1>6. ASSUME NEW a \in Apps, NEW s \in Time, ReceivedUpTo(a, s)
      PROVE  \A l \in Line :
                l[1] \in here' /\ owner'[l[1]] = a /\ times[l] > 0
                => l[2] <= s[l[1]] \/ l[1] \in excused \/ AboutToStore(a, l)
  BY <1>1, <1>3, <1>6, StaysReceived DEF TwiceInv
<1>7. \A a \in Apps : known[a].since \in Time /\ disk[a].since \in Time
  BY DEF TwiceInv, TypeOK
<1>8. RecordsUpToDate'
  <2> SUFFICES ASSUME NEW a \in Apps, known[a].known PROVE ReceivedUpTo(a, known[a].since)'
    BY <1>1 DEF RecordsUpToDate
  <2>1. ReceivedUpTo(a, known[a].since)
    BY DEF TwiceInv, RecordsUpToDate
  <2> QED
    BY <1>1, <1>5, <1>6, <1>7, <2>1 DEF ReceivedUpTo
<1>9. FileUpToDate'
  <2> SUFFICES ASSUME NEW a \in Apps, disk[a].known
               PROVE  known[a].known /\ ReceivedUpTo(a, disk[a].since)'
    BY <1>1 DEF FileUpToDate
  <2>1. known[a].known /\ ReceivedUpTo(a, disk[a].since)
    BY DEF TwiceInv, FileUpToDate
  <2> QED
    BY <1>1, <1>5, <1>6, <1>7, <2>1 DEF ReceivedUpTo
<1>10. TimesInOrder'
  <2>1. ASSUME NEW d \in Containers PROVE lines'[d] \in Int /\ lines[d] \in Int /\ lines[d] <= lines'[d]
    <3>1. lines'[d] \in {lines[d], lines[d] + 1}
      BY DEF CreateContainer, RemoveContainer, WriteLine, TwiceInv, TypeOK, Time
    <3>2. lines[d] \in Int
      BY ShippingAssumption DEF TwiceInv, TypeOK, Time
    <3> QED
      BY <3>1, <3>2
  <2> SUFFICES ASSUME NEW d \in Containers
               PROVE  /\ round.until[d] <= lines'[d]
                      /\ \A a \in Apps :
                           /\ known[a].since[d] <= lines'[d] /\ disk[a].since[d] <= lines'[d]
                           /\ round.pc # "sleep" => known[a].since[d] <= round.until[d]
    BY <1>1 DEF TimesInOrder
  <2>2. /\ round.until[d] \in Int
        /\ \A a \in Apps : known[a].since[d] \in Int /\ disk[a].since[d] \in Int
    BY ShippingAssumption DEF TwiceInv, TypeOK, Time
  <2> QED
    BY <2>1, <2>2 DEF TwiceInv, TimesInOrder
<1>11. NothingTwice'
  BY <1>1 DEF TwiceInv, NothingTwice
<1>12. NoneOfNobody'
  <2>1. \A d \in here' : owner'[d] # NoApp
    BY <1>1 DEF CreateContainer, RemoveContainer, WriteLine, TwiceInv, TypeOK, NoneOfNobody
  <2>2. \A l \in Line : times[l] > 0 => owner'[l[1]] # NoApp
    BY <1>3, LineParts DEF TwiceInv, NoneOfNobody
  <2> QED
    BY <1>1, <2>1, <2>2 DEF NoneOfNobody
<1> QED
  BY <1>2, <1>4, <1>8, <1>9, <1>10, <1>11, <1>12 DEF TwiceInv

LEMMA RestartTwice == TwiceInv /\ Restart => TwiceInv'
<1> SUFFICES ASSUME TwiceInv, Restart PROVE TwiceInv'
  OBVIOUS
<1>1. excused \subseteq excused' /\ \A a, l : AboutToStore(a, l) => l[1] \in excused'
  BY DEF Restart, AboutToStore
<1> QED
  BY <1>1, StartAgainTwice DEF Restart, Next

(***************************************************************************)
(* No line is received twice but for the two excuses, for any edge apps,   *)
(* containers and numbers of lines, whatever is deployed and removed while *)
(* a round works on its copy of a record (logs.go:36-47, agent.go:219-234).*)
(***************************************************************************)
THEOREM NoLineTwice == Spec => []NothingTwice
<1>1. TwiceInv /\ [Next]_vars => TwiceInv'
  <2> SUFFICES ASSUME TwiceInv, [Next]_vars PROVE TwiceInv'
    OBVIOUS
  <2>1. CASE SendEdgeAppLogs
    BY <2>1, BeginTwice, PickTwice, ListTwice, ReadTwice, PublishTwice, StoreTwice, SleepTwice
       DEF SendEdgeAppLogs
  <2>2. CASE \E a \in Apps : AddKnownManifest(a) \/ Undeploy(a)
    BY <2>2, AddTwice, UndeployTwice
  <2>3. CASE SetStatus
    BY <2>3, SetStatusTwice
  <2>4. CASE \E a \in Apps, c \in Containers : CreateContainer(a, c)
    BY <2>4, ContainerTwice
  <2>5. CASE \E c \in Containers : RemoveContainer(c) \/ WriteLine(c)
    BY <2>5, ContainerTwice
  <2>6. CASE Restart
    BY <2>6, RestartTwice
  <2>7. CASE UNCHANGED vars
    BY <2>7 DEF vars, dockerVars, history, TwiceInv, TypeOK, NothingTwice, RecordsUpToDate,
                FileUpToDate, ReceivedUpTo, AboutToStore, MessageInv, TimesInOrder, NoneOfNobody
  <2> QED
    BY <2>1, <2>2, <2>3, <2>4, <2>5, <2>6, <2>7 DEF Next
<1> QED
  BY <1>1, InitTwice, TwiceInvSuffices, PTL DEF Spec
=============================================================================
