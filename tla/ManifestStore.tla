---------------------------- MODULE ManifestStore ----------------------------
(***************************************************************************)
(* The records of edge apps in memory and in known_manifests.jsonl         *)
(* (internal/manifest/status.go), where EdgeApp takes writing the file for *)
(* one step.  Two goroutines change and save the records without a lock:   *)
(* the handler of commands (AddKnownManifest, SetStatus,                   *)
(* DeleteKnownManifest) and the goroutine that ships logs                  *)
(* (SetLastLogRead).  A save encodes the map, truncates the file and       *)
(* writes it (os.WriteFile); the agent may be killed in between, by        *)
(* somebody else, by log.Fatal when the disk is full, or by the Go runtime *)
(* when it notices that the map is changed while it is iterated over.      *)
(*                                                                         *)
(* Of a record its status and the time of the last log are kept.  Lengths  *)
(* are abstracted: whether one encoding covers another one completely is a *)
(* choice.                                                                 *)
(***************************************************************************)
EXTENDS Integers

CONSTANTS Apps,      \* identifiers of edge apps
          NoRecord,  \* the map has no entry
          Statuses,  \* the statuses that SetStatus is called with
          MaxRead    \* bound on times of logs; 0 is ""

ASSUME StoreAssumption == MaxRead \in Nat

VARIABLES up,       \* is the agent running?
          mem,      \* knownManifests
          file,     \* known_manifests.jsonl
          saves,    \* for each goroutine, the save that it is busy with
          hit,      \* history: the agent ended while it wrote the file
          suspect   \* history: two saves have overlapped, and no save that
                    \* ran by itself has completed since

vars == <<up, mem, file, saves, hit, suspect>>

Writers == {"handler", "logs"}
Other(w) == IF w = "handler" THEN "logs" ELSE "handler"

\* A string that was read while it was assigned (pointer and length).
Garbled == "garbled"
Record == [status : Statuses \cup {"Initiated", Garbled}, read : 0 .. MaxRead]
Records == [Apps -> Record \cup {NoRecord}]
NoRecords == [a \in Apps |-> NoRecord]

(***************************************************************************)
(* A save: "marshal" from the moment the entries of the map are collected  *)
(* until the file is opened, "write" from there on.  snap is what is       *)
(* encoded, live are the edge apps whose entry is still the one that was   *)
(* collected, alone says that no other save overlapped so far (history).   *)
(***************************************************************************)
Save == [pc : {"idle", "marshal", "write"}, snap : Records,
         live : SUBSET Apps, alone : BOOLEAN]
NoSave == [pc |-> "idle", snap |-> NoRecords, live |-> {}, alone |-> FALSE]

File == [kind : {"absent", "empty", "json", "torn"}, recs : Records]
Json(recs) == [kind |-> "json", recs |-> recs]
Empty == [kind |-> "empty", recs |-> NoRecords]
Torn == [kind |-> "torn", recs |-> NoRecords]   \* cut off, or a mixture

Active(w) == saves[w].pc # "idle"
Quiet == \A w \in Writers : ~ Active(w)

TypeOK ==
    /\ up \in BOOLEAN
    /\ mem \in Records
    /\ file \in File
    /\ saves \in [Writers -> Save]
    /\ hit \in BOOLEAN
    /\ suspect \in BOOLEAN

Init ==
    /\ up = TRUE
    /\ mem = NoRecords
    /\ file = [kind |-> "absent", recs |-> NoRecords]
    /\ saves = [w \in Writers |-> NoSave]
    /\ hit = FALSE
    /\ suspect = FALSE
-----------------------------------------------------------------------------
(* Saving *)

\* json.MarshalIndent begins: the pointers to all records are collected.
Begin(w, recs) == [pc |-> "marshal", snap |-> recs, live |-> Apps,
                   alone |-> ~ Active(Other(w))]

(***************************************************************************)
(* The record of a is changed in place while the other goroutine encodes   *)
(* it: the encoding has the old record, the new one, or half a string.     *)
(***************************************************************************)
MaySee(s, a, rec) ==
    IF s.pc = "marshal" /\ a \in s.live
    THEN {s, [s EXCEPT !.snap[a] = rec],
             [s EXCEPT !.snap[a] = [rec EXCEPT !.status = Garbled]]}
    ELSE {s}

Lose(s, a) == [s EXCEPT !.live = @ \ {a}]
NotAlone(s) == [s EXCEPT !.alone = FALSE]

\* Mutant: the records are encoded before the change is made.
BeginSaveOfOld(w, recs, other) ==
    /\ saves' = [v \in Writers |-> IF v = w THEN Begin(w, mem) ELSE NotAlone(other)]
    /\ suspect' = (suspect \/ Active(Other(w)))

\* w begins to save recs, while the save of the other goroutine goes on.
BeginSave(w, recs, other) ==
    /\ saves' = [v \in Writers |-> IF v = w THEN Begin(w, recs) ELSE NotAlone(other)]
    /\ suspect' = (suspect \/ Active(Other(w)))

\* One field of a record is set, and all records are saved.
SetInPlace(w, a, rec) ==
    /\ mem' = [mem EXCEPT ![a] = rec]
    /\ \E other \in MaySee(saves[Other(w)], a, rec) : BeginSave(w, mem', other)
    /\ UNCHANGED <<up, file, hit>>

\* Not saved.
AddKnownManifest(a) ==
    /\ up /\ ~ Active("handler")
    /\ mem' = [mem EXCEPT ![a] = [status |-> "Initiated", read |-> 0]]
    /\ saves' = [saves EXCEPT !["logs"] = Lose(@, a)]
    /\ UNCHANGED <<up, file, hit, suspect>>

SetStatus(a, status) ==
    /\ up /\ ~ Active("handler")
    /\ mem[a] # NoRecord
    /\ SetInPlace("handler", a, [mem[a] EXCEPT !.status = status])

DeleteKnownManifest(a) ==
    /\ up /\ ~ Active("handler")
    /\ mem' = [mem EXCEPT ![a] = NoRecord]
    /\ BeginSave("handler", mem', Lose(saves["logs"], a))
    /\ UNCHANGED <<up, file, hit>>

\* An edge app that has been removed meanwhile is an error and nothing else.
SetLastLogRead(a, time) ==
    /\ up /\ ~ Active("logs")
    /\ mem[a] # NoRecord
    /\ time > mem[a].read
    /\ SetInPlace("logs", a, [mem[a] EXCEPT !.read = time])

\* Mutant: the file is opened without O_TRUNC.
TruncatedNot == file

Truncated == Empty

Truncate(w) ==
    /\ up /\ saves[w].pc = "marshal"
    /\ file' = Truncated
    /\ saves' = [saves EXCEPT ![w].pc = "write"]
    /\ UNCHANGED <<up, mem, hit, suspect>>

(***************************************************************************)
(* Each writer starts at the beginning of the file: if the other save has  *)
(* put something longer there, the end of that remains.                    *)
(***************************************************************************)
Overwritten(recs) ==
    {Json(recs)} \cup (IF file \in {Empty, Json(recs)} THEN {} ELSE {Torn})

Write(w) ==
    /\ up /\ saves[w].pc = "write"
    /\ file' \in Overwritten(saves[w].snap)
    /\ saves' = [saves EXCEPT ![w] = NoSave]
    /\ suspect' = (suspect /\ ~ saves[w].alone)
    /\ UNCHANGED <<up, mem, hit>>
-----------------------------------------------------------------------------
(* The end of the agent, and its start *)

\* Whatever is being written is then missing, there in part, or complete.
Kill ==
    /\ up
    /\ up' = FALSE
    /\ mem' = NoRecords
    /\ saves' = [w \in Writers |-> NoSave]
    /\ hit' = (\E w \in Writers : saves[w].pc = "write")
    /\ file' \in {file} \cup UNION {{Torn, Json(saves[w].snap)} :
                                      w \in {v \in Writers : saves[v].pc = "write"}}
    /\ UNCHANGED suspect

Readable == file.kind \in {"absent", "json"}

\* InitKnownManifests; a file that does not exist has no records.
Start ==
    /\ ~ up /\ Readable
    /\ up' = TRUE
    /\ mem' = file.recs
    /\ hit' = FALSE
    /\ UNCHANGED <<file, saves, suspect>>

\* main ends with log.Fatal, systemd tries again, and so forth.
FailToStart ==
    /\ ~ up /\ ~ Readable
    /\ UNCHANGED vars

Next ==
    \/ \E a \in Apps :
         \/ AddKnownManifest(a)
         \/ \E status \in Statuses : SetStatus(a, status)
         \/ DeleteKnownManifest(a)
         \/ \E time \in 1 .. MaxRead : SetLastLogRead(a, time)
    \/ \E w \in Writers : Truncate(w) \/ Write(w)
    \/ Kill \/ Start \/ FailToStart

Spec == Init /\ [][Next]_vars
-----------------------------------------------------------------------------
(* Properties *)

(***************************************************************************)
(* A file that InitKnownManifests cannot parse -- after which the agent    *)
(* ends at every start (agent.go:51) -- comes about only while it is       *)
(* written, when the agent ends in the middle of that, or when two saves   *)
(* have overlapped; and the next save by itself repairs the last one.      *)
(***************************************************************************)
UnreadableOnlyIfTorn ==
    Readable \/ hit \/ suspect \/ \E w \in Writers : saves[w].pc = "write"

(***************************************************************************)
(* When nothing is being saved, the file has the records in memory, but    *)
(* those that are Initiated (AddKnownManifest does not save), unless saves *)
(* have overlapped: then the older one may have been written last, and a   *)
(* restart brings back old statuses and edge apps that were removed.  This *)
(* is what EdgeApp relies on when it takes a save for one step.            *)
(***************************************************************************)
SameButInitiated(recs) ==
    \A a \in Apps : recs[a] # mem[a] =>
        mem[a] = [status |-> "Initiated", read |-> 0]

FileIsCurrent == up /\ Quiet /\ ~ suspect => SameButInitiated(file.recs)
=============================================================================
