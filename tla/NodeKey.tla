------------------------------- MODULE NodeKey -------------------------------
(***************************************************************************)
(* The key pair of the node and the organization key (internal/secret):    *)
(* the private key is made at the first start and kept in a file, its      *)
(* public key is sent to MAPI, MAPI encrypts the organization key for it,  *)
(* and with that key the agent decrypts the secrets of a DEPLOY.  The      *)
(* organization key is kept in memory only.                                *)
(*                                                                         *)
(* Messages of MAPI wait in the session of the agent, in order; while the  *)
(* run has not subscribed yet they may be lost (see NodeSession).  MAPI is *)
(* external: it answers a public key, and may change the organization key. *)
(* Keys are numbers, and nothing but the right key decrypts.               *)
(***************************************************************************)
EXTENDS Integers, Sequences

CONSTANTS MaxRuns,     \* bound on runs of the agent
          MaxOrgKeys,  \* bound on organization keys
          MaxDeploys   \* bound on DEPLOY messages

ASSUME KeyAssumption == {MaxRuns, MaxOrgKeys, MaxDeploys} \subseteq Nat

VARIABLES pc,         \* how far the run is
          file,       \* nodePrivateKey.pem: the key in it, or else
          key,        \* nodePrivateKey
          decryptor,  \* the organization key it decrypts with
          hash,       \* OrgKeyHash: the one that the status messages tell of
          handling,   \* the organization key being installed
          subscribed, \* messages are handled
          queue,      \* messages that wait for the agent
          published,  \* keys whose public key MAPI was ever sent
          orgKey,     \* the organization key of MAPI
          due,        \* the public key that MAPI has to answer
          missed,     \* history: an organization key came too early
          deploys,    \* number of DEPLOY messages sent
          rejected,   \* history: the key there was when a DEPLOY was rejected,
                      \* and whether one had been missed
          runs

processVars == <<pc, key, decryptor, hash, handling, subscribed>>
mapiVars == <<orgKey, due, deploys>>
vars == <<processVars, file, queue, published, mapiVars, missed, rejected, runs>>

None == 0
Absent == -1
Torn == -2
Keys == 1 .. MaxRuns
OrgKeys == 1 .. MaxOrgKeys

OrgKeyMsg(k) == [kind |-> "orgKey", for |-> k, org |-> orgKey]
DeployMsg == [kind |-> "deploy", for |-> None, org |-> orgKey]
Message == [kind : {"orgKey", "deploy"}, for : Keys \cup {None}, org : OrgKeys \cup {1}]

TypeOK ==
    /\ pc \in {"down", "init", "create", "write", "send", "running"}
    /\ file \in Keys \cup {Absent, Torn}
    /\ key \in Keys \cup {None}
    /\ {decryptor, hash, handling} \subseteq OrgKeys \cup {None, 1}
    /\ subscribed \in BOOLEAN
    /\ \A i \in DOMAIN queue : queue[i] \in Message
    /\ published \subseteq Keys
    /\ orgKey \in OrgKeys \cup {1} /\ due \in Keys \cup {None}
    /\ deploys \in 0 .. MaxDeploys /\ runs \in 0 .. MaxRuns
    /\ rejected \subseteq [had : OrgKeys \cup {None}, missed : BOOLEAN]

Init ==
    /\ pc = "down" /\ file = Absent /\ key = None
    /\ decryptor = None /\ hash = None /\ handling = None /\ subscribed = FALSE
    /\ queue = <<>> /\ published = {}
    /\ orgKey = 1 /\ due = None /\ deploys = 0
    /\ missed = FALSE /\ rejected = {}
    /\ runs = 0
-----------------------------------------------------------------------------
(* Start *)

Start ==
    /\ pc = "down" /\ runs < MaxRuns
    /\ runs' = runs + 1
    /\ pc' = "init" /\ missed' = FALSE
    /\ UNCHANGED <<file, key, decryptor, hash, handling, subscribed, queue, published,
                   mapiVars, rejected>>

\* The process ends, and its memory with it.
Ends ==
    /\ pc' = "down"
    /\ key' = None /\ decryptor' = None /\ hash' = None /\ handling' = None
    /\ subscribed' = FALSE

Kill ==
    /\ pc # "down"
    /\ Ends
    /\ UNCHANGED <<file, queue, published, mapiVars, missed, rejected, runs>>

\* InitNodeKeypair: a key that is new in this run, the one in the file, or the end.
InitNodeKeypair ==
    /\ pc = "init"
    /\ \/ file = Absent /\ pc' = "create" /\ key' = runs
       \/ file \in Keys /\ pc' = "send" /\ key' = file
    /\ UNCHANGED <<file, decryptor, hash, handling, subscribed, queue, published, mapiVars,
                   missed, rejected, runs>>

RefuseTornFile == pc = "init" /\ file = Torn /\ Kill

\* generateNodeKeypair: the file exists before the key is in it.
CreateFile ==
    /\ pc = "create"
    /\ file' = Torn /\ pc' = "write"
    /\ UNCHANGED <<key, decryptor, hash, handling, subscribed, queue, published, mapiVars,
                   missed, rejected, runs>>

\* Mutant: the error of the writing is dropped.
WriteFileOrNot == file' \in {key, Torn}

WriteKey == file' = key

\* When it fails -- the agent ends then -- the file stays as it is: as with Kill.
WriteFile ==
    /\ pc = "write"
    /\ WriteKey
    /\ pc' = "send"
    /\ UNCHANGED <<key, decryptor, hash, handling, subscribed, queue, published, mapiVars,
                   missed, rejected, runs>>

SendNodePublicKey ==
    /\ pc = "send"
    /\ pc' = "running"
    /\ published' = published \cup {key}
    /\ due' = key
    /\ UNCHANGED <<file, key, decryptor, hash, handling, subscribed, queue, orgKey, deploys,
                   missed, rejected, runs>>

\* The client has been connected and its subscriptions are made, sooner or later.
Subscribe ==
    /\ pc \in {"send", "running"} /\ ~ subscribed
    /\ subscribed' = TRUE
    /\ UNCHANGED <<pc, file, key, decryptor, hash, handling, queue, published, mapiVars,
                   missed, rejected, runs>>
-----------------------------------------------------------------------------
(* Messages *)

LoseEarly ==
    /\ pc \in {"send", "running"} /\ ~ subscribed /\ queue # <<>>
    /\ queue' = Tail(queue)
    /\ missed' = (missed \/ Head(queue).kind = "orgKey")
    /\ UNCHANGED <<processVars, file, published, mapiVars, rejected, runs>>

CanHandle(kind) ==
    subscribed /\ handling = None /\ queue # <<>> /\ Head(queue).kind = kind

\* Mutant: the first organization key is kept.
InstallsFirst(org) ==
    decryptor' = (IF decryptor = None THEN org ELSE decryptor) /\ handling' = org

\* cipher.NewGCM
Installs(org) == decryptor' = org /\ handling' = org

\* ProcessOrgPrivKeyMessage: only the key it was encrypted for decrypts it.
ProcessOrgPrivKeyMessage ==
    /\ CanHandle("orgKey")
    /\ LET m == Head(queue)
       IN  \/ m.for = key /\ Installs(m.org) /\ UNCHANGED queue
           \/ m.for # key /\ queue' = Tail(queue) /\ UNCHANGED <<decryptor, handling>>
    /\ UNCHANGED <<pc, key, hash, subscribed, file, published, mapiVars, missed, rejected,
                   runs>>

\* The end of it: the hash is set, the message acknowledged.
SetOrgKeyHash ==
    /\ handling # None
    /\ hash' = handling /\ handling' = None
    /\ queue' = Tail(queue)
    /\ UNCHANGED <<pc, key, decryptor, subscribed, file, published, mapiVars, missed,
                   rejected, runs>>

\* What DecryptEnv needs.
Decrypts(m) == decryptor = m.org

\* Parse of a DEPLOY with secrets; one that cannot be decrypted is rejected,
\* and acknowledged all the same.
Deploy ==
    /\ CanHandle("deploy")
    /\ queue' = Tail(queue)
    /\ rejected' = IF Decrypts(Head(queue)) THEN rejected
                   ELSE rejected \cup {[had |-> decryptor, missed |-> missed]}
    /\ UNCHANGED <<processVars, file, published, mapiVars, missed, runs>>
-----------------------------------------------------------------------------
(* MAPI *)

AnswerKey ==
    /\ due # None
    /\ due' = None
    /\ queue' = Append(queue, OrgKeyMsg(due))
    /\ UNCHANGED <<processVars, file, published, orgKey, deploys, missed, rejected, runs>>

\* A new organization key is sent to the nodes that have sent a key.
ChangeOrgKey ==
    /\ orgKey < MaxOrgKeys
    /\ orgKey' = orgKey + 1
    /\ \E k \in published :
         queue' = Append(queue, [OrgKeyMsg(k) EXCEPT !.org = orgKey + 1])
    /\ UNCHANGED <<processVars, file, published, due, deploys, missed, rejected, runs>>

SendDeploy ==
    /\ deploys < MaxDeploys /\ published # {}
    /\ deploys' = deploys + 1
    /\ queue' = Append(queue, DeployMsg)
    /\ UNCHANGED <<processVars, file, published, orgKey, due, missed, rejected, runs>>

Next ==
    \/ Start \/ Kill \/ InitNodeKeypair \/ RefuseTornFile \/ CreateFile \/ WriteFile
    \/ SendNodePublicKey \/ Subscribe
    \/ LoseEarly \/ ProcessOrgPrivKeyMessage \/ SetOrgKeyHash \/ Deploy
    \/ AnswerKey \/ ChangeOrgKey \/ SendDeploy

Spec == Init /\ [][Next]_vars
-----------------------------------------------------------------------------
(* Properties *)

(***************************************************************************)
(* What the agent told MAPI stays true: a key that was ever sent is the    *)
(* one in the file, in this run and in every later one, wherever the agent *)
(* was killed while it made it.                                            *)
(***************************************************************************)
PublishedKeyIsKept == \A k \in published : file = k

(***************************************************************************)
(* MAPI's view is never ahead: the hash in the status messages is that of  *)
(* the key in use, or of an older one while a new one is installed.        *)
(***************************************************************************)
HashIsOfKeyInUse == hash # None => IF handling = None THEN hash = decryptor
                                   ELSE hash <= decryptor

(***************************************************************************)
(* An agent that has an organization key, and has missed none since its    *)
(* start, decrypts every DEPLOY, through changes of the key and messages   *)
(* delivered again.  What it rejects came before the key -- after a        *)
(* restart it waits in the session, and is handled while MAPI still has to *)
(* answer (agent.go:73-85).                                                *)
(***************************************************************************)
RejectedOnlyForWantOfKey == \A r \in rejected : r.had = None \/ r.missed
=============================================================================
