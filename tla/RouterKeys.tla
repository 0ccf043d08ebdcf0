----------------------------- MODULE RouterKeys -----------------------------
(***************************************************************************)
(* The standalone router keys of internal/router/keys.go: the file         *)
(* router_keys.json, the offline commands that rewrite it (`router-key     *)
(* add` and `revoke`), and the store of the running server, which keeps a  *)
(* parsed copy and looks at the file at most once per poll interval.       *)
(*                                                                         *)
(* A command is a read, a write of a temporary file and a rename, and may  *)
(* die between any two of them.  A reload is a stat of the file, one of    *)
(* its directory and, when the first says the file changed, a read: the    *)
(* file may be replaced, and the modes changed, between any two.           *)
(* The store does both under its mutex, so one request at a time is inside *)
(* Authenticate and the others have no state worth modelling.              *)
(*                                                                         *)
(* Time is a clock of ticks.  The filesystem stamps a file with the tick   *)
(* it was written in, rounded down to a multiple of Granule.               *)
(***************************************************************************)
EXTENDS Integers, FiniteSets

CONSTANTS
    Labels,         \* names an operator gives to keys
    Commands,       \* invocations of `relayllm router-key` running at once
    MaxKeys,        \* bound: keys generated in a behaviour
    PollInterval,   \* ticks between two looks at the file
    Granule,        \* ticks that share one file timestamp
    MaxNow,         \* bound: the last tick
    HandEdits       \* what an operator may do to the file by hand

ASSUME KeysAssumption ==
    /\ MaxKeys \in Nat /\ MaxNow \in Nat
    /\ PollInterval \in Nat \ {0} /\ Granule \in Nat \ {0}
    /\ HandEdits \subseteq {"missing", "empty", "corrupt", "chmod"}

VARIABLES
    now,            \* the clock
    file,           \* router_keys.json
    dirPrivate,     \* the directory's mode grants nothing to group and others
    command,        \* the commands in progress
    minted,         \* keys generated so far
    store,          \* the RouterKeyStore
    auth,           \* the call inside Authenticate, or the constructor
    answer,         \* what Authenticate has just returned (history)
    listedAt,       \* per key, when the file last began or ceased to list it (history)
    modeAt,         \* when the mode of each, file and directory, last changed (history)
    added,          \* keys put into the file whose revocation has not begun (history)
    revoked,        \* keys whose revocation was reported (history)
    overlapped      \* a command has replaced the file under another one (history)

vars == <<now, file, dirPrivate, command, minted, store, auth, answer, listedAt, modeAt, added, revoked, overlapped>>

Keys == 1..MaxKeys
NoKey == 0
Record == [label : Labels, key : Keys]
Stamp == (now \div Granule) * Granule

NotAsked == [at |-> "idle", key |-> NoKey, mtime |-> 0, empty |-> FALSE]
NoAnswer == [key |-> NoKey, ok |-> FALSE]
NotRunning == [at |-> "idle", records |-> {}, mtime |-> 0, op |-> "none", key |-> NoKey]
Invalid == [valid |-> FALSE, entries |-> {}, mtime |-> -1]

(* A file keeps its mode when it is edited in place, and has none when it  *)
(* is missing.                                                             *)
Contents(kind, records) == [kind |-> kind, records |-> records]

TypeOK ==
    /\ now \in 0..MaxNow
    /\ file.is \in [kind : {"missing", "empty", "corrupt", "records"}, records : SUBSET Record]
    /\ file.private \in BOOLEAN /\ file.mtime \in 0..MaxNow
    /\ dirPrivate \in BOOLEAN
    /\ command \in [Commands -> [at : {"idle", "read", "written", "renamed"}, records : SUBSET Record,
                                 mtime : 0..MaxNow, op : {"none", "add", "revoke"}, key : Keys \cup {NoKey}]]
    /\ minted \in 0..MaxKeys
    /\ store \in [valid : BOOLEAN, entries : SUBSET Record, mtime : -1..MaxNow, lastPoll : 0..MaxNow]
    /\ auth \in [at : {"idle", "stat", "dir", "read"}, key : Keys \cup {NoKey}, mtime : 0..MaxNow, empty : BOOLEAN]
    /\ answer \in [key : Keys \cup {NoKey}, ok : BOOLEAN]
    /\ listedAt \in [Keys -> 0..MaxNow] /\ modeAt \in [file : 0..MaxNow, dir : 0..MaxNow]
    /\ store.valid <=> store.entries # {}
    /\ added \subseteq Keys /\ revoked \subseteq Keys /\ overlapped \in BOOLEAN

KeysOf(records) == {r.key : r \in records}

Lists(f, key) == f.is.kind = "records" /\ key \in KeysOf(f.is.records)

(* Every step that touches the file or the directory goes through Becomes, *)
(* which also notes what it changes for a reader.                          *)
Becomes(f, private) ==
    /\ file' = f
    /\ dirPrivate' = private
    /\ listedAt' = [key \in Keys |-> IF Lists(f, key) = Lists(file, key) THEN listedAt[key] ELSE now]
    /\ modeAt' = [file |-> IF f.private = file.private THEN modeAt.file ELSE now,
                  dir |-> IF private = dirPrivate THEN modeAt.dir ELSE now]

Init ==
    /\ now = 0
    /\ file = [is |-> Contents("missing", {}), private |-> TRUE, mtime |-> 0]
    /\ dirPrivate \in BOOLEAN
    /\ command = [c \in Commands |-> NotRunning]
    /\ minted = 0
    /\ store = [valid |-> FALSE, entries |-> {}, mtime |-> -1, lastPoll |-> 0]
    /\ auth = [NotAsked EXCEPT !.at = "stat"]
    /\ answer = NoAnswer
    /\ listedAt = [key \in Keys |-> 0] /\ modeAt = [file |-> 0, dir |-> 0]
    /\ added = {} /\ revoked = {} /\ overlapped = FALSE

-----------------------------------------------------------------------------
(* Time.  A reload is three system calls and takes less than a poll interval *)
(* (assumed); writing a file takes a tick of its own.                      *)
MayTick == now < MaxNow /\ (auth.at # "idle" => now + 1 < store.lastPoll + PollInterval)

Tick ==
    /\ MayTick
    /\ now' = now + 1
    /\ answer' = NoAnswer
    /\ UNCHANGED <<file, dirPrivate, command, minted, store, auth, listedAt, modeAt, added, revoked, overlapped>>

-----------------------------------------------------------------------------
(* The commands.                                                           *)

(* A missing or an empty file holds no records; one that does not parse    *)
(* ends the command, so it is never overwritten.                           *)
Readable == file.is.kind # "corrupt"

Proceed(c, op, records, key) ==
    /\ command' = [command EXCEPT ![c] = [at |-> "read", records |-> records, mtime |-> 0,
                                          op |-> op, key |-> key]]
    /\ answer' = NoAnswer
    /\ UNCHANGED <<now, file, dirPrivate, store, auth, listedAt, modeAt, revoked, overlapped>>

Add(c, label) ==
    /\ command[c].at = "idle" /\ Readable
    /\ minted < MaxKeys
    /\ \A r \in file.is.records : r.label # label
    /\ minted' = minted + 1
    /\ UNCHANGED added
    /\ Proceed(c, "add", file.is.records \cup {[label |-> label, key |-> minted + 1]}, minted + 1)

Revoke(c, record) ==
    /\ command[c].at = "idle" /\ Readable
    /\ record \in file.is.records
    /\ Proceed(c, "revoke", file.is.records \ {record}, record.key)
    /\ added' = added \ {record.key}
    /\ UNCHANGED minted

(* The directory is made private and the records go to a temporary file.   *)
WriteTemp(c) ==
    /\ command[c].at = "read" /\ MayTick
    /\ command' = [command EXCEPT ![c].at = "written", ![c].mtime = Stamp]
    /\ Becomes(file, TRUE)
    /\ now' = now + 1
    /\ answer' = NoAnswer
    /\ UNCHANGED <<minted, store, auth, added, revoked, overlapped>>

(* Rename replaces the file at once and keeps the temporary file's time.   *)
(* Nothing locks the file: what another command had read is out of date.   *)
Rename(c) ==
    /\ command[c].at = "written"
    /\ command' = [command EXCEPT ![c].at = "renamed", ![c].records = {}, ![c].mtime = 0]
    /\ Becomes([is |-> Contents("records", command[c].records), private |-> TRUE,
                mtime |-> command[c].mtime], dirPrivate)
    /\ added' = added \cup {key \in Keys : key = command[c].key /\ command[c].op = "add"}
    /\ overlapped' = (overlapped \/ \E d \in Commands \ {c} : command[d].at \in {"read", "written"})
    /\ answer' = NoAnswer
    /\ UNCHANGED <<now, minted, store, auth, revoked>>

Report_Early(c) ==  \* mutant: success is printed when the temporary file is complete
    /\ command[c].at \in {"written", "renamed"}
    /\ command' = [command EXCEPT ![c] = NotRunning]
    /\ revoked' = revoked \cup {key \in Keys : key = command[c].key /\ command[c].op = "revoke"}
    /\ answer' = NoAnswer
    /\ UNCHANGED <<now, file, dirPrivate, minted, store, auth, listedAt, modeAt, added, overlapped>>

(* The new key is printed, or the revocation reported, and the program     *)
(* ends.                                                                   *)
Report(c) ==
    /\ command[c].at = "renamed"
    /\ command' = [command EXCEPT ![c] = NotRunning]
    /\ revoked' = revoked \cup {key \in Keys : key = command[c].key /\ command[c].op = "revoke"}
    /\ answer' = NoAnswer
    /\ UNCHANGED <<now, file, dirPrivate, minted, store, auth, listedAt, modeAt, added, overlapped>>

(* The command is killed.  A temporary file left behind is never read.     *)
Crash(c) ==
    /\ command[c].at # "idle"
    /\ command' = [command EXCEPT ![c] = NotRunning]
    /\ answer' = NoAnswer
    /\ UNCHANGED <<now, file, dirPrivate, minted, store, auth, listedAt, modeAt, added, revoked, overlapped>>

(* An operator deletes, empties or mangles the file, or changes the mode   *)
(* of the file or of its directory.                                        *)
Damage(kind) ==
    /\ kind \in HandEdits \ {"chmod"} /\ MayTick
    /\ Becomes([is |-> Contents(kind, {}), private |-> file.private, mtime |-> Stamp], dirPrivate)
    /\ added' = {}
    /\ now' = now + 1
    /\ answer' = NoAnswer
    /\ UNCHANGED <<command, minted, store, auth, revoked, overlapped>>

Chmod ==
    /\ "chmod" \in HandEdits
    /\ \/ file.is.kind # "missing" /\ Becomes([file EXCEPT !.private = ~@], dirPrivate)
       \/ Becomes(file, ~dirPrivate)
    /\ answer' = NoAnswer
    /\ UNCHANGED <<now, command, minted, store, auth, added, revoked, overlapped>>

-----------------------------------------------------------------------------
(* The store.                                                              *)
Due == now - store.lastPoll >= PollInterval

(* Authenticate: the entries are compared with the key presented.          *)
Respond(s, key) ==
    /\ store' = s
    /\ auth' = NotAsked
    /\ answer' = [key |-> key, ok |-> s.valid /\ key \in KeysOf(s.entries)]
    /\ UNCHANGED <<now, file, dirPrivate, command, minted, listedAt, modeAt, added, revoked, overlapped>>

Authenticate(key) ==
    /\ auth.at = "idle" /\ key <= minted
    /\ IF Due
         THEN /\ store' = [store EXCEPT !.lastPoll = now]
              /\ auth' = [NotAsked EXCEPT !.at = "stat", !.key = key]
              /\ answer' = NoAnswer
              /\ UNCHANGED <<now, file, dirPrivate, command, minted, listedAt, modeAt, added, revoked, overlapped>>
         ELSE Respond(store, key)

MarkInvalid == [store EXCEPT !.valid = FALSE, !.entries = {}, !.mtime = -1]

(* reloadLocked: the stat of the file, with its mode, its time and its     *)
(* size, then the mode of the directory.                                   *)
Observe(to) ==
    /\ auth' = to /\ answer' = NoAnswer
    /\ UNCHANGED <<now, file, dirPrivate, command, minted, store, listedAt, modeAt, added, revoked, overlapped>>

Stat ==
    /\ auth.at = "stat"
    /\ IF file.is.kind = "missing" \/ ~file.private THEN Respond(MarkInvalid, auth.key)
       ELSE Observe([auth EXCEPT !.at = "dir", !.mtime = file.mtime, !.empty = file.is.kind = "empty"])

Unchanged_NotNewer == store.valid /\ auth.mtime <= store.mtime  \* mutant: only a newer file is read

Unchanged == store.valid /\ auth.mtime = store.mtime

StatDir ==
    /\ auth.at = "dir"
    /\ IF ~dirPrivate \/ auth.empty THEN Respond(MarkInvalid, auth.key)
       ELSE IF Unchanged THEN Respond(store, auth.key)
       ELSE Observe([auth EXCEPT !.at = "read"])

(* The time remembered is the one of the stat, never of a later one.       *)
Loaded == [store EXCEPT !.valid = TRUE, !.entries = file.is.records, !.mtime = auth.mtime]

Read ==
    /\ auth.at = "read"
    /\ Respond(IF file.is.records # {} THEN Loaded ELSE MarkInvalid, auth.key)

-----------------------------------------------------------------------------
Command(c) ==
    \/ \E label \in Labels : Add(c, label)
    \/ \E record \in file.is.records : Revoke(c, record)
    \/ WriteTemp(c) \/ Rename(c) \/ Report(c) \/ Crash(c)

Next ==
    \/ Tick
    \/ \E c \in Commands : Command(c)
    \/ \E kind \in HandEdits : Damage(kind)
    \/ Chmod
    \/ \E key \in Keys : Authenticate(key)
    \/ Stat \/ StatDir \/ Read

Spec == Init /\ [][Next]_vars

-----------------------------------------------------------------------------
(* Properties.                                                             *)

Recent(t) == now - t < PollInterval

(* What a key's holder is told follows the file within one poll interval.  *)
(* A key that is accepted is in the file, or left it less than an interval *)
(* ago: a revocation, or the loss of the file, reaches the running server. *)
(* A key is refused only when it is not in a private file, or has been for *)
(* less than an interval: an added key, a repaired file or a mode put      *)
(* right needs no restart.  And a key is accepted only while nobody else   *)
(* can read the file or its directory, or less than an interval after the  *)
(* mode of the one that is open was loosened, whatever happened to the     *)
(* contents meanwhile.                                                     *)
InStepWithFile ==
    /\ answer.ok => /\ file.private \/ Recent(modeAt.file)
                    /\ dirPrivate \/ Recent(modeAt.dir)
    /\ answer.ok => Lists(file, answer.key) \/ Recent(listedAt[answer.key])
    /\ answer.key # NoKey /\ ~answer.ok
           => \/ ~Lists(file, answer.key) \/ Recent(listedAt[answer.key])
              \/ ~file.private \/ Recent(modeAt.file)
              \/ ~dirPrivate \/ Recent(modeAt.dir)

(* Wherever commands are killed, a key that was added stays in the file    *)
(* until its revocation begins or the operator destroys the file, and one  *)
(* reported revoked never comes back, as long as no command replaces the   *)
(* file between another one's read and rename: the commands take no lock.  *)
KeysKept ==
    ~overlapped =>
        /\ added \subseteq KeysOf(file.is.records)
        /\ revoked \cap KeysOf(file.is.records) = {}
=============================================================================
