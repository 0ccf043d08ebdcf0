-------------------------- MODULE RouterKeys_proofs --------------------------
(***************************************************************************)
(* No key that was added is lost and no revocation undone, wherever        *)
(* commands are killed; and what a key's holder is told follows the file   *)
(* within one poll interval, for any keys, commands and edits by hand.     *)
(*                                                                         *)
(* KeysInv says what the commands and the file hold; PollInv, on top of    *)
(* it, what the store holds of the file and how old that may be.           *)
(***************************************************************************)
EXTENDS RouterKeys, TLAPS

Files == [is : [kind : {"missing", "empty", "corrupt", "records"}, records : SUBSET Record],
          private : BOOLEAN, mtime : 0..MaxNow]
CommandRecord == [at : {"idle", "read", "written", "renamed"}, records : SUBSET Record,
                  mtime : 0..MaxNow, op : {"none", "add", "revoke"}, key : Keys \cup {NoKey}]

AuthRecord == [at : {"idle", "stat", "dir", "read"}, key : Keys \cup {NoKey},
               mtime : 0..MaxNow, empty : BOOLEAN]
ModeTimes == [file : 0..MaxNow, dir : 0..MaxNow]

\* A command that has read the file and not yet replaced it.
Pending(g) == g.at \in {"read", "written"}

\* No two records of a set have the same key, and all were generated.
Sound(records, m) ==
    /\ \A r \in records : r.key <= m
    /\ \A r, q \in records : r.key = q.key => r = q

\* What a command is about to write has the key it adds, and not the one it revokes.
CommandSound(g, m) ==
    /\ Sound(g.records, m) /\ g.key <= m
    /\ Pending(g) /\ g.op = "add" => g.key \in KeysOf(g.records)
    /\ Pending(g) /\ g.op = "revoke" => g.key \notin KeysOf(g.records)

\* The records have every key of the one set, and none of the other.
Keeps(records, have, gone) ==
    /\ have \subseteq KeysOf(records)
    /\ gone \cap KeysOf(records) = {}

\* A revocation that is in the file and not yet reported.
Revoking(g) == g.at = "renamed" /\ g.op = "revoke"

KeysInv ==
    /\ TypeOK /\ file \in Files
    /\ file.is.kind # "records" => file.is.records = {}
    /\ Sound(file.is.records, minted)
    /\ \A c \in Commands : CommandSound(command[c], minted)
    /\ \A key \in revoked : key <= minted
    /\ ~overlapped =>
           /\ Keeps(file.is.records, added, revoked)
           /\ \A c \in Commands : Pending(command[c]) => Keeps(command[c].records, added, revoked)
           /\ \A c \in Commands : Revoking(command[c]) =>
                  /\ command[c].key \notin KeysOf(file.is.records)
                  /\ \A d \in Commands : Pending(command[d]) =>
                         command[c].key \notin KeysOf(command[d].records)

-----------------------------------------------------------------------------

\* Keys are numbers, none of them NoKey.
LEMMA KeyNumbers == NoKey \notin Keys /\ \A key \in Keys : key \in Nat /\ key <= MaxKeys
  <1> QED
    BY KeysAssumption DEF Keys, NoKey

\* A step that replaces the file, or changes a mode, keeps the types.
LEMMA BecomesTyped ==
    ASSUME TypeOK, NEW f \in Files, NEW private \in BOOLEAN, Becomes(f, private)
    PROVE  /\ file' \in Files /\ dirPrivate' \in BOOLEAN
           /\ listedAt' \in [Keys -> 0..MaxNow] /\ modeAt' \in ModeTimes
  <1>1. file' \in Files /\ dirPrivate' \in BOOLEAN
    BY DEF Becomes
  <1>2. listedAt' \in [Keys -> 0..MaxNow]
    <2>1. \A key \in Keys : listedAt[key] \in 0..MaxNow /\ now \in 0..MaxNow
      BY DEF TypeOK
    <2> QED
      BY <2>1 DEF Becomes
  <1>3. modeAt' \in ModeTimes
    <2>1. modeAt.file \in 0..MaxNow /\ modeAt.dir \in 0..MaxNow /\ now \in 0..MaxNow
      BY DEF TypeOK
    <2> QED
      BY <2>1 DEF Becomes, ModeTimes
  <1> QED
    BY <1>1, <1>2, <1>3

\* What the file is made of.
LEMMA FileParts == ASSUME file \in Files PROVE
    /\ file.is.kind \in {"missing", "empty", "corrupt", "records"}
    /\ file.is.records \in SUBSET Record
    /\ file.private \in BOOLEAN /\ file.mtime \in 0..MaxNow
  <1> QED
    BY DEF Files

\* Contents of either kind are contents.
LEMMA ContentsTyped ==
    ASSUME NEW kind \in {"missing", "empty", "corrupt", "records"},
           NEW records \in SUBSET Record, NEW private \in BOOLEAN, NEW t \in 0..MaxNow
    PROVE  [is |-> Contents(kind, records), private |-> private, mtime |-> t] \in Files
  <1> QED
    BY DEF Files, Contents

\* A stamp is a time.
LEMMA StampTyped == ASSUME now \in 0..MaxNow PROVE Stamp \in 0..MaxNow
  <1>1. now \in Nat /\ Granule \in Nat \ {0} /\ MaxNow \in Nat
    BY KeysAssumption
  <1>2. PICK q \in Int : q = now \div Granule
    BY <1>1
  <1>3. Granule * q <= now /\ now < Granule * q + Granule
    BY <1>1, <1>2
  <1>4. q >= 0
    BY <1>1, <1>3
  <1> QED
    BY <1>1, <1>2, <1>3, <1>4 DEF Stamp

\* A call that is about to look at the file is a call.
LEMMA AskedTyped ==
    ASSUME NEW key \in Keys \cup {NoKey}
    PROVE  [NotAsked EXCEPT !.at = "stat", !.key = key] \in AuthRecord
  <1>1. 0 \in 0..MaxNow
    BY KeysAssumption
  <1>2. NotAsked \in AuthRecord
    BY <1>1 DEF NotAsked, AuthRecord
  <1> HIDE DEF NotAsked
  <1> QED
    BY <1>2 DEF AuthRecord

\* The initial state satisfies the invariant.
LEMMA InitKeys == Init => KeysInv
  <1> SUFFICES ASSUME Init PROVE KeysInv
    OBVIOUS
  <1> USE KeysAssumption, KeyNumbers
  <1>1. file \in Files /\ file.is.records = {} /\ file.private \in BOOLEAN /\ file.mtime \in 0..MaxNow
    BY DEF Init, Files, Contents
  <1>2. NotRunning \in CommandRecord
    BY DEF CommandRecord, NotRunning, NoKey
  <1>3. TypeOK
    <2>1. command \in [Commands -> CommandRecord]
      BY <1>2 DEF Init
    <2>2. store \in [valid : BOOLEAN, entries : SUBSET Record, mtime : -1..MaxNow, lastPoll : 0..MaxNow]
          /\ (store.valid <=> store.entries # {})
      BY DEF Init
    <2>3. /\ auth \in AuthRecord
          /\ answer \in [key : Keys \cup {NoKey}, ok : BOOLEAN]
      <3>1. auth = [at |-> "stat", key |-> NoKey, mtime |-> 0, empty |-> FALSE]
        BY DEF Init, NotAsked
      <3> QED
        BY ONLY <3>1, Init, KeysAssumption DEF Init, NoAnswer, AuthRecord
    <2>4. file.is \in [kind : {"missing", "empty", "corrupt", "records"}, records : SUBSET Record]
      BY DEF Init, Contents
    <2>5. now \in 0..MaxNow /\ minted \in 0..MaxKeys
      BY DEF Init
    <2>8. dirPrivate \in BOOLEAN /\ overlapped \in BOOLEAN
      BY ONLY Init DEF Init
    <2>6. listedAt \in [Keys -> 0..MaxNow] /\ modeAt \in ModeTimes
      BY DEF Init, ModeTimes
    <2>7. added \subseteq Keys /\ revoked \subseteq Keys
      BY DEF Init
    <2> QED
      BY ONLY <1>1, <2>1, <2>2, <2>3, <2>4, <2>5, <2>6, <2>7, <2>8 DEF TypeOK, CommandRecord, AuthRecord, ModeTimes
  <1>4. \A c \in Commands : command[c] = NotRunning
    BY DEF Init
  <1>5. \A c \in Commands : CommandSound(command[c], minted)
    BY <1>4 DEF Init, CommandSound, Sound, Pending, NotRunning, NoKey
  <1>6. \A c \in Commands : ~Pending(command[c]) /\ ~Revoking(command[c])
    BY <1>4 DEF Pending, Revoking, NotRunning
  <1> QED
    BY <1>1, <1>3, <1>5, <1>6 DEF KeysInv, Init, Sound, Keeps, KeysOf

-----------------------------------------------------------------------------

\* A step that leaves the keys, the commands and the contents of the file.
LEMMA KeysFrame ==
    ASSUME KeysInv, UNCHANGED <<command, minted, added, revoked, overlapped>>,
           file'.is = file.is, TypeOK', file' \in Files
    PROVE  KeysInv'
  <1>1. Sound(file'.is.records, minted') /\ (file'.is.kind # "records" => file'.is.records = {})
    BY DEF KeysInv
  <1>2. (\A c \in Commands : CommandSound(command[c], minted))'
    BY DEF KeysInv
  <1>3. \A key \in revoked' : key <= minted'
    BY DEF KeysInv
  <1>4. Keeps(file'.is.records, added', revoked') <=> Keeps(file.is.records, added, revoked)
    BY DEF Keeps
  <1>5. ASSUME NEW c \in Commands
        PROVE  Keeps(command'[c].records, added', revoked') <=> Keeps(command[c].records, added, revoked)
    BY DEF Keeps
  <1> QED
    BY <1>1, <1>2, <1>3, <1>4, <1>5 DEF KeysInv

\* One command goes on to g; what the file has and what is revoked stays.
LEMMA CommandMoves ==
    ASSUME KeysInv, TypeOK', file' \in Files, overlapped' = overlapped, revoked' = revoked,
           file'.is = file.is, NEW c \in Commands,
           \A d \in Commands : d # c => command'[d] = command[d],
           minted' = minted \/ minted' = minted + 1,
           CommandSound(command'[c], minted'), ~Revoking(command'[c]),
           added' \subseteq added,
           ~overlapped /\ Pending(command'[c]) =>
               /\ Keeps(command'[c].records, added', revoked')
               /\ \A d \in Commands : Revoking(command[d]) =>
                      command[d].key \notin KeysOf(command'[c].records)
    PROVE  KeysInv'
  <1>1. /\ minted \in Nat /\ added \subseteq Keys /\ revoked \subseteq Keys
        /\ command \in [Commands -> CommandRecord]
        /\ minted' \in Nat /\ minted <= minted'
    BY KeysAssumption DEF KeysInv, TypeOK, CommandRecord
  <1>2. \A d \in Commands : d # c => command'[d] = command[d]
    OBVIOUS
  <1>3. ASSUME NEW records, Sound(records, minted), records \subseteq Record
        PROVE  Sound(records, minted')
    BY <1>1, <1>3, KeyNumbers DEF Sound, Record
  <1>4. Sound(file'.is.records, minted') /\ (file'.is.kind # "records" => file'.is.records = {})
    BY <1>3, FileParts DEF KeysInv
  <1>5. ASSUME NEW d \in Commands PROVE CommandSound(command'[d], minted')
    <2>1. CASE d = c
      BY <2>1, <1>2
    <2>2. CASE d # c
      <3>1. command'[d] = command[d] /\ command[d].records \subseteq Record
            /\ command[d].key \in Keys \cup {NoKey}
        BY <1>1, <1>2, <2>2 DEF CommandRecord
      <3>2. CommandSound(command[d], minted)
        BY DEF KeysInv
      <3> QED
        BY <1>1, <1>3, <3>1, <3>2, KeyNumbers DEF CommandSound, NoKey
    <2> QED
      BY <2>1, <2>2
  <1>6. \A key \in revoked' : key <= minted'
    BY <1>1, KeyNumbers DEF KeysInv
  <1>7. ASSUME ~overlapped'
        PROVE  /\ Keeps(file'.is.records, added', revoked')
               /\ \A d \in Commands : Pending(command'[d]) => Keeps(command'[d].records, added', revoked')
               /\ \A d \in Commands : Revoking(command'[d]) =>
                      /\ command'[d].key \notin KeysOf(file'.is.records)
                      /\ \A e \in Commands : Pending(command'[e]) =>
                             command'[d].key \notin KeysOf(command'[e].records)
    <2>1. ASSUME NEW records, Keeps(records, added, revoked) PROVE added' \subseteq KeysOf(records) /\ revoked' \cap KeysOf(records) = {}
      BY <2>1 DEF Keeps
    <2>2. Keeps(file'.is.records, added', revoked')
      BY <1>7, <2>1 DEF KeysInv, Keeps
    <2>3. ASSUME NEW d \in Commands, Pending(command'[d]) PROVE Keeps(command'[d].records, added', revoked')
      <3>1. CASE d = c
        BY <1>2, <1>7, <2>3, <3>1 DEF Keeps
      <3>2. CASE d # c
        BY <1>2, <1>7, <2>1, <2>3, <3>2 DEF KeysInv, Keeps
      <3> QED
        BY <3>1, <3>2
    <2>4. ASSUME NEW d \in Commands, Revoking(command'[d])
          PROVE  command'[d] = command[d]
      BY <1>2, <2>4
    <2>5. ASSUME NEW d \in Commands, Revoking(command'[d])
          PROVE  command'[d].key \notin KeysOf(file'.is.records)
      BY <1>7, <2>4, <2>5 DEF KeysInv
    <2>6. ASSUME NEW d \in Commands, Revoking(command'[d]), NEW e \in Commands, Pending(command'[e])
          PROVE  command'[d].key \notin KeysOf(command'[e].records)
      <3>1. CASE e = c
        BY <1>2, <1>7, <2>4, <2>6, <3>1
      <3>2. CASE e # c
        BY <1>2, <1>7, <2>4, <2>6, <3>2 DEF KeysInv
      <3> QED
        BY <3>1, <3>2
    <2> QED
      BY <2>2, <2>3, <2>5, <2>6
  <1> QED
    BY <1>4, <1>5, <1>6, <1>7 DEF KeysInv

-----------------------------------------------------------------------------

\* What the types of a state are made of.
FileTyped ==
    /\ file \in Files /\ dirPrivate \in BOOLEAN
    /\ listedAt \in [Keys -> 0..MaxNow] /\ modeAt \in ModeTimes
CommandsTyped == command \in [Commands -> CommandRecord]
StoreTyped ==
    /\ store \in [valid : BOOLEAN, entries : SUBSET Record, mtime : -1..MaxNow, lastPoll : 0..MaxNow]
    /\ store.valid <=> store.entries # {}
AuthTyped == auth \in AuthRecord
AnswerTyped == answer \in [key : Keys \cup {NoKey}, ok : BOOLEAN]
KeysTyped == minted \in 0..MaxKeys /\ added \subseteq Keys /\ revoked \subseteq Keys

\* The types are those of the parts.
LEMMA TypeParts ==
    (TypeOK /\ file \in Files) <=>
        /\ FileTyped /\ CommandsTyped /\ StoreTyped /\ AuthTyped /\ AnswerTyped /\ KeysTyped
        /\ now \in 0..MaxNow /\ overlapped \in BOOLEAN
  <1>1. ASSUME file \in Files
        PROVE  /\ file.is \in [kind : {"missing", "empty", "corrupt", "records"}, records : SUBSET Record]
               /\ file.private \in BOOLEAN /\ file.mtime \in 0..MaxNow
    BY <1>1 DEF Files
  <1> QED
    BY <1>1 DEF TypeOK, FileTyped, CommandsTyped, StoreTyped, AuthTyped, AnswerTyped, KeysTyped, CommandRecord, AuthRecord, ModeTimes

\* An answer is given from a store.
LEMMA RespondTyped ==
    ASSUME NEW s, NEW key \in Keys \cup {NoKey}, Respond(s, key), MaxNow \in Nat, s.valid \in BOOLEAN
    PROVE  AuthTyped' /\ AnswerTyped'
  <1>1. 0 \in 0..MaxNow
    OBVIOUS
  <1>2. AuthTyped'
    BY <1>1 DEF Respond, AuthTyped, NotAsked, AuthRecord
  <1>3. (s.valid /\ key \in KeysOf(s.entries)) \in BOOLEAN
    OBVIOUS
  <1>4. AnswerTyped'
    BY <1>3 DEF Respond, AnswerTyped
  <1> QED
    BY <1>2, <1>4

\* Every step keeps the types.
LEMMA StepTyped ==
    ASSUME TypeOK, file \in Files, [Next]_vars
    PROVE  TypeOK' /\ file' \in Files
  <1> USE KeysAssumption
  <1>1. /\ FileTyped /\ CommandsTyped /\ StoreTyped /\ AuthTyped /\ AnswerTyped /\ KeysTyped
        /\ now \in 0..MaxNow /\ overlapped \in BOOLEAN
    BY TypeParts
  <1>2. NoAnswer \in [key : Keys \cup {NoKey}, ok : BOOLEAN]
    BY DEF NoAnswer
  <1>3. ASSUME UNCHANGED <<file, dirPrivate, listedAt, modeAt>> PROVE FileTyped'
    BY <1>1, <1>3 DEF FileTyped
  <1>4. ASSUME UNCHANGED <<store, auth>>, answer' = NoAnswer
        PROVE  StoreTyped' /\ AuthTyped' /\ AnswerTyped'
    BY <1>1, <1>2, <1>4 DEF StoreTyped, AuthTyped, AnswerTyped
  <1>5. ASSUME UNCHANGED <<minted, added, revoked>> PROVE KeysTyped'
    BY <1>1, <1>5 DEF KeysTyped
  <1>6. ASSUME UNCHANGED command PROVE CommandsTyped'
    BY <1>1, <1>6 DEF CommandsTyped
  <1>7. ASSUME MayTick, now' = now + 1 PROVE now' \in 0..MaxNow
    BY <1>1, <1>7 DEF MayTick
  <1>8. ASSUME NEW f \in Files, NEW private \in BOOLEAN, Becomes(f, private) PROVE FileTyped'
    BY <1>8, BecomesTyped DEF FileTyped
  <1>9. ASSUME NEW c \in Commands, NEW g \in CommandRecord, command' = [command EXCEPT ![c] = g]
        PROVE  CommandsTyped'
    BY <1>1, <1>9 DEF CommandsTyped
  <1>10. file.is.records \in SUBSET Record /\ file.private \in BOOLEAN /\ file \in Files /\ dirPrivate \in BOOLEAN
    BY <1>1, FileParts DEF FileTyped
  <1>11. ASSUME FileTyped', CommandsTyped', StoreTyped', AuthTyped', AnswerTyped', KeysTyped',
                now' \in 0..MaxNow, overlapped' \in BOOLEAN
         PROVE  TypeOK' /\ file' \in Files
    <2>1. /\ file'.is \in [kind : {"missing", "empty", "corrupt", "records"}, records : SUBSET Record]
          /\ file'.private \in BOOLEAN /\ file'.mtime \in 0..MaxNow
      BY <1>11 DEF FileTyped, Files
    <2> QED
      BY <1>11, <2>1 DEF TypeOK, FileTyped, CommandsTyped, StoreTyped, AuthTyped, AnswerTyped, KeysTyped, CommandRecord, AuthRecord, ModeTimes
  <1>12. CASE Tick
    BY <1>1, <1>3, <1>4, <1>5, <1>6, <1>7, <1>11, <1>12 DEF Tick
  <1>13. ASSUME NEW c \in Commands, NEW label \in Labels, Add(c, label) PROVE TypeOK' /\ file' \in Files
    <2>1. minted + 1 \in Keys
      BY <1>1, <1>13 DEF Add, Keys, KeysTyped
    <2>2. [label |-> label, key |-> minted + 1] \in Record
      BY <2>1 DEF Record
    <2>3. [at |-> "read", records |-> file.is.records \cup {[label |-> label, key |-> minted + 1]},
           mtime |-> 0, op |-> "add", key |-> minted + 1] \in CommandRecord
      BY <2>1, <2>2, <1>10 DEF CommandRecord
    <2>4. CommandsTyped'
      BY <2>3, <1>9, <1>13 DEF Add, Proceed
    <2>5. KeysTyped' /\ now' \in 0..MaxNow /\ overlapped' \in BOOLEAN
      BY <1>1, <1>13, <2>1 DEF Add, Proceed, KeysTyped, Keys
    <2> QED
      BY <2>4, <2>5, <1>3, <1>4, <1>11, <1>13 DEF Add, Proceed
  <1>14. ASSUME NEW c \in Commands, NEW record \in file.is.records, Revoke(c, record)
         PROVE  TypeOK' /\ file' \in Files
    <2>1. record.key \in Keys
      BY <1>10 DEF Record
    <2>2. [at |-> "read", records |-> file.is.records \ {record},
           mtime |-> 0, op |-> "revoke", key |-> record.key] \in CommandRecord
      BY <2>1, <1>10 DEF CommandRecord
    <2>3. CommandsTyped'
      BY <2>2, <1>9, <1>14 DEF Revoke, Proceed
    <2>4. KeysTyped' /\ now' \in 0..MaxNow /\ overlapped' \in BOOLEAN
      BY <1>1, <1>14 DEF Revoke, Proceed, KeysTyped
    <2> QED
      BY <2>3, <2>4, <1>3, <1>4, <1>11, <1>14 DEF Revoke, Proceed
  <1>15. ASSUME NEW c \in Commands, WriteTemp(c) PROVE TypeOK' /\ file' \in Files
    <2>1. [command[c] EXCEPT !.at = "written", !.mtime = Stamp] \in CommandRecord
      BY <1>1, StampTyped DEF CommandsTyped, CommandRecord
    <2>2. command' = [command EXCEPT ![c] = [command[c] EXCEPT !.at = "written", !.mtime = Stamp]]
      BY <1>1, <1>15 DEF WriteTemp, CommandsTyped
    <2>3. CommandsTyped'
      BY <2>1, <2>2, <1>9
    <2>4. FileTyped'
      BY <1>8, <1>10, <1>15 DEF WriteTemp
    <2> QED
      BY <2>3, <2>4, <1>1, <1>4, <1>5, <1>7, <1>11, <1>15 DEF WriteTemp
  <1>16. ASSUME NEW c \in Commands, Rename(c) PROVE TypeOK' /\ file' \in Files
    <2>1. command[c] \in CommandRecord
      BY <1>1 DEF CommandsTyped
    <2>2. [command[c] EXCEPT !.at = "renamed", !.records = {}, !.mtime = 0] \in CommandRecord
      <3>1. PICK g \in CommandRecord : g = command[c]
        BY <2>1
      <3>2. {} \in SUBSET Record /\ 0 \in 0..MaxNow
        OBVIOUS
      <3>3. [g EXCEPT !.at = "renamed", !.records = {}, !.mtime = 0] \in CommandRecord
        BY <3>2 DEF CommandRecord
      <3> QED
        BY <3>1, <3>3
    <2>3. command' = [command EXCEPT ![c] = [command[c] EXCEPT !.at = "renamed", !.records = {}, !.mtime = 0]]
      BY <1>1, <1>16 DEF Rename, CommandsTyped
    <2>4. CommandsTyped'
      BY <2>2, <2>3, <1>9
    <2>5. FileTyped'
      <3>1. [is |-> Contents("records", command[c].records), private |-> TRUE,
             mtime |-> command[c].mtime] \in Files
        BY <2>1, ContentsTyped DEF CommandRecord
      <3> QED
        BY <3>1, <1>8, <1>10, <1>16 DEF Rename
    <2>6. KeysTyped' /\ now' \in 0..MaxNow
      BY <1>1, <1>16 DEF Rename, KeysTyped
    <2>7. overlapped' \in BOOLEAN
      BY ONLY <1>16 DEF Rename
    <2> QED
      BY <2>4, <2>5, <2>6, <2>7, <1>4, <1>11, <1>16 DEF Rename
  <1>17. ASSUME NEW c \in Commands, Report(c) \/ Crash(c) PROVE TypeOK' /\ file' \in Files
    <2>1. NotRunning \in CommandRecord
      BY DEF NotRunning, CommandRecord
    <2>2. CommandsTyped'
      BY <2>1, <1>9, <1>17 DEF Report, Crash
    <2>3. KeysTyped' /\ now' \in 0..MaxNow
      BY <1>1, <1>17 DEF Report, Crash, KeysTyped
    <2>4. overlapped' \in BOOLEAN
      BY <1>1, <1>17 DEF Report, Crash
    <2> QED
      BY <2>2, <2>3, <2>4, <1>3, <1>4, <1>11, <1>17 DEF Report, Crash
  <1>18. ASSUME NEW kind \in HandEdits, Damage(kind) PROVE TypeOK' /\ file' \in Files
    <2>1. [is |-> Contents(kind, {}), private |-> file.private, mtime |-> Stamp] \in Files
      BY <1>1, <1>10, <1>18, StampTyped, ContentsTyped DEF Damage
    <2>2. FileTyped'
      BY <2>1, <1>8, <1>10, <1>18 DEF Damage
    <2>3. KeysTyped' /\ overlapped' \in BOOLEAN
      BY <1>1, <1>18 DEF Damage, KeysTyped
    <2> QED
      BY <2>2, <2>3, <1>4, <1>6, <1>7, <1>11, <1>18 DEF Damage
  <1>19. CASE Chmod
    <2>1. [file EXCEPT !.private = ~@] \in Files /\ (~dirPrivate) \in BOOLEAN
      BY <1>10 DEF Files
    <2>2. FileTyped'
      BY <2>1, <1>8, <1>10, <1>19 DEF Chmod
    <2> QED
      BY <2>2, <1>1, <1>4, <1>5, <1>6, <1>11, <1>19 DEF Chmod
  <1>20. ASSUME NEW s, NEW key \in Keys \cup {NoKey}, Respond(s, key),
                s \in [valid : BOOLEAN, entries : SUBSET Record, mtime : -1..MaxNow, lastPoll : 0..MaxNow],
                s.valid <=> s.entries # {}
         PROVE  TypeOK' /\ file' \in Files
    <2>1. StoreTyped'
      BY <1>20 DEF Respond, StoreTyped
    <2>2. AuthTyped' /\ AnswerTyped'
      BY <1>20, RespondTyped
    <2> QED
      BY <2>1, <2>2, <1>1, <1>3, <1>5, <1>6, <1>11, <1>20 DEF Respond
  <1>21. MarkInvalid \in [valid : BOOLEAN, entries : SUBSET Record, mtime : -1..MaxNow, lastPoll : 0..MaxNow]
         /\ (MarkInvalid.valid <=> MarkInvalid.entries # {})
    <2>1. store \in [valid : BOOLEAN, entries : SUBSET Record, mtime : -1..MaxNow, lastPoll : 0..MaxNow]
      BY <1>1 DEF StoreTyped
    <2>2. {} \in SUBSET Record /\ -1 \in -1..MaxNow /\ FALSE \in BOOLEAN
      OBVIOUS
    <2>3. [store EXCEPT !.valid = FALSE, !.entries = {}, !.mtime = -1]
          \in [valid : BOOLEAN, entries : SUBSET Record, mtime : -1..MaxNow, lastPoll : 0..MaxNow]
      BY ONLY <2>1, <2>2
    <2>4. MarkInvalid.valid = FALSE /\ MarkInvalid.entries = {}
      BY <2>1 DEF MarkInvalid
    <2> QED
      BY <2>3, <2>4 DEF MarkInvalid
  <1>22. ASSUME NEW key \in Keys, Authenticate(key) PROVE TypeOK' /\ file' \in Files
    <2>1. CASE Due
      <3>1. StoreTyped'
        BY <1>1, <1>22, <2>1 DEF Authenticate, StoreTyped
      <3>2. AuthTyped' /\ AnswerTyped'
        <4>1. [NotAsked EXCEPT !.at = "stat", !.key = key] \in AuthRecord
          BY AskedTyped
        <4>2. auth' = [NotAsked EXCEPT !.at = "stat", !.key = key] /\ answer' = NoAnswer
          BY ONLY <1>22, <2>1 DEF Authenticate
        <4> QED
          BY ONLY <1>2, <4>1, <4>2 DEF AuthTyped, AnswerTyped
      <3> QED
        BY <3>1, <3>2, <1>1, <1>3, <1>5, <1>6, <1>11, <1>22, <2>1 DEF Authenticate
    <2>2. CASE ~Due
      BY <1>1, <1>20, <1>22, <2>2 DEF Authenticate, StoreTyped
    <2> QED
      BY <2>1, <2>2
  <1>23. ASSUME NEW to \in AuthRecord, Observe(to) PROVE TypeOK' /\ file' \in Files
    <2>1. AuthTyped' /\ AnswerTyped' /\ StoreTyped'
      BY <1>1, <1>2, <1>23 DEF Observe, AuthTyped, AnswerTyped, StoreTyped
    <2> QED
      BY <2>1, <1>1, <1>3, <1>5, <1>6, <1>11, <1>23 DEF Observe
  <1>26. CASE Stat
    <2>1. auth.key \in Keys \cup {NoKey} /\ file.mtime \in 0..MaxNow
      BY <1>1, <1>10, FileParts DEF AuthTyped, AuthRecord
    <2>2. CASE Respond(MarkInvalid, auth.key)
      BY <1>20, <1>21, <2>1, <2>2
    <2>3. CASE Observe([auth EXCEPT !.at = "dir", !.mtime = file.mtime, !.empty = file.is.kind = "empty"])
      <3>1. (file.is.kind = "empty") \in BOOLEAN
        OBVIOUS
      <3>2. [auth EXCEPT !.at = "dir", !.mtime = file.mtime, !.empty = file.is.kind = "empty"] \in AuthRecord
        BY <1>1, <2>1, <3>1 DEF AuthTyped, AuthRecord
      <3> QED
        BY <1>23, <2>3, <3>2
    <2> QED
      BY <1>26, <2>2, <2>3 DEF Stat
  <1>27. CASE StatDir
    <2>1. auth.key \in Keys \cup {NoKey}
      BY <1>1 DEF AuthTyped, AuthRecord
    <2>2. CASE Respond(MarkInvalid, auth.key)
      BY <1>20, <1>21, <2>1, <2>2
    <2>3. CASE Respond(store, auth.key)
      BY <1>1, <1>20, <2>1, <2>3 DEF StoreTyped
    <2>4. CASE Observe([auth EXCEPT !.at = "read"])
      <3>1. [auth EXCEPT !.at = "read"] \in AuthRecord
        BY <1>1 DEF AuthTyped, AuthRecord
      <3> QED
        BY <1>23, <2>4, <3>1
    <2> QED
      BY <1>27, <2>2, <2>3, <2>4 DEF StatDir
  <1>24. CASE Read
    <2>1. auth.key \in Keys \cup {NoKey}
      BY <1>1 DEF AuthTyped, AuthRecord
    <2>2. CASE file.is.records # {}
      <3>1. Loaded \in [valid : BOOLEAN, entries : SUBSET Record, mtime : -1..MaxNow, lastPoll : 0..MaxNow]
            /\ (Loaded.valid <=> Loaded.entries # {})
        <4>1. store \in [valid : BOOLEAN, entries : SUBSET Record, mtime : -1..MaxNow, lastPoll : 0..MaxNow]
          BY <1>1 DEF StoreTyped
        <4>2. auth.mtime \in -1..MaxNow /\ TRUE \in BOOLEAN
          BY <1>1 DEF AuthTyped, AuthRecord
        <4>3. [store EXCEPT !.valid = TRUE, !.entries = file.is.records, !.mtime = auth.mtime]
              \in [valid : BOOLEAN, entries : SUBSET Record, mtime : -1..MaxNow, lastPoll : 0..MaxNow]
          BY ONLY <4>1, <4>2, <1>10
        <4>4. Loaded.valid = TRUE /\ Loaded.entries = file.is.records
          BY <4>1 DEF Loaded
        <4> QED
          BY <2>2, <4>3, <4>4 DEF Loaded
      <3> QED
        BY <1>20, <1>24, <2>1, <2>2, <3>1 DEF Read
    <2>3. CASE file.is.records = {}
      BY <1>20, <1>21, <1>24, <2>1, <2>3 DEF Read
    <2> QED
      BY <2>2, <2>3
  <1>25. CASE UNCHANGED vars
    <2>1. AuthTyped' /\ AnswerTyped' /\ StoreTyped'
      BY <1>1, <1>25 DEF AuthTyped, AnswerTyped, StoreTyped, vars
    <2> QED
      BY <2>1, <1>1, <1>3, <1>5, <1>6, <1>11, <1>25 DEF vars
  <1> QED
    BY <1>12, <1>13, <1>14, <1>15, <1>16, <1>17, <1>18, <1>19, <1>22, <1>26, <1>27, <1>24, <1>25 DEF Next, Command

-----------------------------------------------------------------------------

\* A command begins: what it is to write has what the file has, but for its key.
LEMMA KeysBegin ==
    ASSUME KeysInv, NEW c \in Commands, TypeOK', file' \in Files,
           (\E label \in Labels : Add(c, label)) \/ (\E record \in file.is.records : Revoke(c, record))
    PROVE  KeysInv'
  <1>1. /\ minted \in Nat /\ file.is.records \in SUBSET Record /\ added \subseteq Keys /\ revoked \subseteq Keys
        /\ command \in [Commands -> CommandRecord]
        /\ Sound(file.is.records, minted) /\ (~overlapped => Keeps(file.is.records, added, revoked))
    BY KeysAssumption, FileParts DEF KeysInv, TypeOK, CommandRecord
  <1>2. \A d \in Commands : CommandSound(command[d], minted) /\ command[d].key \in Keys \cup {NoKey}
    BY DEF KeysInv, TypeOK
  <1>3. \A d \in Commands : ~overlapped /\ Revoking(command[d]) => command[d].key \notin KeysOf(file.is.records)
    BY DEF KeysInv
  <1>4. ASSUME NEW label \in Labels, Add(c, label) PROVE KeysInv'
    <2> DEFINE new == [label |-> label, key |-> minted + 1]
    <2>1. minted + 1 \in Keys /\ minted' = minted + 1
      BY <1>1, <1>4, KeysAssumption DEF Add, Keys
    <2>2. new \in Record /\ new.key = minted + 1
      BY <2>1 DEF Record
    <2> HIDE DEF new
    <2>3. PICK g \in CommandRecord : g = [at |-> "read", records |-> file.is.records \cup {new}, mtime |-> 0,
                                          op |-> "add", key |-> minted + 1]
      <3>1. 0 \in 0..MaxNow /\ file.is.records \cup {new} \in SUBSET Record
        BY <1>1, <2>2, KeysAssumption
      <3> QED
        BY <2>1, <3>1 DEF CommandRecord
    <2>12. g.at = "read" /\ g.records = file.is.records \cup {new} /\ g.op = "add" /\ g.key = minted + 1
      BY <2>3
    <2>4. KeysOf(file.is.records \cup {new}) = KeysOf(file.is.records) \cup {minted + 1}
      BY <2>2 DEF KeysOf
    <2>5. Sound(file.is.records \cup {new}, minted + 1)
      BY <1>1, <2>2, KeyNumbers DEF Sound, Record
    <2>6. CommandSound(g, minted')
      <3>1. minted + 1 \in Nat /\ minted' = minted + 1
        BY <1>1, <2>1
      <3>2. Sound(g.records, minted') /\ g.key <= minted' /\ g.key \in KeysOf(g.records)
        <4>1. g.records = file.is.records \cup {new} /\ g.key = minted'
          BY <2>12, <3>1
        <4>2. Sound(g.records, minted')
          BY ONLY <4>1, <2>5, <3>1
        <4>3. g.key <= minted'
          BY ONLY <4>1, <3>1
        <4>4. g.key \in KeysOf(g.records)
          BY ONLY <4>1, <2>4, <3>1
        <4> QED
          BY <4>2, <4>3, <4>4
      <3> QED
        BY <2>12, <3>2 DEF CommandSound
    <2>7. minted + 1 \notin revoked
      BY <1>1, KeyNumbers DEF KeysInv
    <2>10. UNCHANGED <<overlapped, revoked, added>> /\ file'.is = file.is /\ command' = [command EXCEPT ![c] = g]
      BY <1>4, <2>3 DEF Add, Proceed, new
    <2>8. ~overlapped => Keeps(g.records, added', revoked')
      BY <1>1, <2>4, <2>7, <2>10, <2>12 DEF Keeps
    <2>9. ~overlapped => \A d \in Commands : Revoking(command[d]) => command[d].key \notin KeysOf(g.records)
      <3>1. \A d \in Commands : command[d].key # minted + 1
        BY <1>1, <1>2, KeyNumbers DEF CommandSound, NoKey
      <3> QED
        BY <1>3, <2>4, <2>12, <3>1
    <2>11. ~Revoking(g)
      BY <2>12 DEF Revoking
    <2>13. command'[c] = g /\ \A d \in Commands : d # c => command'[d] = command[d]
      BY <1>1, <2>10
    <2> QED
      BY <2>1, <2>6, <2>8, <2>9, <2>10, <2>11, <2>13, CommandMoves
  <1>5. ASSUME NEW record \in file.is.records, Revoke(c, record) PROVE KeysInv'
    <2> DEFINE rest == file.is.records \ {record}
    <2>1. record.key \in Keys /\ record.key <= minted /\ record \in Record
      BY <1>1 DEF Record, Sound
    <2>2. PICK g \in CommandRecord : g = [at |-> "read", records |-> rest, mtime |-> 0,
                                          op |-> "revoke", key |-> record.key]
      <3>1. 0 \in 0..MaxNow /\ rest \in SUBSET Record
        BY <1>1, KeysAssumption
      <3> QED
        BY <2>1, <3>1 DEF CommandRecord
    <2>10. g.at = "read" /\ g.records = rest /\ g.op = "revoke" /\ g.key = record.key
      BY <2>2
    <2>3. KeysOf(rest) = KeysOf(file.is.records) \ {record.key}
      BY <1>1 DEF KeysOf, Sound
    <2>4. Sound(rest, minted)
      BY <1>1 DEF Sound
    <2>5. minted' = minted /\ CommandSound(g, minted')
      BY <1>5, <2>1, <2>3, <2>4, <2>10 DEF CommandSound, Revoke
    <2>6. UNCHANGED <<overlapped, revoked>> /\ file'.is = file.is /\ command' = [command EXCEPT ![c] = g]
          /\ added' = added \ {record.key}
      BY <1>5, <2>2 DEF Revoke, Proceed
    <2>7. ~overlapped => Keeps(g.records, added', revoked')
      BY <1>1, <2>3, <2>6, <2>10 DEF Keeps
    <2>8. ~overlapped => \A d \in Commands : Revoking(command[d]) => command[d].key \notin KeysOf(g.records)
      BY <1>3, <2>3, <2>10
    <2>9. ~Revoking(g)
      BY <2>10 DEF Revoking
    <2>11. command'[c] = g /\ \A d \in Commands : d # c => command'[d] = command[d]
      BY <1>1, <2>6
    <2> QED
      BY <2>5, <2>6, <2>7, <2>8, <2>9, <2>11, CommandMoves
  <1> QED
    BY <1>4, <1>5

\* A command writes its temporary file, or dies.
LEMMA KeysWrite ==
    ASSUME KeysInv, NEW c \in Commands, TypeOK', file' \in Files, WriteTemp(c) \/ Crash(c)
    PROVE  KeysInv'
  <1>1. minted \in Nat /\ command \in [Commands -> CommandRecord]
    BY KeysAssumption DEF KeysInv, TypeOK, CommandRecord
  <1>2. CommandSound(command[c], minted)
    BY DEF KeysInv
  <1>3. ASSUME WriteTemp(c) PROVE KeysInv'
    <2>1. command'[c] \in CommandRecord
      BY DEF TypeOK, CommandRecord
    <2>2. PICK g \in CommandRecord : g = command'[c]
      BY <2>1
    <2>3. command' = [command EXCEPT ![c] = g] /\ g.records = command[c].records
          /\ g.op = command[c].op /\ g.key = command[c].key /\ g.at = "written" /\ command[c].at = "read"
      BY <1>1, <1>3, <2>2 DEF WriteTemp, CommandRecord
    <2>4. UNCHANGED <<overlapped, revoked, added, minted>> /\ file'.is = file.is
      BY <1>3 DEF WriteTemp, Becomes
    <2>5. CommandSound(g, minted')
      BY <1>2, <2>3, <2>4 DEF CommandSound, Pending
    <2>6. ~Revoking(g)
      BY <2>3 DEF Revoking
    <2>7. ~overlapped => Keeps(g.records, added', revoked')
      BY <2>3, <2>4 DEF KeysInv, Pending, Keeps
    <2>8. ~overlapped => \A d \in Commands : Revoking(command[d]) => command[d].key \notin KeysOf(g.records)
      BY <2>3 DEF KeysInv, Pending
    <2>9. command'[c] = g /\ \A d \in Commands : d # c => command'[d] = command[d]
      BY <1>1, <2>3
    <2> QED
      BY <2>4, <2>5, <2>6, <2>7, <2>8, <2>9, CommandMoves
  <1>4. ASSUME Crash(c) PROVE KeysInv'
    <2>1. NotRunning \in CommandRecord /\ ~Pending(NotRunning) /\ ~Revoking(NotRunning)
      BY KeysAssumption DEF NotRunning, CommandRecord, Pending, Revoking
    <2>2. CommandSound(NotRunning, minted)
      BY <1>1 DEF CommandSound, Sound, NotRunning, Pending, NoKey
    <2>3. UNCHANGED <<overlapped, revoked, added, minted>> /\ file'.is = file.is
          /\ command' = [command EXCEPT ![c] = NotRunning]
      BY <1>4 DEF Crash
    <2>4. command'[c] = NotRunning /\ \A d \in Commands : d # c => command'[d] = command[d]
      BY <1>1, <2>3
    <2> QED
      BY <2>1, <2>2, <2>3, <2>4, CommandMoves
  <1> QED
    BY <1>3, <1>4

\* A command replaces the file.  Unless another one is then overlapped, nobody
\* else is about to write, and the file has what the command was to write.
LEMMA KeysRename ==
    ASSUME KeysInv, NEW c \in Commands, TypeOK', file' \in Files, Rename(c)
    PROVE  KeysInv'
  <1>1. /\ minted \in Nat /\ command \in [Commands -> CommandRecord] /\ added \subseteq Keys /\ revoked \subseteq Keys
        /\ UNCHANGED <<minted, revoked>>
    BY KeysAssumption DEF KeysInv, TypeOK, CommandRecord, Rename
  <1>2. CommandSound(command[c], minted) /\ Pending(command[c])
    BY DEF KeysInv, Rename, Pending
  <1>3. /\ command'[c].at = "renamed" /\ command'[c].records = {} /\ command'[c].op = command[c].op
        /\ command'[c].key = command[c].key
        /\ \A d \in Commands : d # c => command'[d] = command[d]
    BY <1>1 DEF Rename, CommandRecord
  <1>4. file'.is.kind = "records" /\ file'.is.records = command[c].records
    BY DEF Rename, Becomes, Contents
  <1>5. Sound(file'.is.records, minted')
    BY <1>1, <1>2, <1>4 DEF CommandSound
  <1>6. ASSUME NEW d \in Commands PROVE CommandSound(command'[d], minted')
    <2>1. CASE d = c
      BY <1>1, <1>2, <1>3, <2>1 DEF CommandSound, Sound, Pending
    <2>2. CASE d # c
      BY <1>1, <1>3, <2>2 DEF KeysInv
    <2> QED
      BY <2>1, <2>2
  <1>7. ASSUME ~overlapped'
        PROVE  /\ Keeps(file'.is.records, added', revoked')
               /\ \A d \in Commands : ~Pending(command'[d])
               /\ \A d \in Commands : Revoking(command'[d]) => command'[d].key \notin KeysOf(file'.is.records)
    <2>1. ~overlapped /\ \A d \in Commands \ {c} : ~Pending(command[d])
      BY <1>7 DEF Rename, Pending
    <2>2. added' = added \cup {key \in Keys : key = command[c].key /\ command[c].op = "add"}
      BY DEF Rename
    <2>3. Keeps(command[c].records, added, revoked)
      BY <1>2, <2>1 DEF KeysInv
    <2>4. \A key \in Keys : key = command[c].key /\ command[c].op = "add" => key \in KeysOf(command[c].records)
      BY <1>2 DEF CommandSound
    <2>5. Keeps(file'.is.records, added', revoked')
      BY <1>1, <1>4, <2>2, <2>3, <2>4 DEF Keeps
    <2>6. \A d \in Commands : ~Pending(command'[d])
      BY <1>3, <2>1 DEF Pending
    <2>7. ASSUME NEW d \in Commands, Revoking(command'[d]) PROVE command'[d].key \notin KeysOf(file'.is.records)
      <3>1. CASE d = c
        BY <1>2, <1>3, <1>4, <2>7, <3>1 DEF CommandSound, Revoking
      <3>2. CASE d # c
        BY <1>2, <1>3, <1>4, <2>1, <2>7, <3>2 DEF KeysInv
      <3> QED
        BY <3>1, <3>2
    <2> QED
      BY <2>5, <2>6, <2>7
  <1>8. \A key \in revoked' : key <= minted'
    BY <1>1 DEF KeysInv
  <1> QED
    BY <1>4, <1>5, <1>6, <1>7, <1>8 DEF KeysInv

\* A revocation is reported: the key is in no set of records that may come back.
LEMMA KeysReport ==
    ASSUME KeysInv, NEW c \in Commands, TypeOK', file' \in Files, Report(c)
    PROVE  KeysInv'
  <1>1. /\ minted \in Nat /\ command \in [Commands -> CommandRecord]
        /\ UNCHANGED <<file, minted, added, overlapped>>
    BY KeysAssumption DEF KeysInv, TypeOK, CommandRecord, Report
  <1>2. command'[c] = NotRunning /\ \A d \in Commands : d # c => command'[d] = command[d]
    BY <1>1 DEF Report
  <1>3. ~Pending(NotRunning) /\ ~Revoking(NotRunning) /\ CommandSound(NotRunning, minted)
    BY <1>1 DEF CommandSound, Sound, NotRunning, Pending, Revoking, NoKey
  <1>4. \A d \in Commands : CommandSound(command'[d], minted')
    BY <1>1, <1>2, <1>3 DEF KeysInv
  <1>5. revoked' = revoked \cup {key \in Keys : key = command[c].key /\ command[c].op = "revoke"}
        /\ command[c].at = "renamed"
    BY DEF Report
  <1>6. \A key \in revoked' : key <= minted'
    BY <1>1, <1>5 DEF KeysInv, CommandSound
  <1>7. ASSUME ~overlapped'
        PROVE  /\ Keeps(file'.is.records, added', revoked')
               /\ \A d \in Commands : Pending(command'[d]) => Keeps(command'[d].records, added', revoked')
               /\ \A d \in Commands : Revoking(command'[d]) =>
                      /\ command'[d].key \notin KeysOf(file'.is.records)
                      /\ \A e \in Commands : Pending(command'[e]) =>
                             command'[d].key \notin KeysOf(command'[e].records)
    <2>1. ASSUME NEW records, Keeps(records, added, revoked), Revoking(command[c]) => command[c].key \notin KeysOf(records)
          PROVE  added' \subseteq KeysOf(records) /\ revoked' \cap KeysOf(records) = {}
      BY <1>1, <1>5, <2>1 DEF Keeps, Revoking
    <2>2. Keeps(file'.is.records, added', revoked')
      BY <1>1, <1>7, <2>1 DEF KeysInv, Keeps
    <2>3. ASSUME NEW d \in Commands, Pending(command'[d]) PROVE Keeps(command'[d].records, added', revoked')
      <3>1. d # c /\ command'[d] = command[d]
        BY <1>2, <1>3, <2>3
      <3>2. Keeps(command[d].records, added, revoked) /\ (Revoking(command[c]) => command[c].key \notin KeysOf(command[d].records))
        BY <1>1, <1>7, <2>3, <3>1 DEF KeysInv
      <3> QED
        BY <2>1, <3>1, <3>2 DEF Keeps
    <2>4. ASSUME NEW d \in Commands, Revoking(command'[d]) PROVE d # c /\ command'[d] = command[d]
      BY <1>2, <1>3, <2>4
    <2>5. ASSUME NEW d \in Commands, Pending(command'[d]) PROVE d # c /\ command'[d] = command[d]
      BY <1>2, <1>3, <2>5
    <2> QED
      BY <1>1, <1>7, <2>2, <2>3, <2>4, <2>5 DEF KeysInv
  <1> QED
    BY <1>1, <1>4, <1>6, <1>7 DEF KeysInv

\* The operator empties or mangles the file: nothing added is left in it.
LEMMA KeysDamaged ==
    ASSUME KeysInv, NEW kind \in HandEdits, TypeOK', file' \in Files, Damage(kind)
    PROVE  KeysInv'
  <1>1. /\ file'.is.kind = kind /\ file'.is.records = {} /\ added' = {}
        /\ UNCHANGED <<command, minted, revoked, overlapped>>
    BY DEF Damage, Becomes, Contents
  <1>2. KeysOf({}) = {}
    BY DEF KeysOf
  <1>3. Sound(file'.is.records, minted')
    BY <1>1 DEF Sound
  <1>4. Keeps(file'.is.records, added', revoked')
    BY <1>1, <1>2 DEF Keeps
  <1>5. ASSUME NEW d \in Commands, Keeps(command[d].records, added, revoked) PROVE Keeps(command'[d].records, added', revoked')
    BY <1>1, <1>5 DEF Keeps
  <1>6. \A d \in Commands : CommandSound(command'[d], minted')
    BY <1>1 DEF KeysInv
  <1>7. \A key \in revoked' : key <= minted'
    BY <1>1 DEF KeysInv
  <1> QED
    BY <1>1, <1>2, <1>3, <1>4, <1>5, <1>6, <1>7 DEF KeysInv

\* Every step preserves the invariant.
LEMMA KeysStep == KeysInv /\ [Next]_vars => KeysInv'
  <1> SUFFICES ASSUME KeysInv, [Next]_vars PROVE KeysInv'
    OBVIOUS
  <1>1. TypeOK' /\ file' \in Files /\ file \in Files
    BY StepTyped DEF KeysInv
  <1>2. CASE Tick
    BY <1>1, <1>2, KeysFrame DEF Tick
  <1>3. ASSUME NEW c \in Commands, Command(c) PROVE KeysInv'
    BY <1>1, <1>3, KeysBegin, KeysWrite, KeysRename, KeysReport DEF Command
  <1>4. ASSUME NEW kind \in HandEdits, Damage(kind) PROVE KeysInv'
    BY <1>1, <1>4, KeysDamaged
  <1>5. CASE Chmod
    <2>1. file'.is = file.is
      BY <1>1, <1>5 DEF Chmod, Becomes, Files
    <2> QED
      BY <1>1, <1>5, <2>1, KeysFrame DEF Chmod
  <1>6. ASSUME NEW key \in Keys, Authenticate(key) PROVE KeysInv'
    BY <1>1, <1>6, KeysFrame DEF Authenticate, Respond
  <1>7. CASE Stat \/ StatDir \/ Read
    BY <1>1, <1>7, KeysFrame DEF Stat, StatDir, Read, Respond, Observe
  <1>8. CASE UNCHANGED vars
    BY <1>1, <1>8, KeysFrame DEF vars
  <1> QED
    BY <1>2, <1>3, <1>4, <1>5, <1>6, <1>7, <1>8 DEF Next

\* Every reachable state satisfies it.
LEMMA KeysInvariance == Spec => []KeysInv
  <1> QED
    BY InitKeys, KeysStep, PTL DEF Spec

\* Every reachable state is well typed, for any commands, labels and clocks.
THEOREM TypeCorrect == Spec => []TypeOK
  <1>1. KeysInv => TypeOK
    BY DEF KeysInv
  <1> QED
    BY <1>1, KeysInvariance, PTL

\* Wherever commands are killed, a key that was added stays in router_keys.json
\* until its revocation begins or the operator destroys the file, and one that
\* was reported revoked never comes back, as long as no command replaces the
\* file between another one's read and rename (writeRouterKeysFile, keys.go).
THEOREM NoKeyLost == Spec => []KeysKept
  <1>1. KeysInv => KeysKept
    BY DEF KeysInv, KeysKept, Keeps
  <1> QED
    BY <1>1, KeysInvariance, PTL

-----------------------------------------------------------------------------

\* The file has been statted and not yet read.
Looking == auth.at \in {"dir", "read"}

\* Every write has a time of its own, of before now.
Stamped ==
    /\ file.is.kind # "missing" => file.mtime < now
    /\ store.mtime < now
    /\ Looking => auth.mtime < now
    /\ \A c \in Commands : command[c].at = "written" =>
           /\ command[c].mtime < now
           /\ file.is.kind # "missing" => command[c].mtime # file.mtime
           /\ command[c].mtime # store.mtime
           /\ Looking => command[c].mtime # auth.mtime
           /\ \A d \in Commands \ {c} :
                  command[d].at = "written" => command[c].mtime # command[d].mtime

\* An equal time means equal contents.
SameTime ==
    store.valid /\ file.is.kind \notin {"missing", "empty"} /\ file.mtime = store.mtime
        => file.is.records = store.entries

Accepts(s, key) == s.valid /\ key \in KeysOf(s.entries)

\* The mode is private, or has changed since the last poll of s.
FileClosed(s) == file.private \/ modeAt.file >= s.lastPoll
DirClosed(s) == dirPrivate \/ modeAt.dir >= s.lastPoll

\* The mode is not private, or has changed since the last poll of s.
Exposed(s) ==
    \/ ~file.private \/ modeAt.file >= s.lastPoll
    \/ ~dirPrivate \/ modeAt.dir >= s.lastPoll

\* The file lists what s accepts, but for what has changed since its last poll.
AcceptsListed(s) ==
    \A key \in Keys : (Accepts(s, key) <=> Lists(file, key)) \/ listedAt[key] >= s.lastPoll

\* What the store says of a key was so at its last poll or has changed since.
InStep(s) ==
    /\ s.valid => FileClosed(s) /\ DirClosed(s)
    /\ AcceptsListed(s) \/ (~s.valid /\ Exposed(s))

\* What the stat said of the file was so at the last poll or has changed since:
\* an empty file lists no key, and an unchanged one what the store accepts.
StatSound ==
    /\ auth.empty => AcceptsListed(MarkInvalid)
    /\ ~auth.empty /\ Unchanged => AcceptsListed(store)

Answered ==
    /\ answer.ok => answer.key \in Keys
    /\ answer.key # NoKey => /\ auth.at = "idle" /\ now < store.lastPoll + PollInterval
                             /\ answer.ok <=> Accepts(store, answer.key)

PollInv ==
    /\ store.lastPoll <= now
    /\ auth.at # "idle" => now < store.lastPoll + PollInterval
    /\ auth.at = "idle" => InStep(store)
    /\ Looking => FileClosed(store)
    /\ auth.at = "read" => DirClosed(store)
    /\ auth.at = "dir" => StatSound
    /\ Stamped /\ SameTime /\ Answered

\* The types that the polls need.
LEMMA PollTypes ==
    ASSUME KeysInv
    PROVE  /\ now \in Nat /\ modeAt.file \in Nat /\ modeAt.dir \in Nat /\ PollInterval \in Nat \ {0} /\ MaxNow \in Nat
           /\ file \in Files /\ file.mtime \in Nat /\ file.is.records \in SUBSET Record
           /\ file.is.kind \in {"missing", "empty", "corrupt", "records"}
           /\ command \in [Commands -> CommandRecord] /\ \A c \in Commands : command[c].mtime \in Nat
           /\ store \in [valid : BOOLEAN, entries : SUBSET Record, mtime : -1..MaxNow, lastPoll : 0..MaxNow]
           /\ store.lastPoll \in Nat /\ store.mtime \in Int /\ (store.valid <=> store.entries # {})
           /\ auth \in AuthRecord
           /\ auth.mtime \in Nat /\ auth.key \in Keys \cup {NoKey} /\ auth.empty \in BOOLEAN
           /\ \A key \in Keys : listedAt[key] \in Nat
  <1> USE KeysAssumption
  <1>1. now \in Nat /\ modeAt.file \in Nat /\ modeAt.dir \in Nat /\ PollInterval \in Nat \ {0} /\ MaxNow \in Nat
    BY DEF KeysInv, TypeOK
  <1>2. file \in Files /\ file.mtime \in Nat /\ file.is.records \in SUBSET Record
        /\ file.is.kind \in {"missing", "empty", "corrupt", "records"}
    BY FileParts DEF KeysInv
  <1>3. command \in [Commands -> CommandRecord] /\ \A c \in Commands : command[c].mtime \in Nat
    BY DEF KeysInv, TypeOK, CommandRecord
  <1>4. store \in [valid : BOOLEAN, entries : SUBSET Record, mtime : -1..MaxNow, lastPoll : 0..MaxNow]
        /\ (store.valid <=> store.entries # {})
    BY DEF KeysInv, TypeOK
  <1>5. store.lastPoll \in Nat /\ store.mtime \in Int
    BY <1>4
  <1>6. auth \in AuthRecord /\ \A key \in Keys : listedAt[key] \in Nat
    BY DEF KeysInv, TypeOK, AuthRecord
  <1>7. auth.mtime \in Nat /\ auth.key \in Keys \cup {NoKey} /\ auth.empty \in BOOLEAN
    BY <1>6 DEF AuthRecord
  <1> QED
    BY <1>1, <1>2, <1>3, <1>4, <1>5, <1>6, <1>7

\* With a time for every tick, a stamp is the tick.
LEMMA StampNow == ASSUME Granule = 1, now \in Nat PROVE Stamp = now
  <1>1. now \div 1 = now
    OBVIOUS
  <1> QED
    BY <1>1 DEF Stamp

\* Before the constructor has looked at the file.
LEMMA InitPoll == Init => PollInv
  <1> SUFFICES ASSUME Init PROVE PollInv
    OBVIOUS
  <1>1. PollInterval \in Nat \ {0}
    BY KeysAssumption
  <1>2. /\ now = 0 /\ file.is.kind = "missing" /\ store.mtime = -1 /\ store.lastPoll = 0 /\ store.valid = FALSE
        /\ auth.at = "stat" /\ answer.ok = FALSE /\ answer.key = NoKey
        /\ \A c \in Commands : command[c].at = "idle"
    BY DEF Init, Contents, NotRunning, NotAsked, NoAnswer
  <1>3. Stamped /\ ~Looking
    BY <1>2 DEF Stamped, Looking
  <1>4. SameTime /\ Answered
    BY <1>2 DEF SameTime, Answered
  <1> QED
    BY <1>1, <1>2, <1>3, <1>4 DEF PollInv

\* Leaving the file alone is to make it what it is.
LEMMA BecomesItself ==
    ASSUME KeysInv, UNCHANGED <<file, dirPrivate, listedAt, modeAt>>
    PROVE  Becomes(file, dirPrivate)
  <1>1. listedAt \in [Keys -> 0..MaxNow]
    BY DEF KeysInv, TypeOK
  <1>2. listedAt = [key \in Keys |-> listedAt[key]] /\ modeAt = [file |-> modeAt.file, dir |-> modeAt.dir]
    BY <1>1 DEF KeysInv, TypeOK
  <1> QED
    BY <1>2 DEF Becomes

\* A change of the file after the last poll is noted as one.
LEMMA ChangeNoted ==
    ASSUME KeysInv, NEW f \in Files, NEW private \in BOOLEAN, Becomes(f, private), store.lastPoll <= now,
           NEW s, s.lastPoll = store.lastPoll, s' = s
    PROVE  /\ FileClosed(s) => FileClosed(s)'
           /\ DirClosed(s) => DirClosed(s)'
           /\ AcceptsListed(s) => AcceptsListed(s)'
           /\ Exposed(s) => Exposed(s)'
  <1>1. now \in Nat /\ s.lastPoll \in Nat /\ now >= s.lastPoll
    BY PollTypes
  <1>2. ASSUME NEW key \in Keys
        PROVE  \/ (Lists(file, key)' <=> Lists(file, key)) /\ listedAt'[key] = listedAt[key]
               \/ listedAt'[key] >= s.lastPoll
    BY <1>1 DEF Becomes, Lists
  <1>3. \/ file'.private = file.private /\ modeAt'.file = modeAt.file
        \/ modeAt'.file >= s.lastPoll
    BY <1>1 DEF Becomes
  <1>4. \/ dirPrivate' = dirPrivate /\ modeAt'.dir = modeAt.dir
        \/ modeAt'.dir >= s.lastPoll
    BY <1>1 DEF Becomes
  <1>5. ASSUME NEW key \in Keys PROVE Accepts(s, key)' <=> Accepts(s, key)
    BY DEF Accepts
  <1>6. FileClosed(s) => FileClosed(s)'
    BY <1>3 DEF FileClosed
  <1>7. DirClosed(s) => DirClosed(s)'
    BY <1>4 DEF DirClosed
  <1>8. AcceptsListed(s) => AcceptsListed(s)'
    BY <1>2, <1>5 DEF AcceptsListed
  <1>9. Exposed(s) => Exposed(s)'
    BY <1>3, <1>4 DEF Exposed
  <1> QED
    BY <1>6, <1>7, <1>8, <1>9

\* A step of the commands, the operator or the clock, which the store does not see.
LEMMA OutsideStore ==
    ASSUME KeysInv, PollInv, UNCHANGED <<store, auth>>, answer' = NoAnswer,
           now' = now \/ (MayTick /\ now' = now + 1),
           NEW f \in Files, NEW private \in BOOLEAN, Becomes(f, private),
           Stamped', SameTime'
    PROVE  PollInv'
  <1>1. now \in Nat /\ store.lastPoll \in Nat /\ store.lastPoll <= now
        /\ store \in [valid : BOOLEAN, entries : SUBSET Record, mtime : -1..MaxNow, lastPoll : 0..MaxNow]
    BY PollTypes DEF PollInv
  <1>2. store'.lastPoll <= now'
    BY <1>1
  <1>3. auth'.at # "idle" => now' < store'.lastPoll + PollInterval
    BY DEF PollInv, MayTick
  <1>4. /\ FileClosed(store) => FileClosed(store)'
        /\ DirClosed(store) => DirClosed(store)'
        /\ AcceptsListed(store) => AcceptsListed(store)'
        /\ Exposed(store) => Exposed(store)'
    BY <1>1, ChangeNoted
  <1>5. AcceptsListed(MarkInvalid) => AcceptsListed(MarkInvalid)'
    <2>1. MarkInvalid.lastPoll = store.lastPoll /\ MarkInvalid' = MarkInvalid
      BY <1>1 DEF MarkInvalid
    <2> QED
      BY <1>1, <2>1, ChangeNoted
  <1>6. auth'.at = "idle" => InStep(store)'
    BY <1>4 DEF PollInv, InStep
  <1>7. (Looking' => FileClosed(store)') /\ (auth'.at = "read" => DirClosed(store)')
    BY <1>4 DEF PollInv, Looking
  <1>8. auth'.at = "dir" => StatSound'
    BY <1>4, <1>5 DEF PollInv, StatSound, Unchanged
  <1>9. Answered'
    BY DEF Answered, NoAnswer
  <1> QED
    BY <1>2, <1>3, <1>6, <1>7, <1>8, <1>9 DEF PollInv

\* Fewer temporary files wait, and the times of the others stay.
LEMMA FewerWait ==
    ASSUME KeysInv, PollInv, file'.is.kind = file.is.kind, file'.mtime = file.mtime,
           file'.is.records = file.is.records, store'.mtime = store.mtime, store'.valid = store.valid,
           store'.entries = store.entries,
           Looking' => Looking /\ auth'.mtime = auth.mtime,
           now' = now \/ now' = now + 1,
           \A c \in Commands : command'[c].at = "written" => command'[c] = command[c]
    PROVE  Stamped' /\ SameTime'
  <1>1. now \in Nat /\ file.mtime \in Nat /\ store.mtime \in Int /\ auth.mtime \in Nat
        /\ \A c \in Commands : command[c].mtime \in Nat
    BY PollTypes
  <1>2. \A t \in Int : t < now => t < now'
    BY <1>1
  <1>3. Stamped
    BY DEF PollInv
  <1>4. Stamped'
    BY <1>1, <1>2, <1>3 DEF Stamped
  <1>5. SameTime'
    BY DEF PollInv, SameTime
  <1> QED
    BY <1>4, <1>5

\* The temporary file is stamped with a tick that nothing else was written in.
LEMMA StampWritten ==
    ASSUME Granule = 1, KeysInv, PollInv, NEW c \in Commands, WriteTemp(c)
    PROVE  Stamped' /\ SameTime'
  <1>1. now \in Nat /\ file.mtime \in Nat /\ store.mtime \in Int /\ auth.mtime \in Nat
        /\ (\A d \in Commands : command[d].mtime \in Nat) /\ command \in [Commands -> CommandRecord]
    BY PollTypes
  <1>2. command'[c].mtime = now /\ \A d \in Commands : d # c => command'[d] = command[d]
    BY <1>1, StampNow DEF WriteTemp, CommandRecord
  <1>3. now' = now + 1 /\ UNCHANGED <<file, store, auth>>
    BY DEF WriteTemp, Becomes
  <1>4. Stamped
    BY DEF PollInv
  <1>5. \A t \in Int : t < now => t # now /\ t < now'
    BY <1>1, <1>3
  <1>6. now < now'
    BY <1>1, <1>3
  <1>7. Stamped'
    BY <1>1, <1>2, <1>3, <1>4, <1>5, <1>6 DEF Stamped, Looking
  <1>8. SameTime'
    BY <1>3 DEF PollInv, SameTime
  <1> QED
    BY <1>7, <1>8

\* The file takes the time of the temporary file, which no store has seen.
LEMMA StampRenamed ==
    ASSUME KeysInv, PollInv, NEW c \in Commands, Rename(c)
    PROVE  Stamped' /\ SameTime'
  <1>1. now \in Nat /\ file.mtime \in Nat /\ store.mtime \in Int /\ auth.mtime \in Nat
        /\ (\A d \in Commands : command[d].mtime \in Nat) /\ command \in [Commands -> CommandRecord]
    BY PollTypes
  <1>2. command'[c].at = "renamed" /\ \A d \in Commands : d # c => command'[d] = command[d]
    BY <1>1 DEF Rename, CommandRecord
  <1>3. file'.mtime = command[c].mtime /\ command[c].at = "written" /\ UNCHANGED <<now, store, auth>>
    BY DEF Rename, Becomes
  <1>4. Stamped
    BY DEF PollInv
  <1>5. Stamped'
    BY <1>1, <1>2, <1>3, <1>4 DEF Stamped, Looking
  <1>6. SameTime'
    BY <1>3, <1>4 DEF Stamped, SameTime
  <1> QED
    BY <1>5, <1>6

\* What the operator did has a time of its own too.
LEMMA StampDamaged ==
    ASSUME Granule = 1, KeysInv, PollInv, NEW kind \in HandEdits, Damage(kind)
    PROVE  Stamped' /\ SameTime'
  <1>1. now \in Nat /\ file.mtime \in Nat /\ store.mtime \in Int /\ auth.mtime \in Nat
        /\ (\A d \in Commands : command[d].mtime \in Nat)
    BY PollTypes
  <1>2. file'.mtime = now /\ now' = now + 1 /\ UNCHANGED <<command, store, auth>>
    BY <1>1, StampNow DEF Damage, Becomes
  <1>3. Stamped
    BY DEF PollInv
  <1>4. \A t \in Int : t < now => t # now /\ t < now'
    BY <1>1, <1>2
  <1>5. now < now'
    BY <1>1, <1>2
  <1>6. Stamped'
    BY <1>1, <1>2, <1>3, <1>4, <1>5 DEF Stamped, Looking
  <1>7. SameTime'
    BY <1>1, <1>2, <1>3, <1>4 DEF Stamped, SameTime
  <1> QED
    BY <1>6, <1>7

\* Authenticate answers from a store that is in step with the file.
LEMMA AnswersInStep ==
    ASSUME KeysInv, PollInv, NEW s, NEW key \in Keys \cup {NoKey}, Respond(s, key),
           s.entries \subseteq Record, s.lastPoll = store.lastPoll, now < s.lastPoll + PollInterval,
           InStep(s), Stamped', SameTime'
    PROVE  PollInv'
  <1>1. UNCHANGED <<now, file, dirPrivate, listedAt, modeAt>> /\ store' = s /\ auth'.at = "idle"
        /\ answer'.key = key /\ (answer'.ok <=> Accepts(s, key))
    BY DEF Respond, Accepts, NotAsked
  <1>2. InStep(store)'
    BY <1>1 DEF InStep, AcceptsListed, Accepts, Lists, FileClosed, DirClosed, Exposed
  <1>3. Accepts(s, key) => key \in Keys
    BY DEF Accepts, KeysOf, Record
  <1>4. Accepts(s, key)' <=> Accepts(s, key)
    BY DEF Accepts
  <1>5. Answered'
    BY <1>1, <1>3, <1>4 DEF Answered, Accepts
  <1>6. store'.lastPoll <= now'
    BY <1>1 DEF PollInv
  <1> QED
    BY <1>1, <1>2, <1>5, <1>6 DEF PollInv, Looking

\* A step of the poll that changes nothing else leaves the times as they were.
LEMMA StampsKept ==
    ASSUME KeysInv, PollInv, UNCHANGED <<now, file, command>>,
           store'.mtime = store.mtime, store'.valid = store.valid, store'.entries = store.entries,
           Looking' => Looking /\ auth'.mtime = auth.mtime
    PROVE  Stamped' /\ SameTime'
  <1> QED
    BY FewerWait

\* A call begins: it answers from what is cached, or polls.
LEMMA PollBegins ==
    ASSUME KeysInv, PollInv, NEW key \in Keys, Authenticate(key)
    PROVE  PollInv'
  <1>1. /\ now \in Nat /\ store.lastPoll \in Nat /\ PollInterval \in Nat \ {0} /\ store.entries \subseteq Record
        /\ store \in [valid : BOOLEAN, entries : SUBSET Record, mtime : -1..MaxNow, lastPoll : 0..MaxNow]
    BY PollTypes
  <1>2. CASE Due
    <2>1. /\ store'.lastPoll = now /\ store'.mtime = store.mtime /\ store'.valid = store.valid
          /\ store'.entries = store.entries
          /\ auth'.at = "stat" /\ answer' = NoAnswer /\ UNCHANGED <<now, file, command>>
      BY <1>1, <1>2 DEF Authenticate, NotAsked
    <2>2. ~Looking'
      BY <2>1 DEF Looking
    <2>3. Stamped' /\ SameTime'
      BY <2>1, <2>2, StampsKept
    <2>4. Answered'
      BY <2>1 DEF Answered, NoAnswer
    <2>5. now' < store'.lastPoll + PollInterval /\ store'.lastPoll <= now'
      BY <1>1, <2>1
    <2> QED
      BY <2>1, <2>2, <2>3, <2>4, <2>5 DEF PollInv
  <1>3. CASE ~Due
    <2>1. Respond(store, key) /\ auth.at = "idle"
      BY <1>3 DEF Authenticate
    <2>2. now < store.lastPoll + PollInterval
      BY <1>1, <1>3 DEF Due
    <2>3. Stamped' /\ SameTime'
      BY <2>1, StampsKept DEF Respond, NotAsked, Looking
    <2> QED
      BY <1>1, <2>1, <2>2, <2>3, AnswersInStep DEF PollInv
  <1> QED
    BY <1>2, <1>3

\* The cache is given up: every key is refused, so none may be listed, or one
\* of the modes is open.
LEMMA PollGivesUp ==
    ASSUME KeysInv, PollInv, auth.at # "idle", Respond(MarkInvalid, auth.key),
           AcceptsListed(MarkInvalid) \/ Exposed(MarkInvalid)
    PROVE  PollInv'
  <1>1. /\ store \in [valid : BOOLEAN, entries : SUBSET Record, mtime : -1..MaxNow, lastPoll : 0..MaxNow]
        /\ auth.key \in Keys \cup {NoKey} /\ now \in Nat
        /\ \A c \in Commands : command[c].mtime \in Nat
    BY PollTypes
  <1>2. MarkInvalid.valid = FALSE /\ MarkInvalid.entries = {} /\ MarkInvalid.mtime = -1
        /\ MarkInvalid.lastPoll = store.lastPoll
    BY <1>1 DEF MarkInvalid
  <1>3. InStep(MarkInvalid)
    BY <1>2 DEF InStep
  <1>4. store' = MarkInvalid /\ ~Looking' /\ UNCHANGED <<now, file, command>>
    BY DEF Respond, NotAsked, Looking
  <1>5. Stamped'
    BY <1>1, <1>2, <1>4 DEF PollInv, Stamped
  <1>6. SameTime'
    BY <1>2, <1>4 DEF SameTime
  <1> QED
    BY <1>1, <1>2, <1>3, <1>5, <1>6, AnswersInStep DEF PollInv

\* A file that lists no key is in step with a cache given up.
LEMMA NoneAccepted ==
    ASSUME KeysInv, \A key \in Keys : ~Lists(file, key)
    PROVE  AcceptsListed(MarkInvalid)
  <1>1. store \in [valid : BOOLEAN, entries : SUBSET Record, mtime : -1..MaxNow, lastPoll : 0..MaxNow]
    BY PollTypes
  <1>2. MarkInvalid.valid = FALSE
    BY <1>1 DEF MarkInvalid
  <1> QED
    BY <1>2 DEF AcceptsListed, Accepts

\* What stat says of the file is believed: an equal time for equal contents.
LEMMA PollStats == ASSUME KeysInv, PollInv, Stat PROVE PollInv'
  <1>1. /\ auth.key \in Keys \cup {NoKey} /\ now \in Nat /\ file.mtime \in Nat
        /\ file.is.records \in SUBSET Record
        /\ file.is.kind \in {"missing", "empty", "corrupt", "records"}
        /\ (store.valid <=> store.entries # {}) /\ store.lastPoll \in Nat
        /\ store \in [valid : BOOLEAN, entries : SUBSET Record, mtime : -1..MaxNow, lastPoll : 0..MaxNow]
        /\ auth \in AuthRecord
    BY PollTypes
  <1>2. auth.at = "stat" /\ now < store.lastPoll + PollInterval
    BY DEF Stat, PollInv
  <1>3. file.is.kind # "records" => file.is.records = {}
    BY DEF KeysInv
  <1>4. ASSUME file.is.kind \in {"missing", "empty"} PROVE \A key \in Keys : ~Lists(file, key)
    BY <1>4 DEF Lists
  <1>5. CASE (file.is.kind = "missing" \/ ~file.private) /\ Respond(MarkInvalid, auth.key)
    <2>1. AcceptsListed(MarkInvalid) \/ Exposed(MarkInvalid)
      BY <1>4, <1>5, NoneAccepted DEF Exposed
    <2> QED
      BY <1>2, <1>5, <2>1, PollGivesUp
  <1>6. CASE /\ file.is.kind # "missing" /\ file.private
             /\ Observe([auth EXCEPT !.at = "dir", !.mtime = file.mtime, !.empty = file.is.kind = "empty"])
    <2>1. /\ auth'.at = "dir" /\ auth'.mtime = file.mtime /\ (auth'.empty <=> file.is.kind = "empty")
          /\ answer' = NoAnswer
          /\ UNCHANGED <<now, file, dirPrivate, command, store, listedAt, modeAt>>
      BY <1>1, <1>6 DEF Observe, AuthRecord
    <2>2. Stamped'
      BY <1>6, <2>1 DEF PollInv, Stamped, Looking
    <2>3. SameTime'
      BY <2>1 DEF PollInv, SameTime
    <2>4. Answered'
      BY <2>1 DEF Answered, NoAnswer
    <2>5. FileClosed(store)'
      BY <1>6, <2>1 DEF FileClosed
    <2>6. ASSUME auth'.empty PROVE AcceptsListed(MarkInvalid)'
      <3>1. AcceptsListed(MarkInvalid)
        BY <1>4, <2>1, <2>6, NoneAccepted
      <3> QED
        BY <2>1, <3>1 DEF AcceptsListed, Accepts, Lists, MarkInvalid
    <2>7. ASSUME ~auth'.empty, Unchanged' PROVE AcceptsListed(store)'
      <3>1. store.valid /\ file.mtime = store.mtime /\ file.is.kind \notin {"missing", "empty"}
        BY <1>6, <2>1, <2>7 DEF Unchanged
      <3>2. file.is.records = store.entries
        BY <3>1 DEF PollInv, SameTime
      <3>3. file.is.kind = "records"
        BY <1>1, <1>3, <3>1, <3>2
      <3>4. AcceptsListed(store)
        BY <3>1, <3>2, <3>3 DEF AcceptsListed, Accepts, Lists
      <3> QED
        BY <2>1, <3>4 DEF AcceptsListed, Accepts, Lists
    <2>8. StatSound'
      BY <2>6, <2>7 DEF StatSound
    <2>9. store'.lastPoll <= now' /\ now' < store'.lastPoll + PollInterval
      BY <1>2, <2>1 DEF PollInv
    <2> QED
      BY <2>1, <2>2, <2>3, <2>4, <2>5, <2>8, <2>9 DEF PollInv
  <1> QED
    BY <1>5, <1>6 DEF Stat

\* The mode of the directory is looked at next; what the stat said of the file
\* is as good as it was.
LEMMA PollStatsDir == ASSUME KeysInv, PollInv, StatDir PROVE PollInv'
  <1>1. /\ store.entries \subseteq Record /\ auth.key \in Keys \cup {NoKey} /\ now \in Nat
        /\ store \in [valid : BOOLEAN, entries : SUBSET Record, mtime : -1..MaxNow, lastPoll : 0..MaxNow]
        /\ auth \in AuthRecord /\ auth.empty \in BOOLEAN
    BY PollTypes
  <1>2. /\ auth.at = "dir" /\ now < store.lastPoll + PollInterval
        /\ FileClosed(store) /\ StatSound /\ Looking
    BY DEF StatDir, PollInv, Looking
  <1>3. CASE (~dirPrivate \/ auth.empty) /\ Respond(MarkInvalid, auth.key)
    <2>1. AcceptsListed(MarkInvalid) \/ Exposed(MarkInvalid)
      BY <1>2, <1>3 DEF StatSound, Exposed
    <2> QED
      BY <1>2, <1>3, <2>1, PollGivesUp
  <1>4. CASE dirPrivate /\ ~auth.empty /\ Unchanged /\ Respond(store, auth.key)
    <2>1. InStep(store)
      BY <1>2, <1>4 DEF StatSound, InStep, DirClosed
    <2>2. Stamped' /\ SameTime'
      BY <1>4, StampsKept DEF Respond, NotAsked, Looking
    <2> QED
      BY <1>1, <1>2, <1>4, <2>1, <2>2, AnswersInStep
  <1>5. CASE dirPrivate /\ Observe([auth EXCEPT !.at = "read"])
    <2>1. /\ auth'.at = "read" /\ auth'.mtime = auth.mtime /\ answer' = NoAnswer
          /\ UNCHANGED <<now, file, dirPrivate, command, store, listedAt, modeAt>>
      BY <1>1, <1>5 DEF Observe, AuthRecord
    <2>2. Stamped' /\ SameTime'
      BY <1>2, <2>1, StampsKept
    <2>3. Answered'
      BY <2>1 DEF Answered, NoAnswer
    <2>4. FileClosed(store)' /\ DirClosed(store)'
      BY <1>2, <1>5, <2>1 DEF FileClosed, DirClosed
    <2>5. store'.lastPoll <= now' /\ now' < store'.lastPoll + PollInterval
      BY <1>2, <2>1 DEF PollInv
    <2> QED
      BY <2>1, <2>2, <2>3, <2>4, <2>5 DEF PollInv
  <1> QED
    BY <1>3, <1>4, <1>5 DEF StatDir

\* What is read may be newer than the stat: it is cached under the time of the
\* stat, so that the next poll reads again.
LEMMA PollReads == ASSUME KeysInv, PollInv, Read PROVE PollInv'
  <1>1. /\ auth.key \in Keys \cup {NoKey} /\ file.is.records \in SUBSET Record
        /\ store \in [valid : BOOLEAN, entries : SUBSET Record, mtime : -1..MaxNow, lastPoll : 0..MaxNow]
    BY PollTypes
  <1>2. /\ auth.at = "read" /\ Looking /\ now < store.lastPoll + PollInterval
        /\ FileClosed(store) /\ DirClosed(store)
    BY DEF Read, PollInv, Looking
  <1>3. file.is.kind # "records" => file.is.records = {}
    BY DEF KeysInv
  <1>4. CASE file.is.records = {}
    <2>1. \A key \in Keys : ~Lists(file, key)
      BY <1>4 DEF Lists, KeysOf
    <2> QED
      BY <1>2, <1>4, <2>1, NoneAccepted, PollGivesUp DEF Read
  <1>5. CASE file.is.records # {}
    <2>1. Respond(Loaded, auth.key)
      BY <1>5 DEF Read
    <2>2. Loaded.valid = TRUE /\ Loaded.entries = file.is.records /\ Loaded.mtime = auth.mtime
          /\ Loaded.lastPoll = store.lastPoll
      BY <1>1 DEF Loaded
    <2> HIDE DEF Loaded
    <2>3. InStep(Loaded)
      BY <1>2, <1>3, <1>5, <2>2 DEF InStep, AcceptsListed, Accepts, Lists, FileClosed, DirClosed
    <2>4. store' = Loaded /\ ~Looking' /\ UNCHANGED <<now, file, command>>
      BY <2>1 DEF Respond, NotAsked, Looking
    <2>5. Stamped'
      BY <1>2, <2>2, <2>4 DEF PollInv, Stamped
    <2>6. SameTime'
      BY <2>2, <2>4 DEF SameTime
    <2>7. Loaded.entries \subseteq Record /\ now < Loaded.lastPoll + PollInterval
      BY <1>1, <1>2, <2>2
    <2> QED
      BY <1>1, <2>1, <2>2, <2>3, <2>5, <2>6, <2>7, AnswersInStep
  <1> QED
    BY <1>4, <1>5

\* Every step preserves the invariant, when no two writes share a timestamp.
LEMMA PollStep == ASSUME Granule = 1 PROVE KeysInv /\ PollInv /\ [Next]_vars => PollInv'
  <1> SUFFICES ASSUME KeysInv, PollInv, [Next]_vars PROVE PollInv'
    OBVIOUS
  <1>1. file \in Files /\ dirPrivate \in BOOLEAN /\ command \in [Commands -> CommandRecord]
        /\ file.private \in BOOLEAN
    BY FileParts DEF KeysInv, TypeOK, CommandRecord
  <1>2. ASSUME UNCHANGED <<file, dirPrivate, listedAt, modeAt, store, auth>>, answer' = NoAnswer,
               now' = now \/ (MayTick /\ now' = now + 1),
               \A d \in Commands : command'[d].at = "written" => command'[d] = command[d]
        PROVE  PollInv'
    <2>1. Becomes(file, dirPrivate)
      BY <1>2, BecomesItself
    <2>2. Stamped' /\ SameTime'
      BY <1>2, FewerWait DEF Looking
    <2> QED
      BY <1>1, <1>2, <2>1, <2>2, OutsideStore
  <1>3. CASE Tick
    BY <1>2, <1>3 DEF Tick
  <1>4. ASSUME NEW c \in Commands, NEW label \in Labels, Add(c, label) PROVE PollInv'
    <2>1. \A d \in Commands : command'[d].at = "written" => command'[d] = command[d]
      BY <1>1, <1>4 DEF Add, Proceed
    <2> QED
      BY <1>2, <1>4, <2>1 DEF Add, Proceed
  <1>5. ASSUME NEW c \in Commands, NEW record \in file.is.records, Revoke(c, record) PROVE PollInv'
    <2>1. \A d \in Commands : command'[d].at = "written" => command'[d] = command[d]
      BY <1>1, <1>5 DEF Revoke, Proceed
    <2> QED
      BY <1>2, <1>5, <2>1 DEF Revoke, Proceed
  <1>6. ASSUME NEW c \in Commands, Report(c) \/ Crash(c) PROVE PollInv'
    <2>1. \A d \in Commands : command'[d].at = "written" => command'[d] = command[d]
      BY <1>1, <1>6 DEF Report, Crash, NotRunning
    <2> QED
      BY <1>2, <1>6, <2>1 DEF Report, Crash
  <1>7. ASSUME NEW c \in Commands, WriteTemp(c) PROVE PollInv'
    <2>1. Stamped' /\ SameTime'
      BY <1>7, StampWritten
    <2>2. Becomes(file, TRUE) /\ TRUE \in BOOLEAN
      BY <1>7 DEF WriteTemp
    <2>3. UNCHANGED <<store, auth>> /\ answer' = NoAnswer /\ MayTick /\ now' = now + 1
      BY <1>7 DEF WriteTemp
    <2> QED
      BY <1>1, <2>1, <2>2, <2>3, OutsideStore
  <1>8. ASSUME NEW c \in Commands, Rename(c) PROVE PollInv'
    <2>1. Stamped' /\ SameTime'
      BY <1>8, StampRenamed
    <2>2. PICK f \in Files : Becomes(f, dirPrivate)
      BY <1>1, <1>8, ContentsTyped DEF Rename, CommandRecord
    <2>3. UNCHANGED <<store, auth, now>> /\ answer' = NoAnswer
      BY <1>8 DEF Rename
    <2> QED
      BY <1>1, <2>1, <2>2, <2>3, OutsideStore
  <1>9. ASSUME NEW kind \in HandEdits, Damage(kind) PROVE PollInv'
    <2>1. Stamped' /\ SameTime'
      BY <1>9, StampDamaged
    <2>2. PICK f \in Files : Becomes(f, dirPrivate)
      <3>1. file' \in Files /\ file' = [is |-> Contents(kind, {}), private |-> file.private, mtime |-> Stamp]
        BY <1>9, StepTyped DEF KeysInv, Next, Damage, Becomes
      <3> QED
        BY <1>9, <3>1 DEF Damage
    <2>3. UNCHANGED <<store, auth>> /\ answer' = NoAnswer /\ MayTick /\ now' = now + 1
      BY <1>9 DEF Damage
    <2> QED
      BY <1>1, <2>1, <2>2, <2>3, OutsideStore
  <1>10. CASE Chmod
    <2>1. PICK f \in Files, private \in BOOLEAN : Becomes(f, private)
                  /\ f.is = file.is /\ f.mtime = file.mtime
      <3>1. [file EXCEPT !.private = ~@] \in Files /\ (~dirPrivate) \in BOOLEAN
        BY <1>1 DEF Files
      <3>2. [file EXCEPT !.private = ~@].is = file.is /\ [file EXCEPT !.private = ~@].mtime = file.mtime
        BY <1>1 DEF Files
      <3> QED
        BY <1>1, <1>10, <3>1, <3>2 DEF Chmod
    <2>2. UNCHANGED <<store, auth, now, command>> /\ answer' = NoAnswer
      BY <1>10 DEF Chmod
    <2>3. file'.is = file.is /\ file'.mtime = file.mtime
      BY <2>1 DEF Becomes
    <2>4. Stamped' /\ SameTime'
      BY <2>2, <2>3, FewerWait DEF Looking
    <2> QED
      BY <1>1, <2>1, <2>2, <2>4, OutsideStore
  <1>11. ASSUME NEW key \in Keys, Authenticate(key) PROVE PollInv'
    BY <1>11, PollBegins
  <1>12. CASE Stat
    BY <1>12, PollStats
  <1>13. CASE Read
    BY <1>13, PollReads
  <1>15. CASE StatDir
    BY <1>15, PollStatsDir
  <1>14. CASE UNCHANGED vars
    <2>1. UNCHANGED <<now, file, dirPrivate, command, store, auth, answer, listedAt, modeAt>>
      BY <1>14 DEF vars
    <2>2. Stamped' /\ SameTime'
      BY <2>1, FewerWait DEF Looking
    <2>3. /\ InStep(store)' <=> InStep(store)
          /\ FileClosed(store)' <=> FileClosed(store)
          /\ DirClosed(store)' <=> DirClosed(store)
      BY <2>1 DEF InStep, AcceptsListed, Accepts, Lists, FileClosed, DirClosed, Exposed
    <2>4. (StatSound' <=> StatSound) /\ (Looking' <=> Looking)
      BY <2>1 DEF StatSound, AcceptsListed, Accepts, Lists, MarkInvalid, Unchanged, Looking
    <2>5. Answered'
      BY <2>1 DEF PollInv, Answered, Accepts
    <2> QED
      BY <2>1, <2>2, <2>3, <2>4, <2>5 DEF PollInv
  <1> QED
    BY <1>3, <1>4, <1>5, <1>6, <1>7, <1>8, <1>9, <1>10, <1>11, <1>12, <1>13, <1>14, <1>15 DEF Next, Command

\* What the holder of a key is told follows the file and its modes within one
\* poll interval, on a filesystem that gives every write a time of its own:
\* the store takes an equal time for equal contents (reloadLocked, keys.go).
THEOREM AnswersFollowFile == ASSUME Granule = 1 PROVE Spec => []InStepWithFile
  <1>1. KeysInv /\ PollInv => InStepWithFile
    <2> SUFFICES ASSUME KeysInv, PollInv PROVE InStepWithFile
      OBVIOUS
    <2>1. /\ now \in Nat /\ store.lastPoll \in Nat /\ PollInterval \in Nat \ {0}
          /\ modeAt.file \in Nat /\ modeAt.dir \in Nat
          /\ \A key \in Keys : listedAt[key] \in Nat
      BY PollTypes
    <2>2. CASE answer.key = NoKey
      BY <2>2, KeyNumbers DEF PollInv, Answered, InStepWithFile
    <2>3. CASE answer.key # NoKey
      <3>1. InStep(store) /\ now < store.lastPoll + PollInterval /\ (answer.ok <=> Accepts(store, answer.key))
        BY <2>3 DEF PollInv, Answered
      <3>2. answer.key \in Keys
        BY <2>3 DEF KeysInv, TypeOK
      <3>3. \A t \in Nat : t >= store.lastPoll => Recent(t)
        BY <2>1, <3>1 DEF Recent
      <3>4. answer.ok => /\ file.private \/ Recent(modeAt.file)
                         /\ dirPrivate \/ Recent(modeAt.dir)
        BY <2>1, <3>1, <3>3 DEF InStep, Accepts, FileClosed, DirClosed
      <3>5. answer.ok => Lists(file, answer.key) \/ Recent(listedAt[answer.key])
        BY <2>1, <3>1, <3>2, <3>3 DEF InStep, AcceptsListed, Accepts
      <3>6. ~answer.ok => \/ ~Lists(file, answer.key) \/ Recent(listedAt[answer.key])
                          \/ ~file.private \/ Recent(modeAt.file)
                          \/ ~dirPrivate \/ Recent(modeAt.dir)
        BY <2>1, <3>1, <3>2, <3>3 DEF InStep, AcceptsListed, Exposed
      <3> QED
        BY <3>4, <3>5, <3>6 DEF InStepWithFile
    <2> QED
      BY <2>2, <2>3
  <1>2. KeysInv /\ PollInv /\ [Next]_vars => PollInv'
    BY PollStep
  <1> QED
    BY <1>1, <1>2, KeysInvariance, InitPoll, PTL DEF Spec
=============================================================================
