----------------------------- MODULE MCRouterKeys -----------------------------
(***************************************************************************)
(* Small instances of RouterKeys.                                          *)
(***************************************************************************)
EXTENDS RouterKeys, TLC

\* How long ago t was, as far as Recent can tell.
Age(t) == IF Recent(t) THEN now - t ELSE PollInterval

\* States that differ only in how old the past is, beyond a poll interval, or
\* in what KeysKept no longer speaks of, are the same state.  Every step
\* replaces the answer, so of it only whether it is right matters.
MCView ==
    <<now, file, dirPrivate, command, minted, auth, InStepWithFile, overlapped,
      [store EXCEPT !.lastPoll = Age(@)], [key \in Keys |-> Age(listedAt[key])],
      [of \in {"file", "dir"} |-> Age(modeAt[of])],
      IF overlapped THEN {} ELSE added, IF overlapped THEN {} ELSE revoked>>

\* A command that has only read the file when time runs out cannot write it any
\* more: as if it had been killed.
CanWrite == now = MaxNow => \A c \in Commands : command[c].at # "read"

\* Bound: after the first tick the mode of the file changes, or the directory's.
OneMode == modeAt.file = 0 \/ modeAt.dir = 0

Symmetry == Permutations(Commands)
=============================================================================
