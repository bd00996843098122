----------------------------- MODULE FileLedger -----------------------------
(***************************************************************************)
(* Hash-chained ledgers kept in one JSON file: createFileSovereigntyLedger *)
(* (packages/sovereignty-ledger/src/index.ts) and createLawOfLawsLedger    *)
(* with its file adapter (packages/meta-constitutional-calculus/src/       *)
(* index.ts), which have the same code.  A ledger object reads the file    *)
(* when it is made, keeps the entries in memory and writes all of them at  *)
(* every append.                                                           *)
(*                                                                         *)
(* An append is synchronous: one step, in which the write may fail before  *)
(* or after it has truncated the file, or the process may end.             *)
(*                                                                         *)
(* SharedSpec: any number of objects are made on the file.  ExclusiveSpec: *)
(* one is made only when there is none.                                    *)
(***************************************************************************)
EXTENDS Naturals, Sequences

CONSTANTS
    Instance,    \* ledger objects, of one process or of several
    Payload,
    Volatile,    \* payloads JSON does not bring back as they were (undefined, a Date)
    Flat,        \* what it brings back for them
    MaxAppends   \* bound: appends

ASSUME LedgerAssumption ==
    /\ Volatile \subseteq Payload
    /\ Flat \in Payload \ Volatile
    /\ MaxAppends \in Nat

\* Hashes are taken to be free of collisions, so a hash is all that went into
\* it; along a chain that is a sequence.  The empty one is the null before the
\* first entry.
Hash == Seq(Nat \X Payload)

HashEntry(sequence, payload, previousHash) == Append(previousHash, <<sequence, payload>>)

Entry == [sequence : Nat, payload : Payload, previousHash : Hash, entryHash : Hash]

VARIABLES
    disk,      \* "absent", "torn" (not JSON) or "whole"
    file,      \* the entries a reader finds in a whole file
    live,      \* the objects that exist
    memory,    \* the entries of each
    returned,  \* the entries append has returned
    appends

vars == <<disk, file, live, memory, returned, appends>>

TypeOK ==
    /\ disk \in {"absent", "torn", "whole"}
    /\ file \in Seq(Entry)
    /\ live \subseteq Instance
    /\ memory \in [Instance -> Seq(Entry)]
    /\ returned \subseteq Entry
    /\ appends \in 0 .. MaxAppends

Init == /\ disk = "absent" /\ file = <<>>
        /\ live = {} /\ memory = [i \in Instance |-> <<>>]
        /\ returned = {}
        /\ appends = 0
-----------------------------------------------------------------------------
\* Mutant: the hash of the first entry.
FirstHash(entries) == IF entries = <<>> THEN <<>> ELSE entries[1].entryHash

LastHash(entries) == IF entries = <<>> THEN <<>> ELSE entries[Len(entries)].entryHash

\* Mutant: sequences count from zero.
EntryFromZero(entries, p) ==
    [sequence     |-> Len(entries),
     payload      |-> p,
     previousHash |-> LastHash(entries),
     entryHash    |-> HashEntry(Len(entries), p, LastHash(entries))]

NextEntry(entries, p) ==
    [sequence     |-> Len(entries) + 1,
     payload      |-> p,
     previousHash |-> LastHash(entries),
     entryHash    |-> HashEntry(Len(entries) + 1, p, LastHash(entries))]

\* What JSON.parse makes of an entry that JSON.stringify wrote.
Reread(e) == IF e.payload \in Volatile THEN [e EXCEPT !.payload = Flat] ELSE e

RereadAll(entries) == [n \in DOMAIN entries |-> Reread(entries[n])]

writeEntries(entries) == disk' = "whole" /\ file' = RereadAll(entries)

\* writeFileSync fails on its way: before the file is opened, or after that has
\* emptied it.
WriteFails == \/ UNCHANGED <<disk, file>>
              \/ disk' = "torn" /\ file' = <<>>

\* Mutant: the file is not read.
readEntriesNot == <<>>

\* On a torn file JSON.parse throws, and no object is made.
readEntries == file

Open(i) == /\ i \notin live /\ disk # "torn"
           /\ live' = live \cup {i}
           /\ memory' = [memory EXCEPT ![i] = readEntries]
           /\ UNCHANGED <<disk, file, returned, appends>>

Count == appends < MaxAppends /\ appends' = appends + 1

\* append: the entry is pushed before it is written, and stays when the write
\* throws.
append(i, p) ==
    LET e == NextEntry(memory[i], p)
        entries == Append(memory[i], e)
    IN
    /\ i \in live
    /\ Count
    /\ memory' = [memory EXCEPT ![i] = entries]
    /\ \/ /\ writeEntries(entries)
          /\ returned' = returned \cup {e}
       \/ /\ WriteFails
          /\ UNCHANGED returned
    /\ UNCHANGED live

\* The process of an object ends, between two appends or in one.
Exit(i) ==
    /\ i \in live
    /\ live' = live \ {i}
    /\ memory' = [memory EXCEPT ![i] = <<>>]
    /\ \/ UNCHANGED <<disk, file, appends>>
       \/ /\ Count
          /\ \/ WriteFails
             \/ \E p \in Payload : writeEntries(Append(memory[i], NextEntry(memory[i], p)))
    /\ UNCHANGED returned

Use(i) == Exit(i) \/ \E p \in Payload : append(i, p)

SharedNext == \E i \in Instance : Open(i) \/ Use(i)

ExclusiveNext == \E i \in Instance : (live = {} /\ Open(i)) \/ Use(i)

SharedSpec == Init /\ [][SharedNext]_vars
ExclusiveSpec == Init /\ [][ExclusiveNext]_vars
-----------------------------------------------------------------------------
(* Properties of both specifications.                                       *)

\* Every ledger, in memory and on disk, is numbered without gaps and chained
\* from its first entry, whichever objects wrote it and whatever writes failed.
Chained(entries) ==
    \A n \in DOMAIN entries :
        /\ entries[n].sequence = n
        /\ entries[n].previousHash = IF n = 1 THEN <<>> ELSE entries[n - 1].entryHash
        /\ Len(entries[n].entryHash) = n

AlwaysChained == Chained(file) /\ \A i \in Instance : Chained(memory[i])

(* Properties of ExclusiveSpec.                                             *)

\* An entry append has returned is at its sequence in the memory of the object
\* there is, and in the file whenever that can be read, though writes failed and
\* processes ended: only a torn file with no object left, that would write it anew,
\* has lost it (append, readEntries, writeEntries; sovereigntyLedger.test.ts opens
\* a second ledger on the file after one append).
ReturnedIsKept ==
    \A e \in returned :
        /\ disk # "absent"
        /\ disk = "whole" => e.sequence \in DOMAIN file /\ file[e.sequence] = Reread(e)
        /\ \A i \in live : /\ e.sequence \in DOMAIN memory[i]
                           /\ Reread(memory[i][e.sequence]) = Reread(e)

\* No two entries are returned with one sequence, though an entry whose write
\* threw keeps its place in memory and loses it at a restart.
SequencesUnique == \A e, f \in returned : e.sequence = f.sequence => e = f

(* What the documents claim of the ledgers.                                 *)

\* docs/runtime/Law_Of_Laws_Ledger.md: "This makes the ledger append-only for
\* operator evidence purposes."  What could be read of the file once stays.
Extends(s, t) == Len(s) <= Len(t) /\ \A n \in DOMAIN s : t[n] = s[n]

AppendOnly == [][disk = "whole" /\ disk' = "whole" => Extends(file, file')]_vars
=============================================================================
