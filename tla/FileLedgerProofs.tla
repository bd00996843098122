--------------------------- MODULE FileLedgerProofs ---------------------------
(* Theorems about FileLedger, for any objects, payloads and number of       *)
(* appends: what holds of any number of objects on the file, and what holds *)
(* when an object is made only while there is no other.                     *)
EXTENDS FileLedger, TLAPS

-----------------------------------------------------------------------------
(* The operators.                                                           *)

LEMMA RereadFacts ==
    ASSUME NEW e \in Entry
    PROVE  /\ Reread(e) \in Entry
           /\ Reread(e).sequence = e.sequence
           /\ Reread(e).previousHash = e.previousHash
           /\ Reread(e).entryHash = e.entryHash
           /\ Reread(e).payload \notin Volatile
           /\ e.payload \notin Volatile => Reread(e) = e
  BY LedgerAssumption DEF Reread, Entry

LEMMA RereadAllFacts ==
    ASSUME NEW s \in Seq(Entry)
    PROVE  /\ RereadAll(s) \in Seq(Entry)
           /\ Len(RereadAll(s)) = Len(s)
           /\ \A n \in 1 .. Len(s) : s[n] \in Entry /\ RereadAll(s)[n] = Reread(s[n])
<1>1. DOMAIN s = 1 .. Len(s) /\ Len(s) \in Nat /\ \A n \in 1 .. Len(s) : s[n] \in Entry
  OBVIOUS
<1>2. \A n \in 1 .. Len(s) : Reread(s[n]) \in Entry
  BY <1>1, RereadFacts
<1>3. RereadAll(s) = [n \in 1 .. Len(s) |-> Reread(s[n])]
  BY <1>1 DEF RereadAll
<1>4. RereadAll(s) \in [1 .. Len(s) -> Entry]
  BY <1>2, <1>3
<1>5. RereadAll(s) \in Seq(Entry) /\ Len(RereadAll(s)) = Len(s)
  BY <1>1, <1>4
<1> QED
  BY <1>1, <1>3, <1>5

LEMMA NextEntryFacts ==
    ASSUME NEW s \in Seq(Entry), NEW p \in Payload
    PROVE  /\ NextEntry(s, p) \in Entry
           /\ NextEntry(s, p).sequence = Len(s) + 1
           /\ NextEntry(s, p).previousHash = LastHash(s)
           /\ Len(NextEntry(s, p).entryHash) = Len(LastHash(s)) + 1
<1>1. LastHash(s) \in Seq(Nat \X Payload)
  <2>1. CASE s = <<>>
    BY <2>1 DEF LastHash
  <2>2. CASE s # <<>>
    <3>1. s[Len(s)] \in Entry
      BY <2>2
    <3> QED BY <2>2, <3>1 DEF LastHash, Entry, Hash
  <2> QED BY <2>1, <2>2
<1>2. HashEntry(Len(s) + 1, p, LastHash(s)) \in Seq(Nat \X Payload)
  <2>1. <<Len(s) + 1, p>> \in Nat \X Payload
    OBVIOUS
  <2> QED BY <1>1, <2>1 DEF HashEntry
<1>3. Len(HashEntry(Len(s) + 1, p, LastHash(s))) = Len(LastHash(s)) + 1
  BY <1>1 DEF HashEntry
<1> QED
  BY <1>1, <1>2, <1>3 DEF NextEntry, Entry, Hash

\* The ledger after an append, in memory and as it is written.
Extended(s, p) == Append(s, NextEntry(s, p))

LEMMA ExtendedFacts ==
    ASSUME NEW s \in Seq(Entry), NEW p \in Payload
    PROVE  /\ Extended(s, p) \in Seq(Entry)
           /\ Len(Extended(s, p)) = Len(s) + 1
           /\ \A n \in 1 .. Len(s) : Extended(s, p)[n] = s[n]
           /\ Extended(s, p)[Len(s) + 1] = NextEntry(s, p)
           /\ RereadAll(Extended(s, p)) \in Seq(Entry)
           /\ Len(RereadAll(Extended(s, p))) = Len(s) + 1
           /\ \A n \in 1 .. Len(s) : RereadAll(Extended(s, p))[n] = Reread(s[n])
           /\ RereadAll(Extended(s, p))[Len(s) + 1] = Reread(NextEntry(s, p))
<1>1. /\ Extended(s, p) \in Seq(Entry)
      /\ Len(Extended(s, p)) = Len(s) + 1
      /\ \A n \in 1 .. Len(s) : Extended(s, p)[n] = s[n]
      /\ Extended(s, p)[Len(s) + 1] = NextEntry(s, p)
  BY NextEntryFacts DEF Extended
<1> HIDE DEF Extended
<1>2. /\ RereadAll(Extended(s, p)) \in Seq(Entry)
      /\ Len(RereadAll(Extended(s, p))) = Len(s) + 1
      /\ \A n \in 1 .. Len(s) + 1 : RereadAll(Extended(s, p))[n] = Reread(Extended(s, p)[n])
  BY <1>1, RereadAllFacts
<1> QED
  BY <1>1, <1>2

LEMMA ChainGrows ==
    ASSUME NEW s \in Seq(Entry), NEW p \in Payload, Chained(s)
    PROVE  Chained(Extended(s, p)) /\ Chained(RereadAll(Extended(s, p)))
<1> DEFINE t == Extended(s, p)
<1>1. Len(LastHash(s)) = Len(s)
  <2>1. CASE s = <<>>
    BY <2>1 DEF LastHash
  <2>2. CASE s # <<>>
    <3>1. Len(s) \in DOMAIN s
      BY <2>2
    <3> QED BY <2>2, <3>1 DEF LastHash, Chained
  <2> QED BY <2>1, <2>2
<1>2. Chained(t)
  <2> SUFFICES ASSUME NEW n \in 1 .. Len(s) + 1
               PROVE  /\ t[n].sequence = n
                      /\ t[n].previousHash = IF n = 1 THEN <<>> ELSE t[n - 1].entryHash
                      /\ Len(t[n].entryHash) = n
    <3>1. DOMAIN t = 1 .. Len(s) + 1
      BY ExtendedFacts
    <3> QED BY <3>1 DEF Chained
  <2>1. CASE n \in 1 .. Len(s)
    <3>1. t[n] = s[n] /\ (n # 1 => t[n - 1] = s[n - 1])
      BY <2>1, ExtendedFacts
    <3>2. n \in DOMAIN s
      BY <2>1
    <3> QED BY <3>1, <3>2 DEF Chained
  <2>2. CASE n = Len(s) + 1
    <3>1. t[n] = NextEntry(s, p) /\ (n # 1 => t[n - 1] = s[Len(s)])
      <4>1. t[n] = NextEntry(s, p)
        BY <2>2, ExtendedFacts
      <4>2. n # 1 => n - 1 = Len(s) /\ Len(s) \in 1 .. Len(s)
        BY <2>2
      <4>3. \A k \in 1 .. Len(s) : t[k] = s[k]
        BY ExtendedFacts
      <4> HIDE DEF t
      <4> QED BY <4>1, <4>2, <4>3
    <3>2. LastHash(s) = IF n = 1 THEN <<>> ELSE s[Len(s)].entryHash
      BY <2>2 DEF LastHash
    <3>3. /\ NextEntry(s, p).sequence = n
          /\ NextEntry(s, p).previousHash = LastHash(s)
          /\ Len(NextEntry(s, p).entryHash) = n
      BY <1>1, <2>2, NextEntryFacts
    <3> HIDE DEF t
    <3> QED BY <3>1, <3>2, <3>3
  <2> QED BY <2>1, <2>2
<1>3. Chained(RereadAll(t))
  <2>1. t \in Seq(Entry)
    BY ExtendedFacts
  <2> HIDE DEF t
  <2>2. DOMAIN t = 1 .. Len(t) /\ DOMAIN RereadAll(t) = 1 .. Len(t)
    BY <2>1, RereadAllFacts
  <2>3. \A n \in 1 .. Len(t) : /\ RereadAll(t)[n].sequence = t[n].sequence
                               /\ RereadAll(t)[n].previousHash = t[n].previousHash
                               /\ RereadAll(t)[n].entryHash = t[n].entryHash
    BY <2>1, RereadAllFacts, RereadFacts
  <2>4. \A n \in 1 .. Len(t) : n # 1 => n - 1 \in 1 .. Len(t)
    BY <2>1
  <2> QED BY <1>2, <2>2, <2>3, <2>4 DEF Chained
<1> QED
  BY <1>2, <1>3
-----------------------------------------------------------------------------
(* Any number of objects.                                                   *)

LEMMA SharedInvariance == SharedSpec => [](TypeOK /\ AlwaysChained)
<1>1. Init => TypeOK /\ AlwaysChained
  BY LedgerAssumption DEF Init, TypeOK, AlwaysChained, Chained
<1>2. TypeOK /\ AlwaysChained /\ [SharedNext]_vars => (TypeOK /\ AlwaysChained)'
  <2> SUFFICES ASSUME TypeOK, AlwaysChained, [SharedNext]_vars
               PROVE  TypeOK' /\ AlwaysChained'
    OBVIOUS
  <2> USE DEF TypeOK, AlwaysChained
  <2>1. ASSUME NEW i \in Instance, Open(i)
        PROVE  TypeOK' /\ AlwaysChained'
    BY <2>1 DEF Open, readEntries
  <2>2. ASSUME NEW i \in Instance, NEW p \in Payload, append(i, p)
        PROVE  TypeOK' /\ AlwaysChained'
    <3> DEFINE t == Extended(memory[i], p)
    <3>1. memory[i] \in Seq(Entry) /\ Chained(memory[i])
      OBVIOUS
    <3>2. /\ t \in Seq(Entry) /\ RereadAll(t) \in Seq(Entry)
          /\ Chained(t) /\ Chained(RereadAll(t))
      BY <3>1, ExtendedFacts, ChainGrows
    <3>3. NextEntry(memory[i], p) \in Entry
      BY <3>1, NextEntryFacts
    <3>4. memory' = [memory EXCEPT ![i] = t] /\ live' = live
      BY <2>2 DEF append, Extended
    <3>5. /\ disk' \in {"absent", "torn", "whole"}
          /\ file' = RereadAll(t) \/ file' = file \/ file' = <<>>
          /\ returned' = returned \cup {NextEntry(memory[i], p)} \/ returned' = returned
      BY <2>2 DEF append, writeEntries, WriteFails, Extended
    <3>6. appends' \in 0 .. MaxAppends
      BY <2>2, LedgerAssumption DEF append, Count
    <3> HIDE DEF t
    <3>7. file' \in Seq(Entry) /\ Chained(file')
      <4>1. <<>> \in Seq(Entry) /\ Chained(<<>>)
        BY DEF Chained
      <4> QED BY <3>2, <3>5, <4>1
    <3>8. memory' \in [Instance -> Seq(Entry)] /\ \A j \in Instance : Chained(memory'[j])
      BY <3>2, <3>4
    <3>9. returned' \subseteq Entry
      BY <3>3, <3>5
    <3> QED BY <3>4, <3>5, <3>6, <3>7, <3>8, <3>9
  <2>3. ASSUME NEW i \in Instance, Exit(i)
        PROVE  TypeOK' /\ AlwaysChained'
    <3>1. /\ memory' = [memory EXCEPT ![i] = <<>>]
          /\ live' \subseteq Instance /\ returned' = returned
      BY <2>3 DEF Exit
    <3>2. memory' \in [Instance -> Seq(Entry)] /\ \A j \in Instance : Chained(memory'[j])
      BY <3>1 DEF Chained
    <3>3. disk' \in {"absent", "torn", "whole"} /\ appends' \in 0 .. MaxAppends
      BY <2>3, LedgerAssumption DEF Exit, Count, writeEntries, WriteFails
    <3>4. \/ file' = file
          \/ file' = <<>>
          \/ \E p \in Payload : file' = RereadAll(Extended(memory[i], p))
      BY <2>3 DEF Exit, writeEntries, WriteFails, Extended
    <3>5. file' \in Seq(Entry) /\ Chained(file')
      <4>1. memory[i] \in Seq(Entry) /\ Chained(memory[i])
        OBVIOUS
      <4>2. \A p \in Payload : /\ RereadAll(Extended(memory[i], p)) \in Seq(Entry)
                               /\ Chained(RereadAll(Extended(memory[i], p)))
        BY <4>1, ExtendedFacts, ChainGrows
      <4>3. <<>> \in Seq(Entry) /\ Chained(<<>>)
        BY DEF Chained
      <4> QED BY <3>4, <4>2, <4>3
    <3> QED BY <3>1, <3>2, <3>3, <3>5
  <2>4. CASE UNCHANGED vars
    BY <2>4 DEF vars, Chained
  <2> QED BY <2>1, <2>2, <2>3, <2>4 DEF SharedNext, Use
<1> QED
  BY <1>1, <1>2, PTL DEF SharedSpec

\* File, memories and returned entries keep their types under any objects.
THEOREM TypeCorrect == SharedSpec => []TypeOK
  BY SharedInvariance, PTL

\* Whatever objects write the file over each other, whichever writes fail and
\* whoever ends, each ledger that can be read is numbered and chained from its
\* first entry.
THEOREM ChainsStayWhole == SharedSpec => []AlwaysChained
  BY SharedInvariance, PTL
-----------------------------------------------------------------------------
(* One object at a time.                                                    *)

\* The part of ReturnedIsKept that is about the file.
ReturnedInFile ==
    disk = "whole" =>
        \A e \in returned : e.sequence \in DOMAIN file /\ file[e.sequence] = Reread(e)

\* What the file and the entries returned are to the object that exists: it
\* has read all of the file and what was returned of it, which JSON no longer
\* changes, and counts on from there.
EInv ==
    /\ TypeOK
    /\ \A i, j \in live : i = j
    /\ disk # "whole" => file = <<>>
    /\ disk = "absent" => returned = {}
    /\ \A n \in 1 .. Len(file) : Reread(file[n]) = file[n]
    /\ \A i \in live : Extends(file, RereadAll(memory[i]))
    /\ \A i \in live, e \in returned : /\ e.sequence \in 1 .. Len(memory[i])
                                       /\ Reread(memory[i][e.sequence]) = Reread(e)
    /\ ReturnedInFile
    /\ SequencesUnique

\* A write of everything the one object holds and one entry more.
LEMMA WriteKeeps ==
    ASSUME EInv, NEW i \in live, NEW p \in Payload,
           disk' = "whole", file' = RereadAll(Extended(memory[i], p))
    PROVE  /\ file' \in Seq(Entry) /\ Len(file') = Len(memory[i]) + 1
           /\ \A n \in 1 .. Len(file') : Reread(file'[n]) = file'[n]
           /\ Extends(file, file')
           /\ file'[Len(memory[i]) + 1] = Reread(NextEntry(memory[i], p))
           /\ \A e \in returned : e.sequence \in DOMAIN file' /\ file'[e.sequence] = Reread(e)
<1> DEFINE s == memory[i]
<1>1. s \in Seq(Entry) /\ Len(s) \in Nat
  BY DEF EInv, TypeOK
<1>2. /\ file' \in Seq(Entry) /\ Len(file') = Len(s) + 1
      /\ \A n \in 1 .. Len(s) : file'[n] = Reread(s[n])
      /\ file'[Len(s) + 1] = Reread(NextEntry(s, p))
  BY <1>1, ExtendedFacts
<1>3. \A n \in 1 .. Len(s) : RereadAll(s)[n] = Reread(s[n]) /\ s[n] \in Entry
  BY <1>1, RereadAllFacts
<1>4. NextEntry(s, p) \in Entry
  BY <1>1, NextEntryFacts
<1>5. \A e \in Entry : Reread(Reread(e)) = Reread(e)
  BY RereadFacts
<1>6. \A n \in 1 .. Len(file') : Reread(file'[n]) = file'[n]
  <2> SUFFICES ASSUME NEW n \in 1 .. Len(s) + 1 PROVE Reread(file'[n]) = file'[n]
    BY <1>2
  <2>1. n \in 1 .. Len(s) \/ n = Len(s) + 1
    BY <1>1
  <2> QED BY <1>2, <1>3, <1>4, <1>5, <2>1
<1>7. Extends(file, file')
  <2>1. Extends(file, RereadAll(s)) /\ file \in Seq(Entry)
    BY DEF EInv, TypeOK
  <2>2. Len(RereadAll(s)) = Len(s)
    BY <1>1, RereadAllFacts
  <2>3. Len(file) <= Len(s) /\ DOMAIN file = 1 .. Len(file) /\ Len(file) \in Nat
    BY <2>1, <2>2 DEF Extends
  <2>4. \A n \in 1 .. Len(file) : n \in 1 .. Len(s) /\ RereadAll(s)[n] = file[n]
    BY <1>1, <2>1, <2>3 DEF Extends
  <2>5. Len(file) <= Len(file')
    BY <1>1, <1>2, <2>3
  <2> QED BY <1>2, <1>3, <2>3, <2>4, <2>5 DEF Extends
<1>8. \A e \in returned : e.sequence \in DOMAIN file' /\ file'[e.sequence] = Reread(e)
  <2> SUFFICES ASSUME NEW e \in returned
               PROVE  e.sequence \in DOMAIN file' /\ file'[e.sequence] = Reread(e)
    OBVIOUS
  <2>1. e.sequence \in 1 .. Len(s) /\ Reread(s[e.sequence]) = Reread(e)
    BY DEF EInv
  <2>2. DOMAIN file' = 1 .. Len(s) + 1
    BY <1>1, <1>2
  <2> QED BY <1>1, <1>2, <2>1, <2>2
<1> QED
  BY <1>2, <1>6, <1>7, <1>8

\* A write that fails leaves the file or tears it.
LEMMA FailKeeps ==
    ASSUME EInv, WriteFails
    PROVE  /\ disk' # "whole" => file' = <<>>
           /\ disk' = "absent" => disk = "absent"
           /\ disk' = "whole" => disk = "whole" /\ file' = file
           /\ file' = file \/ file' = <<>>
  BY DEF EInv, WriteFails

LEMMA ExclusiveStep ==
    ASSUME EInv, TypeOK', [ExclusiveNext]_vars
    PROVE  EInv' /\ (disk = "whole" /\ disk' = "whole" => Extends(file, file'))
<1> DEFINE Goal == EInv' /\ (disk = "whole" /\ disk' = "whole" => Extends(file, file'))
<1>t. /\ file \in Seq(Entry) /\ memory \in [Instance -> Seq(Entry)] /\ live \subseteq Instance
      /\ returned \subseteq Entry
      /\ DOMAIN file = 1 .. Len(file) /\ Len(file) \in Nat
      /\ Extends(file, file)
  BY DEF EInv, TypeOK, Extends
<1>1. ASSUME NEW i \in Instance, live = {}, Open(i)
      PROVE  Goal
  <2>1. /\ live' = {i} /\ memory'[i] = file
        /\ disk' = disk /\ file' = file /\ returned' = returned
        /\ disk # "torn" /\ disk \in {"absent", "torn", "whole"}
    BY <1>t, <1>1 DEF Open, readEntries, EInv, TypeOK
  <2>2. Extends(file, RereadAll(file))
    BY <1>t, RereadAllFacts DEF EInv, Extends
  <2>3. \A e \in returned : /\ e.sequence \in 1 .. Len(file)
                           /\ Reread(file[e.sequence]) = Reread(e)
    <3>1. CASE disk = "absent"
      BY <3>1 DEF EInv
    <3>2. CASE disk = "whole"
      BY <1>t, <3>2 DEF EInv, ReturnedInFile
    <3> QED BY <2>1, <3>1, <3>2
  <2>4. ReturnedInFile' /\ SequencesUnique'
    BY <2>1 DEF EInv, ReturnedInFile, SequencesUnique
  <2> QED BY <1>t, <2>1, <2>2, <2>3, <2>4 DEF EInv
<1>2. ASSUME NEW i \in Instance, NEW p \in Payload, append(i, p)
      PROVE  Goal
  <2> DEFINE s == memory[i]
             e == NextEntry(s, p)
             t == Extended(s, p)
  <2>1. /\ i \in live /\ live' = live /\ live = {i}
        /\ memory'[i] = t /\ s \in Seq(Entry) /\ Len(s) \in Nat
    BY <1>t, <1>2 DEF append, Extended, EInv
  <2>2. /\ t \in Seq(Entry) /\ Len(t) = Len(s) + 1
        /\ \A n \in 1 .. Len(s) : t[n] = s[n]
        /\ t[Len(s) + 1] = e
    BY <2>1, ExtendedFacts
  <2>3. e \in Entry /\ e.sequence = Len(s) + 1
    BY <2>1, NextEntryFacts
  <2>4. \A f \in returned : /\ f.sequence \in 1 .. Len(s)
                           /\ Reread(s[f.sequence]) = Reread(f)
    BY <2>1 DEF EInv
  <2>5. \A f \in returned \cup {e} : /\ f.sequence \in 1 .. Len(t)
                                    /\ Reread(t[f.sequence]) = Reread(f)
    BY <2>1, <2>2, <2>3, <2>4
  <2>6. \A f, g \in returned \cup {e} : f.sequence = g.sequence => f = g
    <3>1. \A f \in returned : f.sequence # e.sequence
      BY <2>1, <2>3, <2>4
    <3> QED BY <3>1 DEF EInv, SequencesUnique
  <2>7. CASE writeEntries(t) /\ returned' = returned \cup {e}
    <3>1. disk' = "whole" /\ file' = RereadAll(t)
      BY <2>7 DEF writeEntries
    <3>2. /\ file' \in Seq(Entry) /\ Len(file') = Len(s) + 1
          /\ \A n \in 1 .. Len(file') : Reread(file'[n]) = file'[n]
          /\ Extends(file, file')
          /\ file'[Len(s) + 1] = Reread(e)
          /\ \A f \in returned : f.sequence \in DOMAIN file' /\ file'[f.sequence] = Reread(f)
      BY <2>1, <3>1, WriteKeeps
    <3>3. e.sequence \in DOMAIN file' /\ file'[e.sequence] = Reread(e)
      BY <2>1, <2>3, <3>2
    <3>4. ReturnedInFile' /\ SequencesUnique'
      BY <2>6, <2>7, <3>2, <3>3 DEF ReturnedInFile, SequencesUnique
    <3>5. Extends(file', RereadAll(memory'[i]))
      BY <2>1, <3>1, <3>2 DEF Extends
    <3> HIDE DEF e, t
    <3> QED BY <2>1, <2>5, <2>7, <3>1, <3>2, <3>4, <3>5 DEF EInv
  <2>8. CASE WriteFails /\ returned' = returned
    <3>1. /\ disk' # "whole" => file' = <<>>
          /\ disk' = "absent" => disk = "absent"
          /\ disk' = "whole" => disk = "whole" /\ file' = file
          /\ file' = file \/ file' = <<>>
      BY <2>8, FailKeeps
    <3>2. Extends(file, RereadAll(t))
      <4>1. Extends(file, RereadAll(s))
        BY <2>1 DEF EInv
      <4>2. /\ Len(RereadAll(s)) = Len(s) /\ Len(RereadAll(t)) = Len(s) + 1
            /\ \A n \in 1 .. Len(s) : RereadAll(t)[n] = RereadAll(s)[n]
        BY <2>1, ExtendedFacts, RereadAllFacts
      <4> HIDE DEF s, t
      <4> QED BY <1>t, <2>1, <4>1, <4>2 DEF Extends
    <3>3. Extends(file', RereadAll(memory'[i]))
      <4>1. Len(RereadAll(t)) \in Nat
        BY <2>2, RereadAllFacts
      <4>2. Extends(<<>>, RereadAll(t))
        BY <4>1 DEF Extends
      <4> QED BY <2>1, <3>1, <3>2, <4>2
    <3>4. \A n \in 1 .. Len(file') : Reread(file'[n]) = file'[n]
      BY <3>1 DEF EInv
    <3>5. ReturnedInFile' /\ SequencesUnique'
      BY <2>8, <3>1 DEF EInv, ReturnedInFile, SequencesUnique
    <3>6. disk' = "absent" => returned' = {}
      BY <2>8, <3>1 DEF EInv
    <3> HIDE DEF e, t
    <3> QED BY <1>t, <2>1, <2>5, <2>8, <3>1, <3>3, <3>4, <3>5, <3>6 DEF EInv
  <2> QED BY <1>2, <2>7, <2>8 DEF append, Extended
<1>3. ASSUME NEW i \in Instance, Exit(i)
      PROVE  Goal
  <2>1. /\ i \in live /\ live' = {} /\ returned' = returned
        /\ \/ UNCHANGED <<disk, file>>
           \/ WriteFails
           \/ \E p \in Payload : writeEntries(Extended(memory[i], p))
    BY <1>3 DEF Exit, Extended, EInv
  <2>2. CASE UNCHANGED <<disk, file>> \/ WriteFails
    <3>1. /\ disk' # "whole" => file' = <<>>
          /\ disk' = "absent" => disk = "absent"
          /\ disk' = "whole" => disk = "whole" /\ file' = file
          /\ file' = file \/ file' = <<>>
      BY <2>2, FailKeeps DEF EInv
    <3>2. \A n \in 1 .. Len(file') : Reread(file'[n]) = file'[n]
      BY <3>1 DEF EInv
    <3>3. ReturnedInFile' /\ SequencesUnique'
      BY <2>1, <3>1 DEF EInv, ReturnedInFile, SequencesUnique
    <3> QED BY <1>t, <2>1, <3>1, <3>2, <3>3 DEF EInv
  <2>3. ASSUME NEW p \in Payload, writeEntries(Extended(memory[i], p))
        PROVE  Goal
    <3>1. disk' = "whole" /\ file' = RereadAll(Extended(memory[i], p))
      BY <2>3 DEF writeEntries
    <3>2. /\ \A n \in 1 .. Len(file') : Reread(file'[n]) = file'[n]
          /\ Extends(file, file')
          /\ \A f \in returned : f.sequence \in DOMAIN file' /\ file'[f.sequence] = Reread(f)
      BY <2>1, <3>1, WriteKeeps
    <3>3. ReturnedInFile' /\ SequencesUnique'
      BY <2>1, <3>2 DEF EInv, ReturnedInFile, SequencesUnique
    <3> QED BY <2>1, <3>1, <3>2, <3>3 DEF EInv
  <2> QED BY <2>1, <2>2, <2>3
<1>4. CASE UNCHANGED vars
  BY <1>4, <1>t DEF vars, EInv, ReturnedInFile, SequencesUnique
<1> QED
  BY <1>1, <1>2, <1>3, <1>4 DEF ExclusiveNext, Use

LEMMA ExclusiveInvariance == ExclusiveSpec => []EInv
<1>1. Init => EInv
  BY LedgerAssumption DEF Init, EInv, TypeOK, ReturnedInFile, SequencesUnique
<1>2. ExclusiveNext => SharedNext
  BY DEF ExclusiveNext, SharedNext
<1>3. ExclusiveSpec => SharedSpec
  BY <1>2, PTL DEF ExclusiveSpec, SharedSpec
<1>4. EInv /\ TypeOK' /\ [ExclusiveNext]_vars => EInv'
  BY ExclusiveStep
<1> QED
  BY <1>1, <1>3, <1>4, TypeCorrect, PTL DEF ExclusiveSpec

\* While one object at a time is made on a file, an entry that append returned is in
\* the memory of the object there is and in the file whenever that can be read: it is
\* lost only with a torn file that no object is left to write anew.
THEOREM ReturnedEntriesKept == ExclusiveSpec => []ReturnedIsKept
<1>1. EInv => ReturnedIsKept
  <2> SUFFICES ASSUME EInv, NEW e \in returned
               PROVE  /\ disk # "absent"
                      /\ disk = "whole" => /\ e.sequence \in DOMAIN file
                                           /\ file[e.sequence] = Reread(e)
                      /\ \A i \in live : /\ e.sequence \in DOMAIN memory[i]
                                         /\ Reread(memory[i][e.sequence]) = Reread(e)
    BY DEF ReturnedIsKept
  <2>1. disk # "absent"
    BY DEF EInv
  <2>2. disk = "whole" => e.sequence \in DOMAIN file /\ file[e.sequence] = Reread(e)
    BY DEF EInv, ReturnedInFile
  <2>3. ASSUME NEW i \in live
        PROVE  /\ e.sequence \in DOMAIN memory[i]
               /\ Reread(memory[i][e.sequence]) = Reread(e)
    <3>1. memory[i] \in Seq(Entry)
      BY DEF EInv, TypeOK
    <3>2. DOMAIN memory[i] = 1 .. Len(memory[i])
      BY <3>1
    <3> QED BY <3>2 DEF EInv
  <2> QED BY <2>1, <2>2, <2>3
<1> QED BY <1>1, ExclusiveInvariance, PTL

\* No sequence is returned for two entries, though entries whose write threw
\* may lose theirs at a restart.
THEOREM SequencesAreUnique == ExclusiveSpec => []SequencesUnique
<1>1. EInv => SequencesUnique
  BY DEF EInv
<1> QED BY <1>1, ExclusiveInvariance, PTL

\* The file is only ever appended to, read by read.
THEOREM FileOnlyGrows == ExclusiveSpec => AppendOnly
<1>1. EInv /\ TypeOK' /\ [ExclusiveNext]_vars
        => [disk = "whole" /\ disk' = "whole" => Extends(file, file')]_vars
  BY ExclusiveStep
<1>2. EInv => TypeOK
  BY DEF EInv
<1> QED BY <1>1, <1>2, ExclusiveInvariance, PTL DEF ExclusiveSpec, AppendOnly
=============================================================================
