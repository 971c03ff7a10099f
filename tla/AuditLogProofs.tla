--------------------------- MODULE AuditLogProofs ---------------------------
(***************************************************************************)
(* The chain of the audit log for any number of instances and records, all *)
(* faults and both settings of audit.hash_chain mixed.                     *)
(*                                                                         *)
(* The file lock does not protect all of the file: instances without the   *)
(* hash chain, and close(), append without it, and a power loss takes      *)
(* lines away again.  So the invariant is about every prefix of the file   *)
(* that is clean, and not about the file.  The holder of the lock knows    *)
(* the last line as long as the file is clean (Heads); the tip names the   *)
(* last line of every clean prefix a power loss may leave (TipKnown).      *)
(* Whether records are lost in silence needs a ledger of its own, which is *)
(* at the end.                                                             *)
(***************************************************************************)
EXTENDS AuditLog, FiniteSetTheorems, SequenceTheorems, WellFoundedInduction, TLAPS

\* The first n lines parse, are chained, and none of them came late.
CleanIn(f, l, n) ==
    \A j \in 1..n : f[j].whole /\ f[j].chained /\ f[j].id \notin l
Clean(n) == CleanIn(file, late, n)

\* Line n continues the one before it.
Continues(f, n) ==
    IF n = 1 THEN f[n].prev = 0 /\ f[n].seq = 0
    ELSE f[n].prev = f[n - 1].id /\ f[n].seq = f[n - 1].seq + 1

Linked == \A n \in 1..Len(file) : Clean(n) => Continues(file, n)

\* Records in a buffer are late; records in the file, and the late ones, are old; a line
\* without its end does not parse.
LinesOK ==
    /\ \A i \in 1..Len(file) : file[i].id < nextId /\ (file[i].whole => file[i].ended)
    /\ \A p \in Proc : \A i \in 1..Len(buffer[p]) :
           /\ buffer[p][i].id \in late /\ buffer[p][i].id < nextId
           /\ buffer[p][i].ended
    /\ \A i \in late : i < nextId

\* Only an instance with the chain takes the lock.
ChainedOnly == \A p \in Proc : pc[p] \in {"lock", "scan", "tip"} => chain[p]

\* A record that is to be synced is in the file.
Written ==
    \A p \in Proc : pc[p] = "sync" =>
        \E i \in 1..Len(file) : file[i].by = p /\ file[i].ended

\* The records under way and those emitted fit in MaxRecords.
Writers == {p \in Proc : pc[p] \in {"lock", "scan", "flush"}}
Fits == nextId + Cardinality(Writers) <= MaxRecords + 1

\* What the holder of the lock knows of the file.
HeadBefore(p) ==
    pc[p] = "flush" /\ chain[p] /\ Clean(Len(file)) => head[p] = TailState
HeadAfter(p) ==
    pc[p] = "sync" /\ chain[p] /\ Clean(Len(file)) =>
        file[Len(file)].by = p /\ file[Len(file)].seq = head[p].seq
HeadSynced(p) ==
    pc[p] = "tip" =>
        /\ head[p].seq > 0
        /\ \A n \in durable..Len(file) : n > 0 /\ Clean(n) =>
               head[p].prev = file[n].id /\ head[p].seq = file[n].seq + 1
Heads == \A p \in Proc : HeadBefore(p) /\ HeadAfter(p) /\ HeadSynced(p)

TipKnown ==
    ~ interrupted /\ tip # None =>
        \A n \in durable..Len(file) : n > 0 /\ Clean(n) =>
            tip = [prev |-> file[n].id, seq |-> file[n].seq]

IInv ==
    /\ TypeOK /\ LinesOK /\ ChainedOnly /\ Written /\ Fits
    /\ Linked /\ Heads /\ TipKnown

-----------------------------------------------------------------------------
(* Sequences of lines.                                                     *)

\* A set of positions that is not empty has a last one.
LEMMA HasLast ==
    ASSUME NEW n \in Nat, NEW S, S \subseteq 1..n, S # {}
    PROVE  \E i \in S : \A j \in S : j <= i
<1>1. PICK T : T = {n - i : i \in S}
  OBVIOUS
<1>2. T \subseteq Nat /\ T # {}
  <2>1. \A i \in S : n - i \in Nat
    OBVIOUS
  <2>2. \A y \in T : \E i \in S : y = n - i
    BY <1>1
  <2>3. PICK i : i \in S
    OBVIOUS
  <2>4. n - i \in T
    BY <1>1, <2>3
  <2> QED
    BY <2>1, <2>2, <2>4
<1> DEFINE R == OpToRel(<, Nat)
<1>3. IsWellFoundedOn(R, Nat)
  BY NatLessThanWellFounded
<1>4. \A x, y \in Nat : <<y, x>> \in R <=> y < x
  BY DEF OpToRel
<1> HIDE DEF R
<1>5. PICK x \in T : \A y \in T : ~ (<<y, x>> \in R)
  BY <1>2, <1>3, WFMin
<1>6. PICK i \in S : x = n - i
  BY <1>1
<1>7. ASSUME NEW j \in S PROVE j <= i
  <2>1. n - j \in T /\ n - j \in Nat /\ x \in Nat
    BY <1>1, <1>2
  <2>2. ~ (n - j < x)
    BY <1>4, <1>5, <2>1
  <2> QED
    BY <1>6, <2>2
<1> QED
  BY <1>7

\* A line that is glued to the rest of another one.
Spoilt(line) == [line EXCEPT !.whole = FALSE]

\* The bytes of lines behind a line without end: the two become one line.
IsGlued(f, ls, g) ==
    /\ g \in Seq(Line) /\ Len(g) = Len(f) - 1 + Len(ls)
    /\ \A i \in 1..Len(f) - 1 : g[i] = f[i]
    /\ g[Len(f)] = Spoilt(ls[1])
    /\ \A i \in Len(f) + 1..Len(g) : g[i] = ls[i - Len(f) + 1]

LEMMA Glued ==
    ASSUME NEW f \in Seq(Line), NEW ls \in Seq(Line),
           f # <<>>, ~ f[Len(f)].ended, ls # <<>>,
           NEW g, g = Appended(f, ls)
    PROVE  IsGlued(f, ls, g)
<1> DEFINE a == SubSeq(f, 1, Len(f) - 1)
           x == Spoilt(ls[1])
           b == a \o <<x>>
<1>1. Len(f) \in Nat \ {0} /\ Len(ls) \in Nat \ {0}
  BY EmptySeq, LenProperties
<1>2. a \in Seq(Line) /\ Len(a) = Len(f) - 1 /\ \A i \in 1..Len(f) - 1 : a[i] = f[i]
  <2>1. \A i \in 1..Len(f) - 1 : f[i] \in Line
    BY <1>1, ElementOfSeq
  <2>2. /\ a \in Seq(Line)
        /\ Len(a) = IF 1 <= Len(f) - 1 THEN Len(f) - 1 - 1 + 1 ELSE 0
        /\ \A i \in 1..Len(f) - 1 - 1 + 1 : a[i] = f[1 + i - 1]
    BY <1>1, <2>1, SubSeqProperties
  <2> HIDE DEF a
  <2>3. Len(a) = Len(f) - 1
    <3>1. PICK m \in Nat \ {0} : m = Len(f)
      BY <1>1
    <3>2. Len(a) = IF 1 <= m - 1 THEN m - 1 - 1 + 1 ELSE 0
      BY <2>2, <3>1
    <3>3. (IF 1 <= m - 1 THEN m - 1 - 1 + 1 ELSE 0) = m - 1
      OBVIOUS
    <3> QED
      BY <3>1, <3>2, <3>3
  <2>4. ASSUME NEW i \in 1..Len(f) - 1 PROVE a[i] = f[i]
    <3>1. i \in 1..Len(f) - 1 - 1 + 1 /\ 1 + i - 1 = i
      BY <1>1
    <3> QED
      BY <2>2, <3>1
  <2> QED
    BY <2>2, <2>3, <2>4
<1>3. x \in Line
  <2>1. ls[1] \in Line
    BY <1>1, ElementOfSeq
  <2> QED
    BY <2>1 DEF Line, Spoilt
<1>4. Head(ls) = ls[1] /\ Tail(ls) \in Seq(Line) /\ Len(Tail(ls)) = Len(ls) - 1
      /\ \A i \in 1..Len(Tail(ls)) : Tail(ls)[i] = ls[i + 1]
  BY <1>1, HeadTailProperties
<1>5. g = b \o Tail(ls)
  BY <1>4 DEF Appended, Spoilt
<1> HIDE DEF a, x
<1>6. <<x>> \in Seq(Line) /\ Len(<<x>>) = 1 /\ <<x>>[1] = x
  BY <1>3
<1>7. b \in Seq(Line) /\ Len(b) = Len(f)
      /\ \A i \in 1..Len(f) : b[i] = IF i <= Len(f) - 1 THEN f[i] ELSE x
  <2>1. b \in Seq(Line) /\ Len(b) = Len(a) + 1
        /\ \A i \in 1..Len(a) + 1 : b[i] = IF i <= Len(a) THEN a[i] ELSE <<x>>[i - Len(a)]
    BY <1>2, <1>6, ConcatProperties
  <2> HIDE DEF b
  <2>2. ASSUME NEW i \in 1..Len(f) PROVE b[i] = IF i <= Len(f) - 1 THEN f[i] ELSE x
    <3>1. CASE i <= Len(f) - 1
      BY <1>1, <1>2, <2>1, <3>1
    <3>2. CASE i = Len(f)
      BY <1>1, <1>2, <1>6, <2>1, <3>2
    <3> QED
      BY <1>1, <3>1, <3>2
  <2> QED
    BY <1>1, <1>2, <2>1, <2>2
<1> HIDE DEF b
<1>8. g \in Seq(Line) /\ Len(g) = Len(f) + (Len(ls) - 1)
      /\ \A i \in 1..Len(g) : g[i] = IF i <= Len(f) THEN b[i] ELSE Tail(ls)[i - Len(f)]
  <2>0. b \in Seq(Line) /\ Tail(ls) \in Seq(Line)
    BY <1>4, <1>7
  <2>1. /\ g \in Seq(Line) /\ Len(g) = Len(b) + Len(Tail(ls))
        /\ \A i \in 1..Len(b) + Len(Tail(ls)) :
               g[i] = IF i <= Len(b) THEN b[i] ELSE Tail(ls)[i - Len(b)]
    BY <1>5, <2>0, ConcatProperties, Zenon
  <2> QED
    BY <1>4, <1>7, <2>1
<1>9. \A i \in 1..Len(f) - 1 : g[i] = f[i]
  BY <1>1, <1>7, <1>8
<1>10. g[Len(f)] = x
  BY <1>1, <1>7, <1>8
<1>11. ASSUME NEW i \in Len(f) + 1..Len(g) PROVE g[i] = ls[i - Len(f) + 1]
  <2>1. i \in 1..Len(g) /\ ~ (i <= Len(f)) /\ i - Len(f) \in 1..Len(Tail(ls))
    BY <1>1, <1>4, <1>8
  <2> QED
    BY <1>4, <1>8, <2>1
<1> QED
  BY <1>1, <1>8, <1>9, <1>10, <1>11 DEF x, IsGlued

\* Otherwise the lines follow the ones that are there.
IsFollowed(f, ls, g) ==
    /\ g \in Seq(Line) /\ Len(g) = Len(f) + Len(ls)
    /\ \A i \in 1..Len(f) : g[i] = f[i]
    /\ \A i \in Len(f) + 1..Len(g) : g[i] = ls[i - Len(f)]

LEMMA Followed ==
    ASSUME NEW f \in Seq(Line), NEW ls \in Seq(Line),
           f = <<>> \/ f[Len(f)].ended \/ ls = <<>>,
           NEW g, g = Appended(f, ls)
    PROVE  IsFollowed(f, ls, g)
<1>1. g = f \o ls
  BY DEF Appended
<1>2. Len(f) \in Nat /\ Len(ls) \in Nat
  BY LenProperties
<1>3. g \in Seq(Line) /\ Len(g) = Len(f) + Len(ls)
      /\ \A i \in 1..Len(f) + Len(ls) : g[i] = IF i <= Len(f) THEN f[i] ELSE ls[i - Len(f)]
  BY <1>1, ConcatProperties
<1> QED
  BY <1>2, <1>3 DEF IsFollowed

\* Either way: what the file is after an append, line by line.
LinesOf(f, ls, g) ==
    /\ ls = <<>> => g = f
    /\ \A i \in 1..Len(f) : g[i] = f[i] \/ (~ f[i].ended /\ ~ g[i].whole)
    /\ \A i \in 1..Len(g) :
          \/ i <= Len(f) /\ g[i] = f[i]
          \/ \E j \in 1..Len(ls) : g[i] \in {ls[j], Spoilt(ls[j])}
    /\ ls # <<>> => Len(g) > 0 /\ g[Len(g)] \in {ls[Len(ls)], Spoilt(ls[Len(ls)])}

LEMMA AppendKeeps ==
    ASSUME NEW f \in Seq(Line), NEW ls \in Seq(Line), NEW g, g = Appended(f, ls)
    PROVE  g \in Seq(Line) /\ Len(g) >= Len(f) /\ LinesOf(f, ls, g)
<1>1. PICK m \in Nat : m = Len(f)
  BY LenProperties
<1>2. PICK k \in Nat : k = Len(ls)
  BY LenProperties
<1>3. (m = 0 <=> f = <<>>) /\ (k = 0 <=> ls = <<>>)
  BY <1>1, <1>2, EmptySeq
<1>4. CASE f # <<>> /\ ~ f[Len(f)].ended /\ ls # <<>>
  <2>1. /\ g \in Seq(Line) /\ Len(g) = m - 1 + k
        /\ \A i \in 1..m - 1 : g[i] = f[i]
        /\ g[m] = Spoilt(ls[1])
        /\ \A i \in m + 1..Len(g) : g[i] = ls[i - m + 1]
    <3>1. IsGlued(f, ls, g)
      BY <1>4, Glued
    <3> QED
      BY <1>1, <1>2, <3>1 DEF IsGlued
  <2>2. ls[1] \in Line
    BY <1>2, <1>3, <1>4, ElementOfSeq
  <2>3. ~ g[m].whole
    BY <2>1, <2>2 DEF Line, Spoilt
  <2>4. \A i \in 1..m : g[i] = f[i] \/ (~ f[i].ended /\ ~ g[i].whole)
    <3>1. \A i \in 1..m : i \in 1..m - 1 \/ i = m
      OBVIOUS
    <3> QED
      BY <1>1, <1>4, <2>1, <2>3, <3>1
  <2>5. ASSUME NEW i \in 1..Len(g)
        PROVE  \/ i <= m /\ g[i] = f[i]
               \/ \E j \in 1..k : g[i] \in {ls[j], Spoilt(ls[j])}
    <3>1. CASE i \in 1..m - 1
      BY <2>1, <3>1
    <3>2. CASE i = m
      <4>1. 1 \in 1..k
        BY <1>3, <1>4
      <4> QED
        BY <2>1, <3>2, <4>1
    <3>3. CASE i \in m + 1..Len(g)
      <4>1. i - m + 1 \in 1..k
        BY <1>3, <1>4, <2>1, <3>3
      <4> QED
        BY <2>1, <3>3, <4>1
    <3> QED
      BY <2>1, <3>1, <3>2, <3>3
  <2>6. Len(g) > 0 /\ g[Len(g)] \in {ls[k], Spoilt(ls[k])}
    <3>1. CASE k = 1
      BY <1>3, <1>4, <2>1, <3>1
    <3>2. CASE k > 1
      <4>1. Len(g) \in m + 1..Len(g) /\ Len(g) - m + 1 = k
        BY <1>3, <1>4, <2>1, <3>2
      <4> QED
        BY <2>1, <4>1
    <3> QED
      BY <1>3, <1>4, <3>1, <3>2
  <2>7. Len(g) >= m
    BY <1>3, <1>4, <2>1
  <2> QED
    BY <1>1, <1>2, <1>4, <2>1, <2>4, <2>5, <2>6, <2>7 DEF LinesOf
<1>5. CASE f = <<>> \/ f[Len(f)].ended \/ ls = <<>>
  <2>1. /\ g \in Seq(Line) /\ Len(g) = m + k
        /\ \A i \in 1..m : g[i] = f[i]
        /\ \A i \in m + 1..Len(g) : g[i] = ls[i - m]
    <3>1. IsFollowed(f, ls, g)
      BY <1>5, Followed
    <3> QED
      BY <1>1, <1>2, <3>1 DEF IsFollowed
  <2>2. ls = <<>> => g = f
    BY <1>1, <1>3, <2>1, SeqEqual
  <2>3. ASSUME NEW i \in 1..Len(g)
        PROVE  \/ i <= m /\ g[i] = f[i]
               \/ \E j \in 1..k : g[i] \in {ls[j], Spoilt(ls[j])}
    <3>1. CASE i \in 1..m
      BY <2>1, <3>1
    <3>2. CASE i \in m + 1..Len(g)
      <4>1. i - m \in 1..k
        BY <2>1, <3>2
      <4> QED
        BY <2>1, <3>2, <4>1
    <3>3. Len(g) = m + k
      BY <2>1
    <3>4. i \in 1..m \/ i \in m + 1..Len(g)
      BY <3>3
    <3> QED
      BY <3>1, <3>2, <3>4
  <2>4. ls # <<>> => Len(g) > 0 /\ g[Len(g)] = ls[k]
    <3> SUFFICES ASSUME ls # <<>> PROVE Len(g) > 0 /\ g[Len(g)] = ls[k]
      OBVIOUS
    <3>1. Len(g) \in m + 1..Len(g) /\ Len(g) - m = k
      BY <1>3, <2>1
    <3> QED
      BY <2>1, <3>1
  <2>5. Len(g) >= m
    BY <2>1
  <2> QED
    BY <1>1, <1>2, <2>1, <2>2, <2>3, <2>4, <2>5 DEF LinesOf
<1> QED
  BY <1>4, <1>5

\* A clean prefix after an append is one of before, or it takes in the lines appended.
IsOld(f, l, g, n) ==
    n <= Len(f) /\ CleanIn(f, l, n) /\ \A j \in 1..n : g[j] = f[j]
IsLonger(f, ls, l, g, n) ==
    n > Len(f) /\ CleanIn(f, l, Len(f)) /\ IsFollowed(f, ls, g)

LEMMA CleanAppend ==
    ASSUME NEW f \in Seq(Line), NEW ls \in Seq(Line), NEW g, g = Appended(f, ls), NEW l,
           \A i \in 1..Len(f) : f[i].whole => f[i].ended,
           NEW n \in 1..Len(g), CleanIn(g, l, n)
    PROVE  IsOld(f, l, g, n) \/ IsLonger(f, ls, l, g, n)
<1>1. PICK m \in Nat : m = Len(f)
  BY LenProperties
<1>2. /\ Len(g) \in Nat
      /\ \A i \in 1..m : g[i] = f[i] \/ (~ f[i].ended /\ ~ g[i].whole)
  <2>1. g \in Seq(Line) /\ LinesOf(f, ls, g)
    BY AppendKeeps
  <2> QED
    BY <1>1, <2>1, LenProperties DEF LinesOf
<1>3. \A j \in 1..n : g[j].whole
  BY DEF CleanIn
<1>4. CASE n <= m
  <2>1. \A j \in 1..n : j \in 1..m
    BY <1>2, <1>4
  <2>2. \A j \in 1..n : g[j] = f[j]
    BY <1>2, <1>3, <2>1
  <2>3. CleanIn(f, l, n)
    BY <2>2 DEF CleanIn
  <2> QED
    BY <1>1, <1>4, <2>2, <2>3 DEF IsOld
<1>5. CASE n > m
  <2>1. \A j \in 1..m : j \in 1..n
    BY <1>2, <1>5
  <2>2. \A j \in 1..m : g[j] = f[j]
    BY <1>2, <1>3, <2>1
  <2>3. CleanIn(f, l, m)
    BY <2>1, <2>2 DEF CleanIn
  <2>4. f = <<>> \/ f[Len(f)].ended
    <3>1. CASE f # <<>>
      <4>1. m \in 1..m
        BY <1>1, <3>1, EmptySeq
      <4>2. f[m].whole
        BY <2>3, <4>1 DEF CleanIn
      <4> QED
        BY <1>1, <4>1, <4>2
    <3> QED
      BY <3>1
  <2>5. IsFollowed(f, ls, g)
    BY <2>4, Followed
  <2> QED
    BY <1>1, <1>5, <2>3, <2>5 DEF IsLonger
<1> QED
  BY <1>2, <1>4, <1>5

-----------------------------------------------------------------------------
(* The file after a step.                                                  *)

\* A clean prefix of the file after the step was one before it.
Kept ==
    \A n \in 1..Len(file') : Clean(n)' =>
        n <= Len(file) /\ Clean(n) /\ \A j \in 1..n : file'[j] = file[j]

LEMMA KeptSame ==
    ASSUME file' = file, late \subseteq late'
    PROVE  Kept
<1> SUFFICES ASSUME NEW n \in 1..Len(file'), Clean(n)'
             PROVE  n <= Len(file) /\ Clean(n) /\ \A j \in 1..n : file'[j] = file[j]
  BY DEF Kept
<1>1. n <= Len(file)
  OBVIOUS
<1>2. Clean(n)
  BY DEF Clean, CleanIn
<1> QED
  BY <1>1, <1>2

\* Appending late records, as close() does, makes no clean prefix longer.
LEMMA KeptLate ==
    ASSUME TypeOK, LinesOK, NEW p \in Proc,
           file' = Appended(file, buffer[p]), late' = late
    PROVE  Kept
<1> SUFFICES ASSUME NEW n \in 1..Len(file'), Clean(n)'
             PROVE  n <= Len(file) /\ Clean(n) /\ \A j \in 1..n : file'[j] = file[j]
  BY DEF Kept
<1>1. file \in Seq(Line) /\ buffer[p] \in Seq(Line)
  BY DEF TypeOK
<1>2. CleanIn(file', late, n)
  BY DEF Clean
<1>3. \A i \in 1..Len(file) : file[i].whole => file[i].ended
  BY DEF LinesOK
<1>4. IsOld(file, late, file', n) \/ IsLonger(file, buffer[p], late, file', n)
  BY <1>1, <1>2, <1>3, CleanAppend
<1>5. ASSUME IsLonger(file, buffer[p], late, file', n)
      PROVE  FALSE
  <2>0. /\ n > Len(file) /\ Len(file') = Len(file) + Len(buffer[p])
        /\ \A i \in Len(file) + 1..Len(file') : file'[i] = buffer[p][i - Len(file)]
    BY <1>5 DEF IsLonger, IsFollowed
  <2>1. Len(file) \in Nat /\ Len(buffer[p]) \in Nat
    BY <1>1, LenProperties
  <2>2. n \in Len(file) + 1..Len(file') /\ n - Len(file) \in 1..Len(buffer[p])
    BY <2>0, <2>1
  <2>3. file'[n].id \in late
    BY <2>0, <2>2 DEF LinesOK
  <2>4. n \in 1..n
    BY <2>1
  <2> QED
    BY <1>2, <2>3, <2>4 DEF CleanIn
<1> QED
  BY <1>4, <1>5 DEF Clean, IsOld

\* The line of a record, and what is flushed with it.
LEMMA Flushed ==
    ASSUME TypeOK, NEW p \in Proc
    PROVE  /\ NewLine(p) \in Line
           /\ Append(buffer[p], NewLine(p)) \in Seq(Line)
           /\ Len(Append(buffer[p], NewLine(p))) = Len(buffer[p]) + 1
           /\ Append(buffer[p], NewLine(p)) # <<>>
           /\ \A i \in 1..Len(buffer[p]) : Append(buffer[p], NewLine(p))[i] = buffer[p][i]
           /\ Append(buffer[p], NewLine(p))[Len(buffer[p]) + 1] = NewLine(p)
<1>1. /\ nextId \in Nat /\ chain[p] \in BOOLEAN /\ head[p] \in ChainHead
      /\ dropped[p] \in Nat /\ buffer[p] \in Seq(Line)
  BY BoundAssumption DEF TypeOK
<1>2. NewLine(p) \in Line
  BY <1>1 DEF NewLine, Line, ChainHead
<1>3. PICK x \in Line : x = NewLine(p)
  BY <1>2
<1>4. /\ Append(buffer[p], x) \in Seq(Line)
      /\ Len(Append(buffer[p], x)) = Len(buffer[p]) + 1
      /\ \A i \in 1..Len(buffer[p]) : Append(buffer[p], x)[i] = buffer[p][i]
      /\ Append(buffer[p], x)[Len(buffer[p]) + 1] = x
  BY <1>1, AppendProperties
<1>5. Append(buffer[p], x) # <<>>
  BY <1>1, <1>3, AppendProperties
<1> QED
  BY <1>2, <1>3, <1>4, <1>5

\* A flush makes a clean prefix longer only by the one line it was called for: whatever was
\* in the buffer is late.
LEMMA CleanFlush ==
    ASSUME TypeOK, LinesOK, NEW p \in Proc,
           file' = Appended(file, Append(buffer[p], NewLine(p))), late' = late,
           NEW n \in 1..Len(file'), Clean(n)'
    PROVE  \/ n <= Len(file) /\ Clean(n) /\ \A j \in 1..n : file'[j] = file[j]
           \/ /\ n = Len(file) + 1 /\ Len(file') = n /\ Clean(Len(file)) /\ chain[p]
              /\ \A j \in 1..Len(file) : file'[j] = file[j]
              /\ file'[n] = NewLine(p)
<1> DEFINE ls == Append(buffer[p], NewLine(p))
<1>1. file \in Seq(Line) /\ buffer[p] \in Seq(Line)
  BY DEF TypeOK
<1>2. /\ ls \in Seq(Line) /\ Len(ls) = Len(buffer[p]) + 1
      /\ \A i \in 1..Len(buffer[p]) : ls[i] = buffer[p][i]
      /\ ls[Len(buffer[p]) + 1] = NewLine(p)
  BY Flushed
<1>3. CleanIn(file', late, n)
  BY DEF Clean
<1>4. \A i \in 1..Len(file) : file[i].whole => file[i].ended
  BY DEF LinesOK
<1>5. file' = Appended(file, ls)
  OBVIOUS
<1> HIDE DEF ls
<1>6. IsOld(file, late, file', n) \/ IsLonger(file, ls, late, file', n)
  BY <1>1, <1>2, <1>3, <1>4, <1>5, CleanAppend
<1>7. ASSUME IsLonger(file, ls, late, file', n)
      PROVE  /\ n = Len(file) + 1 /\ Len(file') = n /\ chain[p]
             /\ file'[n] = NewLine(p)
  <2>0. /\ n > Len(file) /\ Len(file') = Len(file) + Len(ls)
        /\ \A i \in Len(file) + 1..Len(file') : file'[i] = ls[i - Len(file)]
    BY <1>7 DEF IsLonger, IsFollowed
  <2>1. PICK m \in Nat : m = Len(file)
    BY <1>1, LenProperties
  <2>2. PICK k \in Nat : k = Len(buffer[p])
    BY <1>1, LenProperties
  <2>3. Len(file') = m + k + 1 /\ n > m /\ n \in 1..m + k + 1
    BY <1>2, <2>0, <2>1, <2>2
  <2>4. k = 0
    <3> SUFFICES ASSUME k # 0 PROVE FALSE
      OBVIOUS
    <3>1. m + 1 \in m + 1..Len(file') /\ m + 1 - m = 1 /\ 1 \in 1..k /\ m + 1 \in 1..n
      BY <2>3
    <3>2. file'[m + 1] = buffer[p][1]
      BY <1>2, <2>0, <2>1, <2>2, <3>1
    <3>3. file'[m + 1].id \in late
      BY <2>2, <3>1, <3>2 DEF LinesOK
    <3> QED
      BY <1>3, <3>1, <3>3 DEF CleanIn
  <2>5. n = m + 1 /\ Len(file') = n /\ n \in m + 1..Len(file') /\ n - m = 1 /\ n \in 1..n
    BY <2>3, <2>4
  <2>6. file'[n] = NewLine(p)
    BY <1>2, <2>0, <2>1, <2>2, <2>4, <2>5
  <2>7. file'[n].chained
    BY <1>3, <2>5 DEF CleanIn
  <2>8. chain[p]
    BY <2>6, <2>7 DEF NewLine
  <2> QED
    BY <2>1, <2>5, <2>6, <2>8
<1> QED
  BY <1>6, <1>7 DEF Clean, IsOld, IsLonger, IsFollowed

\* What a clean prefix tells stays known.
LEMMA LinkedKept ==
    ASSUME Linked, Kept, Len(file') \in Nat
    PROVE  Linked'
<1> SUFFICES ASSUME NEW n \in 1..Len(file'), Clean(n)'
             PROVE  Continues(file', n)
  BY DEF Linked, Continues
<1>1. n <= Len(file) /\ Clean(n) /\ \A j \in 1..n : file'[j] = file[j]
  BY DEF Kept
<1>2. Continues(file, n)
  BY <1>1 DEF Linked
<1>3. n \in 1..n /\ (n # 1 => n - 1 \in 1..n)
  OBVIOUS
<1>4. file'[n] = file[n] /\ (n # 1 => file'[n - 1] = file[n - 1])
  BY <1>1, <1>3
<1> QED
  BY <1>2, <1>4 DEF Continues

LEMMA TipKept ==
    ASSUME TipKnown, Kept, TypeOK, Len(file') \in Nat,
           durable' \in Nat, durable <= durable',
           tip' = tip, interrupted => interrupted'
    PROVE  TipKnown'
<1> SUFFICES ASSUME ~ interrupted', tip # None,
                    NEW n \in durable'..Len(file'), n > 0, Clean(n)'
             PROVE  tip = [prev |-> file'[n].id, seq |-> file'[n].seq]
  BY DEF TipKnown
<1>1. durable \in Nat /\ Len(file) \in Nat
  BY LenProperties DEF TypeOK
<1>2. n \in 1..Len(file')
  OBVIOUS
<1>3. n <= Len(file) /\ Clean(n) /\ \A j \in 1..n : file'[j] = file[j]
  BY <1>2 DEF Kept
<1>4. n \in durable..Len(file) /\ n \in 1..n
  BY <1>1, <1>2, <1>3
<1>5. tip = [prev |-> file[n].id, seq |-> file[n].seq]
  BY <1>3, <1>4 DEF TipKnown
<1> QED
  BY <1>3, <1>4, <1>5

\* An instance that does nothing still knows the last line.
LEMMA HeadsKept ==
    ASSUME TypeOK, Kept, file' \in Seq(Line), Len(file) <= Len(file'),
           durable' \in Nat, durable <= durable',
           NEW p, pc'[p] = pc[p], chain'[p] = chain[p], head'[p] = head[p],
           HeadBefore(p), HeadAfter(p), HeadSynced(p)
    PROVE  HeadBefore(p)' /\ HeadAfter(p)' /\ HeadSynced(p)'
<1>1. durable \in Nat /\ Len(file) \in Nat /\ Len(file') \in Nat /\ file \in Seq(Line)
  BY LenProperties DEF TypeOK
<1>2. ASSUME Clean(Len(file))'
      PROVE  file' = file /\ Clean(Len(file))
  <2>1. CASE Len(file') = 0
    <3>1. Len(file) = 0
      BY <1>1, <2>1
    <3> QED
      BY <1>1, <2>1, <3>1, EmptySeq DEF Clean, CleanIn
  <2>2. CASE Len(file') # 0
    <3>1. PICK k \in Nat : k = Len(file')
      BY <1>1
    <3>2. k \in 1..Len(file') /\ CleanIn(file', late', k)
      BY <1>2, <2>2, <3>1 DEF Clean
    <3>3. Clean(k)'
      BY <3>2 DEF Clean
    <3>4. k <= Len(file) /\ Clean(k) /\ \A j \in 1..k : file'[j] = file[j]
      BY <3>2, <3>3 DEF Kept
    <3>5. k = Len(file)
      BY <1>1, <3>1, <3>4
    <3>6. file' = file
      BY <1>1, <3>1, <3>4, <3>5, SeqEqual
    <3> QED
      BY <3>4, <3>5, <3>6
  <2> QED
    BY <2>1, <2>2
<1>3. HeadBefore(p)'
  BY <1>2 DEF HeadBefore, TailState
<1>4. HeadAfter(p)'
  BY <1>2 DEF HeadAfter
<1>5. HeadSynced(p)'
  <2> SUFFICES ASSUME pc[p] = "tip"
               PROVE  /\ head[p].seq > 0
                      /\ \A n \in durable'..Len(file') : n > 0 /\ Clean(n)' =>
                           head[p].prev = file'[n].id /\ head[p].seq = file'[n].seq + 1
    BY DEF HeadSynced
  <2>1. head[p].seq > 0
    BY DEF HeadSynced
  <2>2. ASSUME NEW n \in durable'..Len(file'), n > 0, Clean(n)'
        PROVE  head[p].prev = file'[n].id /\ head[p].seq = file'[n].seq + 1
    <3>1. n \in 1..Len(file')
      BY <1>1, <2>2
    <3>2. n <= Len(file) /\ Clean(n) /\ \A j \in 1..n : file'[j] = file[j]
      BY <2>2, <3>1 DEF Kept
    <3>3. n \in durable..Len(file) /\ n \in 1..n
      BY <1>1, <2>2, <3>1, <3>2
    <3> QED
      BY <2>2, <3>2, <3>3 DEF HeadSynced
  <2> QED
    BY <2>1, <2>2
<1> QED
  BY <1>3, <1>4, <1>5

-----------------------------------------------------------------------------
(* The instances after a step.                                             *)

LEMMA WritersFinite == IsFiniteSet(Writers) /\ Cardinality(Writers) \in Nat
<1>1. IsFiniteSet(Proc) /\ Writers \subseteq Proc
  BY ProcAssumption DEF Writers
<1>2. IsFiniteSet(Writers)
  BY <1>1, FS_Subset
<1> QED
  BY <1>2, FS_CardinalityType

\* Records under way that are given up, started, and written.
LEMMA FewerWriters ==
    ASSUME Fits, TypeOK, Writers' \subseteq Writers, nextId' = nextId
    PROVE  Fits'
<1>1. IsFiniteSet(Writers) /\ Cardinality(Writers) \in Nat
  BY WritersFinite
<1>2. PICK W : W = Writers'
  OBVIOUS
<1>3. IsFiniteSet(W) /\ Cardinality(W) <= Cardinality(Writers)
  BY <1>1, <1>2, FS_Subset
<1>4. Cardinality(W) \in Nat
  BY <1>3, FS_CardinalityType
<1>5. nextId \in Int /\ MaxRecords \in Int
  BY BoundAssumption DEF TypeOK
<1>6. nextId + Cardinality(W) <= MaxRecords + 1
  BY <1>1, <1>3, <1>4, <1>5 DEF Fits
<1> QED
  BY <1>2, <1>6 DEF Fits

LEMMA OneMoreWriter ==
    ASSUME TypeOK, Room, NEW p \in Proc, Writers' = Writers \cup {p}, nextId' = nextId
    PROVE  Fits'
<1>1. IsFiniteSet(Writers) /\ Cardinality(Writers) \in Nat
  BY WritersFinite
<1>2. PICK c \in Nat : c = Cardinality(Writers)
  BY <1>1
<1>3. Cardinality(Writers \cup {p}) <= c + 1
  <2>1. CASE p \in Writers
    <3>1. Writers \cup {p} = Writers
      BY <2>1
    <3> QED
      BY <1>2, <3>1
  <2>2. CASE p \notin Writers
    BY <1>1, <1>2, <2>2, FS_AddElement
  <2> QED
    BY <2>1, <2>2
<1>4. IsFiniteSet(Writers \cup {p})
  BY <1>1, FS_AddElement
<1>5. Cardinality(Writers \cup {p}) \in Nat
  BY <1>4, FS_CardinalityType
<1>6. nextId + c <= MaxRecords
  BY <1>2 DEF Room, Writers
<1>7. nextId \in Int /\ MaxRecords \in Int
  BY BoundAssumption DEF TypeOK
<1>8. nextId + Cardinality(Writers \cup {p}) <= MaxRecords + 1
  BY <1>3, <1>5, <1>6, <1>7
<1> QED
  BY <1>8 DEF Fits

LEMMA OneIsWritten ==
    ASSUME Fits, TypeOK, NEW p \in Proc, pc[p] = "flush",
           Writers' = Writers \ {p}, nextId' = nextId + 1
    PROVE  /\ Fits' /\ nextId \in 1..MaxRecords
           /\ nextId' \in 1..MaxRecords + 1
<1>1. IsFiniteSet(Writers) /\ Cardinality(Writers) \in Nat
  BY WritersFinite
<1>2. p \in Writers
  BY DEF Writers
<1>3. Cardinality(Writers \ {p}) = Cardinality(Writers) - 1 /\ IsFiniteSet(Writers \ {p})
  BY <1>1, <1>2, FS_RemoveElement
<1>4. Cardinality(Writers \ {p}) \in Nat
  BY <1>3, FS_CardinalityType
<1>5. nextId \in 1..MaxRecords + 1 /\ MaxRecords \in Nat
  BY BoundAssumption DEF TypeOK
<1>6. nextId + Cardinality(Writers) <= MaxRecords + 1
  BY DEF Fits
<1>7. nextId + 1 + Cardinality(Writers \ {p}) <= MaxRecords + 1 /\ nextId \in 1..MaxRecords
  BY <1>1, <1>3, <1>4, <1>5, <1>6
<1>8. nextId' \in 1..MaxRecords + 1
  BY <1>5, <1>7
<1> QED
  BY <1>7, <1>8 DEF Fits

\* The instances other than p are where they were.
Others(p) ==
    \A q \in Proc \ {p} : pc'[q] = pc[q] /\ chain'[q] = chain[q] /\ head'[q] = head[q]

LEMMA FileStays ==
    ASSUME IInv, UNCHANGED <<file, tip>>, late \subseteq late',
           durable' \in durable..Len(file), interrupted' = interrupted
    PROVE  /\ Kept /\ Linked' /\ TipKnown'
           /\ file' \in Seq(Line) /\ Len(file) <= Len(file')
           /\ durable' \in Nat /\ durable <= durable'
<1>1. Kept
  BY KeptSame
<1>2. durable \in Nat /\ Len(file) \in Nat /\ file \in Seq(Line)
  BY LenProperties DEF IInv, TypeOK
<1>3. durable' \in Nat /\ durable <= durable' /\ Len(file) <= Len(file')
  BY <1>2
<1>4. Linked'
  BY <1>1, <1>2, LinkedKept DEF IInv
<1>5. TipKnown'
  BY <1>1, <1>2, <1>3, TipKept DEF IInv
<1> QED
  BY <1>1, <1>2, <1>3, <1>4, <1>5

LEMMA OneActs ==
    ASSUME IInv, Kept, file' \in Seq(Line), Len(file) <= Len(file'),
           durable' \in Nat, durable <= durable', NEW p \in Proc, Others(p),
           HeadBefore(p)', HeadAfter(p)', HeadSynced(p)'
    PROVE  Heads'
<1>1. ASSUME NEW q \in Proc, q # p
      PROVE  HeadBefore(q)' /\ HeadAfter(q)' /\ HeadSynced(q)'
  <2>1. /\ pc'[q] = pc[q] /\ chain'[q] = chain[q] /\ head'[q] = head[q]
        /\ HeadBefore(q) /\ HeadAfter(q) /\ HeadSynced(q) /\ TypeOK
    BY <1>1 DEF Others, IInv, Heads
  <2> QED
    BY <2>1, HeadsKept
<1> QED
  BY <1>1 DEF Heads

\* A step outside the write: p starts, waits, takes the lock, returns or ends.
LEMMA QuietStep ==
    ASSUME IInv, TypeOK', NEW p \in Proc,
           UNCHANGED <<file, durable, tip, nextId, interrupted, late>>, Others(p),
           \A q \in Proc : buffer'[q] \in {buffer[q], <<>>},
           \/ pc'[p] \in {"down", "idle"}
           \/ pc'[p] \in {"lock", "scan"} /\ chain'[p]
           \/ pc'[p] = "flush" /\ ~ chain'[p],
           Fits'
    PROVE  IInv'
<1>1. durable \in durable..Len(file)
  BY LenProperties DEF IInv, TypeOK
<1>2. /\ Kept /\ Linked' /\ TipKnown' /\ file' \in Seq(Line) /\ Len(file) <= Len(file')
      /\ durable' \in Nat /\ durable <= durable'
  BY <1>1, FileStays
<1>3. HeadBefore(p)' /\ HeadAfter(p)' /\ HeadSynced(p)'
  BY DEF HeadBefore, HeadAfter, HeadSynced
<1>4. Heads'
  BY <1>2, <1>3, OneActs
<1>5. LinesOK'
  <2>1. \A q \in Proc : \A i \in 1..Len(buffer'[q]) :
           i \in 1..Len(buffer[q]) /\ buffer'[q][i] = buffer[q][i]
    BY EmptySeq
  <2> QED
    BY <2>1 DEF LinesOK, IInv
<1>6. ChainedOnly'
  BY DEF ChainedOnly, IInv, Others
<1>7. Written'
  BY DEF Written, IInv, Others
<1> QED
  BY <1>2, <1>4, <1>5, <1>6, <1>7 DEF IInv

LEMMA InitIInv == Init => IInv
<1> SUFFICES ASSUME Init PROVE IInv
  OBVIOUS
<1> USE DEF Init
<1>1. Len(file) = 0 /\ file \in Seq(Line) /\ (\A p \in Proc : buffer[p] \in Seq(Line))
  BY EmptySeq
<1>2. TypeOK
  <2>1. buffer \in [Proc -> Seq(Line)]
    BY EmptySeq
  <2>2. /\ durable \in 0..Len(file) /\ tip \in ChainHead \cup {None}
        /\ lock \in Proc \cup {None} /\ nextId \in 1..MaxRecords + 1
    BY <1>1, BoundAssumption
  <2>3. head \in [Proc -> ChainHead]
    BY DEF NoHead, ChainHead
  <2>4. /\ pc \in [Proc -> {"down", "idle", "lock", "scan", "flush", "sync", "tip"}]
        /\ chain \in [Proc -> BOOLEAN] /\ dropped \in [Proc -> Nat]
        /\ emitted \in [Proc -> SUBSET Nat] /\ interrupted \in BOOLEAN
        /\ late \subseteq 1..MaxRecords
    OBVIOUS
  <2>5. \A p \in Proc : lock = p <=>
           pc[p] \in {"scan", "tip"} \/ (chain[p] /\ pc[p] \in {"flush", "sync"})
    BY ProcAssumption
  <2> QED
    BY <1>1, <2>1, <2>2, <2>3, <2>4, <2>5 DEF TypeOK
<1>3. \A p \in Proc : Len(buffer[p]) = 0
  BY EmptySeq
<1>4. LinesOK /\ ChainedOnly /\ Written /\ Linked
  BY <1>1, <1>3 DEF LinesOK, ChainedOnly, Written, Linked
<1>5. Fits
  <2>1. Writers = {}
    BY DEF Writers
  <2>2. Cardinality(Writers) = 0
    BY <2>1, FS_EmptySet
  <2> QED
    BY <2>2, BoundAssumption DEF Fits
<1>6. Heads /\ TipKnown
  BY DEF Heads, HeadBefore, HeadAfter, HeadSynced, TipKnown
<1> QED
  BY <1>2, <1>4, <1>5, <1>6 DEF IInv

-----------------------------------------------------------------------------
(* Starting, waiting for the lock, ending.                                 *)

LEMMA OpenStep ==
    ASSUME IInv, NEW p \in Proc, Open(p)
    PROVE  IInv'
<1>1. PICK c \in ChainModes : /\ chain' = [chain EXCEPT ![p] = c]
                              /\ EmitStart(p, c)
  BY DEF Open
<1>2. c \in BOOLEAN /\ pc' = [pc EXCEPT ![p] = IF c THEN "lock" ELSE "flush"]
  BY <1>1, ModeAssumption DEF EmitStart, Goto
<1>3. TypeOK
  BY DEF IInv
<1>4. /\ pc'[p] = (IF c THEN "lock" ELSE "flush") /\ chain'[p] = c
      /\ \A q \in Proc \ {p} : pc'[q] = pc[q] /\ chain'[q] = chain[q]
  BY <1>1, <1>2, <1>3 DEF TypeOK
<1>5. TypeOK'
  <2>1. lock # p
    BY <1>3 DEF Open, TypeOK
  <2>2. \A q \in Proc : lock' = q <=>
           \/ pc'[q] \in {"scan", "tip"}
           \/ chain'[q] /\ pc'[q] \in {"flush", "sync"}
    BY <1>3, <1>4, <2>1 DEF Open, TypeOK
  <2>3. /\ pc' \in [Proc -> {"down", "idle", "lock", "scan", "flush", "sync", "tip"}]
        /\ chain' \in [Proc -> BOOLEAN]
    BY <1>1, <1>2, <1>3 DEF TypeOK
  <2> QED
    BY <1>3, <2>2, <2>3 DEF Open, TypeOK, histVars
<1>6. Fits'
  <2>1. Writers' = Writers \cup {p}
    BY <1>4 DEF Writers
  <2> QED
    BY <1>3, <2>1, OneMoreWriter DEF Open
<1> QED
  BY <1>4, <1>5, <1>6, QuietStep DEF Open, Others, histVars

LEMMA EmitStep ==
    ASSUME IInv, NEW p \in Proc, Emit(p)
    PROVE  IInv'
<1>1. TypeOK /\ chain[p] \in BOOLEAN
  BY DEF IInv, TypeOK
<1>2. pc' = [pc EXCEPT ![p] = IF chain[p] THEN "lock" ELSE "flush"]
  BY DEF Emit, EmitStart, Goto
<1>3. /\ pc'[p] = (IF chain[p] THEN "lock" ELSE "flush")
      /\ \A q \in Proc \ {p} : pc'[q] = pc[q]
  BY <1>1, <1>2 DEF TypeOK
<1>4. TypeOK'
  <2>1. lock # p
    BY <1>1 DEF Emit, TypeOK
  <2>2. \A q \in Proc : lock' = q <=>
           \/ pc'[q] \in {"scan", "tip"}
           \/ chain'[q] /\ pc'[q] \in {"flush", "sync"}
    BY <1>1, <1>3, <2>1 DEF Emit, TypeOK
  <2>3. pc' \in [Proc -> {"down", "idle", "lock", "scan", "flush", "sync", "tip"}]
    BY <1>1, <1>2 DEF TypeOK
  <2> QED
    BY <1>1, <2>2, <2>3 DEF Emit, TypeOK, histVars
<1>5. Fits'
  <2>1. Writers' = Writers \cup {p}
    BY <1>3 DEF Writers
  <2> QED
    BY <1>1, <2>1, OneMoreWriter DEF Emit
<1> QED
  BY <1>1, <1>3, <1>4, <1>5, QuietStep DEF Emit, Others, histVars

LEMMA TakeLockStep ==
    ASSUME IInv, NEW p \in Proc, TakeLock(p)
    PROVE  IInv'
<1>1. TypeOK /\ chain[p]
  BY DEF IInv, ChainedOnly, TakeLock
<1>2. pc' = [pc EXCEPT ![p] = "scan"] /\ lock' = p /\ lock = None
  BY DEF TakeLock, Goto
<1>3. pc'[p] = "scan" /\ \A q \in Proc \ {p} : pc'[q] = pc[q]
  BY <1>1, <1>2 DEF TypeOK
<1>4. TypeOK'
  <2>1. \A q \in Proc : lock' = q <=>
           \/ pc'[q] \in {"scan", "tip"}
           \/ chain'[q] /\ pc'[q] \in {"flush", "sync"}
    BY <1>1, <1>2, <1>3, ProcAssumption DEF TakeLock, TypeOK
  <2>2. pc' \in [Proc -> {"down", "idle", "lock", "scan", "flush", "sync", "tip"}]
    BY <1>1, <1>2 DEF TypeOK
  <2> QED
    BY <1>1, <1>2, <2>1, <2>2 DEF TakeLock, TypeOK, histVars
<1>5. Fits'
  <2>1. Writers' \subseteq Writers
    BY <1>3 DEF Writers, TakeLock
  <2> QED
    BY <1>1, <2>1, FewerWriters DEF TakeLock, IInv
<1> QED
  BY <1>1, <1>3, <1>4, <1>5, QuietStep DEF TakeLock, Others, histVars

\* An instance that ends leaves nothing in memory and holds no lock.
LEMMA Ended ==
    ASSUME TypeOK, NEW S \in SUBSET Proc, End(S)
    PROVE  /\ pc' \in [Proc -> {"down", "idle", "lock", "scan", "flush", "sync", "tip"}]
           /\ chain' \in [Proc -> BOOLEAN] /\ head' \in [Proc -> ChainHead]
           /\ dropped' \in [Proc -> Nat] /\ buffer' \in [Proc -> Seq(Line)]
           /\ emitted' \in [Proc -> SUBSET Nat] /\ lock' \in Proc \cup {None}
           /\ \A q \in Proc : lock' = q <=>
                 \/ pc'[q] \in {"scan", "tip"}
                 \/ chain'[q] /\ pc'[q] \in {"flush", "sync"}
           /\ \A q \in S : pc'[q] = "down" /\ buffer'[q] = <<>>
           /\ \A q \in Proc \ S : /\ pc'[q] = pc[q] /\ chain'[q] = chain[q]
                                  /\ head'[q] = head[q] /\ buffer'[q] = buffer[q]
           /\ Writers' \subseteq Writers
<1>1. NoHead \in ChainHead /\ <<>> \in Seq(Line)
  BY EmptySeq DEF NoHead, ChainHead
<1>2. /\ pc' \in [Proc -> {"down", "idle", "lock", "scan", "flush", "sync", "tip"}]
      /\ chain' \in [Proc -> BOOLEAN]
  BY DEF TypeOK, End
<1>3. head' \in [Proc -> ChainHead]
  BY <1>1 DEF TypeOK, End
<1>4. dropped' \in [Proc -> Nat] /\ emitted' \in [Proc -> SUBSET Nat]
  BY DEF TypeOK, End
<1>5. buffer' \in [Proc -> Seq(Line)]
  BY <1>1 DEF TypeOK, End
<1>6. lock' \in Proc \cup {None}
  BY DEF TypeOK, End
<1>7. \A q \in S : pc'[q] = "down" /\ buffer'[q] = <<>>
  BY DEF End
<1>8. \A q \in Proc \ S : /\ pc'[q] = pc[q] /\ chain'[q] = chain[q]
                          /\ head'[q] = head[q] /\ buffer'[q] = buffer[q]
  BY DEF End
<1>9. \A q \in Proc : lock' = q <=>
           \/ pc'[q] \in {"scan", "tip"}
           \/ chain'[q] /\ pc'[q] \in {"flush", "sync"}
  BY <1>7, <1>8, ProcAssumption DEF TypeOK, End
<1>10. Writers' \subseteq Writers
  BY <1>7, <1>8 DEF Writers
<1> QED
  BY <1>2, <1>3, <1>4, <1>5, <1>6, <1>7, <1>8, <1>9, <1>10

\* ... and the rest goes on as it was, if the file does.
LEMMA EndStep ==
    ASSUME IInv, NEW p \in Proc, End({p}),
           UNCHANGED <<file, durable, tip, nextId, interrupted, late>>
    PROVE  IInv'
<1>1. TypeOK
  BY DEF IInv
<1>2. /\ pc' \in [Proc -> {"down", "idle", "lock", "scan", "flush", "sync", "tip"}]
      /\ chain' \in [Proc -> BOOLEAN] /\ head' \in [Proc -> ChainHead]
      /\ dropped' \in [Proc -> Nat] /\ buffer' \in [Proc -> Seq(Line)]
      /\ emitted' \in [Proc -> SUBSET Nat] /\ lock' \in Proc \cup {None}
      /\ \A q \in Proc : lock' = q <=>
            \/ pc'[q] \in {"scan", "tip"}
            \/ chain'[q] /\ pc'[q] \in {"flush", "sync"}
      /\ pc'[p] = "down" /\ buffer'[p] = <<>>
      /\ \A q \in Proc \ {p} : /\ pc'[q] = pc[q] /\ chain'[q] = chain[q]
                               /\ head'[q] = head[q] /\ buffer'[q] = buffer[q]
      /\ Writers' \subseteq Writers
  BY <1>1, Ended
<1>3. TypeOK'
  BY <1>1, <1>2 DEF TypeOK
<1>4. Fits'
  BY <1>1, <1>2, FewerWriters DEF IInv
<1>5. \A q \in Proc : buffer'[q] \in {buffer[q], <<>>}
  BY <1>2
<1>6. Others(p)
  BY <1>2 DEF Others
<1> QED
  BY <1>2, <1>3, <1>4, <1>5, <1>6, QuietStep

LEMMA LockTimeoutStep ==
    ASSUME IInv, NEW p \in Proc, LockTimeout(p)
    PROVE  IInv'
<1>1. CASE emitted[p] = {}
  BY <1>1, EndStep DEF LockTimeout
<1>2. CASE emitted[p] # {}
  <2>1. TypeOK
    BY DEF IInv
  <2>2. pc' = [pc EXCEPT ![p] = "idle"]
        /\ UNCHANGED <<lock, chain, head, dropped, buffer, emitted>>
    BY <1>2 DEF LockTimeout, Goto
  <2>3. pc'[p] = "idle" /\ \A q \in Proc \ {p} : pc'[q] = pc[q]
    BY <2>1, <2>2 DEF TypeOK
  <2>4. lock # p
    BY <2>1 DEF LockTimeout, TypeOK
  <2>5. \A q \in Proc : lock' = q <=>
           \/ pc'[q] \in {"scan", "tip"}
           \/ chain'[q] /\ pc'[q] \in {"flush", "sync"}
    BY <2>1, <2>2, <2>3, <2>4 DEF TypeOK
  <2>6. pc' \in [Proc -> {"down", "idle", "lock", "scan", "flush", "sync", "tip"}]
    BY <2>1, <2>2 DEF TypeOK
  <2>7. TypeOK'
    BY <2>1, <2>2, <2>5, <2>6 DEF LockTimeout, TypeOK
  <2>8. Writers' \subseteq Writers
    BY <2>3 DEF Writers
  <2>9. Fits'
    BY <2>1, <2>8, FewerWriters DEF LockTimeout, IInv
  <2> QED
    BY <2>2, <2>3, <2>7, <2>9, QuietStep DEF LockTimeout, Others
<1> QED
  BY <1>1, <1>2

LEMMA KillStep ==
    ASSUME IInv, NEW p \in Proc, Kill(p)
    PROVE  IInv'
BY EndStep DEF Kill

-----------------------------------------------------------------------------
(* Scan and tip, under the lock.                                           *)

\* The scan finds the last line.
LEMMA ScanStep ==
    ASSUME IInv, NEW p \in Proc, Scan(p)
    PROVE  IInv'
<1>1. TypeOK /\ chain[p]
  BY DEF IInv, ChainedOnly, Scan
<1>2. pc' = [pc EXCEPT ![p] = "flush"] /\ head' = [head EXCEPT ![p] = TailState]
  BY DEF Scan, Goto
<1>3. TailState \in ChainHead
  <2>1. CASE file = <<>>
    BY <2>1 DEF TailState, NoHead, ChainHead
  <2>2. CASE file # <<>>
    <3>1. Len(file) \in 1..Len(file)
      BY <1>1, <2>2, EmptySeq DEF TypeOK
    <3>2. file[Len(file)] \in Line
      BY <1>1, <3>1, ElementOfSeq DEF TypeOK
    <3> QED
      BY <2>2, <3>2 DEF TailState, ChainHead, Line
  <2> QED
    BY <2>1, <2>2
<1>4. /\ pc'[p] = "flush" /\ head'[p] = TailState
      /\ \A q \in Proc \ {p} : pc'[q] = pc[q] /\ head'[q] = head[q]
  BY <1>1, <1>2 DEF TypeOK
<1>5. UNCHANGED <<file, durable, tip, lock, chain, dropped, buffer, nextId,
                  emitted, interrupted, late>>
  BY DEF Scan, histVars
<1>6. TypeOK'
  <2>1. \A q \in Proc : lock' = q <=>
           \/ pc'[q] \in {"scan", "tip"}
           \/ chain'[q] /\ pc'[q] \in {"flush", "sync"}
    BY <1>1, <1>4, <1>5 DEF Scan, TypeOK
  <2>2. /\ pc' \in [Proc -> {"down", "idle", "lock", "scan", "flush", "sync", "tip"}]
        /\ head' \in [Proc -> ChainHead]
    BY <1>1, <1>2, <1>3 DEF TypeOK
  <2> QED
    BY <1>1, <1>5, <2>1, <2>2 DEF TypeOK
<1>7. Fits'
  <2>1. Writers' \subseteq Writers
    BY <1>4 DEF Writers, Scan
  <2> QED
    BY <1>1, <1>5, <2>1, FewerWriters DEF IInv
<1>8. durable \in durable..Len(file)
  BY LenProperties DEF IInv, TypeOK
<1>9. /\ Kept /\ Linked' /\ TipKnown' /\ file' \in Seq(Line) /\ Len(file) <= Len(file')
      /\ durable' \in Nat /\ durable <= durable'
  BY <1>5, <1>8, FileStays
<1>10. TailState' = TailState
  BY <1>5 DEF TailState
<1>11. HeadBefore(p)' /\ HeadAfter(p)' /\ HeadSynced(p)'
  BY <1>4, <1>10 DEF HeadBefore, HeadAfter, HeadSynced
<1>12. Others(p)
  BY <1>4, <1>5 DEF Others
<1>13. Heads'
  BY <1>9, <1>11, <1>12, OneActs
<1>14. LinesOK'
  BY <1>5 DEF IInv, LinesOK
<1>15. ChainedOnly' /\ Written'
  BY <1>4, <1>5 DEF IInv, ChainedOnly, Written
<1> QED
  BY <1>6, <1>7, <1>9, <1>13, <1>14, <1>15 DEF IInv

\* emit() returns and gives the lock back.
LEMMA Returned ==
    ASSUME TypeOK, NEW p \in Proc, Return(p), chain' = chain
    PROVE  /\ pc' \in [Proc -> {"down", "idle", "lock", "scan", "flush", "sync", "tip"}]
           /\ lock' \in Proc \cup {None}
           /\ \A q \in Proc : lock' = q <=>
                 \/ pc'[q] \in {"scan", "tip"}
                 \/ chain'[q] /\ pc'[q] \in {"flush", "sync"}
           /\ pc'[p] = "idle" /\ \A q \in Proc \ {p} : pc'[q] = pc[q]
           /\ Writers' = Writers \ {p}
<1>1. pc' = [pc EXCEPT ![p] = "idle"] /\ lock' = IF lock = p THEN None ELSE lock
  BY DEF Return, Goto
<1>2. pc'[p] = "idle" /\ \A q \in Proc \ {p} : pc'[q] = pc[q]
  BY <1>1 DEF TypeOK
<1>3. \A q \in Proc : lock' = q <=>
         \/ pc'[q] \in {"scan", "tip"}
         \/ chain'[q] /\ pc'[q] \in {"flush", "sync"}
  BY <1>1, <1>2, ProcAssumption DEF TypeOK
<1>4. Writers' = Writers \ {p}
  BY <1>2 DEF Writers
<1>5. pc' \in [Proc -> {"down", "idle", "lock", "scan", "flush", "sync", "tip"}]
      /\ lock' \in Proc \cup {None}
  BY <1>1 DEF TypeOK
<1> QED
  BY <1>2, <1>3, <1>4, <1>5

\* A tip that is written names the last line of every clean prefix that can be left.
LEMMA TipStep ==
    ASSUME IInv, NEW p \in Proc, Tip(p)
    PROVE  IInv'
<1>1. TypeOK /\ pc[p] = "tip" /\ head[p] \in ChainHead
  BY DEF IInv, Tip, TypeOK
<1>2. UNCHANGED <<file, durable, chain, head, dropped, buffer, nextId, emitted, late>>
  BY DEF Tip
<1>3. /\ pc' \in [Proc -> {"down", "idle", "lock", "scan", "flush", "sync", "tip"}]
      /\ lock' \in Proc \cup {None}
      /\ \A q \in Proc : lock' = q <=>
            \/ pc'[q] \in {"scan", "tip"}
            \/ chain'[q] /\ pc'[q] \in {"flush", "sync"}
      /\ pc'[p] = "idle" /\ \A q \in Proc \ {p} : pc'[q] = pc[q]
      /\ Writers' = Writers \ {p}
  BY <1>1, <1>2, Returned DEF Tip
<1>4. \A n \in durable..Len(file) : n > 0 /\ Clean(n) =>
         head[p].prev = file[n].id /\ head[p].seq = file[n].seq + 1
  BY <1>1 DEF IInv, Heads, HeadSynced
<1>5. head[p].seq > 0
  BY <1>1 DEF IInv, Heads, HeadSynced
<1>6. \A n : Clean(n)' <=> Clean(n)
  BY <1>2 DEF Clean, CleanIn
<1>7. /\ TipKnown' /\ tip' \in ChainHead \cup {None} /\ interrupted' \in BOOLEAN
  <2>1. CASE tip' = [head[p] EXCEPT !.seq = @ - 1] /\ interrupted' = FALSE
    <3>1. /\ tip' = [prev |-> head[p].prev, seq |-> head[p].seq - 1]
          /\ tip' \in ChainHead
      BY <1>1, <1>5, <2>1 DEF ChainHead
    <3>2. ASSUME NEW n \in durable..Len(file), n > 0, Clean(n)
          PROVE  tip' = [prev |-> file[n].id, seq |-> file[n].seq]
      <4>1. head[p].prev = file[n].id /\ head[p].seq = file[n].seq + 1
        BY <1>4, <3>2
      <4>2. n \in 1..Len(file)
        <5>1. durable \in Nat /\ Len(file) \in Nat
          BY <1>1, LenProperties DEF TypeOK
        <5> QED
          BY <3>2, <5>1
      <4>3. file[n] \in Line
        BY <1>1, <4>2, ElementOfSeq DEF TypeOK
      <4>4. file[n].seq \in Nat
        BY <4>3 DEF Line
      <4>5. head[p].seq - 1 = file[n].seq
        BY <4>1, <4>4
      <4> QED
        BY <3>1, <4>1, <4>5
    <3>3. TipKnown'
      BY <1>2, <1>6, <3>2 DEF TipKnown
    <3> QED
      BY <2>1, <3>1, <3>3
  <2>2. CASE tip' = tip /\ interrupted' = interrupted
    <3>1. TipKnown'
      BY <1>2, <1>6, <2>2 DEF IInv, TipKnown
    <3> QED
      BY <1>1, <2>2, <3>1 DEF TypeOK
  <2> QED
    BY <2>1, <2>2 DEF Tip
<1>8. TypeOK'
  BY <1>1, <1>2, <1>3, <1>7 DEF TypeOK
<1>9. Fits'
  BY <1>1, <1>2, <1>3, FewerWriters DEF IInv
<1>10. Kept /\ Linked'
  <2>1. Kept
    BY <1>2, KeptSame
  <2>2. Len(file') \in Nat
    BY <1>8, LenProperties DEF TypeOK
  <2> QED
    BY <2>1, <2>2, LinkedKept DEF IInv
<1>11. HeadBefore(p)' /\ HeadAfter(p)' /\ HeadSynced(p)'
  BY <1>3 DEF HeadBefore, HeadAfter, HeadSynced
<1>12. /\ file' \in Seq(Line) /\ Len(file) <= Len(file')
       /\ durable' \in Nat /\ durable <= durable' /\ Others(p)
  BY <1>1, <1>2, <1>3, LenProperties DEF TypeOK, Others
<1>13. Heads'
  BY <1>10, <1>11, <1>12, OneActs
<1>14. LinesOK' /\ ChainedOnly' /\ Written'
  BY <1>2, <1>3 DEF IInv, LinesOK, ChainedOnly, Written
<1> QED
  BY <1>7, <1>8, <1>9, <1>10, <1>13, <1>14 DEF IInv

-----------------------------------------------------------------------------
(* fsync.                                                                  *)

\* The record p has just appended is the last one of its lines.
LEMMA LastOwn ==
    ASSUME IInv, NEW p \in Proc, pc[p] = "sync"
    PROVE  /\ MyLast(p) \in Nat
           /\ Len(file) \in Nat \ {0}
           /\ file[Len(file)].by = p => MyLast(p) = file[Len(file)].id
<1>1. file \in Seq(Line) /\ Len(file) \in Nat
  BY LenProperties DEF IInv, TypeOK
<1> DEFINE mine == {i \in 1..Len(file) : file[i].by = p}
           i0 == CHOOSE i \in mine : \A j \in mine : j <= i
<1>2. mine \subseteq 1..Len(file) /\ mine # {}
  BY DEF IInv, Written
<1>3. \E i \in mine : \A j \in mine : j <= i
  BY <1>1, <1>2, HasLast
<1>4. i0 \in mine /\ \A j \in mine : j <= i0
  BY <1>3
<1>5. MyLast(p) = file[i0].id
  BY DEF MyLast
<1>6. i0 \in 1..Len(file)
  BY <1>2, <1>4
<1>7. file[Len(file)].by = p => i0 = Len(file)
  <2> SUFFICES ASSUME file[Len(file)].by = p PROVE i0 = Len(file)
    OBVIOUS
  <2>1. Len(file) \in 1..Len(file)
    BY <1>1, <1>6
  <2>2. Len(file) \in mine
    BY <2>1
  <2>3. Len(file) <= i0
    BY <1>4, <2>2
  <2> HIDE DEF i0
  <2> QED
    BY <1>1, <1>6, <2>3
<1>8. file[i0] \in Line
  BY <1>1, <1>6, ElementOfSeq
<1> HIDE DEF i0
<1> QED
  BY <1>1, <1>5, <1>6, <1>7, <1>8 DEF Line

LEMMA SyncStep ==
    ASSUME IInv, NEW p \in Proc, Sync(p)
    PROVE  IInv'
<1>1. TypeOK /\ pc[p] = "sync" /\ chain[p] \in BOOLEAN /\ head[p] \in ChainHead
  BY DEF IInv, Sync, TypeOK
<1>2. PICK last : last = MyLast(p)
  OBVIOUS
<1>3. /\ last \in Nat /\ Len(file) \in Nat \ {0}
      /\ file[Len(file)].by = p => last = file[Len(file)].id
  BY <1>1, <1>2, LastOwn
<1>4. UNCHANGED <<file, tip, chain, buffer, nextId, interrupted, late>>
  BY DEF Sync
<1>5. /\ durable' = Len(file) /\ dropped' = [dropped EXCEPT ![p] = 0]
      /\ head' = [head EXCEPT ![p] = [prev |-> last, seq |-> head[p].seq + 1]]
      /\ emitted' = [emitted EXCEPT ![p] = @ \cup {last}]
  BY <1>1, <1>2 DEF Sync, TypeOK
<1>6. /\ pc' \in [Proc -> {"down", "idle", "lock", "scan", "flush", "sync", "tip"}]
      /\ lock' \in Proc \cup {None}
      /\ \A q \in Proc : lock' = q <=>
            \/ pc'[q] \in {"scan", "tip"}
            \/ chain'[q] /\ pc'[q] \in {"flush", "sync"}
      /\ pc'[p] = (IF chain[p] THEN "tip" ELSE "idle")
      /\ \A q \in Proc \ {p} : pc'[q] = pc[q]
  <2>1. CASE chain[p]
    <3>1. pc' = [pc EXCEPT ![p] = "tip"] /\ lock' = lock
      BY <2>1 DEF Sync, Goto
    <3>2. pc'[p] = "tip" /\ \A q \in Proc \ {p} : pc'[q] = pc[q]
      BY <1>1, <3>1 DEF TypeOK
    <3>3. \A q \in Proc : lock' = q <=>
             \/ pc'[q] \in {"scan", "tip"}
             \/ chain'[q] /\ pc'[q] \in {"flush", "sync"}
      BY <1>1, <1>4, <2>1, <3>1, <3>2 DEF TypeOK
    <3> QED
      BY <1>1, <2>1, <3>1, <3>2, <3>3 DEF TypeOK
  <2>2. CASE ~ chain[p]
    BY <1>1, <1>4, <2>2, Returned DEF Sync
  <2> QED
    BY <2>1, <2>2
<1>7. /\ head'[p] = [prev |-> last, seq |-> head[p].seq + 1]
      /\ \A q \in Proc \ {p} : head'[q] = head[q]
      /\ head' \in [Proc -> ChainHead]
  BY <1>1, <1>3, <1>5 DEF TypeOK, ChainHead
<1>8. TypeOK'
  <2>1. dropped' \in [Proc -> Nat] /\ emitted' \in [Proc -> SUBSET Nat]
    BY <1>1, <1>3, <1>5 DEF TypeOK
  <2>2. durable' \in 0..Len(file')
    BY <1>3, <1>4, <1>5
  <2> QED
    BY <1>1, <1>4, <1>6, <1>7, <2>1, <2>2 DEF TypeOK
<1>9. Fits'
  <2>1. Writers' \subseteq Writers
    BY <1>1, <1>6 DEF Writers
  <2> QED
    BY <1>1, <1>4, <2>1, FewerWriters DEF IInv
<1>10. durable' \in durable..Len(file)
  BY <1>1, <1>3, <1>5 DEF TypeOK
<1>11. /\ Kept /\ Linked' /\ TipKnown' /\ file' \in Seq(Line) /\ Len(file) <= Len(file')
       /\ durable' \in Nat /\ durable <= durable'
  BY <1>4, <1>10, FileStays
<1>12. HeadSynced(p)'
  <2> SUFFICES ASSUME chain[p]
               PROVE  /\ head'[p].seq > 0
                      /\ \A n \in durable'..Len(file') : n > 0 /\ Clean(n)' =>
                            head'[p].prev = file'[n].id /\ head'[p].seq = file'[n].seq + 1
    BY <1>6 DEF HeadSynced
  <2>1. head'[p].seq > 0
    BY <1>1, <1>7 DEF ChainHead
  <2>2. ASSUME NEW n \in durable'..Len(file'), Clean(n)'
        PROVE  head'[p].prev = file'[n].id /\ head'[p].seq = file'[n].seq + 1
    <3>1. n = Len(file) /\ file' = file
      BY <1>3, <1>4, <1>5
    <3>2. Clean(n)
      BY <1>4, <2>2 DEF Clean, CleanIn
    <3>3. Clean(Len(file))
      BY <3>1, <3>2
    <3>4. file[Len(file)].by = p /\ file[Len(file)].seq = head[p].seq
      BY <1>1, <3>3 DEF IInv, Heads, HeadAfter
    <3> QED
      BY <1>3, <1>7, <3>1, <3>4
  <2> QED
    BY <2>1, <2>2
<1>13. HeadBefore(p)' /\ HeadAfter(p)'
  BY <1>6 DEF HeadBefore, HeadAfter
<1>14. Others(p)
  BY <1>4, <1>6, <1>7 DEF Others
<1>15. Heads'
  BY <1>11, <1>12, <1>13, <1>14, OneActs
<1>16. LinesOK' /\ ChainedOnly' /\ Written'
  BY <1>4, <1>6 DEF IInv, LinesOK, ChainedOnly, Written
<1> QED
  BY <1>8, <1>9, <1>11, <1>15, <1>16 DEF IInv

LEMMA SyncFailsStep ==
    ASSUME IInv, NEW p \in Proc, SyncFails(p)
    PROVE  IInv'
<1>1. TypeOK /\ pc[p] = "sync"
  BY DEF IInv, SyncFails
<1>2. UNCHANGED <<file, durable, tip, chain, head, buffer, nextId, interrupted, late>>
  BY DEF SyncFails
<1>3. /\ pc' \in [Proc -> {"down", "idle", "lock", "scan", "flush", "sync", "tip"}]
      /\ lock' \in Proc \cup {None}
      /\ \A q \in Proc : lock' = q <=>
            \/ pc'[q] \in {"scan", "tip"}
            \/ chain'[q] /\ pc'[q] \in {"flush", "sync"}
      /\ pc'[p] = "idle" /\ \A q \in Proc \ {p} : pc'[q] = pc[q]
      /\ Writers' = Writers \ {p}
  BY <1>1, <1>2, Returned DEF SyncFails, DropRecord
<1>4. MyLast(p) \in Nat
  BY <1>1, LastOwn
<1>5. dropped' \in [Proc -> Nat] /\ emitted' \in [Proc -> SUBSET Nat]
  BY <1>1, <1>4 DEF SyncFails, DropRecord, TypeOK
<1>6. TypeOK'
  BY <1>1, <1>2, <1>3, <1>5 DEF TypeOK
<1>7. Fits'
  BY <1>1, <1>2, <1>3, FewerWriters DEF IInv
<1> QED
  BY <1>2, <1>3, <1>6, <1>7, QuietStep DEF Others

-----------------------------------------------------------------------------
(* Writing.                                                                *)

\* The lines after an append are old lines and appended ones.
LEMMA LinesAppended ==
    ASSUME IInv, NEW ls \in Seq(Line), file' = Appended(file, ls),
           nextId \in Nat, nextId' \in Nat, nextId <= nextId', late' = late,
           \A j \in 1..Len(ls) : ls[j].id < nextId' /\ ls[j].ended,
           \A q \in Proc : buffer'[q] \in {buffer[q], <<>>}
    PROVE  LinesOK'
<1>1. file \in Seq(Line) /\ (\A q \in Proc : buffer[q] \in Seq(Line)) /\ LinesOK
  BY DEF IInv, TypeOK
<1>2. file' \in Seq(Line) /\ LinesOf(file, ls, file')
  BY <1>1, AppendKeeps
<1>3. ASSUME NEW i \in 1..Len(file')
      PROVE  file'[i].id < nextId' /\ (file'[i].whole => file'[i].ended)
  <2>1. CASE i <= Len(file) /\ file'[i] = file[i]
    <3>1. i \in 1..Len(file)
      BY <1>1, <1>2, <2>1, LenProperties
    <3>2. file[i].id \in Nat
      <4>1. file[i] \in Line
        BY <1>1, <3>1, ElementOfSeq
      <4> QED
        BY <4>1 DEF Line
    <3>3. file[i].id < nextId /\ (file[i].whole => file[i].ended)
      BY <1>1, <3>1 DEF LinesOK
    <3> QED
      BY <2>1, <3>2, <3>3
  <2>2. ASSUME NEW j \in 1..Len(ls), file'[i] \in {ls[j], Spoilt(ls[j])}
        PROVE  file'[i].id < nextId' /\ (file'[i].whole => file'[i].ended)
    <3>1. ls[j] \in Line
      BY ElementOfSeq
    <3>2. /\ Spoilt(ls[j]).id = ls[j].id /\ Spoilt(ls[j]).ended = ls[j].ended
      BY <3>1 DEF Spoilt, Line
    <3> QED
      BY <2>2, <3>2
  <2> QED
    BY <1>2, <2>1, <2>2 DEF LinesOf
<1>4. ASSUME NEW q \in Proc, NEW i \in 1..Len(buffer'[q])
      PROVE  /\ buffer'[q][i].id \in late' /\ buffer'[q][i].id < nextId'
             /\ buffer'[q][i].ended
  <2>1. i \in 1..Len(buffer[q]) /\ buffer'[q] = buffer[q]
    BY <1>4, EmptySeq
  <2>2. buffer[q][i] \in Line
    BY <1>1, <2>1, ElementOfSeq
  <2>3. buffer[q][i].id \in Nat
    BY <2>2 DEF Line
  <2>4. /\ buffer[q][i].id \in late /\ buffer[q][i].id < nextId /\ buffer[q][i].ended
    BY <1>1, <2>1 DEF LinesOK
  <2> QED
    BY <2>1, <2>3, <2>4
<1>5. ASSUME NEW i \in late' PROVE i < nextId'
  <2>1. i \in Nat /\ i < nextId
    BY <1>1, <1>5, BoundAssumption DEF LinesOK, IInv, TypeOK
  <2> QED
    BY <2>1
<1> QED
  BY <1>3, <1>4, <1>5 DEF LinesOK

\* No append takes away a line that has its end.
HasOwn(f, q) == \E i \in 1..Len(f) : f[i].by = q /\ f[i].ended

LEMMA OwnKept ==
    ASSUME TypeOK, NEW ls \in Seq(Line), file' = Appended(file, ls), NEW q,
           HasOwn(file, q)
    PROVE  HasOwn(file', q)
<1>1. PICK i \in 1..Len(file) : file[i].by = q /\ file[i].ended
  BY DEF HasOwn
<1>2. file \in Seq(Line)
  BY DEF TypeOK
<1>3. file' \in Seq(Line) /\ Len(file') >= Len(file) /\ LinesOf(file, ls, file')
  BY <1>2, AppendKeeps
<1>4. file'[i] = file[i]
  BY <1>1, <1>3 DEF LinesOf
<1>5. i \in 1..Len(file')
  BY <1>2, <1>3, LenProperties
<1> QED
  BY <1>1, <1>4, <1>5 DEF HasOwn

\* Without the chain a flush leaves every clean prefix as it was; with it, the lock's holder
\* continues the last line, if the file is clean.
LEMMA FlushStep ==
    ASSUME IInv, NEW p \in Proc, Flush(p)
    PROVE  IInv'
<1>1. TypeOK /\ LinesOK /\ pc[p] = "flush" /\ chain[p] \in BOOLEAN
  BY DEF IInv, Flush, TypeOK
<1>2. PICK ls : ls = Append(buffer[p], NewLine(p))
  OBVIOUS
<1>3. /\ NewLine(p) \in Line /\ ls \in Seq(Line) /\ Len(ls) = Len(buffer[p]) + 1 /\ ls # <<>>
      /\ \A i \in 1..Len(buffer[p]) : ls[i] = buffer[p][i]
      /\ ls[Len(buffer[p]) + 1] = NewLine(p)
  BY <1>1, <1>2, Flushed
<1>4. /\ file' = Appended(file, ls) /\ buffer' = [buffer EXCEPT ![p] = <<>>]
      /\ nextId' = nextId + 1 /\ interrupted' = (interrupted \/ chain[p])
      /\ pc' = [pc EXCEPT ![p] = "sync"]
      /\ UNCHANGED <<durable, tip, lock, chain, head, dropped, emitted, late>>
  BY <1>2 DEF Flush, Goto
<1>5. /\ file \in Seq(Line) /\ Len(file) \in Nat
      /\ file' \in Seq(Line) /\ Len(file') \in Nat /\ Len(file') >= Len(file)
      /\ LinesOf(file, ls, file')
  <2>1. file \in Seq(Line)
    BY <1>1 DEF TypeOK
  <2>2. file' \in Seq(Line) /\ Len(file') >= Len(file) /\ LinesOf(file, ls, file')
    BY <1>3, <1>4, <2>1, AppendKeeps
  <2> QED
    BY <2>1, <2>2, LenProperties
<1>6. pc'[p] = "sync" /\ \A q \in Proc \ {p} : pc'[q] = pc[q]
  BY <1>1, <1>4 DEF TypeOK
<1>7. Fits' /\ nextId \in 1..MaxRecords /\ nextId' \in 1..MaxRecords + 1
  <2>1. Writers' = Writers \ {p}
    BY <1>6 DEF Writers
  <2> QED
    BY <1>1, <1>4, <2>1, OneIsWritten DEF IInv
<1>8. TypeOK'
  <2>1. \A q \in Proc : lock' = q <=>
           \/ pc'[q] \in {"scan", "tip"}
           \/ chain'[q] /\ pc'[q] \in {"flush", "sync"}
    BY <1>1, <1>4, <1>6 DEF TypeOK
  <2>2. pc' \in [Proc -> {"down", "idle", "lock", "scan", "flush", "sync", "tip"}]
    BY <1>1, <1>4 DEF TypeOK
  <2>3. buffer' \in [Proc -> Seq(Line)]
    BY <1>1, <1>4, EmptySeq DEF TypeOK
  <2>4. durable' \in 0..Len(file') /\ interrupted' \in BOOLEAN
    BY <1>1, <1>4, <1>5 DEF TypeOK
  <2> QED
    BY <1>1, <1>4, <1>5, <1>7, <2>1, <2>2, <2>3, <2>4 DEF TypeOK
<1>9. NewLine(p).id = nextId /\ NewLine(p).by = p /\ NewLine(p).ended
      /\ NewLine(p).chained = chain[p]
  BY DEF NewLine
<1>10. LinesOK'
  <2>1. ASSUME NEW j \in 1..Len(ls) PROVE ls[j].id < nextId' /\ ls[j].ended
    <3>1. Len(buffer[p]) \in Nat
      BY <1>1, LenProperties DEF TypeOK
    <3>2. CASE j \in 1..Len(buffer[p])
      <4>1. ls[j] = buffer[p][j] /\ buffer[p][j].id < nextId /\ buffer[p][j].ended
        BY <1>1, <1>3, <3>2 DEF LinesOK
      <4>2. ls[j].id \in Nat
        <5>1. ls[j] \in Line
          BY <1>3, ElementOfSeq
        <5> QED
          BY <5>1 DEF Line
      <4> QED
        BY <1>4, <1>7, <4>1, <4>2
    <3>3. CASE j = Len(buffer[p]) + 1
      BY <1>3, <1>4, <1>7, <1>9, <3>3
    <3> QED
      BY <1>3, <3>1, <3>2, <3>3
  <2>2. \A q \in Proc : buffer'[q] \in {buffer[q], <<>>}
    BY <1>1, <1>4 DEF TypeOK
  <2>3. nextId \in Nat /\ nextId' \in Nat /\ nextId <= nextId'
    BY <1>4, <1>7
  <2> QED
    BY <1>3, <1>4, <2>1, <2>2, <2>3, LinesAppended
<1>11. ChainedOnly'
  BY <1>4, <1>6 DEF IInv, ChainedOnly
<1>12. Written'
  <2>1. \E i \in 1..Len(file') : file'[i].by = p /\ file'[i].ended
    <3>1. Len(file') > 0 /\ file'[Len(file')] \in {ls[Len(ls)], Spoilt(ls[Len(ls)])}
      BY <1>3, <1>5 DEF LinesOf
    <3>2. ls[Len(ls)] = NewLine(p)
      BY <1>3
    <3>3. Spoilt(NewLine(p)).by = p /\ Spoilt(NewLine(p)).ended
      BY <1>3, <1>9 DEF Spoilt, Line
    <3>4. Len(file') \in 1..Len(file')
      BY <1>5, <3>1
    <3> QED
      BY <1>9, <3>1, <3>2, <3>3, <3>4
  <2>2. ASSUME NEW q \in Proc, q # p, pc'[q] = "sync"
        PROVE  \E i \in 1..Len(file') : file'[i].by = q /\ file'[i].ended
    <3>1. HasOwn(file, q)
      BY <1>6, <2>2 DEF IInv, Written, HasOwn
    <3>2. HasOwn(file', q)
      BY <1>1, <1>3, <1>4, <3>1, OwnKept
    <3> QED
      BY <3>2 DEF HasOwn
  <2> QED
    BY <2>1, <2>2 DEF Written
<1>13. ASSUME NEW n \in 1..Len(file'), Clean(n)'
       PROVE  \/ n <= Len(file) /\ Clean(n) /\ \A j \in 1..n : file'[j] = file[j]
              \/ /\ n = Len(file) + 1 /\ Len(file') = n /\ Clean(Len(file)) /\ chain[p]
                 /\ \A j \in 1..Len(file) : file'[j] = file[j]
                 /\ file'[n] = NewLine(p)
  BY <1>1, <1>2, <1>4, <1>13, CleanFlush
<1>14. Others(p) /\ durable' \in Nat /\ durable <= durable'
  BY <1>1, <1>4, <1>6 DEF Others, TypeOK
<1>15. CASE ~ chain[p]
  <2>1. Kept
    BY <1>13, <1>15 DEF Kept
  <2>2. Linked'
    BY <1>5, <2>1, LinkedKept DEF IInv
  <2>3. TipKnown'
    BY <1>1, <1>4, <1>5, <1>14, <2>1, TipKept DEF IInv
  <2>4. HeadBefore(p)' /\ HeadAfter(p)' /\ HeadSynced(p)'
    BY <1>4, <1>6, <1>15 DEF HeadBefore, HeadAfter, HeadSynced
  <2>5. Heads'
    BY <1>5, <1>14, <2>1, <2>4, OneActs
  <2> QED
    BY <1>7, <1>8, <1>10, <1>11, <1>12, <2>2, <2>3, <2>5 DEF IInv
<1>16. CASE chain[p]
  <2>1. TipKnown'
    BY <1>4, <1>16 DEF TipKnown
  <2>2. \A q \in Proc \ {p} :
           pc'[q] # "tip" /\ ~ (chain'[q] /\ pc'[q] \in {"flush", "sync"})
    BY <1>1, <1>4, <1>6, <1>16 DEF TypeOK
  <2>3. \A q \in Proc \ {p} : HeadBefore(q)' /\ HeadAfter(q)' /\ HeadSynced(q)'
    BY <2>2 DEF HeadBefore, HeadAfter, HeadSynced
  <2>4. Clean(Len(file)) => head[p] = TailState
    BY <1>1, <1>16 DEF IInv, Heads, HeadBefore
  <2>5. NewLine(p).prev = head[p].prev /\ NewLine(p).seq = head[p].seq
    BY <1>16 DEF NewLine
  <2>6. Linked'
    <3> SUFFICES ASSUME NEW n \in 1..Len(file'), Clean(n)'
                 PROVE  Continues(file', n)
      BY DEF Linked, Continues
    <3>1. CASE n <= Len(file) /\ Clean(n) /\ \A j \in 1..n : file'[j] = file[j]
      <4>1. Continues(file, n)
        BY <1>5, <3>1 DEF IInv, Linked
      <4>2. n \in 1..n /\ (n # 1 => n - 1 \in 1..n)
        BY <1>5
      <4>3. file'[n] = file[n] /\ (n # 1 => file'[n - 1] = file[n - 1])
        BY <3>1, <4>2
      <4> QED
        BY <4>1, <4>3 DEF Continues
    <3>2. CASE /\ n = Len(file) + 1 /\ Clean(Len(file))
               /\ \A j \in 1..Len(file) : file'[j] = file[j]
               /\ file'[n] = NewLine(p)
      <4>1. head[p] = TailState
        BY <2>4, <3>2
      <4>2. CASE file = <<>>
        <5>1. n = 1
          BY <3>2, <4>2, EmptySeq
        <5>2. TailState.prev = 0 /\ TailState.seq = 0
          BY <4>2 DEF TailState, NoHead
        <5> QED
          BY <2>5, <3>2, <4>1, <5>1, <5>2 DEF Continues
      <4>3. CASE file # <<>>
        <5>1. PICK m \in Nat \ {0} : m = Len(file)
          BY <1>5, <4>3, EmptySeq
        <5>2. m \in 1..m /\ n # 1 /\ n - 1 = m
          BY <3>2, <5>1
        <5>3. file[m].whole /\ file[m].chained
          BY <3>2, <5>1, <5>2 DEF Clean, CleanIn
        <5>4. TailState.prev = file[m].id /\ TailState.seq = file[m].seq + 1
          BY <4>3, <5>1, <5>3 DEF TailState
        <5>5. file'[m] = file[m]
          BY <3>2, <5>1, <5>2
        <5> QED
          BY <2>5, <3>2, <4>1, <5>2, <5>4, <5>5 DEF Continues
      <4> QED
        BY <4>2, <4>3
    <3> QED
      BY <1>13, <3>1, <3>2
  <2>7. HeadBefore(p)' /\ HeadSynced(p)'
    BY <1>6 DEF HeadBefore, HeadSynced
  <2>8. HeadAfter(p)'
    <3> SUFFICES ASSUME Clean(Len(file))'
                 PROVE  file'[Len(file')].by = p /\ file'[Len(file')].seq = head[p].seq
      BY <1>4, <1>6 DEF HeadAfter
    <3>1. PICK n \in Nat : n = Len(file')
      BY <1>5
    <3>2. Len(file') > 0
      BY <1>3, <1>5 DEF LinesOf
    <3>3. n \in 1..Len(file') /\ CleanIn(file', late', n)
      BY <3>1, <3>2 DEF Clean
    <3>4. Clean(n)'
      BY <3>3 DEF Clean
    <3>5. CASE n <= Len(file) /\ Clean(n) /\ \A j \in 1..n : file'[j] = file[j]
      <4>1. file'[Len(file')] \in {ls[Len(ls)], Spoilt(ls[Len(ls)])}
        BY <1>3, <1>5 DEF LinesOf
      <4>2. ls[Len(ls)] = NewLine(p)
        BY <1>3
      <4>3. Spoilt(NewLine(p)).id = nextId
        BY <1>3, <1>9 DEF Spoilt, Line
      <4>4. file'[n].id = nextId
        BY <1>9, <3>1, <4>1, <4>2, <4>3
      <4>5. n \in 1..n /\ n \in 1..Len(file)
        BY <1>5, <3>1, <3>2, <3>5
      <4>6. file'[n] = file[n] /\ file[n].id < nextId
        BY <1>1, <3>5, <4>5 DEF LinesOK
      <4>7. nextId \in Nat
        BY <1>7
      <4> QED
        BY <4>4, <4>6, <4>7
    <3>6. CASE file'[n] = NewLine(p)
      BY <1>9, <2>5, <3>1, <3>6
    <3> QED
      BY <1>13, <3>3, <3>4, <3>5, <3>6
  <2>9. Heads'
    BY <2>3, <2>7, <2>8 DEF Heads
  <2> QED
    BY <1>7, <1>8, <1>10, <1>11, <1>12, <2>1, <2>6, <2>9 DEF IInv
<1> QED
  BY <1>1, <1>15, <1>16

\* A record that could not be flushed is late before it is in the file.
LEMMA FlushFailsStep ==
    ASSUME IInv, NEW p \in Proc, FlushFails(p)
    PROVE  IInv'
<1>1. TypeOK /\ LinesOK /\ pc[p] = "flush"
  BY DEF IInv, FlushFails
<1>2. PICK ls : ls = Append(buffer[p], NewLine(p))
  OBVIOUS
<1>3. /\ NewLine(p) \in Line /\ ls \in Seq(Line) /\ Len(ls) = Len(buffer[p]) + 1
      /\ \A i \in 1..Len(buffer[p]) : ls[i] = buffer[p][i]
      /\ ls[Len(buffer[p]) + 1] = NewLine(p)
  BY <1>1, <1>2, Flushed
<1>4. /\ UNCHANGED <<file, durable, tip, chain, head, interrupted>>
      /\ buffer' = [buffer EXCEPT ![p] = ls] /\ nextId' = nextId + 1
      /\ late' = late \cup {nextId} /\ Return(p)
      /\ dropped' = [dropped EXCEPT ![p] = @ + 1]
      /\ emitted' = [emitted EXCEPT ![p] = @ \cup {nextId}]
  BY <1>2 DEF FlushFails, DropRecord
<1>5. /\ pc' \in [Proc -> {"down", "idle", "lock", "scan", "flush", "sync", "tip"}]
      /\ lock' \in Proc \cup {None}
      /\ \A q \in Proc : lock' = q <=>
            \/ pc'[q] \in {"scan", "tip"}
            \/ chain'[q] /\ pc'[q] \in {"flush", "sync"}
      /\ pc'[p] = "idle" /\ \A q \in Proc \ {p} : pc'[q] = pc[q]
      /\ Writers' = Writers \ {p}
  BY <1>1, <1>4, Returned
<1>6. Fits' /\ nextId \in 1..MaxRecords /\ nextId' \in 1..MaxRecords + 1
  BY <1>1, <1>4, <1>5, OneIsWritten DEF IInv
<1>7. TypeOK'
  <2>1. buffer' \in [Proc -> Seq(Line)]
    BY <1>1, <1>3, <1>4 DEF TypeOK
  <2>2. dropped' \in [Proc -> Nat]
    BY <1>1, <1>4 DEF TypeOK
  <2>3. emitted' \in [Proc -> SUBSET Nat]
    BY <1>1, <1>4, <1>6, BoundAssumption DEF TypeOK
  <2>4. late' \subseteq 1..MaxRecords
    BY <1>1, <1>4, <1>6 DEF TypeOK
  <2> QED
    BY <1>1, <1>4, <1>5, <1>6, <2>1, <2>2, <2>3, <2>4 DEF TypeOK
<1>8. nextId \in Nat
  BY <1>6, BoundAssumption
<1>9. LinesOK'
  <2>1. ASSUME NEW i \in 1..Len(file')
        PROVE  file'[i].id < nextId' /\ (file'[i].whole => file'[i].ended)
    <3>1. i \in 1..Len(file) /\ file'[i] = file[i]
      BY <1>4
    <3>2. file[i].id \in Nat
      <4>1. file[i] \in Line
        BY <1>1, <3>1, ElementOfSeq DEF TypeOK
      <4> QED
        BY <4>1 DEF Line
    <3>3. file[i].id < nextId /\ (file[i].whole => file[i].ended)
      BY <1>1, <3>1 DEF LinesOK
    <3> QED
      BY <1>4, <1>8, <3>1, <3>2, <3>3
  <2>2. ASSUME NEW q \in Proc, NEW i \in 1..Len(buffer[q])
        PROVE  /\ buffer[q][i].id \in late' /\ buffer[q][i].id < nextId'
               /\ buffer[q][i].ended
    <3>1. buffer[q][i] \in Line
      BY <1>1, ElementOfSeq DEF TypeOK
    <3>2. buffer[q][i].id \in Nat
      BY <3>1 DEF Line
    <3>3. /\ buffer[q][i].id \in late /\ buffer[q][i].id < nextId /\ buffer[q][i].ended
      BY <1>1 DEF LinesOK
    <3> QED
      BY <1>4, <1>8, <3>2, <3>3
  <2>3. ASSUME NEW q \in Proc, NEW i \in 1..Len(buffer'[q])
        PROVE  /\ buffer'[q][i].id \in late' /\ buffer'[q][i].id < nextId'
               /\ buffer'[q][i].ended
    <3>1. CASE q # p
      <4>1. buffer'[q] = buffer[q]
        BY <1>1, <1>4, <3>1 DEF TypeOK
      <4> QED
        BY <2>2, <2>3, <4>1
    <3>2. CASE q = p /\ i \in 1..Len(buffer[p])
      <4>1. buffer'[q][i] = buffer[q][i]
        BY <1>1, <1>3, <1>4, <3>2 DEF TypeOK
      <4> QED
        BY <2>2, <3>2, <4>1
    <3>3. CASE q = p /\ i = Len(buffer[p]) + 1
      <4>1. buffer'[q][i] = NewLine(p)
        BY <1>1, <1>3, <1>4, <3>3 DEF TypeOK
      <4>2. NewLine(p).id = nextId /\ NewLine(p).ended
        BY DEF NewLine
      <4> QED
        BY <1>4, <1>8, <4>1, <4>2
    <3>4. q = p => i \in 1..Len(buffer[p]) \/ i = Len(buffer[p]) + 1
      <4>1. Len(buffer[p]) \in Nat
        BY <1>1, LenProperties DEF TypeOK
      <4>2. q = p => buffer'[q] = ls
        BY <1>1, <1>4 DEF TypeOK
      <4> QED
        BY <1>3, <2>3, <4>1, <4>2
    <3> QED
      BY <3>1, <3>2, <3>3, <3>4
  <2>4. ASSUME NEW i \in late' PROVE i < nextId'
    <3>1. i = nextId \/ (i \in Nat /\ i < nextId)
      BY <1>1, <1>4, <2>4, BoundAssumption DEF LinesOK, TypeOK
    <3> QED
      BY <1>4, <1>8, <3>1
  <2> QED
    BY <2>1, <2>3, <2>4 DEF LinesOK
<1>10. ChainedOnly' /\ Written'
  BY <1>4, <1>5 DEF IInv, ChainedOnly, Written
<1>11. durable \in durable..Len(file)
  BY <1>1, LenProperties DEF TypeOK
<1>12. /\ Kept /\ Linked' /\ TipKnown' /\ file' \in Seq(Line) /\ Len(file) <= Len(file')
       /\ durable' \in Nat /\ durable <= durable'
  BY <1>4, <1>11, FileStays
<1>13. HeadBefore(p)' /\ HeadAfter(p)' /\ HeadSynced(p)'
  BY <1>5 DEF HeadBefore, HeadAfter, HeadSynced
<1>14. Others(p)
  BY <1>4, <1>5 DEF Others
<1>15. Heads'
  BY <1>12, <1>13, <1>14, OneActs
<1> QED
  BY <1>6, <1>7, <1>9, <1>10, <1>12, <1>15 DEF IInv

\* close() appends without the lock, but only what is late.
LEMMA CloseStep ==
    ASSUME IInv, NEW p \in Proc, Close(p)
    PROVE  IInv'
<1>1. CASE file' = file
  BY <1>1, EndStep DEF Close
<1>2. CASE file' = Appended(file, buffer[p])
  <2>1. TypeOK /\ LinesOK
    BY DEF IInv
  <2>2. /\ pc' \in [Proc -> {"down", "idle", "lock", "scan", "flush", "sync", "tip"}]
        /\ chain' \in [Proc -> BOOLEAN] /\ head' \in [Proc -> ChainHead]
        /\ dropped' \in [Proc -> Nat] /\ buffer' \in [Proc -> Seq(Line)]
        /\ emitted' \in [Proc -> SUBSET Nat] /\ lock' \in Proc \cup {None}
        /\ \A q \in Proc : lock' = q <=>
              \/ pc'[q] \in {"scan", "tip"}
              \/ chain'[q] /\ pc'[q] \in {"flush", "sync"}
        /\ pc'[p] = "down" /\ buffer'[p] = <<>>
        /\ \A q \in Proc \ {p} : /\ pc'[q] = pc[q] /\ chain'[q] = chain[q]
                                 /\ head'[q] = head[q] /\ buffer'[q] = buffer[q]
        /\ Writers' \subseteq Writers
    BY <2>1, Ended DEF Close
  <2>3. UNCHANGED <<durable, tip, nextId, interrupted, late>>
    BY DEF Close
  <2>4. file \in Seq(Line) /\ buffer[p] \in Seq(Line)
    BY <2>1 DEF TypeOK
  <2>5. file' \in Seq(Line) /\ Len(file') >= Len(file)
    BY <1>2, <2>4, AppendKeeps
  <2>6. /\ Len(file) \in Nat /\ Len(file') \in Nat /\ Len(file) <= Len(file')
        /\ durable' \in Nat /\ durable <= durable' /\ durable' \in 0..Len(file')
    <3>1. Len(file) \in Nat /\ Len(file') \in Nat
      BY <2>4, <2>5, LenProperties
    <3>2. durable \in 0..Len(file)
      BY <2>1 DEF TypeOK
    <3> QED
      BY <2>3, <2>5, <3>1, <3>2
  <2>7. TypeOK'
    BY <2>1, <2>2, <2>3, <2>5, <2>6 DEF TypeOK
  <2>8. Fits'
    BY <2>1, <2>2, <2>3, FewerWriters DEF IInv
  <2>9. Kept
    BY <1>2, <2>1, <2>3, KeptLate
  <2>10. LinesOK'
    <3>1. \A j \in 1..Len(buffer[p]) : buffer[p][j].id < nextId' /\ buffer[p][j].ended
      BY <2>1, <2>3 DEF LinesOK
    <3>2. \A q \in Proc : buffer'[q] \in {buffer[q], <<>>}
      BY <2>2
    <3>3. nextId \in Nat /\ nextId' \in Nat /\ nextId <= nextId'
      BY <2>1, <2>3, BoundAssumption DEF TypeOK
    <3> QED
      BY <1>2, <2>3, <2>4, <3>1, <3>2, <3>3, LinesAppended
  <2>11. ChainedOnly'
    BY <2>2 DEF IInv, ChainedOnly
  <2>12. Written'
    <3>1. ASSUME NEW q \in Proc, pc'[q] = "sync" PROVE HasOwn(file', q)
      <4>1. HasOwn(file, q)
        <5>1. pc[q] = "sync"
          BY <2>2, <3>1
        <5> QED
          BY <5>1 DEF IInv, Written, HasOwn
      <4>2. PICK ls \in Seq(Line) : ls = buffer[p]
        BY <2>4
      <4>3. file' = Appended(file, ls)
        BY <1>2, <4>2
      <4> QED
        BY <2>1, <4>1, <4>3, OwnKept
    <3> QED
      BY <3>1 DEF Written, HasOwn
  <2>13. Linked'
    BY <2>6, <2>9, LinkedKept DEF IInv
  <2>14. TipKnown'
    BY <2>1, <2>3, <2>6, <2>9, TipKept DEF IInv
  <2>15. HeadBefore(p)' /\ HeadAfter(p)' /\ HeadSynced(p)'
    BY <2>2 DEF HeadBefore, HeadAfter, HeadSynced
  <2>16. Others(p)
    BY <2>2 DEF Others
  <2>17. Heads'
    BY <2>5, <2>6, <2>9, <2>15, <2>16, OneActs
  <2> QED
    BY <2>7, <2>8, <2>10, <2>11, <2>12, <2>13, <2>14, <2>17 DEF IInv
<1> QED
  BY <1>1, <1>2 DEF Close

\* A line a power loss left without its end.
Torn(line) == [line EXCEPT !.whole = FALSE, !.ended = FALSE]

\* What a power loss leaves: the first n lines, the last of them whole or torn.
IsCut(f, n, g) ==
    /\ g \in Seq(Line) /\ Len(g) = n
    /\ \A i \in 1..n : g[i] = f[i] \/ g[i] = Torn(f[i])

LEMMA CutShort ==
    ASSUME NEW f \in Seq(Line), NEW n \in 0..Len(f), NEW g,
           \/ g = SubSeq(f, 1, n)
           \/ /\ n > 0
              /\ g = [SubSeq(f, 1, n) EXCEPT ![n].whole = FALSE, ![n].ended = FALSE]
    PROVE  IsCut(f, n, g)
<1> DEFINE a == SubSeq(f, 1, n)
<1>1. Len(f) \in Nat /\ n \in Nat
  BY LenProperties
<1>2. a \in Seq(Line) /\ Len(a) = n /\ \A i \in 1..n : a[i] = f[i]
  <2>1. \A i \in 1..n : f[i] \in Line
    <3>1. \A i \in 1..n : i \in 1..Len(f)
      BY <1>1
    <3> QED
      BY <3>1, ElementOfSeq
  <2>2. /\ a \in Seq(Line)
        /\ Len(a) = IF 1 <= n THEN n - 1 + 1 ELSE 0
        /\ \A i \in 1..n - 1 + 1 : a[i] = f[1 + i - 1]
    BY <1>1, <2>1, SubSeqProperties
  <2> HIDE DEF a
  <2>3. Len(a) = n
    BY <1>1, <2>2
  <2>4. ASSUME NEW i \in 1..n PROVE a[i] = f[i]
    <3>1. i \in 1..n - 1 + 1 /\ 1 + i - 1 = i
      BY <1>1
    <3> QED
      BY <2>2, <3>1
  <2> QED
    BY <2>2, <2>3, <2>4
<1>3. CASE g = a
  BY <1>2, <1>3 DEF IsCut
<1>4. CASE n > 0 /\ g = [a EXCEPT ![n].whole = FALSE, ![n].ended = FALSE]
  <2> HIDE DEF a
  <2>1. n \in 1..Len(a) /\ n \in 1..n
    BY <1>1, <1>2, <1>4
  <2>2. a[n] \in Line
    BY <1>2, <2>1, ElementOfSeq
  <2>3. Torn(a[n]) \in Line
    BY <2>2 DEF Torn, Line
  <2>4. g = [a EXCEPT ![n] = Torn(a[n])]
    <3>1. DOMAIN a = 1..n
      BY <1>2, LenProperties
    <3> QED
      BY <1>4, <2>1, <3>1 DEF Torn
  <2>5. PICK t \in Line : t = Torn(a[n])
    BY <2>3
  <2>6. /\ g \in Seq(Line) /\ Len(g) = Len(a)
        /\ \A j \in 1..Len(a) : g[j] = IF j = n THEN t ELSE a[j]
    BY <1>2, <2>1, <2>4, <2>5, ExceptSeq
  <2>7. t = Torn(f[n])
    BY <1>2, <2>1, <2>5
  <2> QED
    BY <1>2, <2>6, <2>7 DEF IsCut
<1> QED
  BY <1>3, <1>4

\* A power loss leaves a prefix of the file, and no instance.
LEMMA PowerLossStep ==
    ASSUME IInv, PowerLoss
    PROVE  IInv'
<1>1. TypeOK /\ LinesOK /\ file \in Seq(Line) /\ Len(file) \in Nat /\ durable \in 0..Len(file)
  BY LenProperties DEF IInv, TypeOK
<1>2. PICK n \in durable..Len(file) :
         /\ \/ file' = SubSeq(file, 1, n)
            \/ /\ n > durable
               /\ file' = [SubSeq(file, 1, n) EXCEPT ![n].whole = FALSE, ![n].ended = FALSE]
         /\ durable' = n
  BY DEF PowerLoss
<1>3. n \in 0..Len(file) /\ (n > durable => n > 0)
  BY <1>1
<1>4. IsCut(file, n, file')
  BY <1>1, <1>2, <1>3, CutShort
<1>5. /\ file' \in Seq(Line) /\ Len(file') = n
      /\ \A i \in 1..n : file'[i] = file[i] \/ file'[i] = Torn(file[i])
  BY <1>4 DEF IsCut
<1>6. UNCHANGED <<tip, nextId, interrupted, late>>
  BY DEF PowerLoss
<1>7. /\ pc' \in [Proc -> {"down", "idle", "lock", "scan", "flush", "sync", "tip"}]
      /\ chain' \in [Proc -> BOOLEAN] /\ head' \in [Proc -> ChainHead]
      /\ dropped' \in [Proc -> Nat] /\ buffer' \in [Proc -> Seq(Line)]
      /\ emitted' \in [Proc -> SUBSET Nat] /\ lock' \in Proc \cup {None}
      /\ \A q \in Proc : lock' = q <=>
            \/ pc'[q] \in {"scan", "tip"}
            \/ chain'[q] /\ pc'[q] \in {"flush", "sync"}
      /\ \A q \in Proc : pc'[q] = "down" /\ buffer'[q] = <<>>
      /\ Writers' \subseteq Writers
  BY <1>1, Ended DEF PowerLoss
<1>8. n \in Nat /\ durable' \in Nat /\ durable <= durable' /\ durable' \in 0..Len(file')
      /\ Len(file') \in Nat
  BY <1>1, <1>2, <1>3, <1>5
<1>9. TypeOK'
  BY <1>1, <1>5, <1>6, <1>7, <1>8 DEF TypeOK
<1>10. Fits'
  BY <1>1, <1>6, <1>7, FewerWriters DEF IInv
<1>11. ASSUME NEW i \in 1..n
       PROVE  /\ i \in 1..Len(file) /\ file'[i].id = file[i].id
              /\ file'[i] = file[i] \/ ~ file'[i].whole
  <2>1. i \in 1..Len(file)
    BY <1>3, <1>8
  <2>2. file[i] \in Line
    BY <1>1, <2>1, ElementOfSeq
  <2>3. Torn(file[i]).id = file[i].id /\ ~ Torn(file[i]).whole
    BY <2>2 DEF Torn, Line
  <2> QED
    BY <1>5, <2>1, <2>3
<1>12. Kept
  <2> SUFFICES ASSUME NEW k \in 1..Len(file'), Clean(k)'
               PROVE  k <= Len(file) /\ Clean(k) /\ \A j \in 1..k : file'[j] = file[j]
    BY DEF Kept
  <2>1. \A j \in 1..k : file'[j].whole /\ file'[j].chained /\ file'[j].id \notin late
    BY <1>6 DEF Clean, CleanIn
  <2>2. k <= Len(file) /\ \A j \in 1..k : j \in 1..n
    BY <1>1, <1>3, <1>5, <1>8
  <2>3. \A j \in 1..k : file'[j] = file[j]
    BY <1>11, <2>1, <2>2
  <2>4. Clean(k)
    BY <2>1, <2>3 DEF Clean, CleanIn
  <2> QED
    BY <2>2, <2>3, <2>4
<1>13. LinesOK'
  <2>1. \A i \in 1..Len(file') : file'[i].id < nextId' /\ (file'[i].whole => file'[i].ended)
    BY <1>1, <1>5, <1>6, <1>11 DEF LinesOK
  <2>2. \A q \in Proc : Len(buffer'[q]) = 0
    BY <1>7, EmptySeq
  <2>3. \A i \in late' : i < nextId'
    BY <1>1, <1>6 DEF LinesOK
  <2> QED
    BY <2>1, <2>2, <2>3 DEF LinesOK
<1>14. ChainedOnly' /\ Written' /\ Heads'
  BY <1>7 DEF ChainedOnly, Written, Heads, HeadBefore, HeadAfter, HeadSynced
<1>15. Linked'
  BY <1>8, <1>12, LinkedKept DEF IInv
<1>16. TipKnown'
  BY <1>1, <1>6, <1>8, <1>12, TipKept DEF IInv
<1> QED
  BY <1>9, <1>10, <1>13, <1>14, <1>15, <1>16 DEF IInv

-----------------------------------------------------------------------------
(* The theorems.                                                           *)

LEMMA NextIInv == IInv /\ [Next]_vars => IInv'
<1> SUFFICES ASSUME IInv, [Next]_vars PROVE IInv'
  OBVIOUS
<1>1. CASE UNCHANGED vars
  <2>1. UNCHANGED <<file, durable, tip, lock, pc, chain, head, dropped, buffer, nextId,
                    emitted, interrupted, late>>
    BY <1>1 DEF vars, histVars
  <2>2. TypeOK' /\ LinesOK' /\ ChainedOnly' /\ Written'
    BY <2>1 DEF IInv, TypeOK, LinesOK, ChainedOnly, Written
  <2>3. Fits' /\ Linked' /\ TipKnown'
    BY <2>1 DEF IInv, Fits, Writers, Linked, TipKnown, Clean, CleanIn, Continues
  <2>4. Heads'
    BY <2>1 DEF IInv, Heads, HeadBefore, HeadAfter, HeadSynced, TailState, Clean, CleanIn
  <2> QED
    BY <2>2, <2>3, <2>4 DEF IInv
<1>2. ASSUME NEW p \in Proc, Open(p) PROVE IInv'
  BY <1>2, OpenStep
<1>3. ASSUME NEW p \in Proc, Emit(p) PROVE IInv'
  BY <1>3, EmitStep
<1>4. ASSUME NEW p \in Proc, TakeLock(p) PROVE IInv'
  BY <1>4, TakeLockStep
<1>5. ASSUME NEW p \in Proc, LockTimeout(p) PROVE IInv'
  BY <1>5, LockTimeoutStep
<1>6. ASSUME NEW p \in Proc, Scan(p) PROVE IInv'
  BY <1>6, ScanStep
<1>7. ASSUME NEW p \in Proc, Flush(p) PROVE IInv'
  BY <1>7, FlushStep
<1>8. ASSUME NEW p \in Proc, FlushFails(p) PROVE IInv'
  BY <1>8, FlushFailsStep
<1>9. ASSUME NEW p \in Proc, Sync(p) PROVE IInv'
  BY <1>9, SyncStep
<1>10. ASSUME NEW p \in Proc, SyncFails(p) PROVE IInv'
  BY <1>10, SyncFailsStep
<1>11. ASSUME NEW p \in Proc, Tip(p) PROVE IInv'
  BY <1>11, TipStep
<1>12. ASSUME NEW p \in Proc, Close(p) PROVE IInv'
  BY <1>12, CloseStep
<1>13. ASSUME NEW p \in Proc, Kill(p) PROVE IInv'
  BY <1>13, KillStep
<1>14. CASE PowerLoss
  BY <1>14, PowerLossStep
<1> QED
  BY <1>1, <1>2, <1>3, <1>4, <1>5, <1>6, <1>7, <1>8, <1>9, <1>10, <1>11, <1>12, <1>13,
     <1>14 DEF Next

LEMMA Invariance == Spec => []IInv
BY InitIInv, NextIInv, PTL DEF Spec

\* Without a disturbance all lines are chained and clean, or none is chained.
LEMMA Undisturbed ==
    ASSUME IInv, ~ Disturbed
    PROVE  /\ \A i \in 1..Len(file) : file[i].whole
           /\ \/ \A i \in 1..Len(file) : ~ file[i].chained
              \/ \A i \in 1..Len(file) : file[i].chained /\ Clean(i)
<1>1. file \in Seq(Line) /\ Len(file) \in Nat
  BY LenProperties DEF IInv, TypeOK
<1>2. \A i \in 1..Len(file) : file[i].whole /\ file[i].id \notin late
  BY DEF Disturbed
<1>3. \A i \in 1..Len(file) : file[i].chained = file[1].chained
  BY DEF Disturbed
<1>4. CASE ~ file[1].chained
  BY <1>2, <1>3, <1>4
<1>5. CASE file[1].chained
  <2>1. \A i \in 1..Len(file) : file[i].chained
    BY <1>3, <1>5
  <2>2. \A i \in 1..Len(file) : \A j \in 1..i : j \in 1..Len(file)
    BY <1>1
  <2>3. \A i \in 1..Len(file) : Clean(i)
    BY <1>2, <2>1, <2>2 DEF Clean, CleanIn
  <2> QED
    BY <1>2, <2>1, <2>3
<1> QED
  BY <1>4, <1>5

LEMMA LinksFollow ==
    ASSUME IInv, ~ Disturbed
    PROVE  LinksHold
<1>1. Len(file) \in Nat
  BY LenProperties DEF IInv, TypeOK
<1> SUFFICES ASSUME NEW i \in 1..Len(file)
             PROVE  /\ file[i].whole
                    /\ IF ~ file[i].chained
                       THEN \A j \in 1..i-1 : ~ file[j].chained
                       ELSE IF i > 1 /\ file[i-1].chained
                            THEN /\ file[i].prev = file[i-1].id
                                 /\ file[i].seq = file[i-1].seq + 1
                            ELSE file[i].prev = 0 /\ file[i].seq = 0
  BY DEF LinksHold
<1>2. file[i].whole
  BY Undisturbed
<1>3. (\A j \in 1..i-1 : j \in 1..Len(file)) /\ (i # 1 => i - 1 \in 1..Len(file) /\ i > 1)
  BY <1>1
<1>4. CASE \A k \in 1..Len(file) : ~ file[k].chained
  BY <1>2, <1>3, <1>4
<1>5. CASE \A k \in 1..Len(file) : file[k].chained /\ Clean(k)
  <2>1. Continues(file, i)
    BY <1>5 DEF IInv, Linked
  <2>2. file[i].chained /\ (i # 1 => file[i - 1].chained)
    BY <1>3, <1>5
  <2>3. CASE i = 1
    BY <1>2, <2>1, <2>2, <2>3 DEF Continues
  <2>4. CASE i # 1
    BY <1>2, <1>3, <2>1, <2>2, <2>4 DEF Continues
  <2> QED
    BY <2>3, <2>4
<1> QED
  BY <1>4, <1>5, Undisturbed

LEMMA TipFollows ==
    ASSUME IInv, ~ Disturbed, ~ interrupted
    PROVE  TipHolds
<1> SUFFICES ASSUME tip # None, file # <<>>, file[Len(file)].chained
             PROVE  tip = [prev |-> file[Len(file)].id, seq |-> file[Len(file)].seq]
  BY DEF TipHolds
<1>1. PICK n \in Nat \ {0} : n = Len(file)
  BY EmptySeq DEF IInv, TypeOK
<1>2. n \in 1..Len(file) /\ durable \in 0..n
  BY <1>1 DEF IInv, TypeOK
<1>3. n \in durable..Len(file) /\ n > 0
  BY <1>1, <1>2
<1>4. Clean(n)
  BY <1>1, <1>2, Undisturbed
<1> QED
  BY <1>1, <1>3, <1>4 DEF IInv, TipKnown

\* However many instances append, with and without the chain, and wherever one is killed,
\* fails or loses power: the links verify_chain() walks hold, unless a line is torn, came
\* late, or audit.hash_chain was switched.
THEOREM ChainLinked == Spec => []ChainStaysLinked
<1>1. IInv => ChainStaysLinked
  BY LinksFollow DEF ChainStaysLinked, IInv
<1> QED
  BY <1>1, Invariance, PTL

\* verify_chain() warns of tampering only if the newest append was cut off from its tip, or
\* the chain itself was disturbed.
THEOREM WarningsAreExplained == Spec => []WarningNeedsInterruption
<1>1. IInv => WarningNeedsInterruption
  BY LinksFollow, TipFollows DEF WarningNeedsInterruption, VerifyChain
<1> QED
  BY <1>1, Invariance, PTL

-----------------------------------------------------------------------------
(***************************************************************************)
(* No record is lost in silence.  The account of an instance is even as    *)
(* long as its next record is yet to report the losses of _dropped; at     *)
(* fsync that record, the last line of the instance, has to report exactly *)
(* those, and must not have been counted before (OwnRecord).  A line that  *)
(* a power loss has torn is overwritten by the next append, which loses    *)
(* nothing: it is from before the power loss and on nobody's account.      *)
(***************************************************************************)
Loss(f, ids, drops) == Cardinality(Missing(f, ids)) <= drops + Cardinality(Reported(f, ids))

\* Line i is the record instance q has just appended.
OwnRecord(q, i) ==
    /\ file[i].by = q /\ file[i].ended /\ file[i].drops = dropped[q]
    /\ file[i].id \notin emitted[q]
    /\ \A j \in 1..Len(file) : /\ file[j].by = q => j <= i
                               /\ ~ file[j].ended => file[j].id # file[i].id

Account(q) ==
    /\ \A i \in 1..Len(buffer[q]) : buffer[q][i].by = q
    /\ \A x \in emitted[q] : x < nextId
    /\ \A i \in 1..Len(file) : ~ file[i].ended => file[i].id \notin emitted[q]
    /\ pc[q] = "sync" => \E i \in 1..Len(file) : OwnRecord(q, i)
    /\ Loss(file, emitted[q], dropped[q])

Ledger == \A q \in Proc : Account(q)

LEMMA MissingHas ==
    ASSUME NEW f, NEW ids, NEW x
    PROVE  x \in Missing(f, ids) <=> x \in ids /\ \A i \in 1..Len(f) : f[i].id # x
BY DEF Missing

LEMMA ReportedHas ==
    ASSUME NEW f, NEW ids, NEW x
    PROVE  x \in Reported(f, ids) <=>
             \E i \in 1..Len(f) : f[i].id \in ids /\ \E d \in 1..f[i].drops : x = <<i, d>>
<1> DEFINE mine == {k \in 1..Len(f) : f[k].id \in ids}
<1>1. x \in Reported(f, ids) <=> \E i \in mine : x \in {i} \X (1..f[i].drops)
  BY DEF Reported
<1>2. \A i : x \in {i} \X (1..f[i].drops) <=> \E d \in 1..f[i].drops : x = <<i, d>>
  OBVIOUS
<1> QED
  BY <1>1, <1>2

\* Accounts are finite.
LEMMA AccountFinite ==
    ASSUME NEW f \in Seq(Line), NEW ids, NEW n \in Nat, \A x \in ids : x \in Nat /\ x < n
    PROVE  /\ IsFiniteSet(Missing(f, ids)) /\ Cardinality(Missing(f, ids)) \in Nat
           /\ IsFiniteSet(Reported(f, ids)) /\ Cardinality(Reported(f, ids)) \in Nat
<1>1. IsFiniteSet(Missing(f, ids))
  <2>1. Missing(f, ids) \subseteq 0..n
    BY DEF Missing
  <2>2. IsFiniteSet(0..n)
    BY FS_Interval
  <2> QED
    BY <2>1, <2>2, FS_Subset
<1>2. IsFiniteSet(Reported(f, ids))
  <2> DEFINE mine == {k \in 1..Len(f) : f[k].id \in ids}
             Slot(i) == {i} \X (1..f[i].drops)
             T == {Slot(i) : i \in mine}
             h == [i \in mine |-> Slot(i)]
  <2>1. IsFiniteSet(mine)
    <3>1. Len(f) \in Nat
      BY LenProperties
    <3>2. IsFiniteSet(1..Len(f))
      BY <3>1, FS_Interval
    <3> QED
      BY <3>2, FS_Subset
  <2>2. h \in Surjection(mine, T)
    BY DEF Surjection
  <2>3. IsFiniteSet(T)
    <3> HIDE DEF h, T, mine
    <3> QED
      BY <2>1, <2>2, FS_Surjection
  <2>4. \A i \in mine : IsFiniteSet(Slot(i))
    <3> SUFFICES ASSUME NEW i \in mine PROVE IsFiniteSet(Slot(i))
      OBVIOUS
    <3>0. f[i] \in Line
      BY ElementOfSeq
    <3>1. PICK d \in Nat : d = f[i].drops
      BY <3>0 DEF Line
    <3>2. IsFiniteSet({i}) /\ IsFiniteSet(1..d)
      <4>1. 1 \in Int /\ d \in Int
        OBVIOUS
      <4>2. IsFiniteSet(1..d)
        BY <4>1, FS_Interval
      <4> QED
        BY <4>2, FS_Singleton
    <3> QED
      BY <3>1, <3>2, FS_Product
  <2>5. \A s \in T : IsFiniteSet(s)
    BY <2>4
  <2>6. Reported(f, ids) = UNION T
    BY DEF Reported
  <2> HIDE DEF T
  <2> QED
    BY <2>3, <2>5, <2>6, FS_UNION
<1> QED
  BY <1>1, <1>2, FS_CardinalityType

\* An append that keeps the lines on the account keeps the account even.
LEMMA LossAppend ==
    ASSUME NEW f \in Seq(Line), NEW g \in Seq(Line), Len(f) <= Len(g),
           NEW ids, NEW n \in Nat, \A x \in ids : x \in Nat /\ x < n, NEW d \in Nat,
           \A i \in 1..Len(f) : g[i] = f[i] \/ f[i].id \notin ids,
           Loss(f, ids, d)
    PROVE  Loss(g, ids, d)
<1>0. Len(f) \in Nat /\ Len(g) \in Nat
  BY LenProperties
<1>1. Missing(g, ids) \subseteq Missing(f, ids)
  <2> SUFFICES ASSUME NEW x \in Missing(g, ids) PROVE x \in Missing(f, ids)
    OBVIOUS
  <2>1. x \in ids /\ \A i \in 1..Len(g) : g[i].id # x
    BY MissingHas
  <2>2. \A i \in 1..Len(f) : f[i].id # x
    BY <1>0, <2>1
  <2> QED
    BY <2>1, <2>2, MissingHas
<1>2. Reported(f, ids) \subseteq Reported(g, ids)
  <2> SUFFICES ASSUME NEW x \in Reported(f, ids) PROVE x \in Reported(g, ids)
    OBVIOUS
  <2>1. PICK i \in 1..Len(f) : f[i].id \in ids /\ \E k \in 1..f[i].drops : x = <<i, k>>
    BY ReportedHas
  <2>2. i \in 1..Len(g) /\ g[i] = f[i]
    BY <1>0, <2>1
  <2>3. g[i].id \in ids /\ \E k \in 1..g[i].drops : x = <<i, k>>
    BY <2>1, <2>2
  <2> QED
    BY <2>2, <2>3, ReportedHas
<1>3. /\ IsFiniteSet(Missing(f, ids)) /\ Cardinality(Missing(f, ids)) \in Nat
      /\ IsFiniteSet(Reported(g, ids)) /\ Cardinality(Reported(g, ids)) \in Nat
      /\ Cardinality(Reported(f, ids)) \in Nat /\ Cardinality(Missing(g, ids)) \in Nat
  BY AccountFinite
<1>4. /\ Cardinality(Missing(g, ids)) <= Cardinality(Missing(f, ids))
      /\ Cardinality(Reported(f, ids)) <= Cardinality(Reported(g, ids))
  BY <1>1, <1>2, <1>3, FS_Subset
<1> QED
  BY <1>3, <1>4 DEF Loss

\* A record that is counted as dropped may be missing.
LEMMA LossDropped ==
    ASSUME NEW f \in Seq(Line), NEW ids, NEW n \in Nat, \A x \in ids : x \in Nat /\ x < n,
           NEW d \in Nat, Loss(f, ids, d), NEW y \in Nat
    PROVE  Loss(f, ids \cup {y}, d + 1)
<1> DEFINE more == ids \cup {y}
<1>1. PICK m \in Nat : m > n /\ m > y
  <2>1. n + y + 1 \in Nat /\ n + y + 1 > n /\ n + y + 1 > y
    OBVIOUS
  <2> QED
    BY <2>1
<1>2. \A x \in more : x \in Nat /\ x < m
  BY <1>1
<1>3. Missing(f, more) \subseteq Missing(f, ids) \cup {y}
  BY DEF Missing
<1>4. Reported(f, ids) \subseteq Reported(f, more)
  <2> SUFFICES ASSUME NEW x \in Reported(f, ids) PROVE x \in Reported(f, more)
    OBVIOUS
  <2>1. PICK i \in 1..Len(f) : f[i].id \in ids /\ \E k \in 1..f[i].drops : x = <<i, k>>
    BY ReportedHas
  <2>2. f[i].id \in more
    BY <2>1
  <2> HIDE DEF more
  <2> QED
    BY <2>1, <2>2, ReportedHas
<1> HIDE DEF more
<1>5. /\ IsFiniteSet(Missing(f, ids)) /\ Cardinality(Missing(f, ids)) \in Nat
      /\ Cardinality(Reported(f, ids)) \in Nat
  BY AccountFinite
<1>6. /\ Cardinality(Missing(f, more)) \in Nat
      /\ IsFiniteSet(Reported(f, more)) /\ Cardinality(Reported(f, more)) \in Nat
  BY <1>1, <1>2, AccountFinite
<1>7. /\ IsFiniteSet(Missing(f, ids) \cup {y})
      /\ Cardinality(Missing(f, ids) \cup {y}) \in Nat
      /\ Cardinality(Missing(f, ids) \cup {y}) <= Cardinality(Missing(f, ids)) + 1
  <2>1. PICK S : S = Missing(f, ids)
    OBVIOUS
  <2>2. /\ IsFiniteSet(S \cup {y}) /\ Cardinality(S) \in Nat
        /\ Cardinality(S \cup {y}) = IF y \in S THEN Cardinality(S) ELSE Cardinality(S) + 1
    BY <1>5, <2>1, FS_AddElement
  <2> QED
    BY <2>1, <2>2
<1>8. /\ Cardinality(Missing(f, more)) <= Cardinality(Missing(f, ids) \cup {y})
      /\ Cardinality(Reported(f, ids)) <= Cardinality(Reported(f, more))
  BY <1>3, <1>4, <1>6, <1>7, FS_Subset
<1>9. Loss(f, more, d + 1)
  BY <1>5, <1>6, <1>7, <1>8 DEF Loss
<1> QED
  BY <1>9 DEF more

\* A record that reports d losses takes them over, once.
LEMMA LossReported ==
    ASSUME NEW f \in Seq(Line), NEW ids, NEW n \in Nat, \A x \in ids : x \in Nat /\ x < n,
           NEW i \in 1..Len(f), f[i].id \notin ids, Loss(f, ids, f[i].drops)
    PROVE  Loss(f, ids \cup {f[i].id}, 0)
<1> f[i] \in Line
  BY ElementOfSeq
<1>0. PICK d \in Nat : d = f[i].drops
  BY DEF Line
<1>1. PICK y \in Nat : y = f[i].id
  BY DEF Line
<1> DEFINE more == ids \cup {y}
           slot == {i} \X (1..d)
<1>2. PICK m \in Nat : m > n /\ m > y
  <2>1. n + y + 1 \in Nat /\ n + y + 1 > n /\ n + y + 1 > y
    OBVIOUS
  <2> QED
    BY <2>1
<1>3. \A x \in more : x \in Nat /\ x < m
  BY <1>2
<1>4. Missing(f, more) \subseteq Missing(f, ids)
  <2> SUFFICES ASSUME NEW x \in Missing(f, more) PROVE x \in Missing(f, ids)
    OBVIOUS
  <2>1. x \in more /\ \A k \in 1..Len(f) : f[k].id # x
    BY MissingHas
  <2>2. x # y
    BY <1>1, <2>1
  <2> QED
    BY <2>1, <2>2, MissingHas
<1>5. Reported(f, ids) \cup slot \subseteq Reported(f, more)
  <2>1. ASSUME NEW x \in Reported(f, ids) PROVE x \in Reported(f, more)
    <3>1. PICK j \in 1..Len(f) : f[j].id \in ids /\ \E k \in 1..f[j].drops : x = <<j, k>>
      BY <2>1, ReportedHas
    <3>2. f[j].id \in more
      BY <3>1
    <3> HIDE DEF more
    <3> QED
      BY <3>1, <3>2, ReportedHas
  <2>2. ASSUME NEW x \in slot PROVE x \in Reported(f, more)
    <3>1. \E k \in 1..f[i].drops : x = <<i, k>>
      BY <1>0, <2>2
    <3>2. f[i].id \in more
      BY <1>1
    <3> HIDE DEF more
    <3> QED
      BY <3>1, <3>2, ReportedHas
  <2> QED
    BY <2>1, <2>2
<1>6. Reported(f, ids) \cap slot = {}
  <2> SUFFICES ASSUME NEW x \in Reported(f, ids), x \in slot PROVE FALSE
    OBVIOUS
  <2>1. PICK j \in 1..Len(f) : f[j].id \in ids /\ \E k \in 1..f[j].drops : x = <<j, k>>
    BY ReportedHas
  <2>2. j = i
    BY <2>1
  <2> QED
    BY <2>1, <2>2
<1>7. IsFiniteSet(slot) /\ Cardinality(slot) = d
  <2>1. /\ IsFiniteSet({i}) /\ Cardinality({i}) = 1
        /\ IsFiniteSet(1..d) /\ Cardinality(1..d) = d
    <3>0. 1 \in Int /\ d \in Int
      OBVIOUS
    <3>1. IsFiniteSet(1..d) /\ Cardinality(1..d) = IF 1 > d THEN 0 ELSE d - 1 + 1
      BY <3>0, FS_Interval
    <3>2. IsFiniteSet({i}) /\ Cardinality({i}) = 1
      BY FS_Singleton
    <3> QED
      BY <3>1, <3>2
  <2>2. IsFiniteSet(slot) /\ Cardinality(slot) = 1 * d
    BY <2>1, FS_Product
  <2> HIDE DEF slot
  <2> QED
    BY <2>2
<1> HIDE DEF more, slot
<1>8. /\ IsFiniteSet(Missing(f, ids)) /\ Cardinality(Missing(f, ids)) \in Nat
      /\ IsFiniteSet(Reported(f, ids)) /\ Cardinality(Reported(f, ids)) \in Nat
  BY AccountFinite
<1>9. /\ Cardinality(Missing(f, more)) \in Nat
      /\ IsFiniteSet(Reported(f, more)) /\ Cardinality(Reported(f, more)) \in Nat
  BY <1>2, <1>3, AccountFinite
<1>10. Cardinality(Reported(f, ids) \cup slot) = Cardinality(Reported(f, ids)) + d
  <2>1. Cardinality(Reported(f, ids) \cap slot) = 0
    BY <1>6, FS_EmptySet, Zenon
  <2>2. Cardinality(Reported(f, ids) \cup slot)
          = Cardinality(Reported(f, ids)) + Cardinality(slot)
              - Cardinality(Reported(f, ids) \cap slot)
    BY <1>7, <1>8, FS_Union
  <2> QED
    BY <1>7, <1>8, <2>1, <2>2
<1>11. /\ Cardinality(Missing(f, more)) <= Cardinality(Missing(f, ids))
       /\ Cardinality(Reported(f, ids) \cup slot) <= Cardinality(Reported(f, more))
  BY <1>4, <1>5, <1>8, <1>9, FS_Subset
<1>12. Cardinality(Missing(f, ids)) <= d + Cardinality(Reported(f, ids))
  BY <1>0 DEF Loss
<1>13. Loss(f, more, 0)
  BY <1>8, <1>9, <1>10, <1>11, <1>12 DEF Loss
<1> QED
  BY <1>1, <1>13 DEF more

\* Without records there is nothing to lose.
LEMMA LossNone ==
    ASSUME NEW f \in Seq(Line), NEW d \in Nat
    PROVE  Loss(f, {}, d)
<1>1. Missing(f, {}) = {}
  BY DEF Missing
<1>2. Cardinality(Missing(f, {})) = 0
  BY <1>1, FS_EmptySet
<1>3. Cardinality(Reported(f, {})) \in Nat
  <2>1. \A x \in {} : x \in Nat /\ x < 0
    OBVIOUS
  <2> QED
    BY <2>1, AccountFinite
<1> QED
  BY <1>2, <1>3 DEF Loss

\* A step after which the lines on the account of q are where they were, and q has no
\* more of them.
FileGrows(q) ==
    /\ file' \in Seq(Line) /\ Len(file) <= Len(file')
    /\ \A i \in 1..Len(file) : file'[i] = file[i] \/ ~ file[i].ended
    /\ \A i \in 1..Len(file') : \/ i <= Len(file) /\ file'[i] = file[i]
                                \/ file'[i].ended /\ file'[i].by # q

LEMMA SameFileGrows ==
    ASSUME TypeOK, file' = file, NEW q
    PROVE  FileGrows(q)
<1>1. file \in Seq(Line) /\ Len(file) \in Nat
  BY LenProperties DEF TypeOK
<1> QED
  BY <1>1 DEF FileGrows

LEMMA AppendedFileGrows ==
    ASSUME TypeOK, NEW ls \in Seq(Line), file' = Appended(file, ls), NEW q, NEW p, p # q,
           \A j \in 1..Len(ls) : ls[j].ended /\ ls[j].by = p
    PROVE  FileGrows(q)
<1>1. file \in Seq(Line)
  BY DEF TypeOK
<1>2. file' \in Seq(Line) /\ Len(file') >= Len(file) /\ LinesOf(file, ls, file')
  BY <1>1, AppendKeeps
<1>3. Len(file) \in Nat /\ Len(file') \in Nat
  BY <1>1, <1>2, LenProperties
<1>4. \A j \in 1..Len(ls) : Spoilt(ls[j]).ended /\ Spoilt(ls[j]).by = p
  <2> SUFFICES ASSUME NEW j \in 1..Len(ls) PROVE Spoilt(ls[j]).ended /\ Spoilt(ls[j]).by = p
    OBVIOUS
  <2>1. ls[j] \in Line /\ ls[j].ended /\ ls[j].by = p
    BY ElementOfSeq
  <2> QED
    BY <2>1 DEF Spoilt, Line
<1>5. \A i \in 1..Len(file') : \/ i <= Len(file) /\ file'[i] = file[i]
                               \/ file'[i].ended /\ file'[i].by # q
  BY <1>2, <1>4 DEF LinesOf
<1> QED
  BY <1>2, <1>3, <1>5 DEF FileGrows, LinesOf

\* What an account is made of has its types.
LEMMA AccountTypes ==
    ASSUME TypeOK, NEW q \in Proc, Account(q)
    PROVE  /\ file \in Seq(Line) /\ Len(file) \in Nat /\ nextId \in Nat /\ dropped[q] \in Nat
           /\ \A x \in emitted[q] : x \in Nat /\ x < nextId
           /\ \A i \in 1..Len(file) : file[i] \in Line /\ file[i].id \in Nat
<1>1. /\ file \in Seq(Line) /\ Len(file) \in Nat /\ nextId \in Nat /\ dropped[q] \in Nat
      /\ emitted[q] \subseteq Nat
  BY LenProperties, BoundAssumption DEF TypeOK
<1>2. \A i \in 1..Len(file) : file[i] \in Line /\ file[i].id \in Nat
  <2> SUFFICES ASSUME NEW i \in 1..Len(file) PROVE file[i] \in Line /\ file[i].id \in Nat
    OBVIOUS
  <2>1. file[i] \in Line
    BY <1>1, ElementOfSeq
  <2> QED
    BY <2>1 DEF Line
<1> QED
  BY <1>1, <1>2 DEF Account

\* The account of an instance that does not act, or does not touch it.
LEMMA AccountKept ==
    ASSUME IInv, NEW q \in Proc, Account(q), FileGrows(q), nextId' \in Nat, nextId <= nextId',
           emitted'[q] = emitted[q], dropped'[q] = dropped[q],
           pc'[q] = "sync" => pc[q] = "sync", buffer'[q] \in {buffer[q], <<>>}
    PROVE  Account(q)'
<1>1. TypeOK
  BY DEF IInv
<1>2. /\ file \in Seq(Line) /\ Len(file) \in Nat /\ nextId \in Nat /\ dropped[q] \in Nat
      /\ \A x \in emitted[q] : x \in Nat /\ x < nextId
      /\ \A i \in 1..Len(file) : file[i] \in Line /\ file[i].id \in Nat
  BY <1>1, AccountTypes
<1>3. /\ file' \in Seq(Line) /\ Len(file) <= Len(file') /\ Len(file') \in Nat
      /\ \A i \in 1..Len(file) : file'[i] = file[i] \/ ~ file[i].ended
      /\ \A i \in 1..Len(file') : \/ i <= Len(file) /\ file'[i] = file[i]
                                  \/ file'[i].ended /\ file'[i].by # q
  BY LenProperties DEF FileGrows
<1>4. \A i \in 1..Len(buffer'[q]) : buffer'[q][i].by = q
  <2>1. CASE buffer'[q] = buffer[q]
    BY <2>1 DEF Account
  <2>2. CASE buffer'[q] = <<>>
    BY <2>2, EmptySeq
  <2> QED
    BY <2>1, <2>2
<1>5. \A x \in emitted'[q] : x < nextId'
  BY <1>2
<1>6. \A i \in 1..Len(file) : ~ file[i].ended => file[i].id \notin emitted[q]
  BY DEF Account
<1>7. \A i \in 1..Len(file') : ~ file'[i].ended => file'[i].id \notin emitted'[q]
  BY <1>2, <1>3, <1>6
<1>8. ASSUME pc'[q] = "sync" PROVE \E i \in 1..Len(file') : OwnRecord(q, i)'
  <2>1. PICK i \in 1..Len(file) : OwnRecord(q, i)
    BY <1>8 DEF Account
  <2>2. /\ file[i].by = q /\ file[i].ended /\ file[i].drops = dropped[q]
        /\ file[i].id \notin emitted[q]
        /\ \A j \in 1..Len(file) : /\ file[j].by = q => j <= i
                                   /\ ~ file[j].ended => file[j].id # file[i].id
    BY <2>1 DEF OwnRecord
  <2>3. file'[i] = file[i] /\ i \in 1..Len(file')
    BY <1>2, <1>3, <2>2
  <2>4. \A j \in 1..Len(file') : /\ file'[j].by = q => j <= i
                                 /\ ~ file'[j].ended => file'[j].id # file'[i].id
    BY <1>2, <1>3, <2>2, <2>3
  <2>5. OwnRecord(q, i)'
    BY <2>2, <2>3, <2>4 DEF OwnRecord
  <2> QED
    BY <2>3, <2>5
<1>9. Loss(file', emitted[q], dropped[q])
  <2>1. \A i \in 1..Len(file) : file'[i] = file[i] \/ file[i].id \notin emitted[q]
    BY <1>3, <1>6
  <2>2. Loss(file, emitted[q], dropped[q])
    BY DEF Account
  <2> QED
    BY <1>2, <1>3, <2>1, <2>2, LossAppend
<1>10. Loss(file, emitted[q], dropped[q])'
  BY <1>9 DEF Loss
<1> QED
  BY <1>4, <1>5, <1>7, <1>8, <1>10 DEF Account

\* The account of an instance that has ended.
LEMMA AccountReset ==
    ASSUME TypeOK', NEW q \in Proc, emitted'[q] = {}, buffer'[q] = <<>>, pc'[q] = "down"
    PROVE  Account(q)'
<1>1. file' \in Seq(Line) /\ dropped'[q] \in Nat
  BY DEF TypeOK
<1>2. Loss(file', {}, dropped'[q])
  BY <1>1, LossNone
<1>3. Loss(file, emitted[q], dropped[q])'
  BY <1>2 DEF Loss
<1>4. \A i \in 1..Len(buffer'[q]) : buffer'[q][i].by = q
  BY EmptySeq
<1> QED
  BY <1>3, <1>4 DEF Account

\* The steps that leave file, counts and records alone, up to instances that end.
LEMMA LedgerQuiet ==
    ASSUME IInv, Ledger, TypeOK', UNCHANGED <<file, nextId>>,
           \A q \in Proc :
              \/ /\ emitted'[q] = emitted[q] /\ dropped'[q] = dropped[q]
                 /\ buffer'[q] = buffer[q] /\ (pc'[q] = "sync" => pc[q] = "sync")
              \/ emitted'[q] = {} /\ buffer'[q] = <<>> /\ pc'[q] = "down"
    PROVE  Ledger'
<1>1. ASSUME NEW q \in Proc PROVE Account(q)'
  <2>1. TypeOK /\ Account(q)
    BY DEF IInv, Ledger
  <2>2. nextId' \in Nat /\ nextId <= nextId' /\ FileGrows(q)
    <3>1. nextId \in Nat
      BY <2>1, AccountTypes
    <3> QED
      BY <2>1, <3>1, SameFileGrows
  <2>3. CASE emitted'[q] = {} /\ buffer'[q] = <<>> /\ pc'[q] = "down"
    BY <2>3, AccountReset
  <2>4. CASE /\ emitted'[q] = emitted[q] /\ dropped'[q] = dropped[q]
             /\ buffer'[q] = buffer[q] /\ (pc'[q] = "sync" => pc[q] = "sync")
    BY <2>1, <2>2, <2>4, AccountKept
  <2> QED
    BY <2>3, <2>4
<1> QED
  BY <1>1 DEF Ledger

\* An instance that ends has no account any more.
LEMMA EndedAccount ==
    ASSUME TypeOK, NEW S \in SUBSET Proc, End(S)
    PROVE  /\ \A q \in S : emitted'[q] = {} /\ buffer'[q] = <<>> /\ pc'[q] = "down"
           /\ \A q \in Proc \ S : /\ emitted'[q] = emitted[q] /\ dropped'[q] = dropped[q]
                                  /\ buffer'[q] = buffer[q] /\ pc'[q] = pc[q]
BY DEF End

LEMMA LedgerOthers ==
    ASSUME IInv, IInv', Ledger, NEW p \in Proc,
           \/ Open(p) \/ Emit(p) \/ TakeLock(p) \/ LockTimeout(p) \/ Scan(p) \/ Tip(p)
           \/ Kill(p)
    PROVE  Ledger'
<1>1. TypeOK /\ TypeOK'
  BY DEF IInv
<1>2. UNCHANGED <<file, nextId>>
  BY DEF Open, Emit, TakeLock, LockTimeout, Scan, Tip, Kill
<1>3. CASE End({p})
  BY <1>1, <1>2, <1>3, EndedAccount, LedgerQuiet
<1>4. CASE ~ End({p})
  <2>1. UNCHANGED <<emitted, dropped, buffer>>
    BY <1>4 DEF Open, Emit, TakeLock, LockTimeout, Scan, Tip, Kill, histVars
  <2>2. PICK s \in {"lock", "flush", "scan", "idle"} : pc' = [pc EXCEPT ![p] = s]
    BY <1>4 DEF Open, Emit, TakeLock, LockTimeout, Scan, Tip, Kill, EmitStart, Goto, Return
  <2>3. \A q \in Proc : pc'[q] = "sync" => pc[q] = "sync"
    BY <1>1, <2>2 DEF TypeOK
  <2> QED
    BY <1>1, <1>2, <2>1, <2>3, LedgerQuiet
<1> QED
  BY <1>3, <1>4

\* The lines of a flush are all of the instance that flushes.
OwnLines(p, ls) ==
    /\ ls \in Seq(Line) /\ ls # <<>>
    /\ \A j \in 1..Len(ls) : ls[j].ended /\ ls[j].by = p
    /\ ls[Len(ls)] = NewLine(p)

LEMMA FlushedOwn ==
    ASSUME IInv, NEW p \in Proc, Account(p)
    PROVE  OwnLines(p, Append(buffer[p], NewLine(p)))
<1>0. PICK ls : ls = Append(buffer[p], NewLine(p))
  OBVIOUS
<1>1. TypeOK /\ LinesOK
  BY DEF IInv
<1>2. /\ NewLine(p) \in Line /\ ls \in Seq(Line) /\ Len(ls) = Len(buffer[p]) + 1 /\ ls # <<>>
      /\ \A i \in 1..Len(buffer[p]) : ls[i] = buffer[p][i]
      /\ ls[Len(buffer[p]) + 1] = NewLine(p)
  BY <1>0, <1>1, Flushed
<1>3. PICK m \in Nat : m = Len(buffer[p])
  BY <1>1, LenProperties DEF TypeOK
<1>4. NewLine(p).ended /\ NewLine(p).by = p
  BY DEF NewLine
<1>5. \A i \in 1..m : buffer[p][i].ended /\ buffer[p][i].by = p
  BY <1>1, <1>3 DEF LinesOK, Account
<1>6. ASSUME NEW j \in 1..Len(ls) PROVE ls[j].ended /\ ls[j].by = p
  <2>1. j \in 1..m \/ j = m + 1
    BY <1>2, <1>3
  <2> QED
    BY <1>2, <1>3, <1>4, <1>5, <2>1
<1>7. OwnLines(p, ls)
  BY <1>2, <1>3, <1>6 DEF OwnLines
<1> QED
  BY <1>0, <1>7

\* write() and flush(): the account waits for fsync.
LEMMA LedgerFlush ==
    ASSUME IInv, Ledger, NEW p \in Proc, Flush(p)
    PROVE  Ledger'
<1>1. TypeOK /\ Account(p)
  BY DEF IInv, Ledger
<1>2. PICK ls : ls = Append(buffer[p], NewLine(p))
  OBVIOUS
<1>3. /\ ls \in Seq(Line) /\ ls # <<>>
      /\ \A j \in 1..Len(ls) : ls[j].ended /\ ls[j].by = p
      /\ ls[Len(ls)] = NewLine(p)
  <2>1. OwnLines(p, Append(buffer[p], NewLine(p)))
    BY <1>1, FlushedOwn
  <2> QED
    BY <1>2, <2>1 DEF OwnLines
<1>4. /\ file' = Appended(file, ls) /\ buffer' = [buffer EXCEPT ![p] = <<>>]
      /\ nextId' = nextId + 1 /\ pc' = [pc EXCEPT ![p] = "sync"]
      /\ UNCHANGED <<dropped, emitted>>
  BY <1>2 DEF Flush, Goto
<1>5. /\ file \in Seq(Line) /\ Len(file) \in Nat /\ nextId \in Nat /\ dropped[p] \in Nat
      /\ \A x \in emitted[p] : x \in Nat /\ x < nextId
      /\ \A i \in 1..Len(file) : file[i] \in Line /\ file[i].id \in Nat
  BY <1>1, AccountTypes
<1>6. nextId' \in Nat /\ nextId <= nextId'
  BY <1>4, <1>5
<1>7. ASSUME NEW q \in Proc, q # p PROVE Account(q)'
  <2>1. Account(q) /\ FileGrows(q)
    BY <1>1, <1>3, <1>4, <1>7, AppendedFileGrows DEF Ledger
  <2>2. pc'[q] = pc[q] /\ buffer'[q] = buffer[q]
    BY <1>1, <1>4, <1>7 DEF TypeOK
  <2> QED
    BY <1>4, <1>6, <2>1, <2>2, AccountKept
<1>8. /\ file' \in Seq(Line) /\ Len(file') >= Len(file) /\ LinesOf(file, ls, file')
      /\ Len(file') \in Nat
  BY <1>3, <1>4, <1>5, AppendKeeps, LenProperties
<1>9. \A i \in 1..Len(file') : \/ i <= Len(file) /\ file'[i] = file[i]
                               \/ file'[i].ended
  <2>1. \A j \in 1..Len(ls) : Spoilt(ls[j]).ended
    <3> SUFFICES ASSUME NEW j \in 1..Len(ls) PROVE Spoilt(ls[j]).ended
      OBVIOUS
    <3>1. ls[j] \in Line /\ ls[j].ended
      BY <1>3, ElementOfSeq
    <3> QED
      BY <3>1 DEF Spoilt, Line
  <2> QED
    BY <1>3, <1>8, <2>1 DEF LinesOf
<1>10. PICK last : last = Len(file')
  OBVIOUS
<1>11. /\ last \in 1..Len(file')
       /\ file'[last].by = p /\ file'[last].ended /\ file'[last].drops = dropped[p]
       /\ file'[last].id = nextId
  <2>1. last \in 1..Len(file') /\ file'[last] \in {NewLine(p), Spoilt(NewLine(p))}
    BY <1>3, <1>8, <1>10 DEF LinesOf
  <2>2. /\ NewLine(p).by = p /\ NewLine(p).ended /\ NewLine(p).drops = dropped[p]
        /\ NewLine(p).id = nextId
    BY DEF NewLine
  <2>3. NewLine(p) \in Line
    <3>1. Len(ls) \in 1..Len(ls)
      BY <1>3, EmptySeq, LenProperties
    <3> QED
      BY <1>3, <3>1, ElementOfSeq
  <2>4. /\ Spoilt(NewLine(p)).by = NewLine(p).by /\ Spoilt(NewLine(p)).ended = NewLine(p).ended
        /\ Spoilt(NewLine(p)).drops = NewLine(p).drops /\ Spoilt(NewLine(p)).id = NewLine(p).id
    BY <2>3 DEF Spoilt, Line
  <2> QED
    BY <2>1, <2>2, <2>4
<1>12. OwnRecord(p, last)'
  <2>1. \A i \in 1..Len(file) : file[i].id < nextId
    BY DEF IInv, LinesOK
  <2>2. \A j \in 1..Len(file') : /\ file'[j].by = p => j <= last
                                 /\ ~ file'[j].ended => file'[j].id # file'[last].id
    BY <1>5, <1>8, <1>9, <1>10, <1>11, <2>1
  <2>3. file'[last].id \notin emitted'[p]
    BY <1>4, <1>5, <1>11
  <2> QED
    BY <1>4, <1>11, <2>2, <2>3 DEF OwnRecord
<1>13. Account(p)'
  <2>1. \A i \in 1..Len(file) : ~ file[i].ended => file[i].id \notin emitted[p]
    BY <1>1 DEF Account
  <2>2. \A i \in 1..Len(file') : ~ file'[i].ended => file'[i].id \notin emitted'[p]
    BY <1>4, <1>5, <1>8, <1>9, <2>1
  <2>3. Loss(file, emitted[p], dropped[p])
    BY <1>1 DEF Account
  <2>4. Loss(file', emitted[p], dropped[p])
    <3>1. \A i \in 1..Len(file) : file'[i] = file[i] \/ file[i].id \notin emitted[p]
      BY <1>8, <2>1 DEF LinesOf
    <3> QED
      BY <1>5, <1>8, <2>3, <3>1, LossAppend
  <2>5. Loss(file, emitted[p], dropped[p])'
    BY <1>4, <2>4 DEF Loss
  <2>6. buffer'[p] = <<>> /\ \A i \in 1..Len(buffer'[p]) : buffer'[p][i].by = p
    BY <1>1, <1>4, EmptySeq DEF TypeOK
  <2>7. \A x \in emitted'[p] : x < nextId'
    BY <1>4, <1>5
  <2> QED
    BY <1>11, <1>12, <2>2, <2>5, <2>6, <2>7 DEF Account
<1> QED
  BY <1>7, <1>13 DEF Ledger

\* The record p has just appended is the one the account waits for.
LEMMA OwnIsLast ==
    ASSUME TypeOK, NEW p \in Proc, NEW i \in 1..Len(file), OwnRecord(p, i)
    PROVE  MyLast(p) = file[i].id
<1>1. Len(file) \in Nat
  BY LenProperties DEF TypeOK
<1> DEFINE mine == {k \in 1..Len(file) : file[k].by = p}
           i0 == CHOOSE k \in mine : \A j \in mine : j <= k
<1>2. i \in mine /\ \A j \in mine : j <= i
  BY DEF OwnRecord
<1>3. i0 \in mine /\ \A j \in mine : j <= i0
  BY <1>2
<1>4. MyLast(p) = file[i0].id
  BY DEF MyLast
<1>5. i0 <= i /\ i <= i0 /\ i0 \in 1..Len(file)
  BY <1>2, <1>3
<1> HIDE DEF i0
<1>6. i0 = i
  BY <1>1, <1>5
<1> QED
  BY <1>4, <1>6

\* The others, when p acts without touching the file.
LEMMA OthersKept ==
    ASSUME IInv, Ledger, NEW p \in Proc, file' = file, nextId' \in {nextId, nextId + 1},
           \A q \in Proc \ {p} : /\ emitted'[q] = emitted[q] /\ dropped'[q] = dropped[q]
                                 /\ pc'[q] = pc[q] /\ buffer'[q] = buffer[q]
    PROVE  \A q \in Proc \ {p} : Account(q)'
<1> SUFFICES ASSUME NEW q \in Proc \ {p} PROVE Account(q)'
  OBVIOUS
<1>1. TypeOK /\ Account(q)
  BY DEF IInv, Ledger
<1>2. nextId \in Nat /\ FileGrows(q)
  BY <1>1, AccountTypes, SameFileGrows
<1>3. nextId' \in Nat /\ nextId <= nextId'
  BY <1>2
<1> QED
  BY <1>1, <1>2, <1>3, AccountKept

\* fsync: the record that is on disk reports what was counted.
LEMMA LedgerSync ==
    ASSUME IInv, Ledger, NEW p \in Proc, Sync(p)
    PROVE  Ledger'
<1>1. TypeOK /\ Account(p) /\ pc[p] = "sync"
  BY DEF IInv, Ledger, Sync
<1>2. PICK i \in 1..Len(file) : OwnRecord(p, i)
  BY <1>1 DEF Account
<1>3. PICK x : x = file[i].id
  OBVIOUS
<1>4. MyLast(p) = x
  BY <1>1, <1>2, <1>3, OwnIsLast
<1>5. /\ emitted' = [emitted EXCEPT ![p] = @ \cup {x}]
      /\ dropped' = [dropped EXCEPT ![p] = 0]
      /\ UNCHANGED <<file, buffer, nextId>>
      /\ \E s \in {"tip", "idle"} : pc' = [pc EXCEPT ![p] = s]
  BY <1>4 DEF Sync, Goto, Return
<1>6. /\ emitted'[p] = emitted[p] \cup {x} /\ dropped'[p] = 0 /\ pc'[p] # "sync"
      /\ \A q \in Proc \ {p} : /\ emitted'[q] = emitted[q] /\ dropped'[q] = dropped[q]
                               /\ pc'[q] = pc[q] /\ buffer'[q] = buffer[q]
  BY <1>1, <1>5 DEF TypeOK
<1>7. /\ file \in Seq(Line) /\ Len(file) \in Nat /\ nextId \in Nat /\ dropped[p] \in Nat
      /\ \A y \in emitted[p] : y \in Nat /\ y < nextId
      /\ \A k \in 1..Len(file) : file[k] \in Line /\ file[k].id \in Nat
  BY <1>1, AccountTypes
<1>8. /\ file[i].drops = dropped[p] /\ x \notin emitted[p] /\ x < nextId
      /\ \A j \in 1..Len(file) : ~ file[j].ended => file[j].id # x
  BY <1>2, <1>3 DEF OwnRecord, IInv, LinesOK
<1>9. Loss(file, emitted[p] \cup {x}, 0)
  <2>1. Loss(file, emitted[p], file[i].drops)
    BY <1>1, <1>8 DEF Account
  <2> QED
    BY <1>3, <1>7, <1>8, <2>1, LossReported
<1>10. Account(p)'
  <2>1. Loss(file, emitted[p], dropped[p])'
    BY <1>5, <1>6, <1>9 DEF Loss
  <2>2. \A j \in 1..Len(file') : ~ file'[j].ended => file'[j].id \notin emitted'[p]
    BY <1>1, <1>5, <1>6, <1>8 DEF Account
  <2>3. \A y \in emitted'[p] : y < nextId'
    BY <1>5, <1>6, <1>7, <1>8
  <2>4. \A k \in 1..Len(buffer'[p]) : buffer'[p][k].by = p
    BY <1>1, <1>5 DEF Account
  <2> QED
    BY <1>6, <2>1, <2>2, <2>3, <2>4 DEF Account
<1> QED
  BY <1>5, <1>6, <1>10, OthersKept DEF Ledger

\* fsync fails: the record is in the file and counted besides.
LEMMA LedgerSyncFails ==
    ASSUME IInv, Ledger, NEW p \in Proc, SyncFails(p)
    PROVE  Ledger'
<1>1. TypeOK /\ Account(p) /\ pc[p] = "sync"
  BY DEF IInv, Ledger, SyncFails
<1>2. PICK i \in 1..Len(file) : OwnRecord(p, i)
  BY <1>1 DEF Account
<1>3. PICK x : x = file[i].id
  OBVIOUS
<1>4. MyLast(p) = x
  BY <1>1, <1>2, <1>3, OwnIsLast
<1>5. /\ emitted' = [emitted EXCEPT ![p] = @ \cup {x}]
      /\ dropped' = [dropped EXCEPT ![p] = @ + 1]
      /\ UNCHANGED <<file, buffer, nextId>>
      /\ pc' = [pc EXCEPT ![p] = "idle"]
  BY <1>4 DEF SyncFails, DropRecord, Goto, Return
<1>6. /\ emitted'[p] = emitted[p] \cup {x} /\ dropped'[p] = dropped[p] + 1 /\ pc'[p] # "sync"
      /\ \A q \in Proc \ {p} : /\ emitted'[q] = emitted[q] /\ dropped'[q] = dropped[q]
                               /\ pc'[q] = pc[q] /\ buffer'[q] = buffer[q]
  BY <1>1, <1>5 DEF TypeOK
<1>7. /\ file \in Seq(Line) /\ Len(file) \in Nat /\ nextId \in Nat /\ dropped[p] \in Nat
      /\ \A y \in emitted[p] : y \in Nat /\ y < nextId
      /\ \A k \in 1..Len(file) : file[k] \in Line /\ file[k].id \in Nat
  BY <1>1, AccountTypes
<1>8. /\ x < nextId /\ x \in Nat
      /\ \A j \in 1..Len(file) : ~ file[j].ended => file[j].id # x
  BY <1>2, <1>3, <1>7 DEF OwnRecord, IInv, LinesOK
<1>9. Loss(file, emitted[p] \cup {x}, dropped[p] + 1)
  <2>1. Loss(file, emitted[p], dropped[p])
    BY <1>1 DEF Account
  <2> QED
    BY <1>7, <1>8, <2>1, LossDropped
<1>10. Account(p)'
  <2>1. Loss(file, emitted[p], dropped[p])'
    BY <1>5, <1>6, <1>9 DEF Loss
  <2>2. \A j \in 1..Len(file') : ~ file'[j].ended => file'[j].id \notin emitted'[p]
    BY <1>1, <1>5, <1>6, <1>8 DEF Account
  <2>3. \A y \in emitted'[p] : y < nextId'
    BY <1>5, <1>6, <1>7, <1>8
  <2>4. \A k \in 1..Len(buffer'[p]) : buffer'[p][k].by = p
    BY <1>1, <1>5 DEF Account
  <2> QED
    BY <1>6, <2>1, <2>2, <2>3, <2>4 DEF Account
<1> QED
  BY <1>5, <1>6, <1>10, OthersKept DEF Ledger

\* flush fails: the record stays in the buffer and is counted.
LEMMA LedgerFlushFails ==
    ASSUME IInv, Ledger, NEW p \in Proc, FlushFails(p)
    PROVE  Ledger'
<1>1. TypeOK /\ Account(p)
  BY DEF IInv, Ledger
<1>2. PICK ls : ls = Append(buffer[p], NewLine(p))
  OBVIOUS
<1>3. ls \in Seq(Line) /\ \A j \in 1..Len(ls) : ls[j].ended /\ ls[j].by = p
  <2>1. OwnLines(p, Append(buffer[p], NewLine(p)))
    BY <1>1, FlushedOwn
  <2> QED
    BY <1>2, <2>1 DEF OwnLines
<1>4. /\ emitted' = [emitted EXCEPT ![p] = @ \cup {nextId}]
      /\ dropped' = [dropped EXCEPT ![p] = @ + 1]
      /\ buffer' = [buffer EXCEPT ![p] = ls]
      /\ file' = file /\ nextId' = nextId + 1
      /\ pc' = [pc EXCEPT ![p] = "idle"]
  BY <1>1, <1>2 DEF FlushFails, DropRecord, Goto, Return, TypeOK
<1>5. /\ emitted'[p] = emitted[p] \cup {nextId} /\ dropped'[p] = dropped[p] + 1
      /\ pc'[p] # "sync" /\ buffer'[p] = ls
      /\ \A q \in Proc \ {p} : /\ emitted'[q] = emitted[q] /\ dropped'[q] = dropped[q]
                               /\ pc'[q] = pc[q] /\ buffer'[q] = buffer[q]
  BY <1>1, <1>4 DEF TypeOK
<1>6. /\ file \in Seq(Line) /\ Len(file) \in Nat /\ nextId \in Nat /\ dropped[p] \in Nat
      /\ \A y \in emitted[p] : y \in Nat /\ y < nextId
      /\ \A k \in 1..Len(file) : file[k] \in Line /\ file[k].id \in Nat
  BY <1>1, AccountTypes
<1>7. \A k \in 1..Len(file) : file[k].id < nextId
  BY DEF IInv, LinesOK
<1>8. Loss(file, emitted[p] \cup {nextId}, dropped[p] + 1)
  <2>1. Loss(file, emitted[p], dropped[p])
    BY <1>1 DEF Account
  <2> QED
    BY <1>6, <2>1, LossDropped
<1>9. Account(p)'
  <2>1. Loss(file, emitted[p], dropped[p])'
    BY <1>4, <1>5, <1>8 DEF Loss
  <2>2. \A k \in 1..Len(file) : ~ file[k].ended => file[k].id \notin emitted[p]
    BY <1>1 DEF Account
  <2>3. \A j \in 1..Len(file') : ~ file'[j].ended => file'[j].id \notin emitted'[p]
    BY <1>4, <1>5, <1>6, <1>7, <2>2
  <2>4. \A y \in emitted'[p] : y < nextId'
    BY <1>4, <1>5, <1>6
  <2>5. \A k \in 1..Len(buffer'[p]) : buffer'[p][k].by = p
    BY <1>3, <1>5
  <2> QED
    BY <1>5, <2>1, <2>3, <2>4, <2>5 DEF Account
<1> QED
  BY <1>4, <1>5, <1>9, OthersKept DEF Ledger

\* close: the account of p ends, the others see lines that are not theirs.
LEMMA LedgerClose ==
    ASSUME IInv, IInv', Ledger, NEW p \in Proc, Close(p)
    PROVE  Ledger'
<1>1. TypeOK /\ TypeOK' /\ LinesOK /\ Account(p)
  BY DEF IInv, Ledger
<1>2. /\ emitted'[p] = {} /\ buffer'[p] = <<>> /\ pc'[p] = "down"
      /\ \A q \in Proc \ {p} : /\ emitted'[q] = emitted[q] /\ dropped'[q] = dropped[q]
                               /\ buffer'[q] = buffer[q] /\ pc'[q] = pc[q]
  <2>1. End({p}) /\ {p} \in SUBSET Proc
    BY DEF Close
  <2> QED
    BY <1>1, <2>1, EndedAccount
<1>3. Account(p)'
  BY <1>1, <1>2, AccountReset
<1>4. ASSUME NEW q \in Proc \ {p} PROVE Account(q)'
  <2>1. PICK ls : ls = buffer[p]
    OBVIOUS
  <2>2. ls \in Seq(Line) /\ \A j \in 1..Len(ls) : ls[j].ended /\ ls[j].by = p
    BY <1>1, <2>1 DEF TypeOK, LinesOK, Account
  <2>3. FileGrows(q)
    <3>1. CASE file' = file
      BY <1>1, <3>1, SameFileGrows
    <3>2. CASE file' = Appended(file, ls)
      BY <1>1, <1>4, <2>2, <3>2, AppendedFileGrows
    <3> QED
      BY <2>1, <3>1, <3>2 DEF Close
  <2>4. nextId' = nextId /\ nextId \in Nat
    BY <1>1, AccountTypes DEF Close
  <2>5. nextId' \in Nat /\ nextId <= nextId'
    BY <2>4
  <2> QED
    BY <1>2, <1>4, <2>3, <2>5, AccountKept DEF Ledger
<1> QED
  BY <1>3, <1>4 DEF Ledger

LEMMA LedgerInit ==
    ASSUME Init
    PROVE  Ledger
<1>1. ASSUME NEW q \in Proc PROVE Account(q)
  <2>1. /\ file = <<>> /\ emitted[q] = {} /\ dropped[q] = 0 /\ buffer[q] = <<>>
        /\ pc[q] = "down"
    BY DEF Init
  <2>2. file \in Seq(Line) /\ 0 \in Nat
    BY <2>1, EmptySeq
  <2>3. Loss(file, {}, 0)
    BY <2>2, LossNone
  <2>4. Loss(file, emitted[q], dropped[q])
    BY <2>1, <2>3
  <2>5. \A i \in 1..Len(buffer[q]) : buffer[q][i].by = q
    BY <2>1, EmptySeq
  <2> QED
    BY <2>1, <2>4, <2>5 DEF Account
<1> QED
  BY <1>1 DEF Ledger

LEMMA LedgerNext == IInv /\ Ledger /\ [Next]_vars => Ledger'
<1> SUFFICES ASSUME IInv, Ledger, [Next]_vars PROVE Ledger'
  OBVIOUS
<1>0. IInv' /\ TypeOK /\ TypeOK'
  BY NextIInv DEF IInv
<1>1. CASE UNCHANGED vars
  <2>1. UNCHANGED <<file, pc, dropped, buffer, nextId, emitted>>
    BY <1>1 DEF vars, histVars
  <2> QED
    BY <1>0, <2>1, LedgerQuiet
<1>2. CASE PowerLoss
  <2>1. \A q \in Proc : emitted'[q] = {} /\ buffer'[q] = <<>> /\ pc'[q] = "down"
    BY <1>0, <1>2, EndedAccount DEF PowerLoss
  <2> QED
    BY <1>0, <2>1, AccountReset DEF Ledger
<1>3. ASSUME NEW p \in Proc,
             \/ Open(p) \/ Emit(p) \/ TakeLock(p) \/ LockTimeout(p) \/ Scan(p)
             \/ Flush(p) \/ FlushFails(p) \/ Sync(p) \/ SyncFails(p) \/ Tip(p)
             \/ Close(p) \/ Kill(p)
      PROVE  Ledger'
  BY <1>0, <1>3, LedgerOthers, LedgerFlush, LedgerFlushFails, LedgerSync, LedgerSyncFails,
     LedgerClose
<1> QED
  BY <1>1, <1>2, <1>3 DEF Next

\* _write_record and its except clause: for any number of instances, records and failures of
\* flush and fsync, no more records are missing than are counted or have been reported.
THEOREM LossesAreReported == Spec => []NoSilentLoss
<1>1. Spec => []Ledger
  BY LedgerInit, LedgerNext, Invariance, PTL DEF Spec
<1>2. Ledger => NoSilentLoss
  BY DEF Ledger, Account, Loss, NoSilentLoss
<1> QED
  BY <1>1, <1>2, PTL

=============================================================================
