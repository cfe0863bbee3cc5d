------------------------ MODULE AppendOnlyFileProofs ------------------------
(***************************************************************************)
(* The journal file, for any number of records, instances, short writes,   *)
(* deaths and power losses: no line is ever merged, a record answered      *)
(* `appended' stays a line of the file while no creation of it was cut     *)
(* short, and a finalized file is frozen.                                  *)
(***************************************************************************)
EXTENDS AppendOnlyFile, SequenceTheorems, TLAPS

\* The line of record r starts at i and ends within the first n tokens of c.
LineIn(c, r, i, n) ==
  /\ i \in Nat \ {0} /\ i + 2 <= n /\ n <= Len(c)
  /\ i = 1 \/ c[i - 1] = Newline
  /\ c[i] = Head1(r) /\ c[i + 1] = Rest(r) /\ c[i + 2] = Newline

\* Only records that were handed to the file are in it.
KnownInv == \A i \in 1 .. Len(content) : content[i] # Newline => content[i][1] \in written

\* The line of an appended record lies in the flushed part, unless a creation was
\* cut short: a power loss that takes the directory entry takes that part with it.
DurableInv == ~creationCut => \A r \in appended : \E i \in Nat : LineIn(content, r, i, flushed)

\* What the steps of an append and of a finalization have behind them.
TaskInv ==
  /\ task.step \in {"open", "tail", "write"} => task.record \in Records \ written
  /\ task.step = "write" => task.boundary = endsAtLineBoundary
  /\ task.step \in {"sync", "syncDirectory"} =>
       task.record \in written /\ \E i \in Nat : LineIn(content, task.record, i, Len(content))
  /\ task.step = "syncDirectory" => \E i \in Nat : LineIn(content, task.record, i, flushed)
  /\ task.step \in {"finalSync", "finalSyncDirectory", "chmod"} => present

\* A finalized file is there, read-only, and no task is at work on it.
FrozenInv ==
  frozen.known => present /\ ~writable /\ task.step \in {"idle"} /\ content = frozen.content

LinesInv == FileTypeOK /\ NeverMerged /\ KnownInv /\ DurableInv /\ TaskInv /\ FrozenInv

OpenSteps == {"tail", "write", "sync", "syncDirectory", "finalSync", "finalSyncDirectory", "chmod"}

\* A task knows whether it creates the file.  Until a creation is cut short, the
\* entry of the file is flushed, or still to be flushed by the task that created
\* it, before which nothing is answered `appended'.
EntryInv ==
  /\ entryFlushed => present
  /\ task.step \in {"open", "finalOpen"} => (task.created <=> ~present)
  /\ task.step \in OpenSteps => present
  /\ ~creationCut /\ present => entryFlushed \/ Creating
  /\ ~creationCut /\ appended # {} => entryFlushed

FileInv == LinesInv /\ EntryInv

-----------------------------------------------------------------------------
(* Sequences of tokens. *)

\* The tokens are three kinds of pairs.
LEMMA TokenFacts ==
  ASSUME NEW r
  PROVE  /\ Head1(r) # Newline /\ Rest(r) # Newline
         /\ Head1(r)[1] = r /\ Head1(r)[2] = "head" /\ Rest(r)[1] = r /\ Rest(r)[2] = "rest"
         /\ Newline[2] = "newline" /\ Head1(r) # Rest(r)
         /\ r \in Records => Head1(r) \in Tokens /\ Rest(r) \in Tokens
         /\ Newline \in Tokens
BY Zenon DEF Head1, Rest, Newline, Tokens

\* A line by its tokens is a line by its substring.
LEMMA LineIsWhole ==
  ASSUME FileTypeOK, NEW r, NEW i \in Nat, NEW n \in Nat, LineIn(content, r, i, n)
  PROVE  WholeLine(r)
<1>1. i \in 1 .. Len(content) - 2 /\ AtLineStart(i) /\ content \in Seq(Tokens)
  BY DEF LineIn, AtLineStart, FileTypeOK
<1>2. SubSeq(content, i, i + 2) = <<content[i], content[i + 1], content[i + 2]>>
  <2> DEFINE s == SubSeq(content, i, i + 2)
             t == <<content[i], content[i + 1], content[i + 2]>>
  <2>1. s \in Seq(Tokens) /\ Len(s) = 3 /\ s[1] = content[i] /\ s[2] = content[i + 1] /\ s[3] = content[i + 2]
    <3>1. i \in Int /\ i + 2 \in Int /\ \A j \in i .. i + 2 : content[j] \in Tokens
      BY <1>1
    <3>2. s \in Seq(Tokens) /\ Len(s) = IF i <= i + 2 THEN i + 2 - i + 1 ELSE 0
      BY <3>1, SubSeqProperties
    <3>3. \A j \in 1 .. i + 2 - i + 1 : s[j] = content[i + j - 1]
      BY <3>1, SubSeqProperties
    <3> HIDE DEF s
    <3> QED
      BY <3>2, <3>3
  <2>2. t \in Seq(Tokens) /\ Len(t) = 3 /\ t[1] = content[i] /\ t[2] = content[i + 1] /\ t[3] = content[i + 2]
    <3>1. content[i] \in Tokens /\ content[i + 1] \in Tokens /\ content[i + 2] \in Tokens
      BY <1>1
    <3> QED
      BY <3>1
  <2> HIDE DEF s, t
  <2>3. \A k \in 1 .. 3 : s[k] = t[k]
    <3>1. \A k \in 1 .. 3 : k = 1 \/ k = 2 \/ k = 3
      OBVIOUS
    <3> QED
      BY <2>1, <2>2, <3>1, Zenon
  <2>4. s = t
    BY <2>1, <2>2, <2>3, SeqEqual, Zenon
  <2> QED
    BY <2>4, Zenon DEF s, t
<1> QED
  BY <1>1, <1>2, Zenon DEF LineIn, WholeLine

\* A prefix that reaches far enough has the line too.
LEMMA LineInPrefix ==
  ASSUME NEW c \in Seq(Tokens), NEW d \in Seq(Tokens), NEW r, NEW i \in Nat, NEW n \in Nat, NEW m \in Nat,
         LineIn(c, r, i, n), n <= m, m <= Len(d),
         \A k \in 1 .. n : d[k] = c[k]
  PROVE  LineIn(d, r, i, m)
<1>1. /\ i \in Nat \ {0} /\ i + 2 <= n /\ n <= Len(c)
      /\ i \in 1 .. n /\ i + 1 \in 1 .. n /\ i + 2 \in 1 .. n /\ (i # 1 => i - 1 \in 1 .. n)
  BY DEF LineIn
<1> QED
  BY <1>1 DEF LineIn
\* A prefix of a sequence of tokens.
LEMMA PrefixFacts ==
  ASSUME NEW c \in Seq(Tokens), NEW n \in 0 .. Len(c)
  PROVE  /\ SubSeq(c, 1, n) \in Seq(Tokens) /\ Len(SubSeq(c, 1, n)) = n
         /\ \A k \in 1 .. n : SubSeq(c, 1, n)[k] = c[k]
<1> DEFINE s == SubSeq(c, 1, n)
<1>1. 1 \in Int /\ n \in Int /\ n \in Nat /\ \A j \in 1 .. n : c[j] \in Tokens
  OBVIOUS
<1>2. s \in Seq(Tokens) /\ Len(s) = IF 1 <= n THEN n - 1 + 1 ELSE 0
  BY <1>1, SubSeqProperties
<1>3. \A j \in 1 .. n - 1 + 1 : s[j] = c[1 + j - 1]
  BY <1>1, SubSeqProperties
<1> HIDE DEF s
<1>4. s \in Seq(Tokens) /\ Len(s) = n /\ \A k \in 1 .. n : s[k] = c[k]
  BY <1>1, <1>2, <1>3
<1> QED
  BY <1>4, Zenon DEF s

-----------------------------------------------------------------------------
(* A write: all of the payload or any part of it. *)

\* How many newlines close a torn line, and where the line of the record begins,
\* less one.
Torn == IF task.boundary THEN 0 ELSE 1
Base == Len(content) + Torn

\* The file after a write: what was there, then the newline that closes a torn
\* line, then the line of the record, cut anywhere.
Shape ==
  /\ content' \in Seq(Tokens) /\ Len(content') \in Len(content) .. Base + 3
  /\ \A k \in 1 .. Len(content) : content'[k] = content[k]
  /\ \A k \in Len(content) + 1 .. Len(content') :
       \/ k = Base /\ content'[k] = Newline
       \/ k = Base + 1 /\ content'[k] = Head1(task.record)
       \/ k = Base + 2 /\ content'[k] = Rest(task.record)
       \/ k = Base + 3 /\ content'[k] = Newline
  /\ Base = 0 \/ Base > Len(content') \/ content'[Base] = Newline

\* The payload.
LEMMA PayloadFacts ==
  ASSUME task.record \in Records
  PROVE  /\ Payload \in Seq(Tokens) /\ Len(Payload) = Torn + 3 /\ (Torn = 1 => Payload[1] = Newline)
         /\ Payload[Torn + 1] = Head1(task.record) /\ Payload[Torn + 2] = Rest(task.record) /\ Payload[Torn + 3] = Newline
<1> DEFINE r == task.record
           line == <<Head1(r), Rest(r), Newline>>
<1>1. Head1(r) \in Tokens /\ Rest(r) \in Tokens /\ Newline \in Tokens
  BY TokenFacts, Zenon
<1>2. line \in Seq(Tokens) /\ Len(line) = 3 /\ line[1] = Head1(r) /\ line[2] = Rest(r) /\ line[3] = Newline
  BY <1>1
<1> HIDE DEF line
<1>3. CASE task.boundary
  <2>1. Payload = line
    BY <1>2, <1>3 DEF Payload, line
  <2> QED
    BY <1>2, <1>3, <2>1 DEF Torn
<1>4. CASE ~task.boundary
  <2> DEFINE first == <<Newline>>
  <2>1. Payload = first \o line
    BY <1>4, Zenon DEF Payload, line
  <2>2. first \in Seq(Tokens) /\ Len(first) = 1 /\ first[1] = Newline
    BY <1>1
  <2> HIDE DEF first
  <2>3. /\ first \o line \in Seq(Tokens) /\ Len(first \o line) = Len(first) + Len(line)
        /\ \A i \in 1 .. Len(first) + Len(line) :
             (first \o line)[i] = IF i <= Len(first) THEN first[i] ELSE line[i - Len(first)]
    BY <1>2, <2>2, ConcatProperties, Zenon
  <2>4. /\ Payload \in Seq(Tokens) /\ Len(Payload) = 4
        /\ \A i \in 1 .. 4 : Payload[i] = IF i <= 1 THEN first[i] ELSE line[i - 1]
    BY <1>2, <2>1, <2>2, <2>3
  <2>5. Payload[1] = Newline /\ Payload[2] = line[1] /\ Payload[3] = line[2] /\ Payload[4] = line[3]
    BY <2>2, <2>4
  <2> QED
    BY <1>2, <1>4, <2>4, <2>5 DEF Torn
<1> QED
  BY <1>3, <1>4, Zenon

\* The first L tokens of d are those of c; the next n are those of the payload p,
\* which has t newlines before the line of r.
Extends(L, t, n, c, d, p, r) ==
  /\ L \in Nat /\ t \in {0, 1} /\ n \in 0 .. t + 3
  /\ t = 1 => p[1] = Newline
  /\ t = 0 => L = 0 \/ c[L] = Newline
  /\ p[t + 1] = Head1(r) /\ p[t + 2] = Rest(r) /\ p[t + 3] = Newline
  /\ \A k \in 1 .. L : d[k] = c[k]
  /\ \A k \in 1 .. n : d[L + k] = p[k]

\* So the tokens of d after the first L are known by their positions.
Extended(L, t, n, d, r) ==
  /\ \A k \in L + 1 .. L + n :
       \/ k = L + t /\ d[k] = Newline
       \/ k = L + t + 1 /\ d[k] = Head1(r)
       \/ k = L + t + 2 /\ d[k] = Rest(r)
       \/ k = L + t + 3 /\ d[k] = Newline
  /\ L + t = 0 \/ L + t > L + n \/ d[L + t] = Newline

\* How far a write reaches.
LEMMA WrittenLength ==
  ASSUME NEW L \in Nat, NEW t \in {0, 1}, NEW n \in 0 .. t + 3
  PROVE  L + n \in L .. (L + t) + 3 /\ (n = t + 3 => L + n = (L + t) + 3)
OBVIOUS

\* The arithmetic of the positions.
LEMMA ExtendedShape ==
  ASSUME NEW L, NEW t, NEW n, NEW c, NEW d, NEW p, NEW r, Extends(L, t, n, c, d, p, r)
  PROVE  Extended(L, t, n, d, r)
<1> DEFINE head == Head1(r)
           rest == Rest(r)
           newline == Newline
<1>0. /\ L \in Nat /\ t \in {0, 1} /\ n \in 0 .. t + 3 /\ (t = 1 => p[1] = newline)
      /\ (t = 0 => L = 0 \/ c[L] = newline) /\ p[t + 1] = head /\ p[t + 2] = rest /\ p[t + 3] = newline
      /\ (\A k \in 1 .. L : d[k] = c[k]) /\ (\A k \in 1 .. n : d[L + k] = p[k])
  BY Zenon DEF Extends
<1> HIDE DEF head, rest, newline
<1>1. ASSUME NEW k \in L + 1 .. L + n
      PROVE  \/ k = L + t /\ d[k] = newline
             \/ k = L + t + 1 /\ d[k] = head
             \/ k = L + t + 2 /\ d[k] = rest
             \/ k = L + t + 3 /\ d[k] = newline
  <2>1. PICK j \in 1 .. n : k = L + j
    <3>1. k - L \in 1 .. n /\ k = L + (k - L)
      BY <1>0
    <3> QED
      BY <1>0, <3>1, Zenon
  <2>2. d[k] = p[j] /\ n \in Nat
    BY <1>0, <2>1
  <2>3. j = t \/ j = t + 1 \/ j = t + 2 \/ j = t + 3
    BY <1>0, <2>2
  <2>4. CASE j = t
    <3>1. t = 1
      BY <1>0, <2>4
    <3> QED
      BY <1>0, <2>1, <2>2, <2>4, <3>1, Zenon
  <2>5. CASE j = t + 1
    BY <1>0, <2>1, <2>2, <2>5
  <2>6. CASE j = t + 2
    BY <1>0, <2>1, <2>2, <2>6
  <2>7. CASE j = t + 3
    BY <1>0, <2>1, <2>2, <2>7
  <2> QED
    BY <1>0, <2>3, <2>4, <2>5, <2>6, <2>7, Zenon
<1>2. L + t = 0 \/ L + t > L + n \/ d[L + t] = newline
  <2>1. CASE t = 1 /\ n # 0
    <3>1. 1 \in 1 .. n
      BY <1>0, <2>1
    <3>2. d[L + 1] = p[1]
      BY <1>0, <3>1, Zenon
    <3> QED
      BY <1>0, <2>1, <3>2, Zenon
  <2>2. CASE t = 1 /\ n = 0
    BY <1>0, <2>2
  <2>3. CASE t = 0 /\ L # 0
    <3>1. L \in 1 .. L /\ L + t = L
      BY <1>0, <2>3
    <3> QED
      BY <1>0, <2>3, <3>1, Zenon
  <2>4. CASE t = 0 /\ L = 0
    BY <1>0, <2>4
  <2> QED
    BY <1>0, <2>1, <2>2, <2>3, <2>4, Zenon
<1> QED
  BY <1>1, <1>2, Zenon DEF Extended, head, rest, newline

\* A write of any part of it has that shape.
LEMMA WrittenShape ==
  ASSUME FileTypeOK, TaskInv, task.step = "write", NEW n \in 0 .. Len(Payload),
         content' = content \o SubSeq(Payload, 1, n)
  PROVE  Shape /\ (n = Len(Payload) => Len(content') = Base + 3)
<1> DEFINE s == SubSeq(Payload, 1, n)
           L == Len(content)
<1>1. /\ Payload \in Seq(Tokens) /\ Len(Payload) = Torn + 3 /\ (Torn = 1 => Payload[1] = Newline)
      /\ Payload[Torn + 1] = Head1(task.record) /\ Payload[Torn + 2] = Rest(task.record) /\ Payload[Torn + 3] = Newline
  BY PayloadFacts, Zenon DEF TaskInv
<1>2. Torn \in {0, 1} /\ (Torn = 0 <=> task.boundary) /\ Base = L + Torn
  BY DEF Base, Torn, FileTypeOK
<1>3. s \in Seq(Tokens) /\ Len(s) = n /\ \A k \in 1 .. n : s[k] = Payload[k]
  BY <1>1, PrefixFacts, Zenon
<1> HIDE DEF s
<1>4. content \in Seq(Tokens) /\ L \in Nat
  BY DEF FileTypeOK
<1>5. /\ content' \in Seq(Tokens) /\ Len(content') = L + n
      /\ \A i \in 1 .. L + n : content'[i] = IF i <= L THEN content[i] ELSE s[i - L]
  BY <1>3, <1>4, ConcatProperties DEF s
<1>6. n \in 0 .. Torn + 3 /\ n \in Nat
  BY <1>1, <1>2
<1>7. Torn = 0 => L = 0 \/ content[L] = Newline
  BY <1>2, Zenon DEF TaskInv, endsAtLineBoundary
<1> HIDE DEF L
<1>8. \A k \in 1 .. L : content'[k] = content[k]
  BY <1>4, <1>5, <1>6
<1>9. \A k \in 1 .. n : content'[L + k] = Payload[k]
  <2>1. ASSUME NEW k \in 1 .. n
        PROVE  L + k \in 1 .. L + n /\ ~(L + k <= L) /\ (L + k) - L = k
    BY <1>4, <1>6
  <2>2. \A k \in 1 .. n : content'[L + k] = s[(L + k) - L]
    BY <1>5, <2>1, Zenon
  <2> QED
    BY <1>3, <2>1, <2>2, Zenon
<1>10. Extends(L, Torn, n, content, content', Payload, task.record)
  BY <1>1, <1>2, <1>4, <1>6, <1>7, <1>8, <1>9, Zenon DEF Extends
<1>12. Extended(L, Torn, n, content', task.record)
  BY <1>10, ExtendedShape, Zenon
<1>11. Len(content') \in L .. Base + 3 /\ (n = Len(Payload) => Len(content') = Base + 3)
  <2>1. L + n \in L .. (L + Torn) + 3 /\ (n = Torn + 3 => L + n = (L + Torn) + 3)
    BY <1>2, <1>4, <1>6, WrittenLength, Zenon
  <2>2. Len(Payload) = Torn + 3
    BY <1>1, Zenon
  <2> QED
    BY <1>2, <1>5, <2>1, <2>2, Zenon
<1> QED
  BY <1>2, <1>5, <1>8, <1>11, <1>12, Zenon DEF Shape, Extended, L

\* A write keeps every line it finds, merges none and adds none but the record's.
LEMMA WriteKeepsLines ==
  ASSUME FileTypeOK, NeverMerged, KnownInv, task.step = "write", task.record \in Records \ written, Shape,
         written' = written \cup {task.record}
  PROVE  NeverMerged' /\ KnownInv'
<1> DEFINE L == Len(content)
           M == Len(content')
           r == task.record
<1>1. /\ content \in Seq(Tokens) /\ L \in Nat /\ M \in Nat /\ M >= L /\ Base \in {L, L + 1}
      /\ \A k \in 1 .. L : content'[k] = content[k]
      /\ \A k \in L + 1 .. M :
           \/ k = Base /\ content'[k] = Newline
           \/ k = Base + 1 /\ content'[k] = Head1(r)
           \/ k = Base + 2 /\ content'[k] = Rest(r)
           \/ k = Base + 3 /\ content'[k] = Newline
      /\ Base = 0 \/ Base > M \/ content'[Base] = Newline
  BY DEF FileTypeOK, Shape, Base, Torn
<1>2. /\ Head1(r) # Newline /\ Rest(r) # Newline /\ Head1(r)[1] = r /\ Head1(r)[2] = "head" /\ Rest(r)[1] = r
      /\ Rest(r)[2] = "rest" /\ Newline[2] = "newline" /\ Head1(r) # Rest(r)
  BY TokenFacts, Zenon
<1>3. \A k \in 1 .. L : content[k] # Newline => content[k][1] # r
  BY Zenon DEF KnownInv
<1>4. \A k \in 1 .. L : content[k] # Head1(r) /\ content[k] # Rest(r)
  BY <1>2, <1>3, Zenon
<1> HIDE DEF L, M, r
<1>5. KnownInv'
  <2>1. ASSUME NEW k \in 1 .. M, content'[k] # Newline
        PROVE  content'[k][1] \in written \cup {r}
    <3>1. CASE k \in 1 .. L
      BY <1>1, <2>1, <3>1, Zenon DEF KnownInv, L
    <3>2. CASE k \in L + 1 .. M
      BY <1>1, <1>2, <2>1, <3>2, Zenon
    <3> QED
      BY <1>1, <3>1, <3>2
  <2> QED
    BY <2>1, Zenon DEF KnownInv, M, r
<1>6. ASSUME NEW i \in 1 .. M
      PROVE  /\ content'[i][2] = "head" => i = 1 \/ content'[i - 1] = Newline
             /\ content'[i][2] = "rest" =>
                  ~(i = 1 \/ content'[i - 1] = Newline) /\ content'[i - 1] = Head1(content'[i][1])
             /\ content'[i] # Newline => \A j \in 1 .. i - 1 : content'[j] # content'[i]
  <2>1. CASE i \in 1 .. L
    <3>1. content'[i] = content[i] /\ (i # 1 => content'[i - 1] = content[i - 1])
          /\ \A j \in 1 .. i - 1 : content'[j] = content[j]
      BY <1>1, <2>1
    <3>2. /\ content[i][2] = "head" => i = 1 \/ content[i - 1] = Newline
          /\ content[i][2] = "rest" =>
               ~(i = 1 \/ content[i - 1] = Newline) /\ content[i - 1] = Head1(content[i][1])
          /\ content[i] # Newline => \A j \in 1 .. i - 1 : content[j] # content[i]
      BY <2>1, Zenon DEF NeverMerged, AtLineStart, L
    <3> QED
      BY <3>1, <3>2, Zenon
  <2>2. CASE i \in L + 1 .. M /\ content'[i] = Newline
    BY <1>2, <2>2, Zenon
  <2>3. CASE i \in L + 1 .. M /\ i = Base + 1 /\ content'[i] = Head1(r)
    <3>1. i = 1 \/ content'[i - 1] = Newline
      BY <1>1, <2>3
    <3>2. ASSUME NEW j \in 1 .. i - 1
          PROVE  content'[j] # Head1(r)
      <4>1. CASE j \in 1 .. L
        BY <1>1, <1>4, <4>1, Zenon
      <4>2. CASE j \in L + 1 .. M
        BY <1>1, <1>2, <2>3, <4>2
      <4> QED
        BY <1>1, <2>3, <4>1, <4>2
    <3> QED
      BY <1>2, <2>3, <3>1, <3>2, Zenon
  <2>4. CASE i \in L + 1 .. M /\ i = Base + 2 /\ content'[i] = Rest(r)
    <3>1. i - 1 \in L + 1 .. M /\ i - 1 = Base + 1
      BY <1>1, <2>4
    <3>2. content'[i - 1] = Head1(r) /\ i # 1
      BY <1>1, <3>1
    <3>3. ASSUME NEW j \in 1 .. i - 1
          PROVE  content'[j] # Rest(r)
      <4>1. CASE j \in 1 .. L
        BY <1>1, <1>4, <4>1, Zenon
      <4>2. CASE j \in L + 1 .. M
        BY <1>1, <1>2, <2>4, <4>2
      <4> QED
        BY <1>1, <2>4, <4>1, <4>2
    <3> QED
      BY <1>2, <2>4, <3>2, <3>3, Zenon
  <2> QED
    BY <1>1, <2>1, <2>2, <2>3, <2>4
<1>7. NeverMerged'
  BY <1>6, Zenon DEF NeverMerged, AtLineStart, M
<1> QED
  BY <1>5, <1>7, Zenon
-----------------------------------------------------------------------------
(* The steps of an append. *)

TaskSteps == {"idle", "open", "tail", "write", "sync", "syncDirectory", "finalOpen", "finalSync",
              "finalSyncDirectory", "chmod"}
Tasks == [step : TaskSteps, record : Records \cup {NoRecord}, created : BOOLEAN, boundary : BOOLEAN]

\* A task that goes on keeps its record.
LEMMA ContinueFacts ==
  ASSUME FileTypeOK, NEW step \in TaskSteps, Continue(step)
  PROVE  /\ task' \in Tasks /\ task'.step = step /\ task'.record = task.record
         /\ task'.created = task.created /\ task'.boundary = task.boundary
<1>1. task \in Tasks
  BY Zenon DEF FileTypeOK, Tasks, TaskSteps
<1> QED
  BY <1>1, Zenon DEF Continue, Tasks

\* No task is at work between two calls.
LEMMA IdleFacts ==
  NoTask \in Tasks /\ NoTask.step = "idle"
BY Zenon DEF NoTask, Tasks, TaskSteps

\* The history stays a truth value.
LEMMA CutIsBoolean == (creationCut \/ Creating) \in BOOLEAN
BY Zenon

\* While the content stays, a flush only adds to what is durable.
LEMMA FileStays ==
  ASSUME LinesInv, UNCHANGED <<content, written, appended>>, flushed' \in {flushed, Len(content)},
         creationCut => creationCut'
  PROVE  NeverMerged' /\ KnownInv' /\ DurableInv' /\ flushed' \in 0 .. Len(content')
<1>1. content \in Seq(Tokens) /\ flushed \in 0 .. Len(content) /\ Len(content) \in Nat
  BY DEF LinesInv, FileTypeOK
<1>2. NeverMerged' /\ KnownInv'
  BY Zenon DEF LinesInv, NeverMerged, KnownInv, AtLineStart
<1>3. ASSUME NEW r, NEW i \in Nat, LineIn(content, r, i, flushed)
      PROVE  LineIn(content, r, i, flushed')
  BY <1>1, <1>3 DEF LineIn
<1>4. DurableInv'
  BY <1>3, Zenon DEF LinesInv, DurableInv
<1> QED
  BY <1>1, <1>2, <1>4

\* What a step may leave to the end: a state without a task.
LEMMA IdleStep ==
  ASSUME LinesInv, task' = NoTask, UNCHANGED <<content, written, appended, frozen, writable>>,
         flushed' \in {flushed, Len(content)}, present' \in BOOLEAN, entryFlushed' \in BOOLEAN, fileStopped' \in BOOLEAN,
         present => present', creationCut' = (creationCut \/ Creating)
  PROVE  LinesInv'
<1>1. NeverMerged' /\ KnownInv' /\ DurableInv' /\ flushed' \in 0 .. Len(content')
  BY FileStays, Zenon
<1>2. FileTypeOK'
  BY <1>1, IdleFacts, CutIsBoolean, Zenon DEF LinesInv, FileTypeOK, Tasks, TaskSteps
<1>3. TaskInv' /\ FrozenInv'
  BY IdleFacts, Zenon DEF LinesInv, TaskInv, FrozenInv
<1> QED
  BY <1>1, <1>2, <1>3, Zenon DEF LinesInv

\* appendDurably begins, or a finalized file refuses it.
LEMMA AppendKeeps ==
  ASSUME LinesInv, NEW r \in Records, Append1(r)
  PROVE  LinesInv'
<1>1. CASE FileFinalized
  <2>1. /\ task' = NoTask /\ creationCut' = (creationCut \/ Creating)
        /\ UNCHANGED <<content, flushed, present, entryFlushed, writable, fileStopped, appended, written, frozen>>
    BY <1>1, Zenon DEF Append1, AnswerNotWritten, CutShort, fileVars
  <2> QED
    BY <2>1, IdleStep, Zenon DEF LinesInv, FileTypeOK
<1>2. CASE ~FileFinalized
  <2>1. /\ task' = [NoTask EXCEPT !.step = "open", !.record = r, !.created = ~present] /\ r \notin written
        /\ UNCHANGED <<content, flushed, present, entryFlushed, writable, fileStopped, appended, written, frozen, creationCut>>
    BY <1>2, Zenon DEF Append1, fileVars
  <2>2. task' = [step |-> "open", record |-> r, created |-> ~present, boundary |-> TRUE]
    BY <2>1, Zenon DEF NoTask
  <2>3. NeverMerged' /\ KnownInv' /\ DurableInv'
    BY <2>1, FileStays, Zenon
  <2>a. task' \in Tasks
    <3>1. (~present) \in BOOLEAN
      BY Zenon
    <3> QED
      BY <2>2, <3>1, Zenon DEF Tasks, TaskSteps
  <2>4. FileTypeOK'
    BY <2>1, <2>a, Zenon DEF LinesInv, FileTypeOK, Tasks, TaskSteps
  <2>5. TaskInv' /\ FrozenInv'
    BY <1>2, <2>1, <2>2, Zenon DEF LinesInv, TaskInv, FrozenInv, FileFinalized
  <2> QED
    BY <2>3, <2>4, <2>5, Zenon DEF LinesInv
<1> QED
  BY <1>1, <1>2, Zenon

\* The file is opened, and created when it was not there.
LEMMA OpenKeeps ==
  ASSUME LinesInv, OpenForAppend
  PROVE  LinesInv'
<1>1. /\ task.step = "open" /\ UNCHANGED <<content, flushed, entryFlushed, writable, written, frozen, fileStopped, appended>>
      /\ \/ present' = TRUE /\ Continue("tail") /\ creationCut' = creationCut
         \/ task' = NoTask /\ present' = present /\ creationCut' = (creationCut \/ Creating)
  BY Zenon DEF OpenForAppend, AnswerNotWritten, CutShort
<1>2. CASE task' = NoTask /\ present' = present /\ creationCut' = (creationCut \/ Creating)
  BY <1>1, <1>2, IdleStep, Zenon DEF LinesInv, FileTypeOK
<1>3. CASE present' = TRUE /\ Continue("tail") /\ creationCut' = creationCut
  <2>1. task' \in Tasks /\ task'.step = "tail" /\ task'.record = task.record
    BY <1>3, ContinueFacts, Zenon DEF LinesInv, TaskSteps
  <2>2. NeverMerged' /\ KnownInv' /\ DurableInv'
    BY <1>1, <1>3, FileStays, Zenon
  <2>3. FileTypeOK'
    BY <1>1, <1>3, <2>1, Zenon DEF LinesInv, FileTypeOK, Tasks, TaskSteps
  <2>4. TaskInv' /\ FrozenInv'
    BY <1>1, <2>1, Zenon DEF LinesInv, TaskInv, FrozenInv
  <2> QED
    BY <2>2, <2>3, <2>4, Zenon DEF LinesInv
<1> QED
  BY <1>1, <1>2, <1>3, Zenon

\* The last byte is read (endsAtLineBoundary).
LEMMA CheckTailKeeps ==
  ASSUME LinesInv, CheckTail
  PROVE  LinesInv'
<1>1. /\ task.step = "tail"
      /\ UNCHANGED <<content, flushed, present, entryFlushed, writable, written, frozen, fileStopped, appended>>
      /\ \/ task' = [task EXCEPT !.step = "write", !.boundary = endsAtLineBoundary] /\ creationCut' = creationCut
         \/ task' = NoTask /\ creationCut' = (creationCut \/ Creating)
  BY Zenon DEF CheckTail, AnswerNotWritten, CutShort, fileVars
<1>2. CASE task' = NoTask /\ creationCut' = (creationCut \/ Creating)
  BY <1>1, <1>2, IdleStep, Zenon DEF LinesInv, FileTypeOK
<1>3. CASE task' = [task EXCEPT !.step = "write", !.boundary = endsAtLineBoundary] /\ creationCut' = creationCut
  <2>1. task \in Tasks /\ endsAtLineBoundary \in BOOLEAN
    BY Zenon DEF LinesInv, FileTypeOK, Tasks, TaskSteps, endsAtLineBoundary
  <2>2. /\ task' \in Tasks /\ task'.step = "write" /\ task'.record = task.record
        /\ task'.boundary = endsAtLineBoundary
    BY <1>3, <2>1, Zenon DEF Tasks, TaskSteps
  <2>3. NeverMerged' /\ KnownInv' /\ DurableInv'
    BY <1>1, <1>3, FileStays, Zenon
  <2>4. FileTypeOK'
    BY <1>1, <1>3, <2>2, Zenon DEF LinesInv, FileTypeOK, Tasks, TaskSteps
  <2>5. endsAtLineBoundary' = endsAtLineBoundary
    BY <1>1, Zenon DEF endsAtLineBoundary
  <2>6. TaskInv' /\ FrozenInv'
    BY <1>1, <2>2, <2>5, Zenon DEF LinesInv, TaskInv, FrozenInv
  <2> QED
    BY <2>3, <2>4, <2>6, Zenon DEF LinesInv
<1> QED
  BY <1>1, <1>2, <1>3, Zenon
\* The payload is written, whole or cut short.
LEMMA WriteKeeps ==
  ASSUME LinesInv, WritePayload
  PROVE  LinesInv'
<1>1. /\ task.step = "write" /\ written' = written \cup {task.record}
      /\ UNCHANGED <<flushed, present, entryFlushed, writable, frozen>>
      /\ FileTypeOK /\ TaskInv /\ task.record \in Records \ written
  BY Zenon DEF WritePayload, LinesInv, TaskInv
<1>2. PICK n \in 0 .. Len(Payload) :
        /\ content' = content \o SubSeq(Payload, 1, n)
        /\ \/ n = Len(Payload) /\ Continue("sync") /\ UNCHANGED <<fileStopped, appended, creationCut>>
           \/ AnswerUnknown
  <2>1. Payload \in Seq(Tokens) /\ Len(Payload) \in 0 .. Len(Payload)
    BY <1>1, PayloadFacts
  <2>2. SubSeq(Payload, 1, Len(Payload)) = Payload
    <3> DEFINE s == SubSeq(Payload, 1, Len(Payload))
    <3>1. s \in Seq(Tokens) /\ Len(s) = Len(Payload) /\ \A k \in 1 .. Len(Payload) : s[k] = Payload[k]
      BY <2>1, PrefixFacts, Zenon
    <3> HIDE DEF s
    <3>2. s = Payload
      BY <2>1, <3>1, SeqEqual, Zenon
    <3> QED
      BY <3>2, Zenon DEF s
  <2> QED
    BY <2>1, <2>2, Zenon DEF WritePayload
<1>3. Shape /\ (n = Len(Payload) => Len(content') = Base + 3)
  BY <1>1, <1>2, WrittenShape, Zenon
<1>4. NeverMerged' /\ KnownInv'
  BY <1>1, <1>3, WriteKeepsLines, Zenon DEF LinesInv
<1>5. /\ content \in Seq(Tokens) /\ content' \in Seq(Tokens) /\ Len(content) \in Nat /\ Len(content') \in Nat
      /\ Len(content) <= Len(content') /\ flushed \in 0 .. Len(content)
      /\ \A k \in 1 .. Len(content) : content'[k] = content[k]
  BY <1>1, <1>3 DEF FileTypeOK, Shape, Base, Torn
<1>6. ASSUME NEW r, NEW i \in Nat, LineIn(content, r, i, flushed)
      PROVE  LineIn(content', r, i, flushed)
  <2>1. flushed \in Nat /\ flushed <= flushed /\ flushed <= Len(content') /\ \A k \in 1 .. flushed : content'[k] = content[k]
    BY <1>5
  <2> QED
    BY <1>5, <1>6, <2>1, LineInPrefix, Zenon
<1>7. appended' = appended /\ creationCut' \in BOOLEAN /\ (creationCut => creationCut')
  BY <1>1, <1>2, CutIsBoolean, Zenon DEF AnswerUnknown, CutShort, FileTypeOK
<1>8. DurableInv'
  BY <1>1, <1>6, <1>7, Zenon DEF LinesInv, DurableInv
<1>9. ~frozen.known
  BY <1>1, Zenon DEF LinesInv, FrozenInv
<1>10. written' \subseteq Records /\ appended' \subseteq written' /\ flushed' \in 0 .. Len(content')
  BY <1>1, <1>5, <1>7 DEF FileTypeOK
<1>11. CASE n = Len(Payload) /\ Continue("sync") /\ UNCHANGED <<fileStopped, appended, creationCut>>
  <2>1. task' \in Tasks /\ task'.step = "sync" /\ task'.record = task.record
    BY <1>1, <1>11, ContinueFacts, Zenon DEF TaskSteps
  <2>2. FileTypeOK'
    BY <1>1, <1>5, <1>7, <1>10, <1>11, <2>1, Zenon DEF FileTypeOK, Tasks, TaskSteps
  <2>3. LineIn(content', task.record, Base + 1, Len(content')) /\ Base + 1 \in Nat
    <3>1. Base \in Nat /\ Len(content') = Base + 3 /\ Base + 1 > Len(content)
      BY <1>3, <1>5, <1>11 DEF Base, Torn
    <3>2. /\ Base + 1 \in Len(content) + 1 .. Len(content') /\ Base + 2 \in Len(content) + 1 .. Len(content')
          /\ Base + 3 \in Len(content) + 1 .. Len(content')
      BY <1>5, <3>1
    <3>3. content'[Base + 1] = Head1(task.record) /\ content'[Base + 2] = Rest(task.record)
          /\ content'[Base + 3] = Newline /\ (Base = 0 \/ content'[Base] = Newline)
      BY <1>3, <3>1, <3>2 DEF Shape
    <3>4. (Base + 1) + 1 = Base + 2 /\ (Base + 1) + 2 = Base + 3 /\ (Base + 1) - 1 = Base
      BY <3>1
    <3> HIDE DEF Base
    <3> QED
      BY <3>1, <3>3, <3>4 DEF LineIn
  <2>4. TaskInv'
    BY <1>1, <2>1, <2>3, Zenon DEF TaskInv
  <2>5. FrozenInv'
    BY <1>1, <1>9, Zenon DEF FrozenInv
  <2> QED
    BY <1>4, <1>8, <2>2, <2>4, <2>5, Zenon DEF LinesInv
<1>12. CASE AnswerUnknown
  <2>1. task' = NoTask /\ fileStopped' = TRUE
    BY <1>12, Zenon DEF AnswerUnknown, CutShort
  <2>2. FileTypeOK'
    BY <1>1, <1>5, <1>7, <1>10, <2>1, IdleFacts, Zenon DEF FileTypeOK, Tasks, TaskSteps
  <2>3. TaskInv' /\ FrozenInv'
    BY <1>1, <1>9, <2>1, IdleFacts, Zenon DEF TaskInv, FrozenInv
  <2> QED
    BY <1>4, <1>8, <2>2, <2>3, Zenon DEF LinesInv
<1> QED
  BY <1>2, <1>11, <1>12, Zenon

\* An append is answered `appended' once its line is flushed.
LEMMA AppendedKeeps ==
  ASSUME LinesInv, AnswerAppended, task.step \in {"sync", "syncDirectory"},
         UNCHANGED <<content, written, frozen, writable, present>>, flushed' \in {flushed, Len(content)},
         entryFlushed' \in BOOLEAN, \E i \in Nat : LineIn(content, task.record, i, flushed')
  PROVE  LinesInv'
<1>1. /\ task' = NoTask /\ appended' = appended \cup {task.record} /\ UNCHANGED <<fileStopped, creationCut>>
      /\ task.record \in written /\ FileTypeOK
  BY Zenon DEF AnswerAppended, LinesInv, TaskInv
<1>2. content \in Seq(Tokens) /\ flushed \in 0 .. Len(content) /\ Len(content) \in Nat
  BY <1>1 DEF FileTypeOK
<1>3. NeverMerged' /\ KnownInv'
  BY Zenon DEF LinesInv, NeverMerged, KnownInv, AtLineStart
<1>4. ASSUME NEW r, NEW i \in Nat, LineIn(content, r, i, flushed)
      PROVE  LineIn(content, r, i, flushed')
  BY <1>2, <1>4 DEF LineIn
<1>5. DurableInv'
  BY <1>1, <1>4, Zenon DEF LinesInv, DurableInv
<1>6. FileTypeOK'
  BY <1>1, <1>2, IdleFacts DEF FileTypeOK, Tasks, TaskSteps
<1>7. TaskInv' /\ FrozenInv'
  BY <1>1, IdleFacts, Zenon DEF LinesInv, TaskInv, FrozenInv
<1> QED
  BY <1>3, <1>5, <1>6, <1>7, Zenon DEF LinesInv

\* The file is flushed, and its directory after it when the file is new.
LEMMA SyncKeeps ==
  ASSUME LinesInv, SyncAppend
  PROVE  LinesInv'
<1>1. /\ task.step = "sync" /\ UNCHANGED <<content, present, entryFlushed, writable, frozen, written>> /\ FileTypeOK
      /\ task.record \in written
  BY Zenon DEF SyncAppend, FlushFailed, LinesInv, TaskInv
<1>2. PICK i \in Nat : LineIn(content, task.record, i, Len(content))
  BY <1>1, Zenon DEF LinesInv, TaskInv
<1>3. CASE FlushContent /\ Continue("syncDirectory") /\ UNCHANGED <<fileStopped, appended, creationCut>>
  <2>1. task' \in Tasks /\ task'.step = "syncDirectory" /\ task'.record = task.record
    BY <1>1, <1>3, ContinueFacts, Zenon DEF TaskSteps
  <2>2. flushed' = Len(content)
    BY <1>3, Zenon DEF FlushContent
  <2>3. NeverMerged' /\ KnownInv' /\ DurableInv' /\ flushed' \in 0 .. Len(content')
    BY <1>1, <1>3, <2>2, FileStays, Zenon
  <2>4. FileTypeOK'
    BY <1>1, <1>3, <2>1, <2>3, Zenon DEF FileTypeOK, Tasks, TaskSteps
  <2>5. TaskInv' /\ FrozenInv'
    BY <1>1, <1>2, <2>1, <2>2, Zenon DEF LinesInv, TaskInv, FrozenInv
  <2> QED
    BY <2>3, <2>4, <2>5, Zenon DEF LinesInv
<1>4. CASE FlushContent /\ AnswerAppended
  BY <1>1, <1>2, <1>4, AppendedKeeps, Zenon DEF FlushContent, FileTypeOK
<1>5. CASE FlushFailed /\ flushed' = flushed
  <2>1. task' = NoTask /\ fileStopped' = TRUE /\ appended' = appended /\ creationCut' = (creationCut \/ Creating)
    BY <1>5, Zenon DEF FlushFailed, AnswerUnknown, CutShort
  <2> QED
    BY <1>1, <1>5, <2>1, IdleStep, Zenon DEF FileTypeOK
<1> QED
  BY <1>3, <1>4, <1>5, Zenon DEF SyncAppend

\* The directory is flushed.
LEMMA SyncDirectoryKeeps ==
  ASSUME LinesInv, SyncDirectory
  PROVE  LinesInv'
<1>1. /\ task.step = "syncDirectory" /\ UNCHANGED <<content, flushed, present, writable, written, frozen>> /\ FileTypeOK
  BY Zenon DEF SyncDirectory, LinesInv
<1>2. CASE entryFlushed' = TRUE /\ AnswerAppended
  <2>1. \E i \in Nat : LineIn(content, task.record, i, flushed')
    BY <1>1, Zenon DEF LinesInv, TaskInv
  <2> QED
    BY <1>1, <1>2, <2>1, AppendedKeeps, Zenon
<1>3. CASE AnswerUnknown /\ entryFlushed' = entryFlushed
  <2>1. task' = NoTask /\ fileStopped' = TRUE /\ appended' = appended /\ creationCut' = (creationCut \/ Creating)
    BY <1>3, Zenon DEF AnswerUnknown, CutShort
  <2> QED
    BY <1>1, <1>3, <2>1, IdleStep, Zenon DEF FileTypeOK
<1> QED
  BY <1>2, <1>3, Zenon DEF SyncDirectory
-----------------------------------------------------------------------------
(* Finalization, restarts and power losses. *)

\* A step of a finalization: its task goes on or ends, nothing is written.
LEMMA FinalStep ==
  ASSUME LinesInv, task' \in Tasks, task'.step \in {"finalOpen", "finalSync", "finalSyncDirectory", "chmod"},
         task'.step # "finalOpen" => present',
         UNCHANGED <<content, written, appended, frozen, writable, fileStopped, creationCut>>,
         flushed' \in {flushed, Len(content)}, present' \in BOOLEAN, entryFlushed' \in BOOLEAN, ~frozen.known
  PROVE  LinesInv'
<1>1. NeverMerged' /\ KnownInv' /\ DurableInv' /\ flushed' \in 0 .. Len(content')
  BY FileStays, Zenon
<1>2. FileTypeOK'
  BY <1>1, Zenon DEF LinesInv, FileTypeOK, Tasks, TaskSteps
<1>3. TaskInv' /\ FrozenInv'
  BY Zenon DEF LinesInv, TaskInv, FrozenInv
<1> QED
  BY <1>1, <1>2, <1>3, Zenon DEF LinesInv

\* finalizeDurably begins; a read-only file is finalized already.
LEMMA FinalizeKeeps ==
  ASSUME LinesInv, Finalize
  PROVE  LinesInv'
<1>1. task.step = "idle" /\ UNCHANGED <<content, flushed, present, entryFlushed, writable, fileStopped, written, appended,
                                      creationCut>>
      /\ FileTypeOK
  BY Zenon DEF Finalize, fileVars, LinesInv
<1>2. CASE FileFinalized
  <2>1. frozen' = [known |-> TRUE, content |-> content] /\ task' = task
    BY <1>2, Zenon DEF Finalize
  <2>2. NeverMerged' /\ KnownInv' /\ DurableInv'
    BY <1>1, FileStays, Zenon
  <2>3. FileTypeOK'
    BY <1>1, <2>1, Zenon DEF FileTypeOK
  <2>4. TaskInv' /\ FrozenInv'
    BY <1>1, <1>2, <2>1, Zenon DEF LinesInv, TaskInv, FrozenInv, FileFinalized
  <2> QED
    BY <2>2, <2>3, <2>4, Zenon DEF LinesInv
<1>3. CASE ~FileFinalized
  <2>1. task' = [NoTask EXCEPT !.step = "finalOpen", !.created = ~present] /\ frozen' = frozen
    BY <1>3, Zenon DEF Finalize
  <2>2. task' = [step |-> "finalOpen", record |-> NoRecord, created |-> ~present, boundary |-> TRUE]
    BY <2>1, Zenon DEF NoTask
  <2>3. task' \in Tasks /\ task'.step = "finalOpen"
    <3>1. (~present) \in BOOLEAN
      BY Zenon
    <3> QED
      BY <2>2, <3>1, Zenon DEF Tasks, TaskSteps
  <2>4. ~frozen.known
    BY <1>3, Zenon DEF LinesInv, FrozenInv, FileFinalized
  <2> QED
    BY <1>1, <2>1, <2>3, <2>4, FinalStep, Zenon DEF FileTypeOK
<1> QED
  BY <1>2, <1>3, Zenon

\* The steps of a finalization, and its failures.
LEMMA FinalizationKeeps ==
  ASSUME LinesInv, FinalizeFails \/ OpenFinal \/ SyncFinal \/ SyncFinalDirectory
  PROVE  LinesInv'
<1>1. FileTypeOK /\ ~frozen.known
  BY Zenon DEF LinesInv, FrozenInv, FinalizeFails, OpenFinal, SyncFinal, SyncFinalDirectory
<1>2. CASE FinalizeFails
  BY <1>1, <1>2, IdleStep, Zenon DEF FinalizeFails, CutShort, fileVars, FileTypeOK
<1>3. CASE OpenFinal
  <2>1. /\ task' \in Tasks /\ task'.step = "finalSync"
    BY <1>1, <1>3, ContinueFacts, Zenon DEF OpenFinal, TaskSteps
  <2> QED
    BY <1>1, <1>3, <2>1, FinalStep, Zenon DEF OpenFinal, FileTypeOK
<1>4. CASE SyncFinal
  <2>1. task' \in Tasks /\ task'.step \in {"finalSyncDirectory", "chmod"}
    BY <1>1, <1>4, ContinueFacts, Zenon DEF SyncFinal, TaskSteps
  <2>2. present
    BY <1>4, Zenon DEF LinesInv, TaskInv, SyncFinal
  <2> QED
    BY <1>1, <1>4, <2>1, <2>2, FinalStep, Zenon DEF SyncFinal, FlushContent, FileTypeOK
<1>5. CASE SyncFinalDirectory
  <2>1. task' \in Tasks /\ task'.step = "chmod"
    BY <1>1, <1>5, ContinueFacts, Zenon DEF SyncFinalDirectory, TaskSteps
  <2>2. present
    BY <1>5, Zenon DEF LinesInv, TaskInv, SyncFinalDirectory
  <2> QED
    BY <1>1, <1>5, <2>1, <2>2, FinalStep, Zenon DEF SyncFinalDirectory, FileTypeOK
<1> QED
  BY <1>2, <1>3, <1>4, <1>5, Zenon

\* The mode becomes 0444.
LEMMA MakeReadOnlyKeeps ==
  ASSUME LinesInv, MakeReadOnly
  PROVE  LinesInv'
<1>1. /\ task.step = "chmod" /\ writable' = FALSE /\ task' = NoTask /\ frozen' = [known |-> TRUE, content |-> content]
      /\ UNCHANGED <<content, flushed, present, entryFlushed, fileStopped, written, appended, creationCut>>
      /\ FileTypeOK /\ present
  BY Zenon DEF MakeReadOnly, LinesInv, TaskInv
<1>2. NeverMerged' /\ KnownInv' /\ DurableInv'
  BY <1>1, FileStays, Zenon
<1>3. FileTypeOK'
  BY <1>1, IdleFacts, Zenon DEF FileTypeOK, Tasks, TaskSteps
<1>4. TaskInv' /\ FrozenInv'
  BY <1>1, IdleFacts, Zenon DEF TaskInv, FrozenInv
<1> QED
  BY <1>2, <1>3, <1>4, Zenon DEF LinesInv

\* A power loss leaves a prefix of the file that has the flushed part, or no file.
LEMMA PowerLossKeeps ==
  ASSUME LinesInv, EntryInv, PowerLoss
  PROVE  LinesInv'
<1>1. /\ task' = NoTask /\ fileStopped' = FALSE /\ frozen' = NotFrozen /\ UNCHANGED <<written, appended, creationCut>>
      /\ FileTypeOK
      /\ writable' \in {TRUE, writable}
  BY Zenon DEF PowerLoss, LinesInv
<1>2. PICK n \in 0 .. Len(content) :
        /\ content' \in Seq(Tokens) /\ Len(content') = n /\ flushed' = n
        /\ \A k \in 1 .. n : content'[k] = content[k]
        /\ ~creationCut /\ appended # {} => flushed <= n
        /\ present' \in BOOLEAN /\ entryFlushed' \in BOOLEAN
  <2>1. CASE /\ \E n \in flushed .. Len(content) : content' = SubSeq(content, 1, n) /\ flushed' = n
             /\ UNCHANGED present /\ entryFlushed' = present
    <3>1. PICK n \in flushed .. Len(content) : content' = SubSeq(content, 1, n) /\ flushed' = n
      BY <2>1, Zenon
    <3>2. n \in 0 .. Len(content) /\ flushed <= n /\ content \in Seq(Tokens)
      BY <1>1, <3>1 DEF FileTypeOK
    <3>3. content' \in Seq(Tokens) /\ Len(content') = n /\ \A k \in 1 .. n : content'[k] = content[k]
      BY <3>1, <3>2, PrefixFacts, Zenon
    <3> QED
      BY <1>1, <2>1, <3>1, <3>2, <3>3, Zenon DEF FileTypeOK
  <2>2. CASE /\ ~entryFlushed /\ content' = <<>> /\ flushed' = 0
             /\ present' = FALSE /\ UNCHANGED entryFlushed
    <3>1. 0 \in 0 .. Len(content) /\ content' \in Seq(Tokens) /\ Len(content') = 0
      BY <1>1, <2>2 DEF FileTypeOK
    <3>2. entryFlushed' \in BOOLEAN
      BY <1>1, <2>2, Zenon DEF FileTypeOK
    <3>3. \A k \in 1 .. 0 : content'[k] = content[k]
      OBVIOUS
    <3> QED
      BY <2>2, <3>1, <3>2, <3>3, Zenon DEF EntryInv
  <2> QED
    BY <2>1, <2>2, Zenon DEF PowerLoss
<1>3. content \in Seq(Tokens) /\ Len(content) \in Nat /\ flushed \in 0 .. Len(content) /\ n \in Nat
  BY <1>1 DEF FileTypeOK
<1>4. KnownInv'
  <2>1. \A k \in 1 .. n : k \in 1 .. Len(content)
    BY <1>3
  <2> QED
    BY <1>1, <1>2, <2>1, Zenon DEF LinesInv, KnownInv
<1>5. NeverMerged'
  <2>1. ASSUME NEW i \in 1 .. n
        PROVE  /\ i \in 1 .. Len(content) /\ content'[i] = content[i] /\ (i # 1 => content'[i - 1] = content[i - 1])
               /\ \A j \in 1 .. i - 1 : content'[j] = content[j]
    BY <1>2, <1>3
  <2>2. ASSUME NEW i \in 1 .. n
        PROVE  /\ content'[i][2] = "head" => i = 1 \/ content'[i - 1] = Newline
               /\ content'[i][2] = "rest" =>
                    ~(i = 1 \/ content'[i - 1] = Newline) /\ content'[i - 1] = Head1(content'[i][1])
               /\ content'[i] # Newline => \A j \in 1 .. i - 1 : content'[j] # content'[i]
    <3>1. /\ content[i][2] = "head" => i = 1 \/ content[i - 1] = Newline
          /\ content[i][2] = "rest" =>
               ~(i = 1 \/ content[i - 1] = Newline) /\ content[i - 1] = Head1(content[i][1])
          /\ content[i] # Newline => \A j \in 1 .. i - 1 : content[j] # content[i]
      BY <2>1, Zenon DEF LinesInv, NeverMerged, AtLineStart
    <3> QED
      BY <2>1, <3>1, Zenon
  <2> QED
    BY <1>2, <2>2, Zenon DEF NeverMerged, AtLineStart
<1>6. DurableInv'
  <2>1. ASSUME ~creationCut, NEW r \in appended, NEW i \in Nat, LineIn(content, r, i, flushed)
        PROVE  LineIn(content', r, i, flushed')
    <3>1. flushed \in Nat /\ flushed <= n /\ \A k \in 1 .. flushed : content'[k] = content[k]
      BY <1>2, <1>3, <2>1
    <3> QED
      BY <1>2, <1>3, <2>1, <3>1, LineInPrefix
  <2> QED
    BY <1>1, <2>1, Zenon DEF LinesInv, DurableInv
<1>7. NotFrozen.known = FALSE /\ NotFrozen.content \in Seq(Tokens)
  BY DEF NotFrozen
<1>8. FileTypeOK'
  <2>1. writable' \in BOOLEAN
    BY <1>1, Zenon DEF FileTypeOK
  <2>2. flushed' \in 0 .. Len(content')
    BY <1>2, <1>3
  <2>3. appended' \subseteq written' /\ written' \subseteq Records
    BY <1>1, Zenon DEF FileTypeOK
  <2> QED
    BY <1>1, <1>2, <1>7, <2>1, <2>2, <2>3, IdleFacts, Zenon DEF FileTypeOK, Tasks, TaskSteps
<1>9. TaskInv' /\ FrozenInv'
  BY <1>1, <1>7, IdleFacts, Zenon DEF TaskInv, FrozenInv
<1> QED
  BY <1>4, <1>5, <1>6, <1>8, <1>9, Zenon DEF LinesInv
-----------------------------------------------------------------------------
(* The theorems. *)

\* A journal that does not exist yet.
LEMMA FileInitially ==
  ASSUME FileInit
  PROVE  FileInv
<1>1. content \in Seq(Tokens) /\ Len(content) = 0 /\ flushed \in 0 .. Len(content)
  BY DEF FileInit
<1>2. NotFrozen.known = FALSE /\ NotFrozen.content \in Seq(Tokens)
  BY DEF NotFrozen
<1>3. FileTypeOK
  BY <1>1, <1>2, IdleFacts, Zenon DEF FileInit, FileTypeOK, Tasks, TaskSteps
<1>4. NeverMerged /\ KnownInv
  BY <1>1 DEF NeverMerged, KnownInv
<1>5. DurableInv /\ TaskInv /\ FrozenInv
  BY <1>2, IdleFacts, Zenon DEF FileInit, DurableInv, TaskInv, FrozenInv
<1>6. EntryInv
  BY IdleFacts, Zenon DEF FileInit, EntryInv, OpenSteps
<1> QED
  BY <1>3, <1>4, <1>5, <1>6, Zenon DEF FileInv, LinesInv

\* Every step keeps the lines.
LEMMA LinesStep ==
  ASSUME FileInv, [FileNext]_journalFileVars
  PROVE  LinesInv'
<1>0. LinesInv /\ EntryInv
  BY Zenon DEF FileInv
<1>1. CASE UNCHANGED journalFileVars
  BY <1>0, <1>1 DEF journalFileVars, LinesInv, FileTypeOK, NeverMerged, AtLineStart, KnownInv, DurableInv, TaskInv,
     FrozenInv, endsAtLineBoundary
<1>2. CASE Restart
  BY <1>0, <1>2, IdleStep, Zenon DEF Restart, CutShort, fileVars, LinesInv, FileTypeOK
<1> QED
  BY <1>0, <1>1, <1>2, AppendKeeps, OpenKeeps, CheckTailKeeps, WriteKeeps, SyncKeeps, SyncDirectoryKeeps, FinalizeKeeps,
     FinalizationKeeps, MakeReadOnlyKeeps, PowerLossKeeps, Zenon DEF FileNext

\* A task that has opened the file goes on.
LEMMA EntryContinues ==
  ASSUME FileInv, NEW s \in OpenSteps, Continue(s), present' = TRUE, UNCHANGED <<appended, creationCut>>,
         entryFlushed' \in {entryFlushed, TRUE},
         task.created => (s # "chmod" \/ entryFlushed'),
         ~task.created /\ ~creationCut => entryFlushed
  PROVE  EntryInv'
<1>1. task'.step = s /\ task'.created = task.created
  BY ContinueFacts, Zenon DEF FileInv, LinesInv, FileTypeOK, OpenSteps, TaskSteps
<1>2. task'.step \notin {"open", "finalOpen"}
  BY <1>1, Zenon DEF OpenSteps
<1>3. ~creationCut' => entryFlushed' \/ Creating'
  <2>1. CASE task.created /\ s # "chmod"
    <3>1. task'.created /\ task'.step \in OpenSteps \ {"chmod"}
      BY <1>1, <2>1, Zenon
    <3> QED
      BY <3>1, Zenon DEF Creating, OpenSteps
  <2>2. CASE task.created /\ entryFlushed'
    BY <2>2, Zenon
  <2>3. CASE ~task.created
    <3>1. entryFlushed => entryFlushed'
      BY Zenon
    <3>2. creationCut' = creationCut
      BY Zenon
    <3> QED
      BY <2>3, <3>1, <3>2
  <2> QED
    BY <2>1, <2>2, <2>3, Zenon
<1>4. ~creationCut' /\ appended' # {} => entryFlushed'
  BY Zenon DEF FileInv, EntryInv
<1> QED
  BY <1>2, <1>3, <1>4, Zenon DEF EntryInv

\* A task ends by an error, or its process dies.
LEMMA EntryCut ==
  ASSUME FileInv, CutShort, UNCHANGED <<present, entryFlushed, appended>>
  PROVE  EntryInv'
BY IdleFacts, Zenon DEF FileInv, EntryInv, CutShort, OpenSteps

\* A record is answered `appended'.
LEMMA EntryAppended ==
  ASSUME FileInv, AnswerAppended, task.step \in OpenSteps, UNCHANGED present, ~creationCut => entryFlushed',
         entryFlushed' \in {entryFlushed, TRUE}
  PROVE  EntryInv'
BY IdleFacts, Zenon DEF FileInv, EntryInv, AnswerAppended, OpenSteps

\* The steps of an append.
LEMMA EntryAppend ==
  ASSUME FileInv, (\E r \in Records : Append1(r)) \/ OpenForAppend \/ CheckTail \/ WritePayload \/ SyncAppend \/ SyncDirectory
  PROVE  EntryInv'
<1>0. EntryInv /\ present \in BOOLEAN
  BY Zenon DEF FileInv, LinesInv, FileTypeOK
<1>1. ASSUME NEW r \in Records, Append1(r)
      PROVE  EntryInv'
  <2>1. CASE FileFinalized
    BY <1>1, <2>1, EntryCut, Zenon DEF Append1, AnswerNotWritten, fileVars
  <2>2. CASE ~FileFinalized
    <3>1. task.step = "idle" /\ task' = [step |-> "open", record |-> r, created |-> ~present, boundary |-> TRUE]
          /\ UNCHANGED <<present, entryFlushed, appended, creationCut>>
      BY <1>1, <2>2, Zenon DEF Append1, NoTask, fileVars
    <3> QED
      BY <1>0, <3>1, Zenon DEF EntryInv, Creating, OpenSteps
  <2> QED
    BY <2>1, <2>2, Zenon
<1>2. CASE OpenForAppend
  <2>1. CASE AnswerNotWritten /\ UNCHANGED present
    BY <1>2, <2>1, EntryCut, Zenon DEF OpenForAppend, AnswerNotWritten
  <2>2. CASE present' = TRUE /\ Continue("tail") /\ UNCHANGED <<fileStopped, appended, creationCut>>
    <3>1. ~task.created /\ ~creationCut => entryFlushed
      BY <1>0, <1>2, Zenon DEF EntryInv, OpenForAppend, Creating
    <3> QED
      BY <1>2, <2>2, <3>1, EntryContinues, Zenon DEF OpenForAppend, OpenSteps
  <2> QED
    BY <1>2, <2>1, <2>2, Zenon DEF OpenForAppend
<1>3. ASSUME task.step \in {"tail", "write", "sync"}
      PROVE  present = TRUE /\ task.step \in OpenSteps /\ (~task.created /\ ~creationCut => entryFlushed)
  BY <1>0, <1>3, Zenon DEF EntryInv, Creating, OpenSteps
<1>4. CASE CheckTail
  <2>1. CASE AnswerNotWritten
    BY <1>4, <2>1, EntryCut, Zenon DEF CheckTail, AnswerNotWritten, fileVars
  <2>2. CASE task' = [task EXCEPT !.step = "write", !.boundary = endsAtLineBoundary] /\ UNCHANGED <<appended, creationCut>>
    <3>1. task'.step = "write" /\ task'.created = task.created /\ task.step = "tail"
      BY <1>4, <2>2, Zenon DEF CheckTail, FileInv, LinesInv, FileTypeOK
    <3>2. UNCHANGED <<present, entryFlushed>>
      BY <1>4, Zenon DEF CheckTail, fileVars
    <3> QED
      BY <1>0, <2>2, <3>1, <3>2, Zenon DEF EntryInv, Creating, OpenSteps
  <2> QED
    BY <1>4, <2>1, <2>2, Zenon DEF CheckTail
<1>5. CASE WritePayload
  <2>1. CASE AnswerUnknown
    BY <1>5, <2>1, EntryCut, Zenon DEF WritePayload, AnswerUnknown
  <2>2. CASE Continue("sync") /\ UNCHANGED <<appended, creationCut>>
    BY <1>3, <1>5, <2>2, EntryContinues, Zenon DEF WritePayload, OpenSteps
  <2> QED
    BY <1>5, <2>1, <2>2, Zenon DEF WritePayload
<1>6. CASE SyncAppend
  <2>1. CASE FlushFailed
    BY <1>6, <2>1, EntryCut, Zenon DEF SyncAppend, FlushFailed, AnswerUnknown
  <2>2. CASE Continue("syncDirectory") /\ UNCHANGED <<appended, creationCut>>
    BY <1>3, <1>6, <2>2, EntryContinues, Zenon DEF SyncAppend, OpenSteps
  <2>3. CASE ~createdIn /\ AnswerAppended
    BY <1>3, <1>6, <2>3, EntryAppended, Zenon DEF SyncAppend, createdIn
  <2> QED
    BY <1>6, <2>1, <2>2, <2>3, Zenon DEF SyncAppend
<1>7. CASE SyncDirectory
  <2>1. CASE AnswerUnknown /\ UNCHANGED entryFlushed
    BY <1>7, <2>1, EntryCut, Zenon DEF SyncDirectory, AnswerUnknown
  <2>2. CASE entryFlushed' = TRUE /\ AnswerAppended
    BY <1>7, <2>2, EntryAppended, Zenon DEF SyncDirectory, OpenSteps
  <2> QED
    BY <1>7, <2>1, <2>2, Zenon DEF SyncDirectory
<1> QED
  BY <1>1, <1>2, <1>4, <1>5, <1>6, <1>7, Zenon

\* The steps of a finalization.
LEMMA EntryFinalize ==
  ASSUME FileInv, Finalize \/ FinalizeFails \/ OpenFinal \/ SyncFinal \/ SyncFinalDirectory \/ MakeReadOnly
  PROVE  EntryInv'
<1>0. EntryInv /\ present \in BOOLEAN
  BY Zenon DEF FileInv, LinesInv, FileTypeOK
<1>1. CASE Finalize
  <2>0. task.step = "idle" /\ UNCHANGED <<present, entryFlushed, appended, creationCut>>
    BY <1>1, Zenon DEF Finalize, fileVars
  <2>1. CASE FileFinalized
    <3>1. task' = task
      BY <1>1, <2>1, Zenon DEF Finalize
    <3> QED
      BY <1>0, <2>0, <3>1, Zenon DEF EntryInv, Creating
  <2>2. CASE ~FileFinalized
    <3>1. task' = [step |-> "finalOpen", record |-> NoRecord, created |-> ~present, boundary |-> TRUE]
      BY <1>1, <2>2, Zenon DEF Finalize, NoTask
    <3> QED
      BY <1>0, <2>0, <3>1, Zenon DEF EntryInv, Creating, OpenSteps
  <2> QED
    BY <2>1, <2>2, Zenon
<1>2. CASE FinalizeFails
  BY <1>2, EntryCut, Zenon DEF FinalizeFails, fileVars
<1>3. CASE OpenFinal
  <2>1. ~task.created /\ ~creationCut => entryFlushed
    BY <1>0, <1>3, Zenon DEF EntryInv, OpenFinal, Creating
  <2> QED
    BY <1>3, <2>1, EntryContinues, Zenon DEF OpenFinal, OpenSteps
<1>4. ASSUME task.step \in {"finalSync", "finalSyncDirectory"}
      PROVE  present = TRUE /\ (~task.created /\ ~creationCut => entryFlushed)
  BY <1>0, <1>4, Zenon DEF EntryInv, Creating, OpenSteps
<1>5. CASE SyncFinal
  BY <1>4, <1>5, EntryContinues, Zenon DEF SyncFinal, OpenSteps
<1>6. CASE SyncFinalDirectory
  BY <1>4, <1>6, EntryContinues, Zenon DEF SyncFinalDirectory, OpenSteps
<1>7. CASE MakeReadOnly
  BY <1>0, <1>7, IdleFacts, Zenon DEF EntryInv, MakeReadOnly, Creating, OpenSteps
<1> QED
  BY <1>1, <1>2, <1>3, <1>5, <1>6, <1>7, Zenon

\* A power loss takes no more than the entry that was not flushed.
LEMMA EntryPowerLoss ==
  ASSUME FileInv, PowerLoss
  PROVE  EntryInv'
<1>1. task'.step = "idle" /\ UNCHANGED <<appended, creationCut>> /\ EntryInv
  BY IdleFacts, Zenon DEF PowerLoss, FileInv
<1>2. CASE UNCHANGED present /\ entryFlushed' = present
  <2>1. ~creationCut /\ appended # {} => present
    BY <1>1, Zenon DEF EntryInv
  <2> QED
    BY <1>1, <1>2, <2>1, Zenon DEF EntryInv, OpenSteps
<1>3. CASE ~entryFlushed /\ present' = FALSE /\ UNCHANGED entryFlushed
  BY <1>1, <1>3, Zenon DEF EntryInv, OpenSteps
<1> QED
  BY <1>2, <1>3, Zenon DEF PowerLoss

\* Every step keeps the invariant.
LEMMA FileStep ==
  ASSUME FileInv, [FileNext]_journalFileVars
  PROVE  FileInv'
<1>1. ASSUME UNCHANGED journalFileVars
      PROVE  EntryInv'
  BY <1>1, Zenon DEF FileInv, EntryInv, journalFileVars, Creating
<1>2. ASSUME Restart
      PROVE  EntryInv'
  BY <1>2, EntryCut, Zenon DEF Restart, fileVars
<1>3. EntryInv'
  BY <1>1, <1>2, EntryAppend, EntryFinalize, EntryPowerLoss, Zenon DEF FileNext
<1> QED
  BY <1>3, LinesStep, Zenon DEF FileInv

\* The inductive invariant of the file.
THEOREM FileInvariant == FileSpec => []FileInv
<1>1. FileInit => FileInv
  BY FileInitially, Zenon
<1>2. FileInv /\ [FileNext]_journalFileVars => FileInv'
  BY FileStep, Zenon
<1> QED
  BY <1>1, <1>2, PTL DEF FileSpec

\* The file, its task and its answers are well formed.
THEOREM FileTypeCorrect == FileSpec => []FileTypeOK
BY FileInvariant, PTL DEF FileInv, LinesInv

\* A torn line "is never merged into the new record" (append-only-file.ts:14), with
\* any number of records and instances, and whatever a power loss takes.
THEOREM FileNeverMerged == FileSpec => []NeverMerged
BY FileInvariant, PTL DEF FileInv, LinesInv

\* A record answered `appended' is a line of the file ever after, whatever a power
\* loss takes, while no creation of the file was cut short (appendThroughHandle).
THEOREM FileAppendedSurvives == FileSpec => []AppendedSurvives
<1>1. FileInv => AppendedSurvives
  <2>1. SUFFICES ASSUME FileInv, ~creationCut, NEW r \in appended
                 PROVE  WholeLine(r)
    BY Zenon DEF AppendedSurvives, AppendedIsDurable
  <2>2. PICK i \in Nat : LineIn(content, r, i, flushed)
    BY <2>1, Zenon DEF FileInv, LinesInv, DurableInv
  <2>3. FileTypeOK /\ flushed \in Nat
    BY <2>1 DEF FileInv, LinesInv, FileTypeOK
  <2> QED
    BY <2>2, <2>3, LineIsWhole, Zenon
<1> QED
  BY <1>1, FileInvariant, PTL

\* A file answered as finalized never changes while the machine runs (0444).
THEOREM FileFinalizedIsFrozen == FileSpec => []FinalizedIsFrozen
<1>1. FileInv => FinalizedIsFrozen
  BY Zenon DEF FileInv, LinesInv, FrozenInv, FinalizedIsFrozen
<1> QED
  BY <1>1, FileInvariant, PTL
=============================================================================
