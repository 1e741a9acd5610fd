--------------------------- MODULE WatcherProofs ---------------------------
(***************************************************************************)
(* Theorems about the tailer, for any number of units, files and           *)
(* truncations, and any order of what happens on the disk.                 *)
(***************************************************************************)
EXTENDS Watcher, QueueLemmas

\* The program writes to ever later files, one unit after the other.
DiskOK ==
  /\ path \in {NoFile, inodes} /\ writing <= inodes
  /\ \A i \in Inode : /\ Size(i) <= wrote
                      /\ Size(i) > 0 => i <= writing
                      /\ \A k \in 1..Size(i) : content[i][k] <= wrote
                      /\ \A k, l \in 1..Size(i) : k < l => content[i][k] < content[i][l]
  /\ \A i, j \in Inode : i < j =>
       \A k \in 1..Size(i) : \A l \in 1..Size(j) : content[i][k] < content[j][l]

\* What is between the file's position and rawLines, by where the tailer is.
Hands ==
  /\ pc \notin {"send", "sendlast"} => hand = <<>>
  /\ pc \notin {"read", "send"} => buf = <<>>
  /\ pc \in Reading => offset + Len(hand) + Len(buf) = pos
  /\ pc \in {"open", "seek", "wait"} /\ seekEnd => sent = <<>> /\ faults = 0
  /\ fd <= inodes

Typed == TypeOK /\ DiskOK /\ Hands

\* What was forwarded since a refused call last sent the tailer back to the start
\* of a file, and the last unit that it must not forward: none after an error.
Fresh == UNION {Elements(sent[i]) : i \in (since + 1)..Len(sent)}

Floor == IF faults = 0 THEN history ELSE 0

\* All that was read or skipped so far, since then.
Seen == Fresh \cup Elements(hand) \cup Elements(buf) \cup {Floor}

Past(i) == \A u \in Seen : \A k \in 1..Size(i) : u < content[i][k]

\* Whatever is still to be read comes after everything seen. A file that is
\* shorter than the tailer's position was truncated: all of it is new.
Ahead ==
  /\ \A u \in Seen : u <= wrote
  /\ pc \in {"open", "wait"} /\ path # NoFile => Past(path)
  /\ pc = "seek" => \A i \in fd..MaxFiles : Past(i)
  /\ pc \in Reading =>
       /\ \A i \in (fd + 1)..MaxFiles : Past(i)
       /\ \A u \in Seen : \A k \in 1..Size(fd) : k > pos \/ Size(fd) < pos => u < content[fd][k]

\* The units sent, the line in hand and the buffer follow each other.
Ordered ==
  /\ ForwardedOnce
  /\ \A u \in Fresh : \A v \in Elements(hand) \cup Elements(buf) : u < v
  /\ \A u \in Elements(hand) : \A v \in Elements(buf) : u < v
  /\ \A k, l \in 1..Len(hand) : k < l => hand[k] < hand[l]
  /\ \A k, l \in 1..Len(buf) : k < l => buf[k] < buf[l]
  /\ \A u \in Elements(hand) \cup Elements(buf) : Floor < u

\* The position stays inside a file that is not truncated.
Sized == pc \in Reading /\ ~WasTruncated(fd) => start <= pos /\ pos <= Size(fd)

\* Until a truncation a file holds consecutive units, the buffer a run of them,
\* and the hand no more than a line.
Unbroken ==
  truncated = <<>> =>
    /\ writing # NoFile =>
         \A k \in 1..Size(writing) : content[writing][k] = wrote - Size(writing) + k
    /\ \A i \in Inode : \A k \in 1..Size(i) : content[i][k] = content[i][1] + k - 1
    /\ pc \in Reading =>
         pos <= Size(fd) /\ \A k \in 1..Len(buf) : buf[k] = content[fd][pos - Len(buf) + k]
    /\ \A u, v \in Elements(hand) : LineOf(u) = LineOf(v)
    /\ LinesNotGlued
-----------------------------------------------------------------------------
(* The disk *)

\* What the types say of numbers and lengths.
LEMMA DiskTypes ==
  ASSUME TypeOK
  PROVE  /\ MaxUnits \in Nat /\ MaxFiles \in Nat \ {0}
         /\ path \in 0..MaxFiles /\ writing \in 0..MaxFiles /\ fd \in 0..MaxFiles
         /\ inodes \in 0..MaxFiles /\ wrote \in 0..MaxUnits
         /\ pos \in Nat /\ offset \in Nat /\ start \in Nat /\ history \in 0..MaxUnits
         /\ \A i \in Inode : /\ content[i] \in Seq(Unit) /\ Size(i) \in Nat
                             /\ \A k \in 1..Size(i) : content[i][k] \in Unit
                             /\ \A k \in 1..Size(i) : content[i][k] \in Nat
<1>1. MaxUnits \in Nat /\ MaxFiles \in Nat \ {0}
  BY WatcherAssumption
<1>2. /\ path \in 0..MaxFiles /\ writing \in 0..MaxFiles /\ fd \in 0..MaxFiles
      /\ inodes \in 0..MaxFiles /\ wrote \in 0..MaxUnits
      /\ pos \in Nat /\ offset \in Nat /\ start \in Nat /\ history \in 0..MaxUnits
  BY <1>1 DEF TypeOK, Inode, NoFile
<1>3. ASSUME NEW i \in Inode
      PROVE  /\ content[i] \in Seq(Unit) /\ Size(i) \in Nat
             /\ \A k \in 1..Size(i) : content[i][k] \in Unit
             /\ \A k \in 1..Size(i) : content[i][k] \in Nat
  <2>1. content[i] \in Seq(Unit)
    BY DEF TypeOK
  <2>2. Size(i) \in Nat /\ \A k \in 1..Size(i) : content[i][k] \in Unit
    BY <2>1, LenProperties, ElementOfSeq DEF Size
  <2>3. \A u \in Unit : u \in Nat
    BY <1>1 DEF Unit
  <2> QED
    BY <2>1, <2>2, <2>3
<1> QED
  BY <1>1, <1>2, <1>3

\* A write: every unit on the disk is an old one at its place, or a new one.
LEMMA Written ==
  ASSUME TypeOK, NEW n \in 1..2, Write(n)
  PROVE  /\ writing \in Inode /\ wrote' = wrote + n /\ wrote + n <= MaxUnits
         /\ content' \in [Inode -> Seq(Unit)]
         /\ \A i \in Inode : i # writing => content'[i] = content[i]
         /\ Len(content'[writing]) = Size(writing) + n
         /\ \A k \in 1..Size(writing) : content'[writing][k] = content[writing][k]
         /\ \A k \in 1..n : content'[writing][Size(writing) + k] = wrote + k
<1> DEFINE new == [k \in 1..n |-> wrote + k]
<1>1. /\ writing \in Inode /\ wrote' = wrote + n /\ wrote + n <= MaxUnits
      /\ content' = [content EXCEPT ![writing] = content[writing] \o new]
      /\ content \in [Inode -> Seq(Unit)] /\ wrote \in 0..MaxUnits /\ MaxUnits \in Nat
  BY DiskTypes DEF Write, TypeOK
<1>2. new \in [1..n -> Unit] /\ DOMAIN new = 1..n /\ \A k \in 1..n : new[k] = wrote + k
  BY <1>1 DEF Unit
<1> HIDE DEF new
<1>3. new \in Seq(Unit) /\ Len(new) = n
  BY <1>2
<1>4. content[writing] \in Seq(Unit)
  BY <1>1
<1>5. /\ content[writing] \o new \in Seq(Unit)
      /\ Len(content[writing] \o new) = Len(content[writing]) + n
      /\ \A k \in 1..Len(content[writing]) : (content[writing] \o new)[k] = content[writing][k]
      /\ \A k \in 1..n : (content[writing] \o new)[Len(content[writing]) + k] = new[k]
  BY <1>3, <1>4, Joined
<1>6. /\ content'[writing] = content[writing] \o new
      /\ content' \in [Inode -> Seq(Unit)]
      /\ \A i \in Inode : i # writing => content'[i] = content[i]
  BY <1>1, <1>5
<1> QED
  BY <1>1, <1>2, <1>5, <1>6 DEF Size

\* The same, unit by unit.
LEMMA WrittenUnits ==
  ASSUME TypeOK, NEW n \in 1..2, Write(n), NEW i \in Inode, NEW k \in 1..Len(content'[i])
  PROVE  \/ k \in 1..Size(i) /\ content'[i][k] = content[i][k]
         \/ /\ i = writing /\ k > Size(i)
            /\ content'[i][k] = wrote + (k - Size(i)) /\ content'[i][k] > wrote
            /\ content'[i][k] <= wrote'
<1>1. /\ Size(i) \in Nat /\ wrote \in Nat
  BY DiskTypes
<1>2. CASE i # writing
  BY <1>2, Written DEF Size
<1>3. CASE i = writing
  <2>1. /\ Len(content'[i]) = Size(i) + n
        /\ \A m \in 1..Size(i) : content'[i][m] = content[i][m]
        /\ \A m \in 1..n : content'[i][Size(i) + m] = wrote + m
        /\ wrote' = wrote + n
    BY <1>3, Written
  <2>2. CASE k <= Size(i)
    BY <1>1, <2>1, <2>2
  <2>3. CASE ~(k <= Size(i))
    <3>1. k - Size(i) \in 1..n /\ Size(i) + (k - Size(i)) = k
      BY <1>1, <2>1, <2>3
    <3>2. content'[i][k] = wrote + (k - Size(i))
      BY <2>1, <3>1
    <3>3. wrote + (k - Size(i)) > wrote /\ wrote + (k - Size(i)) <= wrote' /\ k > Size(i)
      BY <1>1, <2>1, <2>3, <3>1
    <3> QED
      BY <1>3, <3>2, <3>3
  <2> QED
    BY <2>2, <2>3
<1> QED
  BY <1>2, <1>3

\* A truncation: one file is empty, the others are as they were.
LEMMA Emptied ==
  ASSUME TypeOK, Truncate
  PROVE  /\ path \in Inode
         /\ content' \in [Inode -> Seq(Unit)]
         /\ \A i \in Inode : i # path => content'[i] = content[i]
         /\ Len(content'[path]) = 0
<1>1. /\ path \in Inode /\ content' = [content EXCEPT ![path] = <<>>]
      /\ content \in [Inode -> Seq(Unit)]
  BY DEF Truncate, TypeOK
<1>2. <<>> \in Seq(Unit) /\ Len(<<>>) = 0
  BY Empty
<1> QED
  BY <1>1, <1>2

\* Every step keeps the files as DiskOK says.
LEMMA DiskStep ==
  ASSUME TypeOK, DiskOK, [Next]_vars
  PROVE  DiskOK'
<1>t. /\ path \in 0..MaxFiles /\ writing \in 0..MaxFiles
      /\ inodes \in 0..MaxFiles /\ wrote \in Nat /\ MaxFiles \in Nat
      /\ \A i \in Inode : /\ i \in Nat /\ Size(i) \in Nat
                          /\ \A k \in 1..Size(i) : content[i][k] \in Nat
  BY DiskTypes DEF Unit, Inode
<1>1. CASE \E n \in 1..2 : Write(n)
  <2>1. PICK n \in 1..2 : Write(n)
    BY <1>1
  <2>2. /\ writing \in Inode /\ wrote' = wrote + n
        /\ UNCHANGED <<path, writing, inodes>>
        /\ \A i \in Inode : i # writing => content'[i] = content[i]
        /\ Len(content'[writing]) = Size(writing) + n
    BY <2>1, Written DEF Write
  <2>3. ASSUME NEW i \in Inode, NEW k \in 1..Len(content'[i])
        PROVE  \/ k \in 1..Size(i) /\ content'[i][k] = content[i][k]
               \/ /\ i = writing /\ k > Size(i)
                  /\ content'[i][k] = wrote + (k - Size(i)) /\ content'[i][k] > wrote
                  /\ content'[i][k] <= wrote'
    BY <2>1, WrittenUnits
  <2>4. ASSUME NEW i \in Inode
        PROVE  /\ Len(content'[i]) <= wrote'
               /\ Len(content'[i]) > 0 => i <= writing'
               /\ \A k \in 1..Len(content'[i]) : content'[i][k] <= wrote'
               /\ \A k, l \in 1..Len(content'[i]) : k < l => content'[i][k] < content'[i][l]
    <3>1. Len(content'[i]) <= wrote' /\ (Len(content'[i]) > 0 => i <= writing')
      <4>1. CASE i = writing
        <5>1. Size(i) <= wrote
          BY DEF DiskOK
        <5> QED
          BY <1>t, <2>2, <4>1, <5>1
      <4>2. CASE i # writing
        <5>1. content'[i] = content[i] /\ Size(i) <= wrote /\ (Size(i) > 0 => i <= writing)
          BY <2>2, <4>2 DEF DiskOK
        <5> QED
          BY <1>t, <2>2, <5>1 DEF Size
      <4> QED
        BY <4>1, <4>2
    <3>2. ASSUME NEW k \in 1..Len(content'[i]) PROVE content'[i][k] <= wrote'
      <4>1. CASE k \in 1..Size(i) /\ content'[i][k] = content[i][k]
        <5>1. content[i][k] <= wrote
          BY <4>1 DEF DiskOK
        <5> QED
          BY <1>t, <2>2, <4>1, <5>1
      <4> QED
        BY <2>3, <4>1
    <3>3. ASSUME NEW k \in 1..Len(content'[i]), NEW l \in 1..Len(content'[i]), k < l
          PROVE  content'[i][k] < content'[i][l]
      <4>1. CASE l \in 1..Size(i) /\ content'[i][l] = content[i][l]
        <5>1. k \in 1..Size(i) /\ content'[i][k] = content[i][k]
          BY <1>t, <2>3, <3>3, <4>1
        <5> QED
          BY <3>3, <4>1, <5>1 DEF DiskOK
      <4>2. CASE /\ i = writing /\ l > Size(i)
                 /\ content'[i][l] = wrote + (l - Size(i)) /\ content'[i][l] > wrote
        <5>1. CASE k \in 1..Size(i) /\ content'[i][k] = content[i][k]
          <6>1. content[i][k] <= wrote /\ content[i][k] \in Nat
            BY <1>t, <5>1 DEF DiskOK
          <6>2. content'[i][l] \in Nat
            BY <1>t, <4>2
          <6> QED
            BY <1>t, <4>2, <5>1, <6>1, <6>2
        <5>2. CASE content'[i][k] = wrote + (k - Size(i))
          BY <1>t, <3>3, <4>2, <5>2
        <5> QED
          BY <2>3, <5>1, <5>2
      <4> QED
        BY <2>3, <4>1, <4>2
    <3> QED
      BY <3>1, <3>2, <3>3
  <2>5. ASSUME NEW i \in Inode, NEW j \in Inode, i < j,
               NEW k \in 1..Len(content'[i]), NEW l \in 1..Len(content'[j])
        PROVE  content'[i][k] < content'[j][l]
    <3>1. CASE k \in 1..Size(i) /\ content'[i][k] = content[i][k]
      <4>1. CASE l \in 1..Size(j) /\ content'[j][l] = content[j][l]
        BY <2>5, <3>1, <4>1 DEF DiskOK
      <4>2. CASE l > Size(j) /\ content'[j][l] = wrote + (l - Size(j)) /\ content'[j][l] > wrote
        <5>1. content[i][k] <= wrote /\ content[i][k] \in Nat
          BY <1>t, <3>1 DEF DiskOK
        <5>2. content'[j][l] \in Int
          BY <1>t, <4>2
        <5> QED
          BY <1>t, <3>1, <4>2, <5>1, <5>2, SMTT(40)
      <4> QED
        BY <2>3, <4>1, <4>2
    <3>2. CASE i = writing
      <4>1. j # writing /\ content'[j] = content[j]
        BY <1>t, <2>2, <2>5, <3>2
      <4>2. Size(j) > 0
        BY <1>t, <4>1 DEF Size
      <4>3. j <= writing
        BY <4>2 DEF DiskOK
      <4> QED
        BY <1>t, <2>5, <3>2, <4>3
    <3> QED
      BY <2>3, <3>1, <3>2
  <2> QED
    BY <2>2, <2>4, <2>5 DEF DiskOK, Size
<1>2. CASE Truncate
  <2>1. /\ path \in Inode /\ UNCHANGED <<path, writing, inodes, wrote>>
        /\ \A i \in Inode : i # path => content'[i] = content[i]
        /\ Len(content'[path]) = 0
    BY <1>2, Emptied DEF Truncate
  <2>2. ASSUME NEW i \in Inode, NEW k \in 1..Len(content'[i])
        PROVE  content'[i] = content[i]
    BY <2>1
  <2>3. ASSUME NEW i \in Inode
        PROVE  /\ Len(content'[i]) <= wrote
               /\ Len(content'[i]) > 0 => i <= writing
               /\ \A k \in 1..Len(content'[i]) : content'[i][k] <= wrote
               /\ \A k, l \in 1..Len(content'[i]) : k < l => content'[i][k] < content'[i][l]
    <3>1. CASE content'[i] = content[i]
      BY <3>1 DEF DiskOK, Size
    <3>2. CASE Len(content'[i]) = 0
      BY <1>t, <3>2
    <3> QED
      BY <2>1, <3>1, <3>2
  <2>4. ASSUME NEW i \in Inode, NEW j \in Inode, i < j,
               NEW k \in 1..Len(content'[i]), NEW l \in 1..Len(content'[j])
        PROVE  content'[i][k] < content'[j][l]
    BY <2>2, <2>4 DEF DiskOK, Size
  <2> QED
    BY <2>1, <2>3, <2>4 DEF DiskOK, Size
<1>3. CASE Rename
  BY <1>3 DEF Rename, DiskOK, Size, NoFile
<1>4. CASE Create
  <2>1. /\ inodes' = inodes + 1 /\ path' = inodes'
        /\ UNCHANGED <<content, writing, wrote>>
    BY <1>4 DEF Create
  <2>2. writing' <= inodes'
    BY <1>t, <2>1 DEF DiskOK
  <2> QED
    BY <2>1, <2>2 DEF DiskOK, Size
<1>5. CASE Reopen
  <2>1. /\ writing' = inodes /\ UNCHANGED <<path, content, inodes, wrote>>
    BY <1>5 DEF Reopen, DiskOK, NoFile
  <2>2. \A i \in Inode : Size(i) > 0 => i <= writing'
    BY <1>t, <2>1 DEF DiskOK
  <2> QED
    BY <1>t, <2>1, <2>2 DEF DiskOK, Size
<1>6. CASE UNCHANGED disk
  BY <1>6 DEF disk, DiskOK, Size
<1> QED
  BY <1>1, <1>2, <1>3, <1>4, <1>5, <1>6
     DEF Next, Disk, Tailer, Open, Seek, WaitFound, WaitTimesOut, Fill, ReadLine, ReadEOF,
         Send, Check, OpenFails, StatFails, vars
-----------------------------------------------------------------------------
(* The tailer's pieces *)

\* The elements of two pieces put together are theirs.
LEMMA ElementsJoined ==
  ASSUME NEW S, NEW a \in Seq(S), NEW b \in Seq(S)
  PROVE  Elements(a \o b) = Elements(a) \cup Elements(b)
<1> DEFINE d == a \o b
<1>1. /\ Len(a) \in Nat /\ Len(b) \in Nat /\ Len(d) = Len(a) + Len(b)
      /\ \A k \in 1..Len(a) : d[k] = a[k]
      /\ \A k \in 1..Len(b) : d[Len(a) + k] = b[k]
  BY Joined
<1> HIDE DEF d
<1>2. ASSUME NEW k \in 1..Len(d) PROVE d[k] \in Elements(a) \cup Elements(b)
  <2>1. CASE k <= Len(a)
    <3>1. k \in 1..Len(a) /\ d[k] = a[k]
      BY <1>1, <2>1
    <3> QED
      BY <3>1 DEF Elements
  <2>2. CASE ~(k <= Len(a))
    <3>1. k - Len(a) \in 1..Len(b) /\ Len(a) + (k - Len(a)) = k
      BY <1>1, <2>2
    <3>2. d[k] = b[k - Len(a)]
      BY <1>1, <3>1
    <3> QED
      BY <3>1, <3>2 DEF Elements
  <2> QED
    BY <2>1, <2>2
<1>3. ASSUME NEW k \in 1..Len(a) PROVE a[k] \in Elements(d)
  <2>1. k \in 1..Len(d) /\ d[k] = a[k]
    BY <1>1
  <2> QED
    BY <2>1 DEF Elements
<1>4. ASSUME NEW k \in 1..Len(b) PROVE b[k] \in Elements(d)
  <2>1. Len(a) + k \in 1..Len(d) /\ d[Len(a) + k] = b[k]
    BY <1>1
  <2> QED
    BY <2>1 DEF Elements
<1> QED
  BY <1>2, <1>3, <1>4 DEF Elements, d

\* A buffer is cut behind its first line: nothing is lost or moved.
LEMMA CutInTwo ==
  ASSUME NEW S, NEW c \in Seq(S), NEW k \in 1..Len(c)
  PROVE  /\ SubSeq(c, 1, k) \in Seq(S) /\ SubSeq(c, k + 1, Len(c)) \in Seq(S)
         /\ Len(SubSeq(c, 1, k)) = k /\ Len(SubSeq(c, k + 1, Len(c))) = Len(c) - k
         /\ \A j \in 1..k : SubSeq(c, 1, k)[j] = c[j]
         /\ \A j \in 1..(Len(c) - k) : SubSeq(c, k + 1, Len(c))[j] = c[k + j]
         /\ Elements(c) = Elements(SubSeq(c, 1, k)) \cup Elements(SubSeq(c, k + 1, Len(c)))
<1> DEFINE h == SubSeq(c, 1, k)
           t == SubSeq(c, k + 1, Len(c))
<1>1. Len(c) \in Nat
  BY LenProperties
<1>2. /\ h \in Seq(S) /\ Len(h) = k /\ \A j \in 1..k : h[j] = c[j]
  <2>1. 0 + 1 = 1 /\ 0 + k = k /\ 0 \in Nat /\ k \in Nat /\ 0 + k <= Len(c)
    BY <1>1
  <2>2. /\ SubSeq(c, 0 + 1, 0 + k) \in Seq(S)
        /\ Len(SubSeq(c, 0 + 1, 0 + k)) = k
        /\ \A j \in 1..k : SubSeq(c, 0 + 1, 0 + k)[j] = c[0 + j]
    BY <2>1, Cut
  <2> QED
    BY <2>1, <2>2
<1>3. /\ t \in Seq(S) /\ Len(t) = Len(c) - k /\ \A j \in 1..(Len(c) - k) : t[j] = c[k + j]
  <2>1. k \in Nat /\ Len(c) - k \in Nat /\ k + (Len(c) - k) = Len(c)
    BY <1>1
  <2>2. k + (Len(c) - k) <= Len(c)
    BY <1>1
  <2>3. /\ SubSeq(c, k + 1, k + (Len(c) - k)) \in Seq(S)
        /\ Len(SubSeq(c, k + 1, k + (Len(c) - k))) = Len(c) - k
        /\ \A j \in 1..(Len(c) - k) : SubSeq(c, k + 1, k + (Len(c) - k))[j] = c[k + j]
    BY <2>1, <2>2, Cut, ZenonT(60)
  <2> QED
    BY <2>1, <2>3
<1> HIDE DEF h, t
<1>4. ASSUME NEW j \in 1..Len(c) PROVE c[j] \in Elements(h) \cup Elements(t)
  <2>1. CASE j <= k
    <3>1. j \in 1..Len(h) /\ h[j] = c[j]
      BY <1>2, <2>1
    <3> QED
      BY <3>1 DEF Elements
  <2>2. CASE ~(j <= k)
    <3>1. j - k \in 1..(Len(c) - k) /\ k + (j - k) = j
      BY <1>1, <2>2
    <3>2. j - k \in 1..Len(t) /\ t[j - k] = c[j]
      BY <1>3, <3>1
    <3> QED
      BY <3>2 DEF Elements
  <2> QED
    BY <2>1, <2>2
<1>5. ASSUME NEW j \in 1..Len(h) PROVE h[j] \in Elements(c)
  <2>1. j \in 1..Len(c) /\ h[j] = c[j]
    BY <1>1, <1>2
  <2> QED
    BY <2>1 DEF Elements
<1>6. ASSUME NEW j \in 1..Len(t) PROVE t[j] \in Elements(c)
  <2>1. k + j \in 1..Len(c) /\ t[j] = c[k + j]
    BY <1>1, <1>3
  <2> QED
    BY <2>1 DEF Elements
<1>7. Elements(c) = Elements(h) \cup Elements(t)
  BY <1>4, <1>5, <1>6 DEF Elements
<1> QED
  BY <1>2, <1>3, <1>7 DEF h, t

\* What ReadLine takes out of the buffer.
LEMMA LineRead ==
  ASSUME TypeOK, ReadLine
  PROVE  \E k \in 1..Len(buf) :
           /\ EndsLine(buf[k]) /\ \A j \in 1..(k - 1) : ~EndsLine(buf[j])
           /\ Len(buf) \in Nat
           /\ hand' \in Seq(Unit) /\ buf' \in Seq(Unit)
           /\ Len(hand') = k /\ Len(buf') = Len(buf) - k
           /\ \A j \in 1..k : hand'[j] = buf[j]
           /\ \A j \in 1..(Len(buf) - k) : buf'[j] = buf[k + j]
           /\ Elements(buf) = Elements(hand') \cup Elements(buf')
<1>1. buf \in Seq(Unit)
  BY DEF TypeOK
<1>2. PICK k \in 1..Len(buf) :
        /\ EndsLine(buf[k]) /\ \A j \in 1..(k - 1) : ~EndsLine(buf[j])
        /\ hand' = SubSeq(buf, 1, k)
        /\ buf' = SubSeq(buf, k + 1, Len(buf))
  BY DEF ReadLine
<1>3. /\ SubSeq(buf, 1, k) \in Seq(Unit) /\ SubSeq(buf, k + 1, Len(buf)) \in Seq(Unit)
      /\ Len(SubSeq(buf, 1, k)) = k /\ Len(SubSeq(buf, k + 1, Len(buf))) = Len(buf) - k
      /\ \A j \in 1..k : SubSeq(buf, 1, k)[j] = buf[j]
      /\ \A j \in 1..(Len(buf) - k) : SubSeq(buf, k + 1, Len(buf))[j] = buf[k + j]
      /\ Elements(buf) = Elements(SubSeq(buf, 1, k)) \cup Elements(SubSeq(buf, k + 1, Len(buf)))
  BY <1>1, CutInTwo
<1>4. Len(buf) \in Nat
  BY <1>1, LenProperties
<1> QED
  BY <1>2, <1>3, <1>4

\* What Fill adds to the buffer.
LEMMA Filled ==
  ASSUME TypeOK, NEW n \in 1..MaxUnits, Fill(n)
  PROVE  /\ fd \in Inode /\ Len(buf) \in Nat /\ pos' = pos + n /\ pos + n <= Size(fd)
         /\ buf' \in Seq(Unit) /\ Len(buf') = Len(buf) + n
         /\ \A k \in 1..Len(buf) : buf'[k] = buf[k]
         /\ \A k \in 1..n : buf'[Len(buf) + k] = content[fd][pos + k]
         /\ Elements(buf') = Elements(buf) \cup {content[fd][k] : k \in (pos + 1)..(pos + n)}
<1> DEFINE new == SubSeq(content[fd], pos + 1, pos + n)
<1>1. /\ fd \in Inode /\ pos \in Nat /\ n \in Nat /\ buf \in Seq(Unit)
      /\ pos' = pos + n /\ pos + n <= Size(fd) /\ buf' = buf \o new
  <2>1. pc \in Reading
    BY DEF Fill, Reading
  <2>2. fd # NoFile
    BY <2>1 DEF TypeOK
  <2> QED
    BY <2>2, WatcherAssumption DEF Fill, TypeOK
<1>2. content[fd] \in Seq(Unit) /\ pos + n <= Len(content[fd])
  BY <1>1 DEF TypeOK, Size
<1>3. /\ new \in Seq(Unit) /\ Len(new) = n
      /\ \A k \in 1..n : new[k] = content[fd][pos + k]
  BY <1>1, <1>2, Cut
<1> HIDE DEF new
<1>4. /\ buf' \in Seq(Unit) /\ Len(buf) \in Nat /\ Len(buf') = Len(buf) + n
      /\ \A k \in 1..Len(buf) : buf'[k] = buf[k]
      /\ \A k \in 1..n : buf'[Len(buf) + k] = new[k]
      /\ Elements(buf') = Elements(buf) \cup Elements(new)
  <2>1. /\ buf \o new \in Seq(Unit) /\ Len(buf) \in Nat /\ Len(buf \o new) = Len(buf) + n
        /\ \A k \in 1..Len(buf) : (buf \o new)[k] = buf[k]
        /\ \A k \in 1..n : (buf \o new)[Len(buf) + k] = new[k]
    <3>1. /\ buf \o new \in Seq(Unit) /\ Len(buf) \in Nat
          /\ Len(buf \o new) = Len(buf) + Len(new)
          /\ \A k \in 1..Len(buf) : (buf \o new)[k] = buf[k]
          /\ \A k \in 1..Len(new) : (buf \o new)[Len(buf) + k] = new[k]
      <4>1. buf \in Seq(Unit) /\ new \in Seq(Unit)
        BY <1>1, <1>3
      <4> QED
        BY <4>1, Joined
    <3> QED
      BY <1>3, <3>1
  <2>2. Elements(buf \o new) = Elements(buf) \cup Elements(new)
    BY <1>1, <1>3, ElementsJoined
  <2> QED
    BY <1>1, <2>1, <2>2
<1>5. Elements(new) = {content[fd][k] : k \in (pos + 1)..(pos + n)}
  <2>1. ASSUME NEW k \in 1..n PROVE pos + k \in (pos + 1)..(pos + n)
    BY <1>1
  <2>2. ASSUME NEW k \in (pos + 1)..(pos + n) PROVE k - pos \in 1..n /\ pos + (k - pos) = k
    BY <1>1
  <2>3. ASSUME NEW k \in (pos + 1)..(pos + n) PROVE content[fd][k] \in Elements(new)
    <3>1. new[k - pos] = content[fd][k] /\ k - pos \in 1..Len(new)
      BY <1>3, <2>2
    <3> QED
      BY <3>1 DEF Elements
  <2>4. ASSUME NEW k \in 1..Len(new) PROVE new[k] \in {content[fd][m] : m \in (pos + 1)..(pos + n)}
    BY <1>3, <2>1
  <2> QED
    BY <2>3, <2>4 DEF Elements
<1> QED
  BY <1>1, <1>3, <1>4, <1>5

\* What Send adds to the pieces that were sent.
LEMMA PieceSent ==
  ASSUME TypeOK, Send
  PROVE  /\ sent' \in Seq(Seq(Unit)) /\ Len(sent) \in Nat /\ Len(sent') = Len(sent) + 1
         /\ \A i \in 1..Len(sent) : sent'[i] = sent[i]
         /\ sent'[Len(sent) + 1] = hand
         /\ Forwarded' = Forwarded \cup Elements(hand)
         /\ Fresh' = Fresh \cup Elements(hand)
<1>1. /\ sent' \in Seq(Seq(Unit)) /\ Len(sent) \in Nat /\ Len(sent') = Len(sent) + 1
      /\ \A i \in 1..Len(sent) : sent'[i] = sent[i]
      /\ sent'[Len(sent) + 1] = hand
  <2>1. sent \in Seq(Seq(Unit)) /\ hand \in Seq(Unit) /\ sent' = Append(sent, hand)
    BY DEF TypeOK, Send
  <2> QED
    BY <2>1, Sent
<1>2. \A i \in 1..Len(sent) : i \in 1..Len(sent')
  BY <1>1
<1>3. Len(sent) + 1 \in 1..Len(sent')
  BY <1>1
<1>4. \A i \in 1..Len(sent') : i \in 1..Len(sent) \/ i = Len(sent) + 1
  BY <1>1
<1>5. Forwarded' = UNION {Elements(sent'[i]) : i \in 1..Len(sent')}
  BY DEF Forwarded, Elements
<1>6. \A i \in 1..Len(sent) : Elements(sent'[i]) = Elements(sent[i])
  BY <1>1
<1>7. Elements(sent'[Len(sent) + 1]) = Elements(hand)
  BY <1>1
<1>8. Forwarded' \subseteq Forwarded \cup Elements(hand)
  BY <1>4, <1>5, <1>6, <1>7 DEF Forwarded
<1>9. Forwarded \cup Elements(hand) \subseteq Forwarded'
  BY <1>2, <1>3, <1>5, <1>6, <1>7 DEF Forwarded
<1>10. since' = since /\ since \in 0..Len(sent)
  BY DEF TypeOK, Send
<1>11. Fresh' = UNION {Elements(sent'[i]) : i \in (since + 1)..Len(sent')}
  BY <1>10 DEF Fresh, Elements
<1>12. /\ \A i \in (since + 1)..Len(sent) : i \in (since + 1)..Len(sent') /\ i \in 1..Len(sent)
       /\ Len(sent) + 1 \in (since + 1)..Len(sent')
       /\ \A i \in (since + 1)..Len(sent') : i \in (since + 1)..Len(sent) \/ i = Len(sent) + 1
  BY <1>1, <1>10
<1>13. Fresh' \subseteq Fresh \cup Elements(hand)
  BY <1>6, <1>7, <1>11, <1>12 DEF Fresh
<1>14. Fresh \cup Elements(hand) \subseteq Fresh'
  BY <1>6, <1>7, <1>11, <1>12 DEF Fresh
<1> QED
  BY <1>1, <1>8, <1>9, <1>13, <1>14
-----------------------------------------------------------------------------
(* The types *)

\* At the start there is at most one file, and it holds the first units.
LEMMA TypeInit == Init => Typed
<1> SUFFICES ASSUME Init PROVE Typed
  OBVIOUS
<1>1. /\ MaxUnits \in Nat /\ MaxFiles \in Nat \ {0} /\ MaxTruncations \in Nat
      /\ MaxFaults \in Nat
  BY WatcherAssumption
<1>2. /\ wrote \in 0..MaxUnits /\ path \in {0, 1} /\ inodes = path /\ writing = path
      /\ path = 0 => wrote = 0
      /\ truncated = <<>> /\ fd = 0 /\ pos = 0 /\ offset = 0 /\ start = 0
      /\ buf = <<>> /\ hand = <<>> /\ sent = <<>> /\ history = 0 /\ named = 0
      /\ pc = "open" /\ seekEnd \in BOOLEAN /\ faults = 0 /\ since = 0
  BY DEF Init, NoFile
<1>3. \A S : <<>> \in Seq(S) /\ Len(<<>>) = 0
  BY Empty
<1> DEFINE old == [u \in 1..wrote |-> u]
<1>4. old \in Seq(Unit) /\ Len(old) = wrote /\ \A k \in 1..wrote : old[k] = k
  <2>1. old \in [1..wrote -> Unit] /\ DOMAIN old = 1..wrote
    BY <1>1, <1>2 DEF Unit
  <2> QED
    BY <1>2, <2>1
<1>5. content = [i \in Inode |-> IF i = 1 THEN old ELSE <<>>]
  BY DEF Init
<1> HIDE DEF old
<1>6. content \in [Inode -> Seq(Unit)]
  BY <1>3, <1>4, <1>5
<1>7. \A i \in Inode : /\ i = 1 => content[i] = old
                       /\ i # 1 => content[i] = <<>>
  BY <1>5
<1>8. \A i \in Inode : /\ i = 1 => Size(i) = wrote /\ \A k \in 1..wrote : content[i][k] = k
                       /\ i # 1 => Size(i) = 0
  BY <1>3, <1>4, <1>7 DEF Size
<1>9. TypeOK
  BY <1>1, <1>2, <1>3, <1>6 DEF TypeOK, NoFile, Inode, Reading
<1>10. DiskOK
  <2>1. path \in {NoFile, inodes} /\ writing <= inodes
    BY <1>2
  <2>2. ASSUME NEW i \in Inode
        PROVE  /\ Size(i) <= wrote
               /\ Size(i) > 0 => i <= writing
               /\ \A k \in 1..Size(i) : content[i][k] <= wrote
               /\ \A k, l \in 1..Size(i) : k < l => content[i][k] < content[i][l]
    <3>1. CASE i = 1
      BY <1>2, <1>8, <3>1
    <3>2. CASE i # 1
      BY <1>2, <1>8, <3>2
    <3> QED
      BY <3>1, <3>2
  <2>3. ASSUME NEW i \in Inode, NEW j \in Inode, i < j PROVE Size(j) = 0
    BY <1>8, <2>3 DEF Inode
  <2>4. \A i, j \in Inode : i < j =>
          \A k \in 1..Size(i) : \A l \in 1..Size(j) : content[i][k] < content[j][l]
    BY <2>3
  <2> QED
    BY <2>1, <2>2, <2>4 DEF DiskOK
<1>11. Hands
  BY <1>2 DEF Hands, Reading
<1> QED
  BY <1>9, <1>10, <1>11 DEF Typed

\* Every step keeps the types: of the disk, of the tailer's control and of what
\* it reads.
LEMMA TypeStep ==
  ASSUME Typed, [Next]_vars
  PROVE  TypeOK'
<1>1. /\ TypeOK /\ DiskOK /\ Hands
  BY DEF Typed
<1>2. /\ path \in 0..MaxFiles /\ fd \in 0..MaxFiles /\ inodes \in 0..MaxFiles
      /\ wrote \in 0..MaxUnits /\ pos \in Nat /\ offset \in Nat
      /\ MaxUnits \in Nat /\ MaxFiles \in Nat \ {0}
      /\ \A i \in Inode : Size(i) \in Nat /\ \A k \in 1..Size(i) : content[i][k] \in Unit
  BY <1>1, DiskTypes
<1>3. CASE \E n \in 1..2 : Write(n)
  <2>1. PICK n \in 1..2 : Write(n)
    BY <1>3
  <2>2. wrote' = wrote + n /\ wrote + n <= MaxUnits /\ content' \in [Inode -> Seq(Unit)]
    BY <1>1, <2>1, Written
  <2>3. wrote' \in 0..MaxUnits
    BY <1>2, <2>2
  <2> QED
    BY <1>1, <2>1, <2>2, <2>3 DEF Write, tailer, control, reader, TypeOK
<1>4. CASE Rename
  <2>1. named' \in 0..MaxUnits
    <3>1. CASE path = fd
      <4>1. path \in Inode
        BY <1>1, <1>4 DEF Rename, TypeOK
      <4>2. Size(path) <= wrote
        BY <1>1, <4>1 DEF DiskOK
      <4>3. Size(path) \in 0..MaxUnits
        BY <1>2, <4>1, <4>2
      <4> QED
        BY <1>4, <3>1, <4>3 DEF Rename
    <3>2. CASE path # fd
      BY <1>1, <1>4, <3>2 DEF Rename, TypeOK
    <3> QED
      BY <3>1, <3>2
  <2> QED
    BY <1>1, <1>4, <2>1 DEF Rename, control, reader, TypeOK
<1>5. CASE Create
  <2>1. inodes' \in 0..MaxFiles /\ path' \in Inode
    BY <1>2, <1>5 DEF Create, Inode
  <2> QED
    BY <1>1, <1>5, <2>1 DEF Create, tailer, control, reader, TypeOK
<1>6. CASE Reopen
  BY <1>1, <1>6 DEF Reopen, tailer, control, reader, TypeOK
<1>7. CASE Truncate
  <2>1. path \in Inode /\ content' \in [Inode -> Seq(Unit)]
    BY <1>1, <1>7, Emptied
  <2>2. truncated' \in Seq(Inode) /\ Len(truncated') <= MaxTruncations
    <3>1. truncated \in Seq(Inode) /\ Len(truncated) < MaxTruncations
          /\ truncated' = Append(truncated, path)
      BY <1>1, <1>7 DEF Truncate, TypeOK
    <3>2. truncated' \in Seq(Inode) /\ Len(truncated) \in Nat /\ Len(truncated') = Len(truncated) + 1
      BY <2>1, <3>1, Sent
    <3> QED
      BY <3>1, <3>2, WatcherAssumption
  <2> QED
    BY <1>1, <1>7, <2>1, <2>2 DEF Truncate, tailer, control, reader, TypeOK
<1>8. CASE Open
  <2>1. CASE path = NoFile
    BY <1>1, <1>8, <2>1 DEF Open, disk, reader, TypeOK, Reading
  <2>2. CASE path # NoFile
    BY <1>1, <1>8, <2>2 DEF Open, disk, reader, TypeOK, Reading
  <2> QED
    BY <2>1, <2>2
<1>9. CASE Seek
  <2>1. fd \in Inode /\ Size(fd) \in Nat
    BY <1>1, <1>2, <1>9 DEF Seek, TypeOK
  <2>2. pos' \in Nat /\ offset' \in Nat /\ start' \in Nat
    BY <1>9, <2>1 DEF Seek
  <2>3. history' \in 0..MaxUnits
    <3>1. CASE seekEnd /\ Size(fd) > 0
      <4>1. content[fd][Size(fd)] \in Unit
        BY <1>2, <2>1, <3>1
      <4> QED
        BY <1>2, <1>9, <3>1, <4>1 DEF Seek, FirstSeen, Unit
    <3>2. CASE ~(seekEnd /\ Size(fd) > 0)
      BY <1>1, <1>9, <3>2 DEF Seek, FirstSeen, TypeOK
    <3> QED
      BY <3>1, <3>2
  <2>4. buf' \in Seq(Unit)
    BY <1>9, Empty DEF Seek
  <2> QED
    BY <1>1, <1>9, <2>2, <2>3, <2>4 DEF Seek, disk, TypeOK, Reading
<1>10. CASE WaitFound \/ WaitTimesOut
  BY <1>1, <1>10 DEF WaitFound, WaitTimesOut, disk, reader, TypeOK, Reading
<1>11. CASE \E n \in 1..MaxUnits : Fill(n)
  <2>1. PICK n \in 1..MaxUnits : Fill(n)
    BY <1>11
  <2>2. buf' \in Seq(Unit) /\ pos' = pos + n
    BY <1>1, <2>1, Filled
  <2>3. pos' \in Nat
    BY <1>2, <2>2
  <2> QED
    BY <1>1, <2>1, <2>2, <2>3 DEF Fill, disk, TypeOK, Reading
<1>12. CASE ReadLine
  <2>1. hand' \in Seq(Unit) /\ buf' \in Seq(Unit)
    BY <1>1, <1>12, LineRead
  <2> QED
    BY <1>1, <1>12, <2>1 DEF ReadLine, disk, TypeOK, Reading
<1>13. CASE ReadEOF
  <2>1. hand' \in Seq(Unit) /\ buf' \in Seq(Unit)
    BY <1>1, <1>13, Empty DEF ReadEOF, TypeOK
  <2>2. faults' \in 0..MaxFaults
    BY <1>1, <1>13, WatcherAssumption DEF ReadEOF, TypeOK
  <2>3. UNCHANGED <<disk, seekEnd, fd, pos, offset, sent, start, history, since, named>>
    BY <1>13 DEF ReadEOF
  <2>4. pc = "read" /\ pc' \in {"check", "sendlast"}
    BY <1>13 DEF ReadEOF
  <2> QED
    BY <1>1, <2>1, <2>2, <2>3, <2>4 DEF disk, TypeOK, Reading
<1>14. CASE Send
  <2>1. sent' \in Seq(Seq(Unit)) /\ hand' \in Seq(Unit)
    BY <1>1, <1>14, PieceSent, Empty DEF Send
  <2>2. offset' \in Nat
    <3>1. Len(hand) \in Nat
      BY <1>1, LenProperties DEF TypeOK
    <3> QED
      BY <1>2, <1>14, <3>1 DEF Send
  <2>3. since' \in 0..Len(sent')
    <3>1. since' = since /\ since \in 0..Len(sent)
      BY <1>1, <1>14 DEF Send, TypeOK
    <3>2. Len(sent) \in Nat /\ Len(sent') = Len(sent) + 1
      BY <1>1, <1>14, PieceSent
    <3> QED
      BY <3>1, <3>2
  <2> QED
    BY <1>1, <1>14, <2>1, <2>2, <2>3 DEF Send, disk, TypeOK, Reading
<1>15. CASE Check
  <2>1. CASE checkRotation
    <3>1. /\ pc' = "wait" /\ fd' = NoFile /\ seekEnd' = FALSE /\ named' = 0
          /\ UNCHANGED <<disk, reader>>
      BY <1>15, <2>1, Zenon DEF Check
    <3>2. named' \in 0..MaxUnits
      BY <1>2, <3>1
    <3>3. seekEnd' \in BOOLEAN
      BY <3>1
    <3> QED
      BY <1>1, <3>1, <3>2, <3>3 DEF disk, reader, TypeOK, Reading
  <2>2. CASE ~checkRotation
    BY <1>1, <1>15, <2>2 DEF Check, disk, reader, TypeOK, Reading
  <2> QED
    BY <2>1, <2>2
<1>16. CASE UNCHANGED vars
  BY <1>1, <1>16 DEF vars, disk, tailer, control, reader, TypeOK
<1>17. CASE OpenFails
  <2> DEFINE i == IF pc = "open" THEN path ELSE fd
  <2>1. i \in Inode
    <3>1. CASE pc = "open"
      BY <1>1, <1>17, <3>1 DEF OpenFails, TypeOK
    <3>2. CASE pc # "open"
      <4>1. pc = "seek"
        BY <1>17, <3>2 DEF OpenFails
      <4> QED
        BY <1>1, <4>1 DEF TypeOK
    <3> QED
      BY <3>1, <3>2
  <2>2. history' = FirstSeen(i)
    BY <1>17 DEF OpenFails
  <2> HIDE DEF i
  <2>3. history' \in 0..MaxUnits
    <3>1. CASE seekEnd /\ Size(i) > 0
      <4>1. content[i][Size(i)] \in Unit
        BY <1>2, <2>1, <3>1
      <4> QED
        BY <1>2, <2>2, <3>1, <4>1 DEF FirstSeen, Unit
    <3>2. CASE ~(seekEnd /\ Size(i) > 0)
      BY <1>1, <2>2, <3>2 DEF FirstSeen, TypeOK
    <3> QED
      BY <3>1, <3>2
  <2>4. faults' \in 0..MaxFaults
    BY <1>1, <1>17, WatcherAssumption DEF OpenFails, TypeOK
  <2>5. /\ pc' = "wait" /\ seekEnd' = FALSE /\ fd' = NoFile
        /\ UNCHANGED <<disk, pos, buf, hand, offset, sent, start, since, named>>
    BY <1>17 DEF OpenFails
  <2> QED
    BY <1>1, <2>3, <2>4, <2>5 DEF disk, TypeOK, Reading
<1>18. CASE StatFails
  <2>1. faults' \in 0..MaxFaults
    BY <1>1, <1>18, WatcherAssumption DEF StatFails, TypeOK
  <2>2. since' \in 0..Len(sent')
    <3>1. Len(sent) \in Nat
      BY <1>1, LenProperties DEF TypeOK
    <3> QED
      BY <1>18, <3>1 DEF StatFails
  <2>3. /\ pc' = "wait" /\ fd' = NoFile /\ seekEnd' = FALSE /\ named' = 0
        /\ UNCHANGED <<disk, pos, buf, hand, offset, sent, start, history>>
    BY <1>18 DEF StatFails
  <2>4. named' \in 0..MaxUnits
    BY <1>2, <2>3
  <2>5. seekEnd' \in BOOLEAN
    BY <2>3
  <2> QED
    BY <1>1, <2>1, <2>2, <2>3, <2>4, <2>5 DEF disk, TypeOK, Reading
<1> QED
  BY <1>3, <1>4, <1>5, <1>6, <1>7, <1>8, <1>9, <1>10, <1>11, <1>12, <1>13, <1>14, <1>15, <1>16,
     <1>17, <1>18
     DEF Next, Disk, Tailer

\* Every step keeps what is between the file's position and rawLines.
LEMMA HandsStep ==
  ASSUME Typed, [Next]_vars
  PROVE  Hands'
<1>1. /\ TypeOK /\ DiskOK /\ Hands
  BY DEF Typed
<1>2. /\ path \in 0..MaxFiles /\ fd \in 0..MaxFiles /\ inodes \in 0..MaxFiles
      /\ pos \in Nat /\ offset \in Nat /\ MaxFiles \in Nat
      /\ \A i \in Inode : Size(i) \in Nat
  BY <1>1, DiskTypes
<1>3. /\ Len(buf) \in Nat /\ Len(hand) \in Nat /\ Len(<<>>) = 0
  BY <1>1, LenProperties DEF TypeOK
<1>4. CASE (\E n \in 1..2 : Write(n)) \/ Rename \/ Reopen \/ Truncate
  BY <1>1, <1>4 DEF Write, Rename, Reopen, Truncate, tailer, control, reader, Hands
<1>5. CASE Create
  <2>1. inodes' = inodes + 1 /\ UNCHANGED tailer
    BY <1>5 DEF Create
  <2>2. fd <= inodes'
    BY <1>1, <1>2, <2>1 DEF Hands
  <2> QED
    BY <1>1, <2>1, <2>2 DEF tailer, control, reader, Hands
<1>6. CASE Open
  <2>1. /\ pc = "open" /\ fd' = path /\ UNCHANGED <<disk, reader>>
        /\ \/ pc' = "wait" /\ seekEnd' = FALSE
           \/ pc' = "seek" /\ seekEnd' = seekEnd
    BY <1>6, Zenon DEF Open
  <2>2. hand = <<>> /\ buf = <<>> /\ (seekEnd => sent = <<>> /\ faults = 0)
    BY <1>1, <2>1 DEF Hands
  <2>3. fd' <= inodes'
    <3>1. fd' \in {NoFile, inodes'}
      BY <1>1, <2>1 DEF disk, DiskOK
    <3> QED
      BY <1>2, <2>1, <3>1 DEF disk, NoFile
  <2> QED
    BY <2>1, <2>2, <2>3 DEF reader, Hands, Reading
<1>7. CASE Seek
  <2>1. /\ hand = <<>> /\ pos' = offset' /\ buf' = <<>> /\ pc' = "read" /\ pos' \in Nat
        /\ UNCHANGED <<fd, inodes, hand>>
    <3>1. fd \in Inode /\ Size(fd) \in Nat
      BY <1>1, <1>2, <1>7 DEF Seek, TypeOK
    <3> QED
      BY <1>1, <1>7, <3>1 DEF Seek, Hands, disk
  <2>2. /\ Len(hand') = 0 /\ Len(buf') = 0
        /\ pos' \in Nat /\ pos' = offset'
    BY <1>3, <2>1
  <2>3. offset' + Len(hand') + Len(buf') = pos'
    <3>1. \A x \in Nat : x + 0 + 0 = x
      OBVIOUS
    <3> QED
      BY <2>2, <3>1, Zenon
  <2> QED
    BY <1>1, <2>1, <2>2, <2>3 DEF Hands, Reading
<1>8. CASE WaitFound \/ WaitTimesOut
  BY <1>1, <1>8 DEF WaitFound, WaitTimesOut, disk, reader, Hands, Reading
<1>9. CASE \E n \in 1..MaxUnits : Fill(n)
  <2>1. PICK n \in 1..MaxUnits : Fill(n)
    BY <1>9
  <2>2. /\ pos' = pos + n /\ Len(buf') = Len(buf) + n /\ n \in Nat
    BY <1>1, <2>1, Filled, WatcherAssumption
  <2>3. pc = "read" /\ UNCHANGED <<disk, pc, seekEnd, fd, hand, offset, sent>>
    BY <2>1 DEF Fill
  <2>4. hand' = <<>> /\ offset + Len(hand) + Len(buf) = pos
    BY <1>1, <2>3 DEF Hands, Reading
  <2>5. offset' + Len(hand') + Len(buf') = pos'
    BY <1>2, <1>3, <2>2, <2>3, <2>4
  <2> QED
    BY <1>1, <2>3, <2>4, <2>5 DEF Hands, disk
<1>10. CASE ReadLine
  <2>1. PICK k \in 1..Len(buf) : Len(hand') = k /\ Len(buf') = Len(buf) - k
    BY <1>1, <1>10, LineRead
  <2>2. /\ pc = "read" /\ pc' = "send" /\ UNCHANGED <<disk, seekEnd, fd, pos, offset, sent>>
    BY <1>10 DEF ReadLine
  <2>3. hand = <<>> /\ offset + Len(hand) + Len(buf) = pos
    BY <1>1, <2>2 DEF Hands, Reading
  <2>4. offset' + Len(hand') + Len(buf') = pos'
    BY <1>2, <1>3, <2>1, <2>2, <2>3
  <2> QED
    BY <1>1, <2>2, <2>4 DEF Hands, disk, Reading
<1>11. CASE ReadEOF
  <2>1. /\ pc = "read" /\ pc' \in {"check", "sendlast"} /\ (pc' = "check" => buf = <<>>)
        /\ hand' = buf /\ buf' = <<>> /\ UNCHANGED <<disk, seekEnd, fd, pos, offset, sent>>
    BY <1>11 DEF ReadEOF
  <2>2. hand = <<>> /\ offset + Len(hand) + Len(buf) = pos
    BY <1>1, <2>1 DEF Hands, Reading
  <2>3. offset' + Len(hand') + Len(buf') = pos'
    BY <1>2, <1>3, <2>1, <2>2
  <2> QED
    BY <1>1, <2>1, <2>3 DEF Hands, disk, Reading
<1>12. CASE Send
  <2>1. /\ pc \in {"send", "sendlast"} /\ offset' = offset + Len(hand) /\ hand' = <<>>
        /\ pc' = IF pc = "send" THEN "read" ELSE "check"
        /\ UNCHANGED <<disk, seekEnd, fd, pos, buf>>
    BY <1>12 DEF Send
  <2>2. offset + Len(hand) + Len(buf) = pos /\ (pc = "sendlast" => buf = <<>>)
    BY <1>1, <2>1 DEF Hands, Reading
  <2>3. offset' + Len(hand') + Len(buf') = pos'
    BY <1>2, <1>3, <2>1, <2>2
  <2> QED
    BY <1>1, <2>1, <2>2, <2>3 DEF Hands, disk, Reading
<1>13. CASE Check
  <2>1. /\ pc = "check" /\ UNCHANGED <<disk, reader>>
        /\ \/ pc' = "wait" /\ fd' = NoFile /\ seekEnd' = FALSE
           \/ pc' = "read" /\ fd' = fd
    BY <1>13, Zenon DEF Check
  <2>2. hand = <<>> /\ buf = <<>> /\ offset + Len(hand) + Len(buf) = pos /\ fd <= inodes
    BY <1>1, <2>1 DEF Hands, Reading
  <2>3. fd' <= inodes'
    BY <1>2, <2>1, <2>2 DEF disk, NoFile
  <2> QED
    BY <2>1, <2>2, <2>3 DEF Hands, reader, disk, Reading
<1>14. CASE UNCHANGED vars
  BY <1>1, <1>14 DEF vars, disk, tailer, control, reader, Hands
<1>15. CASE OpenFails \/ StatFails
  <2>1. /\ pc \in {"open", "seek", "check"} /\ pc' = "wait" /\ fd' = NoFile /\ seekEnd' = FALSE
        /\ UNCHANGED <<disk, hand, buf>>
    BY <1>15, Zenon DEF OpenFails, StatFails
  <2>2. hand = <<>> /\ buf = <<>>
    BY <1>1, <2>1 DEF Hands
  <2>3. fd' <= inodes'
    BY <1>2, <2>1 DEF disk, NoFile
  <2> QED
    BY <2>1, <2>2, <2>3 DEF Hands, Reading
<1> QED
  BY <1>4, <1>5, <1>6, <1>7, <1>8, <1>9, <1>10, <1>11, <1>12, <1>13, <1>14, <1>15
     DEF Next, Disk, Tailer

\* In every state of every behaviour.
LEMMA AlwaysTyped == Spec => []Typed
<1>1. Init => Typed
  BY TypeInit
<1>2. Typed /\ [Next]_vars => Typed'
  BY TypeStep, DiskStep, HandsStep DEF Typed
<1> QED
  BY <1>1, <1>2, PTL DEF Spec

\* The tailer's variables keep their types: no descriptor without a file, and
\* no read outside a file, in any order of writes, rotations and timeouts.
THEOREM TypeCorrect == Spec => []TypeOK
<1>1. Typed => TypeOK
  BY DEF Typed
<1> QED
  BY <1>1, AlwaysTyped, PTL
-----------------------------------------------------------------------------
(* Whatever is still to be read comes after everything seen *)

\* An empty piece has no elements.
LEMMA NoElements == Elements(<<>>) = {}
<1>1. Len(<<>>) = 0
  BY Empty
<1> QED
  BY <1>1 DEF Elements

\* What does not touch the pieces does not change what was seen.
LEMMA SeenStays ==
  ASSUME UNCHANGED <<sent, hand, buf, history, faults, since>>
  PROVE  Seen' = Seen
BY DEF Seen, Fresh, Floor, Elements

\* What is seen after a step.
LEMMA SeenAfter == Seen' = Fresh' \cup Elements(hand') \cup Elements(buf') \cup {Floor'}
BY DEF Seen, Elements

\* A line only moves from the buffer to the hand, and from there to rawLines. After
\* a read error there is no more to be skipped.
LEMMA SeenMoves ==
  ASSUME Typed, ReadLine \/ ReadEOF \/ Send
  PROVE  Seen' \subseteq Seen \cup {0}
<1>1. TypeOK /\ Hands
  BY DEF Typed
<1>2. CASE ReadLine
  <2>1. Elements(buf) = Elements(hand') \cup Elements(buf')
    BY <1>1, <1>2, LineRead
  <2>2. hand = <<>> /\ UNCHANGED <<sent, history, faults, since>>
    BY <1>1, <1>2 DEF ReadLine, Hands
  <2>3. Elements(hand) = {}
    BY <2>2, NoElements
  <2>4. Fresh' = Fresh /\ Floor' = Floor
    BY <2>2 DEF Fresh, Floor, Elements
  <2> QED
    BY <2>1, <2>2, <2>3, <2>4, SeenAfter DEF Seen
<1>3. CASE ReadEOF
  <2>1. hand = <<>> /\ hand' = buf /\ buf' = <<>> /\ UNCHANGED <<sent, history, since>>
    BY <1>1, <1>3 DEF ReadEOF, Hands
  <2>2. Fresh' = Fresh
    BY <2>1 DEF Fresh, Elements
  <2>3. Floor' \in {Floor, 0}
    <3>1. faults' = faults \/ faults' # 0
      BY <1>1, <1>3 DEF ReadEOF, TypeOK
    <3> QED
      BY <2>1, <3>1 DEF Floor
  <2>4. Elements(hand) = {} /\ Elements(buf') = {} /\ Elements(hand') = Elements(buf)
    BY <2>1, NoElements
  <2> QED
    BY <2>1, <2>2, <2>3, <2>4, SeenAfter DEF Seen
<1>4. CASE Send
  <2>1. hand' = <<>> /\ UNCHANGED <<buf, history, faults>>
    BY <1>4 DEF Send
  <2>2. Fresh' = Fresh \cup Elements(hand)
    BY <1>1, <1>4, PieceSent
  <2>3. Floor' = Floor
    BY <2>1 DEF Floor
  <2>4. Elements(hand') = {} /\ Elements(buf') = Elements(buf)
    BY <2>1, NoElements
  <2> QED
    BY <2>1, <2>2, <2>3, <2>4, SeenAfter DEF Seen
<1> QED
  BY <1>2, <1>3, <1>4

\* What is read is seen.
LEMMA SeenGrows ==
  ASSUME Typed, NEW n \in 1..MaxUnits, Fill(n)
  PROVE  Seen' = Seen \cup {content[fd][k] : k \in (pos + 1)..(pos + n)}
<1>1. Elements(buf') = Elements(buf) \cup {content[fd][k] : k \in (pos + 1)..(pos + n)}
  BY Filled DEF Typed
<1>2. UNCHANGED <<sent, hand, history, faults, since>>
  BY DEF Fill
<1>3. Fresh' = Fresh /\ Floor' = Floor /\ Elements(hand') = Elements(hand)
  BY <1>2 DEF Fresh, Floor, Elements
<1> QED
  BY <1>1, <1>2, <1>3, SeenAfter DEF Seen

\* Nothing was seen when the history is skipped.
LEMMA SeenSeek ==
  ASSUME Typed, Seek
  PROVE  IF seekEnd /\ Size(fd) > 0
         THEN Seen' = {content[fd][Size(fd)]}
         ELSE Seen' = Seen
<1>1. /\ hand = <<>> /\ buf = <<>> /\ (seekEnd => sent = <<>> /\ faults = 0)
      /\ hand' = <<>> /\ buf' = <<>> /\ sent' = sent /\ faults' = faults /\ since' = since
  BY DEF Typed, Hands, Seek
<1>2. CASE seekEnd /\ Size(fd) > 0
  <2>1. sent' = <<>> /\ faults' = 0 /\ history' = content[fd][Size(fd)]
    BY <1>1, <1>2 DEF Seek, FirstSeen
  <2>2. Fresh' = {}
    <3>1. Fresh' = UNION {Elements(sent'[i]) : i \in (since' + 1)..Len(sent')}
      BY DEF Fresh, Elements
    <3>2. Len(sent') = 0 /\ since' \in Nat
      <4>1. since \in Nat
        BY LenProperties DEF Typed, TypeOK
      <4> QED
        BY <1>1, <2>1, <4>1, Empty
    <3>3. (since' + 1)..Len(sent') = {}
      <4>1. \A n \in Nat : (n + 1)..0 = {}
        OBVIOUS
      <4> QED
        BY <3>2, <4>1
    <3> QED
      BY <3>1, <3>3
  <2>3. Floor' = content[fd][Size(fd)]
    BY <2>1 DEF Floor
  <2>4. Elements(hand') = {} /\ Elements(buf') = {}
    BY <1>1, NoElements
  <2> QED
    BY <1>2, <2>2, <2>3, <2>4, SeenAfter
<1>3. CASE ~(seekEnd /\ Size(fd) > 0)
  <2>1. history' = history
    BY <1>3 DEF Seek, FirstSeen
  <2>2. Seen' = Seen
    BY <1>1, <2>1, SeenStays
  <2> QED
    BY <1>3, <2>2
<1> QED
  BY <1>2, <1>3

\* A refused call forgets what was seen, or at least the history.
LEMMA SeenFails ==
  ASSUME Typed, OpenFails \/ StatFails
  PROVE  /\ Seen' \subseteq Seen \cup {0}
         /\ StatFails => Seen' = {0}
<1>1. TypeOK /\ Hands
  BY DEF Typed
<1>2. Floor' = 0
  <2>1. faults' # 0
    BY <1>1 DEF OpenFails, StatFails, TypeOK
  <2> QED
    BY <2>1 DEF Floor
<1>3. CASE OpenFails
  <2>1. UNCHANGED <<sent, hand, buf, since>> /\ ~StatFails
    BY <1>3 DEF OpenFails, StatFails
  <2>2. Fresh' = Fresh /\ Elements(hand') = Elements(hand) /\ Elements(buf') = Elements(buf)
    BY <2>1 DEF Fresh, Elements
  <2> QED
    BY <1>2, <2>1, <2>2, SeenAfter DEF Seen
<1>4. CASE StatFails
  <2>1. /\ hand = <<>> /\ buf = <<>> /\ since' = Len(sent)
        /\ UNCHANGED <<sent, hand, buf>>
    BY <1>1, <1>4 DEF StatFails, Hands
  <2>2. Fresh' = {}
    <3>1. Fresh' = UNION {Elements(sent'[i]) : i \in (since' + 1)..Len(sent')}
      BY DEF Fresh, Elements
    <3>2. Len(sent) \in Nat /\ since' = Len(sent) /\ sent' = sent
      BY <1>1, <2>1, LenProperties DEF TypeOK
    <3>3. (since' + 1)..Len(sent') = {}
      <4>1. \A n \in Nat : (n + 1)..0 = {}
        OBVIOUS
      <4> QED
        BY <3>2, <4>1
    <3> QED
      BY <3>1, <3>3
  <2>3. Elements(hand') = {} /\ Elements(buf') = {}
    BY <2>1, NoElements
  <2> QED
    BY <1>2, <2>2, <2>3, SeenAfter
<1> QED
  BY <1>3, <1>4

\* Everything seen is a number.
LEMMA SeenUnits == TypeOK => Seen \subseteq 0..MaxUnits
<1> SUFFICES ASSUME TypeOK PROVE Seen \subseteq 0..MaxUnits
  OBVIOUS
<1>1. /\ hand \in Seq(Unit) /\ buf \in Seq(Unit) /\ sent \in Seq(Seq(Unit))
      /\ history \in 0..MaxUnits /\ since \in 0..Len(sent) /\ Len(sent) \in Nat
  BY LenProperties DEF TypeOK
<1>2. ASSUME NEW s \in Seq(Unit) PROVE Elements(s) \subseteq Unit
  BY ElementOfSeq DEF Elements
<1>3. \A i \in 1..Len(sent) : sent[i] \in Seq(Unit)
  BY <1>1, ElementOfSeq
<1>4. Fresh \subseteq Unit
  <2>1. \A i \in (since + 1)..Len(sent) : i \in 1..Len(sent)
    BY <1>1
  <2> QED
    BY <1>2, <1>3, <2>1 DEF Fresh
<1>5. Unit \subseteq 0..MaxUnits
  BY WatcherAssumption DEF Unit
<1>6. Floor \in 0..MaxUnits
  BY <1>1, WatcherAssumption DEF Floor
<1> QED
  BY <1>1, <1>2, <1>4, <1>5, <1>6 DEF Seen

\* Every unit is above nothing.
LEMMA AboveZero == TypeOK => \A i \in Inode : \A k \in 1..Size(i) : 0 < content[i][k]
<1> SUFFICES ASSUME TypeOK, NEW i \in Inode, NEW k \in 1..Size(i) PROVE 0 < content[i][k]
  OBVIOUS
<1>1. content[i][k] \in Unit
  BY DiskTypes
<1> QED
  BY <1>1, WatcherAssumption DEF Unit

\* The history is in the first file, and nothing was seen yet.
LEMMA AheadInit == Init => Ahead
<1> SUFFICES ASSUME Init PROVE Ahead
  OBVIOUS
<1>1. /\ TypeOK /\ pc = "open" /\ history = 0 /\ wrote \in 0..MaxUnits /\ path \in {NoFile, 1}
      /\ sent = <<>> /\ hand = <<>> /\ buf = <<>> /\ faults = 0 /\ since = 0
  BY TypeInit DEF Init, Typed
<1>2. Seen = {0}
  <2>1. Len(<<>>) = 0 /\ Elements(<<>>) = {}
    BY Empty, NoElements
  <2>2. Fresh = {}
    BY <1>1, <2>1 DEF Fresh
  <2>3. Floor = 0
    BY <1>1 DEF Floor
  <2> QED
    BY <1>1, <2>1, <2>2, <2>3 DEF Seen
<1>3. \A i \in Inode : \A k \in 1..Size(i) : content[i][k] \in Unit
  BY <1>1, DiskTypes
<1>4. \A i \in Inode : Past(i)
  BY <1>2, <1>3 DEF Past, Unit
<1>5. path # NoFile => path \in Inode
  BY <1>1 DEF TypeOK
<1>6. \A u \in Seen : u <= wrote
  BY <1>1, <1>2, WatcherAssumption
<1> QED
  BY <1>1, <1>4, <1>5, <1>6 DEF Ahead, Reading

\* Whatever happens on the disk, the units to come stay ahead: a new unit is
\* larger than all there are, and a new file is empty.
LEMMA AheadDisk ==
  ASSUME Typed, Ahead, Disk
  PROVE  Ahead'
<1>1. /\ TypeOK /\ DiskOK /\ Hands
  BY DEF Typed
<1>2. /\ path \in 0..MaxFiles /\ fd \in 0..MaxFiles /\ inodes \in 0..MaxFiles
      /\ writing \in 0..MaxFiles
      /\ wrote \in Nat /\ pos \in Nat /\ MaxFiles \in Nat
      /\ \A i \in Inode : Size(i) \in Nat /\ \A k \in 1..Size(i) : content[i][k] \in Nat
  BY <1>1, DiskTypes
<1>3. \A u \in Seen : u \in Nat /\ u <= wrote
  BY <1>1, SeenUnits, WatcherAssumption DEF Ahead
<1>4. UNCHANGED <<pc, fd, reader>>
  BY DEF Disk, Write, Rename, Create, Reopen, Truncate, tailer, control
<1>5. Seen' = Seen
  BY <1>4, SeenStays DEF reader
<1>6. pc \in Reading \cup {"seek"} => fd \in Inode
  BY <1>1 DEF TypeOK
<1>7. \A i \in (fd + 1)..MaxFiles : i \in Inode
  BY <1>2 DEF Inode
<1>8. CASE \E n \in 1..2 : Write(n)
  <2>1. PICK n \in 1..2 : Write(n)
    BY <1>8
  <2>2. path' = path /\ wrote' = wrote + n
    BY <2>1 DEF Write
  <2>3. ASSUME NEW i \in Inode, NEW k \in 1..Len(content'[i])
        PROVE  \/ k \in 1..Size(i) /\ content'[i][k] = content[i][k]
               \/ k > Size(i) /\ content'[i][k] > wrote /\ content'[i][k] <= wrote'
    BY <1>1, <2>1, WrittenUnits
  <2>4. ASSUME NEW i \in Inode, NEW k \in 1..Len(content'[i])
        PROVE  content'[i][k] \in Nat
    <3>1. content' \in [Inode -> Seq(Unit)]
      BY <1>1, <2>1, Written
    <3>2. content'[i] \in Seq(Unit)
      BY <3>1
    <3>3. content'[i][k] \in Unit
      BY <3>2, ElementOfSeq
    <3> QED
      BY <3>3 DEF Unit
  <2>5. \A u \in Seen : u <= wrote'
    BY <1>2, <1>3, <2>2
  <2>6. ASSUME NEW i \in Inode, Past(i), NEW u \in Seen, NEW k \in 1..Len(content'[i])
        PROVE  u < content'[i][k]
    <3>1. CASE k \in 1..Size(i) /\ content'[i][k] = content[i][k]
      BY <2>6, <3>1 DEF Past
    <3>2. CASE content'[i][k] > wrote
      BY <1>2, <1>3, <2>4, <3>2
    <3> QED
      BY <2>3, <3>1, <3>2
  <2>7. \A i \in Inode : Past(i) => Past(i)'
    BY <1>5, <2>6 DEF Past, Size
  <2>8. ASSUME pc \in Reading, NEW u \in Seen, NEW k \in 1..Len(content'[fd]),
               k > pos \/ Len(content'[fd]) < pos
        PROVE  u < content'[fd][k]
    <3>0. fd \in Inode /\ Size(fd) \in Nat
      BY <1>2, <1>6, <2>8
    <3>1. CASE k \in 1..Size(fd) /\ content'[fd][k] = content[fd][k]
      <4>1. Size(fd) <= Len(content'[fd])
        <5>1. CASE fd = writing
          BY <1>1, <2>1, <3>0, <5>1, Written
        <5>2. CASE fd # writing
          BY <1>1, <2>1, <3>0, <5>2, Written DEF Size
        <5> QED
          BY <5>1, <5>2
      <4>2. Len(content'[fd]) \in Int
        BY <1>1, <2>1, <3>0, Written, LenProperties
      <4>3. k > pos \/ Size(fd) < pos
        BY <1>2, <2>8, <3>0, <4>1, <4>2
      <4> QED
        BY <2>8, <3>1, <4>3 DEF Ahead
    <3>2. CASE content'[fd][k] > wrote
      BY <1>2, <1>3, <2>4, <3>0, <3>2
    <3> QED
      BY <2>3, <3>0, <3>1, <3>2
  <2>9. path # NoFile => path \in Inode
    BY <1>1 DEF TypeOK
  <2>10. \A i \in fd..MaxFiles : pc = "seek" => i \in Inode
    BY <1>2, <1>6 DEF Inode
  <2>11. pc' \in Reading =>
           /\ \A i \in (fd' + 1)..MaxFiles : Past(i)'
           /\ \A u \in Seen' : \A k \in 1..Size(fd)' :
                k > pos' \/ Size(fd)' < pos' => u < content'[fd'][k]
    <3>1. pc \in Reading => \A i \in (fd + 1)..MaxFiles : Past(i)
      BY DEF Ahead
    <3>2. pc' = pc /\ fd' = fd /\ pos' = pos
      BY <1>4 DEF reader
    <3> QED
      BY <1>5, <1>7, <2>7, <2>8, <3>1, <3>2 DEF Size
  <2>12. pc' \in {"open", "wait"} /\ path' # NoFile => Past(path)'
    BY <1>4, <2>2, <2>7, <2>9 DEF Ahead, Past, Size
  <2>13. pc' = "seek" => \A i \in fd'..MaxFiles : Past(i)'
    BY <1>4, <2>7, <2>10 DEF Ahead
  <2> QED
    BY <1>5, <2>5, <2>11, <2>12, <2>13 DEF Ahead
<1>9. CASE Truncate
  <2>1. /\ path \in Inode /\ UNCHANGED <<path, wrote>>
        /\ \A i \in Inode : i # path => content'[i] = content[i]
        /\ Len(content'[path]) = 0
    BY <1>1, <1>9, Emptied DEF Truncate
  <2>2. \A i \in Inode : Past(i) => Past(i)'
    BY <1>5, <2>1 DEF Past, Size
  <2>3. Past(path)'
    BY <2>1 DEF Past, Size
  <2>4. \A i \in fd..MaxFiles : pc = "seek" => i \in Inode
    BY <1>2, <1>6 DEF Inode
  <2>5. pc \in Reading => \A u \in Seen : \A k \in 1..Len(content'[fd]) :
          k > pos \/ Len(content'[fd]) < pos => u < content'[fd][k]
    <3>1. CASE fd = path
      BY <2>1, <3>1
    <3>2. CASE fd # path
      BY <1>6, <2>1, <3>2 DEF Ahead, Size
    <3> QED
      BY <3>1, <3>2
  <2> QED
    BY <1>4, <1>5, <1>7, <2>1, <2>2, <2>3, <2>4, <2>5 DEF Ahead, reader, Size
<1>10. CASE Rename
  <2>1. path' = NoFile /\ UNCHANGED <<content, wrote>>
    BY <1>10 DEF Rename
  <2> QED
    BY <1>4, <1>5, <2>1 DEF Ahead, Past, Size, reader
<1>11. CASE Create
  <2>1. path' = inodes + 1 /\ path' \in Inode /\ UNCHANGED <<content, wrote>>
    BY <1>2, <1>11 DEF Create, Inode
  <2>2. ~(Size(path') > 0)
    BY <1>1, <1>2, <2>1 DEF DiskOK
  <2>3. Size(path') = 0
    BY <1>2, <2>1, <2>2
  <2>4. Past(path)'
    BY <2>1, <2>3 DEF Past, Size
  <2> QED
    BY <1>4, <1>5, <2>1, <2>4 DEF Ahead, Past, Size, reader
<1>12. CASE Reopen
  <2>1. UNCHANGED <<path, content, wrote>>
    BY <1>12 DEF Reopen
  <2> QED
    BY <1>4, <1>5, <2>1 DEF Ahead, Past, Size, reader
<1> QED
  BY <1>8, <1>9, <1>10, <1>11, <1>12 DEF Disk

\* Whatever the tailer does, the units to come stay ahead: it goes through a
\* file in order, and leaves it for a later one, or for its own new contents.
LEMMA AheadTailer ==
  ASSUME Typed, Ahead, Tailer
  PROVE  Ahead'
<1>1. /\ TypeOK /\ DiskOK /\ Hands
  BY DEF Typed
<1>2. /\ path \in 0..MaxFiles /\ fd \in 0..MaxFiles /\ inodes \in 0..MaxFiles
      /\ writing \in 0..MaxFiles
      /\ wrote \in Nat /\ pos \in Nat /\ MaxFiles \in Nat
      /\ \A i \in Inode : Size(i) \in Nat /\ \A k \in 1..Size(i) : content[i][k] \in Nat
  BY <1>1, DiskTypes
<1>3. UNCHANGED <<path, content, inodes, writing, wrote>>
  BY DEF Tailer, Open, Seek, WaitFound, WaitTimesOut, Fill, ReadLine, ReadEOF, Send, Check,
         OpenFails, StatFails, disk
<1>4. \A i \in Inode : Size(i)' = Size(i)
  BY <1>3 DEF Size
<1>5. \A i \in (fd + 1)..MaxFiles : i \in Inode /\ fd < i
  BY <1>2 DEF Inode
<1>12. \A i \in Inode : \A k \in 1..Size(i) : 0 < content[i][k]
  BY <1>1, AboveZero
<1>6. CASE Open
  <2>1. /\ pc = "open" /\ fd' = path /\ UNCHANGED reader
        /\ IF path = NoFile THEN pc' = "wait" ELSE pc' = "seek"
    BY <1>6, Zenon DEF Open
  <2>2. Seen' = Seen
    BY <2>1, SeenStays DEF reader
  <2>3. CASE path = NoFile
    BY <1>3, <2>1, <2>2, <2>3 DEF Ahead, Reading
  <2>4. CASE path # NoFile
    <3>1. Past(path) /\ path = inodes /\ path \in Inode
      BY <1>1, <2>1, <2>4 DEF Ahead, DiskOK, TypeOK
    <3>2. ASSUME NEW i \in path..MaxFiles PROVE Past(i)
      <4>1. CASE i = path
        BY <3>1, <4>1
      <4>2. CASE i # path
        <5>1. i \in Inode /\ inodes < i
          BY <1>2, <3>1, <4>2 DEF Inode
        <5>2. ~(Size(i) > 0)
          BY <1>1, <1>2, <5>1 DEF DiskOK
        <5>3. Size(i) = 0
          BY <1>2, <5>1, <5>2
        <5> QED
          BY <5>3 DEF Past
      <4> QED
        BY <4>1, <4>2
    <3>3. \A i \in path..MaxFiles : Past(i)'
      BY <1>3, <2>2, <3>2 DEF Past, Size
    <3> QED
      BY <1>3, <2>1, <2>2, <2>4, <3>3 DEF Ahead, Reading
  <2> QED
    BY <2>3, <2>4
<1>7. CASE Seek
  <2>0. pc = "seek" /\ fd \in Inode
    BY <1>1, <1>7 DEF Seek, TypeOK
  <2>1. /\ pc' = "read" /\ fd' = fd /\ pos' = IF seekEnd THEN Size(fd) ELSE 0
    BY <1>7 DEF Seek
  <2>2. \A i \in fd..MaxFiles : Past(i)
    BY <2>0 DEF Ahead
  <2>3. Past(fd) /\ \A i \in (fd + 1)..MaxFiles : Past(i)
    BY <1>2, <2>0, <2>2 DEF Inode
  <2>4. CASE seekEnd /\ Size(fd) > 0
    <3>1. Seen' = {content[fd][Size(fd)]} /\ Size(fd) \in 1..Size(fd)
      BY <1>2, <1>7, <2>0, <2>4, SeenSeek DEF Typed
    <3>2. content[fd][Size(fd)] <= wrote
      BY <1>1, <2>0, <3>1 DEF DiskOK
    <3>3. \A i \in (fd + 1)..MaxFiles : \A k \in 1..Size(i) : content[fd][Size(fd)] < content[i][k]
      BY <1>1, <1>5, <2>0, <3>1 DEF DiskOK
    <3>4. \A i \in (fd + 1)..MaxFiles : Past(i)'
      BY <1>3, <3>1, <3>3 DEF Past, Size
    <3>5. \A k \in 1..Size(fd) : ~(k > pos' \/ Size(fd) < pos')
      BY <1>2, <2>0, <2>1, <2>4
    <3> QED
      BY <1>3, <1>4, <2>0, <2>1, <3>1, <3>2, <3>4, <3>5 DEF Ahead, Reading
  <2>5. CASE ~(seekEnd /\ Size(fd) > 0)
    <3>1. Seen' = Seen
      BY <1>7, <2>5, SeenSeek
    <3>2. \A i \in (fd + 1)..MaxFiles : Past(i)'
      BY <1>3, <2>3, <3>1 DEF Past, Size
    <3>3. \A u \in Seen : \A k \in 1..Size(fd) : u < content[fd][k]
      BY <2>3 DEF Past
    <3> QED
      BY <1>3, <1>4, <2>0, <2>1, <3>1, <3>2, <3>3 DEF Ahead, Reading
  <2> QED
    BY <2>4, <2>5
<1>8. CASE WaitFound \/ WaitTimesOut
  <2>1. pc = "wait" /\ pc' = "open" /\ UNCHANGED <<fd, reader>>
    BY <1>8 DEF WaitFound, WaitTimesOut
  <2>2. Seen' = Seen
    BY <2>1, SeenStays DEF reader
  <2> QED
    BY <1>3, <2>1, <2>2 DEF Ahead, Past, Size, Reading
<1>9. CASE \E n \in 1..MaxUnits : Fill(n)
  <2>1. PICK n \in 1..MaxUnits : Fill(n)
    BY <1>9
  <2>2. /\ fd \in Inode /\ pos' = pos + n /\ pos + n <= Size(fd)
        /\ Seen' = Seen \cup {content[fd][k] : k \in (pos + 1)..(pos + n)}
    BY <1>1, <2>1, Filled, SeenGrows
  <2>3. pc = "read" /\ pc' = "read" /\ fd' = fd
    BY <2>1 DEF Fill
  <2>4. n \in Nat /\ \A k \in (pos + 1)..(pos + n) : k \in 1..Size(fd) /\ k <= pos'
    BY <1>2, <2>2, WatcherAssumption
  <2>5. \A u \in Seen' : u <= wrote
    BY <1>1, <2>2, <2>4 DEF Ahead, DiskOK
  <2>6. \A i \in (fd + 1)..MaxFiles : \A u \in Seen' : \A l \in 1..Size(i) : u < content[i][l]
    <3>1. \A i \in (fd + 1)..MaxFiles : \A u \in Seen : \A l \in 1..Size(i) : u < content[i][l]
      BY <2>3 DEF Ahead, Past, Reading
    <3>2. \A i \in (fd + 1)..MaxFiles : \A k \in 1..Size(fd) : \A l \in 1..Size(i) :
            content[fd][k] < content[i][l]
      BY <1>1, <1>5, <2>2 DEF DiskOK
    <3> QED
      BY <2>2, <2>4, <3>1, <3>2
  <2>7. ASSUME NEW u \in Seen', NEW l \in 1..Size(fd), l > pos' \/ Size(fd) < pos'
        PROVE  u < content[fd][l]
    <3>1. l > pos' /\ l > pos
      BY <1>2, <2>2, <2>4, <2>7
    <3>2. CASE u \in Seen
      BY <2>3, <3>1, <3>2 DEF Ahead, Reading
    <3>3. CASE \E k \in (pos + 1)..(pos + n) : u = content[fd][k]
      <4>1. PICK k \in (pos + 1)..(pos + n) : u = content[fd][k]
        BY <3>3
      <4>2. k \in 1..Size(fd) /\ k < l
        BY <1>2, <2>2, <2>4, <3>1
      <4> QED
        BY <1>1, <2>2, <4>1, <4>2 DEF DiskOK
    <3> QED
      BY <2>2, <3>2, <3>3
  <2>8. \A i \in (fd + 1)..MaxFiles : Past(i)'
    BY <1>3, <2>6 DEF Past, Size
  <2> QED
    BY <1>3, <1>4, <2>2, <2>3, <2>5, <2>7, <2>8 DEF Ahead, Reading
<1>10. CASE ReadLine \/ ReadEOF \/ Send
  <2>1. Seen' \subseteq Seen \cup {0}
    BY <1>10, SeenMoves
  <2>2. pc \in Reading /\ pc' \in Reading /\ fd' = fd /\ pos' = pos
    BY <1>10 DEF ReadLine, ReadEOF, Send, Reading
  <2>3. \A i \in (fd + 1)..MaxFiles : Past(i)'
    BY <1>3, <1>5, <1>12, <2>1, <2>2 DEF Ahead, Past, Size
  <2>4. fd \in Inode
    BY <1>1, <2>2 DEF TypeOK
  <2>5. \A u \in Seen' : \A k \in 1..Size(fd) : k > pos \/ Size(fd) < pos => u < content[fd][k]
    BY <1>12, <2>1, <2>2, <2>4 DEF Ahead
  <2>6. \A u \in Seen' : u <= wrote
    BY <1>2, <2>1 DEF Ahead
  <2>7. pc' \notin {"open", "wait", "seek"}
    BY <2>2 DEF Reading
  <2> QED
    BY <1>3, <1>4, <2>2, <2>3, <2>4, <2>5, <2>6, <2>7 DEF Ahead
<1>11. CASE Check
  <2>1. /\ pc = "check" /\ UNCHANGED reader
    BY <1>11 DEF Check
  <2>2. Seen' = Seen
    BY <2>1, SeenStays DEF reader
  <2>3. CASE checkRotation
    <3>1. pc' = "wait"
      BY <1>11, <2>3 DEF Check
    <3>2. ASSUME path # NoFile PROVE Past(path)
      <4>1. path = inodes /\ path \in Inode /\ fd \in Inode /\ fd <= inodes
        BY <1>1, <2>1, <3>2 DEF DiskOK, TypeOK, Hands, Reading
      <4>2. CASE path # fd
        <5>1. path \in (fd + 1)..MaxFiles
          BY <1>2, <4>1, <4>2
        <5> QED
          BY <2>1, <5>1 DEF Ahead, Reading
      <4>3. CASE path = fd
        <5>1. Size(fd) < offset
          BY <2>3, <3>2, <4>3 DEF checkRotation
        <5>2. offset = pos
          <6>1. hand = <<>> /\ buf = <<>> /\ offset + Len(hand) + Len(buf) = pos
            BY <1>1, <2>1 DEF Hands, Reading
          <6>2. Len(hand) = 0 /\ Len(buf) = 0 /\ offset \in Nat
            BY <1>1, <6>1, Empty DEF TypeOK
          <6> QED
            BY <6>1, <6>2
        <5>3. Size(fd) < pos
          BY <5>1, <5>2
        <5> QED
          BY <2>1, <4>3, <5>3 DEF Ahead, Past, Reading
      <4> QED
        BY <4>2, <4>3
    <3>3. path # NoFile => Past(path)'
      BY <1>3, <2>2, <3>2 DEF Past, Size
    <3> QED
      BY <1>3, <2>2, <3>1, <3>3 DEF Ahead, Reading
  <2>4. CASE ~checkRotation
    <3>1. pc' = "read" /\ fd' = fd
      BY <1>11, <2>4 DEF Check
    <3>2. \A i \in (fd + 1)..MaxFiles : Past(i)'
      BY <1>3, <2>1, <2>2 DEF Ahead, Past, Size, Reading
    <3> QED
      BY <1>3, <2>1, <2>2, <3>1, <3>2 DEF Ahead, Size, reader, Reading
  <2> QED
    BY <2>3, <2>4
<1>13. CASE OpenFails \/ StatFails
  <2>1. pc' = "wait"
    BY <1>13 DEF OpenFails, StatFails
  <2>2. Seen' \subseteq Seen \cup {0}
    BY <1>13, SeenFails
  <2>3. \A u \in Seen' : u <= wrote
    BY <1>2, <2>2 DEF Ahead
  <2>4. ASSUME path # NoFile, NEW u \in Seen', NEW k \in 1..Size(path)
        PROVE  u < content[path][k]
    <3>1. path \in Inode /\ path = inodes
      BY <1>1, <2>4 DEF TypeOK, DiskOK
    <3>2. 0 < content[path][k]
      BY <1>12, <3>1
    <3>3. CASE OpenFails
      <4>1. Past(path)
        <5>1. CASE pc = "open"
          BY <2>4, <5>1 DEF Ahead
        <5>2. CASE pc = "seek"
          <6>1. fd <= path
            BY <1>1, <3>1 DEF Hands
          <6>2. path \in fd..MaxFiles
            BY <1>2, <3>1, <6>1
          <6> QED
            BY <5>2, <6>2 DEF Ahead
        <5> QED
          BY <3>3, <5>1, <5>2 DEF OpenFails
      <4> QED
        BY <2>2, <3>2, <4>1 DEF Past
    <3>4. CASE StatFails
      <4>1. u = 0
        BY <3>4, SeenFails
      <4> QED
        BY <3>2, <4>1
    <3> QED
      BY <1>13, <3>3, <3>4
  <2>5. path # NoFile => Past(path)'
    BY <1>3, <2>4 DEF Past, Size
  <2> QED
    BY <1>3, <2>1, <2>3, <2>5 DEF Ahead, Reading
<1> QED
  BY <1>6, <1>7, <1>8, <1>9, <1>10, <1>11, <1>13 DEF Tailer

\* In every state of every behaviour.
LEMMA AlwaysAhead == Spec => []Ahead
<1>1. Init => Ahead
  BY AheadInit
<1>2. Typed /\ Ahead /\ [Next]_vars => Ahead'
  <2> SUFFICES ASSUME Typed, Ahead, [Next]_vars PROVE Ahead'
    OBVIOUS
  <2>1. CASE Disk
    BY <2>1, AheadDisk
  <2>2. CASE Tailer
    BY <2>2, AheadTailer
  <2>3. CASE UNCHANGED vars
    <3>1. UNCHANGED <<path, content, wrote, pc, fd, pos, sent, hand, buf, history,
                     faults, since>>
      BY <2>3 DEF vars, disk, tailer, control, reader
    <3>2. Seen' = Seen
      BY <3>1, SeenStays
    <3> QED
      BY <3>1, <3>2 DEF Ahead, Past, Size
  <2> QED
    BY <2>1, <2>2, <2>3 DEF Next
<1> QED
  BY <1>1, <1>2, AlwaysTyped, PTL DEF Spec
-----------------------------------------------------------------------------
(* What is forwarded is in order *)

\* Nothing was sent, and nothing is in hand.
LEMMA OrderedInit == Init => Ordered
<1> SUFFICES ASSUME Init PROVE Ordered
  OBVIOUS
<1>1. sent = <<>> /\ hand = <<>> /\ buf = <<>> /\ since = 0
  BY DEF Init
<1>2. Len(<<>>) = 0 /\ Elements(<<>>) = {}
  BY Empty, NoElements
<1>3. Fresh = {}
  BY <1>1, <1>2 DEF Fresh
<1> QED
  BY <1>1, <1>2, <1>3 DEF Ordered, ForwardedOnce

\* What a read adds to the buffer comes after all that was read before.
LEMMA OrderedFill ==
  ASSUME Typed, Ahead, Ordered, NEW n \in 1..MaxUnits, Fill(n)
  PROVE  Ordered'
<1>1. /\ TypeOK /\ DiskOK /\ Hands
  BY DEF Typed
<1>2. /\ pos \in Nat /\ n \in Nat /\ Size(fd) \in Nat
      /\ fd \in Inode /\ Len(buf) \in Nat /\ pos + n <= Size(fd)
      /\ buf' \in Seq(Unit) /\ Len(buf') = Len(buf) + n
      /\ \A k \in 1..Len(buf) : buf'[k] = buf[k]
      /\ \A k \in 1..n : buf'[Len(buf) + k] = content[fd][pos + k]
      /\ Elements(buf') = Elements(buf) \cup {content[fd][k] : k \in (pos + 1)..(pos + n)}
  <2>1. fd \in Inode /\ pos + n <= Size(fd) /\ Len(buf) \in Nat
    BY <1>1, Filled
  <2>2. /\ buf' \in Seq(Unit) /\ Len(buf') = Len(buf) + n
        /\ \A k \in 1..Len(buf) : buf'[k] = buf[k]
        /\ \A k \in 1..n : buf'[Len(buf) + k] = content[fd][pos + k]
        /\ Elements(buf') = Elements(buf) \cup {content[fd][k] : k \in (pos + 1)..(pos + n)}
    BY <1>1, Filled, Zenon
  <2>3. pos \in Nat /\ n \in Nat /\ Size(fd) \in Nat
    BY <1>1, <2>1, DiskTypes
  <2> QED
    BY <2>1, <2>2, <2>3
<1>3. /\ pc = "read" /\ hand = <<>> /\ hand' = hand
      /\ UNCHANGED <<sent, history, faults, since>>
  BY <1>1 DEF Fill, Hands
<1>4. \A u \in Seen : \A k \in (pos + 1)..(pos + n) : u < content[fd][k]
  <2>1. \A k \in (pos + 1)..(pos + n) : k \in 1..Size(fd) /\ k > pos
    BY <1>2
  <2> QED
    BY <1>3, <2>1 DEF Ahead, Reading
<1>5. \A k, l \in (pos + 1)..(pos + n) : k < l => content[fd][k] < content[fd][l]
  <2>1. \A k \in (pos + 1)..(pos + n) : k \in 1..Size(fd)
    BY <1>2
  <2> QED
    BY <1>1, <1>2, <2>1 DEF DiskOK
<1>6. Elements(hand) = {}
  BY <1>3, NoElements
<1>7. /\ Fresh \subseteq Seen /\ Elements(buf) \subseteq Seen /\ Floor \in Seen
      /\ \A k \in 1..Len(buf) : buf[k] \in Seen
  BY DEF Seen, Elements
<1>8. ForwardedOnce' /\ Fresh' = Fresh /\ Floor' = Floor /\ Elements(hand)' = {}
  BY <1>3, <1>6 DEF Ordered, ForwardedOnce, Fresh, Floor, Elements
<1>9. \A u \in Fresh : \A v \in Elements(buf') : u < v
  BY <1>2, <1>4, <1>7 DEF Ordered
<1>10. \A v \in Elements(buf') : Floor < v
  BY <1>2, <1>4, <1>7 DEF Ordered
<1>11. ASSUME NEW k \in 1..Len(buf'), NEW l \in 1..Len(buf'), k < l
       PROVE  buf'[k] < buf'[l]
  <2>1. CASE l <= Len(buf)
    <3>1. k \in 1..Len(buf) /\ l \in 1..Len(buf)
      BY <1>2, <1>11, <2>1
    <3> QED
      BY <1>2, <1>11, <3>1 DEF Ordered
  <2>2. CASE ~(l <= Len(buf))
    <3>1. l - Len(buf) \in 1..n /\ Len(buf) + (l - Len(buf)) = l
      BY <1>2, <2>2
    <3>2. buf'[l] = content[fd][pos + (l - Len(buf))]
      BY <1>2, <3>1
    <3>3. pos + (l - Len(buf)) \in (pos + 1)..(pos + n)
      BY <1>2, <3>1
    <3>4. CASE k <= Len(buf)
      <4>1. k \in 1..Len(buf) /\ buf'[k] = buf[k]
        BY <1>2, <3>4
      <4> QED
        BY <1>4, <1>7, <3>2, <3>3, <4>1
    <3>5. CASE ~(k <= Len(buf))
      <4>1. k - Len(buf) \in 1..n /\ Len(buf) + (k - Len(buf)) = k
        BY <1>2, <3>5
      <4>2. buf'[k] = content[fd][pos + (k - Len(buf))]
        BY <1>2, <4>1
      <4>3. /\ pos + (k - Len(buf)) \in (pos + 1)..(pos + n)
            /\ pos + (k - Len(buf)) < pos + (l - Len(buf))
        BY <1>2, <1>11, <4>1
      <4> QED
        BY <1>5, <3>2, <3>3, <4>2, <4>3
    <3> QED
      BY <3>4, <3>5
  <2> QED
    BY <2>1, <2>2
<1>12. \A k, l \in 1..Len(hand) : k < l => hand[k] < hand[l]
  BY DEF Ordered
<1>13. Elements(hand') = {}
  BY <1>3, <1>6
<1> QED
  BY <1>3, <1>8, <1>9, <1>10, <1>11, <1>12, <1>13 DEF Ordered, Elements

\* The line that is returned comes before what stays in the buffer.
LEMMA OrderedRead ==
  ASSUME Typed, Ordered, ReadLine
  PROVE  Ordered'
<1>1. TypeOK /\ Hands
  BY DEF Typed
<1>2. PICK k \in 1..Len(buf) :
        /\ Len(buf) \in Nat
        /\ Len(hand') = k /\ Len(buf') = Len(buf) - k
        /\ \A j \in 1..k : hand'[j] = buf[j]
        /\ \A j \in 1..(Len(buf) - k) : buf'[j] = buf[k + j]
        /\ Elements(buf) = Elements(hand') \cup Elements(buf')
  BY <1>1, LineRead
<1>3. UNCHANGED <<sent, history, faults, since>>
  BY DEF ReadLine
<1>4. ForwardedOnce' /\ Fresh' = Fresh /\ Floor' = Floor
  BY <1>3 DEF Ordered, ForwardedOnce, Fresh, Floor, Elements
<1>5. \A i, j \in 1..Len(buf) : i < j => buf[i] < buf[j]
  BY DEF Ordered
<1>6. /\ \A u \in Fresh : \A v \in Elements(buf) : u < v
      /\ \A v \in Elements(buf) : Floor < v
  BY DEF Ordered
<1>7. \A i, j \in 1..Len(hand') : i < j => hand'[i] < hand'[j]
  <2>1. \A i \in 1..Len(hand') : i \in 1..Len(buf) /\ hand'[i] = buf[i]
    BY <1>2
  <2> QED
    BY <1>5, <2>1
<1>8. \A i, j \in 1..Len(buf') : i < j => buf'[i] < buf'[j]
  <2>1. \A i \in 1..Len(buf') : k + i \in 1..Len(buf) /\ buf'[i] = buf[k + i]
    BY <1>2
  <2>2. \A i, j \in 1..Len(buf') : i < j => k + i < k + j
    BY <1>2
  <2> QED
    BY <1>5, <2>1, <2>2
<1>9. \A i \in 1..Len(hand') : \A j \in 1..Len(buf') : hand'[i] < buf'[j]
  <2>1. \A i \in 1..Len(hand') : i \in 1..Len(buf) /\ hand'[i] = buf[i]
    BY <1>2
  <2>2. \A i \in 1..Len(buf') : k + i \in 1..Len(buf) /\ buf'[i] = buf[k + i]
    BY <1>2
  <2>3. \A i \in 1..Len(hand') : \A j \in 1..Len(buf') : i < k + j
    BY <1>2
  <2> QED
    BY <1>5, <2>1, <2>2, <2>3
<1>10. \A u \in Elements(hand') : \A v \in Elements(buf') : u < v
  BY <1>9 DEF Elements
<1> QED
  BY <1>2, <1>3, <1>4, <1>6, <1>7, <1>8, <1>10 DEF Ordered, Elements

\* A piece is sent after all before it.
LEMMA OrderedSend ==
  ASSUME Typed, Ordered, Send
  PROVE  Ordered'
<1>1. TypeOK
  BY DEF Typed
<1>2. /\ Len(sent) \in Nat /\ Len(sent') = Len(sent) + 1
      /\ \A i \in 1..Len(sent) : sent'[i] = sent[i]
      /\ sent'[Len(sent) + 1] = hand
      /\ Fresh' = Fresh \cup Elements(hand)
  BY <1>1, PieceSent
<1>3. hand' = <<>> /\ UNCHANGED <<buf, history, faults, since>> /\ since \in 0..Len(sent)
  BY <1>1 DEF Send, TypeOK
<1>f. Floor' = Floor
  BY <1>3 DEF Floor
<1>4. /\ \A i \in (since + 1)..Len(sent') : i \in (since + 1)..Len(sent) \/ i = Len(sent) + 1
      /\ \A i \in (since + 1)..Len(sent) : i \in 1..Len(sent)
  BY <1>2, <1>3
<1>5. /\ \A u \in Fresh : \A v \in Elements(hand) \cup Elements(buf) : u < v
      /\ \A u \in Elements(hand) : \A v \in Elements(buf) : u < v
      /\ \A k, l \in 1..Len(hand) : k < l => hand[k] < hand[l]
      /\ \A u \in Elements(hand) \cup Elements(buf) : Floor < u
      /\ \A i \in (since + 1)..Len(sent) : \A a \in 1..Len(sent[i]) :
           /\ faults = 0 => sent[i][a] > history
           /\ \A j \in (since + 1)..Len(sent) : \A b \in 1..Len(sent[j]) :
                (i < j \/ (i = j /\ a < b)) => sent[i][a] < sent[j][b]
  BY DEF Ordered, ForwardedOnce
<1>6. \A i \in (since + 1)..Len(sent) : \A a \in 1..Len(sent[i]) : sent[i][a] \in Fresh
  BY DEF Fresh, Elements
<1>7. \A a \in 1..Len(hand) : hand[a] \in Elements(hand)
  BY DEF Elements
<1>8. ASSUME faults = 0, NEW i \in (since + 1)..Len(sent'), NEW a \in 1..Len(sent'[i])
      PROVE  sent'[i][a] > history
  <2>1. CASE i \in (since + 1)..Len(sent)
    BY <1>2, <1>4, <1>5, <1>8, <2>1
  <2>2. CASE i = Len(sent) + 1
    <3>1. a \in 1..Len(hand) /\ sent'[i][a] = hand[a] /\ hand[a] \in Elements(hand)
      BY <1>2, <1>7, <2>2
    <3>2. history < hand[a]
      <4>1. Floor < hand[a] /\ Floor = history
        BY <1>5, <1>8, <3>1 DEF Floor
      <4> QED
        BY <4>1
    <3>3. hand[a] \in Unit /\ history \in 0..MaxUnits
      BY <1>1, <3>1, ElementOfSeq DEF TypeOK
    <3> QED
      BY <3>1, <3>2, <3>3, WatcherAssumption DEF Unit
  <2> QED
    BY <1>4, <2>1, <2>2
<1>9. ASSUME NEW i \in (since + 1)..Len(sent'), NEW a \in 1..Len(sent'[i]),
             NEW j \in (since + 1)..Len(sent'), NEW b \in 1..Len(sent'[j]),
             i < j \/ (i = j /\ a < b)
      PROVE  sent'[i][a] < sent'[j][b]
  <2>1. CASE j \in (since + 1)..Len(sent)
    <3>1. i \in (since + 1)..Len(sent)
      BY <1>2, <1>3, <1>4, <1>9, <2>1
    <3>2. sent'[i] = sent[i] /\ sent'[j] = sent[j]
      BY <1>2, <1>4, <2>1, <3>1
    <3> QED
      BY <1>5, <1>9, <2>1, <3>1, <3>2
  <2>2. CASE j = Len(sent) + 1
    <3>1. b \in 1..Len(hand) /\ sent'[j][b] = hand[b]
      BY <1>2, <2>2
    <3>2. CASE i \in (since + 1)..Len(sent)
      <4>1. a \in 1..Len(sent[i]) /\ sent'[i][a] = sent[i][a]
        BY <1>2, <1>4, <3>2
      <4> QED
        BY <1>5, <1>6, <1>7, <3>1, <3>2, <4>1
    <3>3. CASE i = Len(sent) + 1
      <4>1. a \in 1..Len(hand) /\ sent'[i][a] = hand[a]
        BY <1>2, <3>3
      <4>2. a < b
        BY <1>2, <1>9, <2>2, <3>3
      <4> QED
        BY <1>5, <3>1, <4>1, <4>2
    <3> QED
      BY <1>4, <3>2, <3>3
  <2> QED
    BY <1>4, <2>1, <2>2
<1>10. ForwardedOnce'
  BY <1>3, <1>8, <1>9 DEF ForwardedOnce
<1>11. Elements(hand') = {} /\ Elements(buf') = Elements(buf) /\ Len(hand') = 0
  BY <1>3, NoElements, Empty
<1>12. \A k, l \in 1..Len(buf) : k < l => buf[k] < buf[l]
  BY DEF Ordered
<1> QED
  BY <1>2, <1>3, <1>f, <1>5, <1>10, <1>11, <1>12 DEF Ordered, Elements

\* Every step keeps the order.
LEMMA OrderedStep ==
  ASSUME Typed, Ahead, Ordered, [Next]_vars
  PROVE  Ordered'
<1>1. CASE UNCHANGED reader
  <2>1. /\ sent' = sent /\ hand' = hand /\ buf' = buf /\ since' = since
        /\ history' = history /\ faults' = faults
    BY <1>1 DEF reader
  <2>2. Fresh' = Fresh /\ Floor' = Floor
    BY <2>1 DEF Fresh, Floor, Elements
  <2>3. ForwardedOnce'
    BY <2>1 DEF Ordered, ForwardedOnce
  <2> QED
    BY <2>1, <2>2, <2>3 DEF Ordered, Elements
<1>2. CASE Seek
  <2>1. hand' = <<>> /\ buf' = <<>> /\ sent' = sent /\ (seekEnd => sent = <<>>)
        /\ (~seekEnd => history' = history) /\ faults' = faults /\ since' = since /\ since \in Nat
    BY <1>2, LenProperties DEF Typed, TypeOK, Hands, Seek, FirstSeen
  <2>2. Len(hand') = 0 /\ Len(buf') = 0 /\ Elements(hand') = {} /\ Elements(buf') = {}
    BY <2>1, NoElements, Empty
  <2>3. CASE seekEnd
    <3>1. Len(sent') = 0
      BY <2>1, <2>3, Empty
    <3>2. (since' + 1)..Len(sent') = {}
      BY <2>1, <3>1
    <3>3. Fresh' = {} /\ ForwardedOnce'
      BY <3>2 DEF Fresh, ForwardedOnce
    <3> QED
      BY <2>2, <3>3 DEF Ordered, Elements
  <2>4. CASE ~seekEnd
    <3>1. ForwardedOnce'
      BY <2>1, <2>4 DEF Ordered, ForwardedOnce
    <3> QED
      BY <2>2, <3>1 DEF Ordered, Elements
  <2> QED
    BY <2>3, <2>4
<1>3. CASE \E n \in 1..MaxUnits : Fill(n)
  BY <1>3, OrderedFill
<1>4. CASE ReadLine
  BY <1>4, OrderedRead
<1>5. CASE ReadEOF
  <2>1. hand = <<>> /\ hand' = buf /\ buf' = <<>> /\ UNCHANGED <<sent, history, since>>
    BY <1>5 DEF Typed, Hands, ReadEOF
  <2>4. faults' = faults \/ (faults' # 0 /\ Floor' = 0)
    BY <1>5 DEF Typed, TypeOK, ReadEOF, Floor
  <2>2. ForwardedOnce' /\ Fresh' = Fresh
    BY <2>1, <2>4 DEF Ordered, ForwardedOnce, Fresh, Elements
  <2>3. Elements(hand') = Elements(buf) /\ Elements(buf') = {} /\ Len(buf') = 0
    BY <2>1, NoElements, Empty
  <2>5. \A u \in Elements(buf) : 0 < u
    <3>1. \A k \in 1..Len(buf) : buf[k] \in Unit
      BY ElementOfSeq DEF Typed, TypeOK
    <3> QED
      BY <3>1, WatcherAssumption DEF Elements, Unit
  <2>6. \A u \in Elements(buf) : Floor' < u
    <3>1. Floor' = Floor \/ Floor' = 0
      BY <2>1, <2>4 DEF Floor
    <3> QED
      BY <2>5, <3>1 DEF Ordered
  <2> QED
    BY <2>1, <2>2, <2>3, <2>6 DEF Ordered, Elements
<1>6. CASE Send
  BY <1>6, OrderedSend
<1>7. CASE OpenFails \/ StatFails
  <2>1. /\ hand = <<>> /\ buf = <<>> /\ UNCHANGED <<sent, hand, buf>>
        /\ since' = since \/ since' = Len(sent)
        /\ faults' # 0
    <3>1. UNCHANGED <<sent, hand, buf>> /\ faults' = faults + 1
          /\ (since' = since \/ since' = Len(sent)) /\ pc \in {"open", "seek", "check"}
      BY <1>7 DEF OpenFails, StatFails
    <3>2. hand = <<>> /\ buf = <<>>
      BY <3>1 DEF Typed, Hands
    <3>3. faults \in Nat
      BY WatcherAssumption DEF Typed, TypeOK
    <3> QED
      BY <3>1, <3>2, <3>3
  <2>2. Len(hand') = 0 /\ Len(buf') = 0 /\ Elements(hand') = {} /\ Elements(buf') = {}
    BY <2>1, NoElements, Empty
  <2>3. ForwardedOnce'
    <3>1. CASE since' = since
      BY <2>1, <3>1 DEF Ordered, ForwardedOnce
    <3>2. CASE since' = Len(sent)
      <4>1. Len(sent) \in Nat
        BY LenProperties DEF Typed, TypeOK
      <4>2. (since' + 1)..Len(sent') = {}
        BY <2>1, <3>2, <4>1
      <4> QED
        BY <4>2 DEF ForwardedOnce
    <3> QED
      BY <2>1, <3>1, <3>2
  <2> QED
    BY <2>2, <2>3 DEF Ordered, Elements
<1>8. CASE Disk
  <2>1. UNCHANGED reader
    BY <1>8 DEF Disk, Write, Rename, Create, Reopen, Truncate, tailer
  <2> QED
    BY <1>1, <2>1
<1>9. CASE Open \/ WaitFound \/ WaitTimesOut \/ Check
  <2>1. UNCHANGED reader
    BY <1>9 DEF Open, WaitFound, WaitTimesOut, Check
  <2> QED
    BY <1>1, <2>1
<1>10. CASE UNCHANGED vars
  BY <1>1, <1>10 DEF vars, tailer
<1> QED
  BY <1>2, <1>3, <1>4, <1>5, <1>6, <1>7, <1>8, <1>9, <1>10 DEF Next, Tailer

\* Whatever is renamed, truncated or missing, and however the writes fall: no
\* part of a line is forwarded twice or out of order from one os.Stat that fails
\* on a file that is there to the next, and none of the history if no call is
\* refused. For any number of refused calls, none included.
THEOREM NothingTwice == Spec => []ForwardedOnce
<1>1. Init => Ordered
  BY OrderedInit
<1>2. Typed /\ Ahead /\ Ordered /\ [Next]_vars => Ordered'
  BY OrderedStep
<1>3. Ordered => ForwardedOnce
  BY DEF Ordered
<1> QED
  BY <1>1, <1>2, <1>3, AlwaysTyped, AlwaysAhead, PTL DEF Spec
-----------------------------------------------------------------------------
(* Nothing is skipped *)

\* What was truncated stays so.
LEMMA TruncatedStays ==
  ASSUME TypeOK, Truncate
  PROVE  /\ \A i : WasTruncated(i) => WasTruncated(i)'
         /\ WasTruncated(path)'
<1>1. /\ truncated \in Seq(Inode) /\ path \in Inode /\ truncated' = Append(truncated, path)
      /\ path' = path
  BY DEF TypeOK, Truncate
<1>2. /\ Len(truncated) \in Nat /\ Len(truncated') = Len(truncated) + 1
      /\ \A k \in 1..Len(truncated) : truncated'[k] = truncated[k]
      /\ truncated'[Len(truncated) + 1] = path
  BY <1>1, Sent
<1>3. \A k \in 1..Len(truncated) : k \in 1..Len(truncated')
  BY <1>2
<1>4. Len(truncated) + 1 \in 1..Len(truncated')
  BY <1>2
<1> QED
  BY <1>1, <1>2, <1>3, <1>4 DEF WasTruncated, Elements

\* A step of the disk keeps what is in a file up to its size, if it truncates
\* another one or none.
LEMMA DiskKeeps ==
  ASSUME Typed, Disk, NEW i \in Inode, ~WasTruncated(i)'
  PROVE  /\ ~WasTruncated(i)
         /\ Size(i) \in Nat /\ Len(content'[i]) \in Nat /\ Size(i) <= Len(content'[i])
         /\ \A k \in 1..Size(i) : content'[i][k] = content[i][k]
<1>1. /\ TypeOK /\ Size(i) \in Nat /\ content[i] \in Seq(Unit)
  BY DiskTypes DEF Typed
<1>2. CASE \E n \in 1..2 : Write(n)
  <2>1. PICK n \in 1..2 : Write(n)
    BY <1>2
  <2>2. truncated' = truncated
    BY <2>1 DEF Write
  <2>3. CASE i = writing
    <3>1. Len(content'[i]) = Size(i) + n /\ \A k \in 1..Size(i) : content'[i][k] = content[i][k]
      BY <1>1, <2>1, <2>3, Written
    <3> QED
      BY <1>1, <2>2, <3>1 DEF WasTruncated, Elements
  <2>4. CASE i # writing
    <3>1. content'[i] = content[i]
      BY <1>1, <2>1, <2>4, Written
    <3> QED
      BY <1>1, <2>2, <3>1 DEF WasTruncated, Elements, Size
  <2> QED
    BY <2>3, <2>4
<1>3. CASE Truncate
  <2>1. path' = path
    BY <1>3 DEF Truncate
  <2>2. ~WasTruncated(i) /\ i # path
    BY <1>1, <1>3, <2>1, TruncatedStays
  <2>3. content'[i] = content[i]
    BY <1>1, <1>3, <2>2, Emptied
  <2> QED
    BY <1>1, <2>2, <2>3 DEF Size
<1>4. CASE Rename \/ Create \/ Reopen
  BY <1>1, <1>4 DEF Rename, Create, Reopen, WasTruncated, Elements, Size
<1> QED
  BY <1>2, <1>3, <1>4 DEF Disk

\* The position and what was read up to it.
Gapless == Sized /\ ReadsWithoutGaps

\* What was read or is being read of the file.
Read == Forwarded \cup Elements(hand) \cup Elements(buf)

\* A read adds to the buffer what it moves the position over.
LEMMA GaplessFill ==
  ASSUME Typed, Gapless, NEW n \in 1..MaxUnits, Fill(n)
  PROVE  Gapless'
<1> SUFFICES ASSUME ~WasTruncated(fd)
             PROVE  /\ start' <= pos' /\ pos' <= Size(fd)
                    /\ \A k \in (start' + 1)..pos' : content[fd][k] \in Read'
  <2>1. fd' = fd /\ truncated' = truncated /\ content' = content
    BY DEF Fill, disk
  <2>2. Forwarded' \cup Elements(hand') \cup Elements(buf') = Read'
    BY DEF Read, Forwarded, Elements
  <2>3. ~WasTruncated(fd)' => ~WasTruncated(fd)
    BY <2>1 DEF WasTruncated, Elements
  <2> QED
    BY <2>1, <2>2, <2>3 DEF Gapless, Sized, ReadsWithoutGaps, Read, Size
<1>1. TypeOK
  BY DEF Typed
<1>2. pos \in Nat /\ start \in Nat /\ n \in Nat
  BY <1>1, WatcherAssumption DEF TypeOK
<1>3. /\ pos' = pos + n /\ pos + n <= Size(fd)
      /\ Elements(buf') = Elements(buf) \cup {content[fd][k] : k \in (pos + 1)..(pos + n)}
  BY <1>1, Filled, Zenon
<1>4. pc = "read" /\ start' = start /\ UNCHANGED <<sent, hand>>
  BY DEF Fill
<1>5. Read' = Read \cup {content[fd][k] : k \in (pos + 1)..(pos + n)}
  <2>1. Forwarded' = Forwarded /\ Elements(hand') = Elements(hand)
    BY <1>4 DEF Forwarded, Elements
  <2>2. Read' = Forwarded' \cup Elements(hand') \cup Elements(buf')
    BY DEF Read, Elements
  <2> QED
    BY <1>3, <2>1, <2>2 DEF Read
<1>6. start <= pos /\ \A k \in (start + 1)..pos : content[fd][k] \in Read
  BY <1>4 DEF Gapless, Sized, ReadsWithoutGaps, Reading, Read
<1>7. start' <= pos' /\ pos' <= Size(fd)
  BY <1>2, <1>3, <1>4, <1>6
<1>8. \A k \in (start' + 1)..pos' : k \in (start + 1)..pos \/ k \in (pos + 1)..(pos + n)
  BY <1>2, <1>3, <1>4
<1> QED
  BY <1>5, <1>6, <1>7, <1>8

\* Every step keeps it so.
LEMMA GaplessStep ==
  ASSUME Typed, Gapless, [Next]_vars
  PROVE  Gapless'
<1>1. /\ TypeOK /\ Hands
  BY DEF Typed
<1>2. Read' = Forwarded' \cup Elements(hand') \cup Elements(buf')
  BY DEF Read, Elements
<1>3. CASE Disk
  <2>1. UNCHANGED <<pc, fd, pos, start, sent, hand, buf>>
    BY <1>3 DEF Disk, Write, Rename, Create, Reopen, Truncate, tailer, control, reader
  <2>2. Read' = Read
    BY <2>1 DEF Read, Forwarded, Elements
  <2>3. SUFFICES ASSUME pc \in Reading, ~WasTruncated(fd)'
                 PROVE  /\ start <= pos /\ pos <= Len(content'[fd])
                        /\ \A k \in (start + 1)..pos : content'[fd][k] \in Read
    BY <2>1, <2>2, <1>2 DEF Gapless, Sized, ReadsWithoutGaps, Read, Size, WasTruncated
  <2>4. fd \in Inode /\ pos \in Nat /\ start \in Nat
    BY <1>1, <2>3 DEF TypeOK
  <2>5. /\ ~WasTruncated(fd)
        /\ Size(fd) \in Nat /\ Len(content'[fd]) \in Nat /\ Size(fd) <= Len(content'[fd])
        /\ \A k \in 1..Size(fd) : content'[fd][k] = content[fd][k]
    <3>1. ASSUME NEW i \in Inode, ~WasTruncated(i)'
          PROVE  /\ ~WasTruncated(i)
                 /\ Size(i) \in Nat /\ Len(content'[i]) \in Nat /\ Size(i) <= Len(content'[i])
                 /\ \A k \in 1..Size(i) : content'[i][k] = content[i][k]
      BY <1>3, <3>1, DiskKeeps
    <3>2. ~(fd \in Elements(truncated'))
      BY <2>1, <2>3 DEF WasTruncated, Elements
    <3>3. \A i \in Inode : ~(i \in Elements(truncated')) =>
                 /\ ~WasTruncated(i)
                 /\ Size(i) \in Nat /\ Len(content'[i]) \in Nat /\ Size(i) <= Len(content'[i])
                 /\ \A k \in 1..Size(i) : content'[i][k] = content[i][k]
      BY <3>1 DEF WasTruncated, Elements
    <3> QED
      BY <2>4, <3>2, <3>3
  <2>6. start <= pos /\ pos <= Size(fd) /\ \A k \in (start + 1)..pos : content[fd][k] \in Read
    BY <2>3, <2>5 DEF Gapless, Sized, ReadsWithoutGaps, Read
  <2>7. \A k \in (start + 1)..pos : k \in 1..Size(fd)
    BY <2>4, <2>5, <2>6
  <2>8. pos <= Len(content'[fd])
    BY <2>4, <2>5, <2>6
  <2> QED
    BY <2>5, <2>6, <2>7, <2>8
<1>4. CASE Open \/ WaitFound \/ WaitTimesOut
  <2>1. pc' \notin Reading
    BY <1>4 DEF Open, WaitFound, WaitTimesOut, Reading
  <2> QED
    BY <2>1 DEF Gapless, Sized, ReadsWithoutGaps
<1>5. CASE Seek
  <2>1. /\ fd \in Inode /\ fd' = fd /\ content' = content /\ start' = pos'
        /\ pos' = IF seekEnd THEN Size(fd) ELSE 0
    BY <1>1, <1>5 DEF Seek, TypeOK, disk
  <2>2. Size(fd) \in Nat
    BY <1>1, <2>1, DiskTypes
  <2>3. pos' \in Nat /\ pos' <= Size(fd)
    BY <2>1, <2>2
  <2>4. start' <= pos' /\ \A k \in (start' + 1)..pos' : FALSE
    <3>1. \A x \in Nat : x <= x /\ \A k \in (x + 1)..x : FALSE
      OBVIOUS
    <3> QED
      BY <2>1, <2>3, <3>1, Zenon
  <2> QED
    BY <2>1, <2>3, <2>4 DEF Gapless, Sized, ReadsWithoutGaps, Size
<1>6. CASE \E n \in 1..MaxUnits : Fill(n)
  BY <1>6, GaplessFill
<1>7. CASE ReadLine \/ ReadEOF \/ Send
  <2>1. pc \in Reading /\ UNCHANGED <<content, truncated, fd, pos, start>>
    BY <1>7 DEF ReadLine, ReadEOF, Send, Reading, disk
  <2>2. Read' = Read
    <3>1. CASE ReadLine
      <4>1. hand = <<>> /\ sent' = sent
        BY <1>1, <3>1 DEF ReadLine, Hands
      <4>2. Forwarded' = Forwarded /\ Elements(hand) = {}
        BY <4>1, NoElements DEF Forwarded, Elements
      <4>3. Elements(buf) = Elements(hand') \cup Elements(buf')
        BY <1>1, <3>1, LineRead
      <4> QED
        BY <1>2, <4>2, <4>3 DEF Read
    <3>2. CASE ReadEOF
      <4>1. hand = <<>> /\ hand' = buf /\ buf' = <<>> /\ sent' = sent
        BY <1>1, <3>2 DEF ReadEOF, Hands
      <4>2. /\ Elements(hand) = {} /\ Elements(buf') = {} /\ Elements(hand') = Elements(buf)
        BY <4>1, NoElements
      <4>3. Forwarded' = Forwarded
        BY <4>1 DEF Forwarded, Elements
      <4> QED
        BY <1>2, <4>2, <4>3 DEF Read
    <3>3. CASE Send
      <4>1. hand' = <<>> /\ buf' = buf
        BY <3>3 DEF Send
      <4>2. Forwarded' = Forwarded \cup Elements(hand)
        BY <1>1, <3>3, PieceSent
      <4>3. Elements(hand') = {} /\ Elements(buf') = Elements(buf)
        BY <4>1, NoElements
      <4> QED
        BY <1>2, <4>2, <4>3 DEF Read
    <3> QED
      BY <1>7, <3>1, <3>2, <3>3
  <2>3. WasTruncated(fd)' = WasTruncated(fd) /\ Size(fd)' = Size(fd)
    BY <2>1 DEF WasTruncated, Elements, Size
  <2> QED
    BY <1>2, <2>1, <2>2, <2>3 DEF Gapless, Sized, ReadsWithoutGaps, Read, Size
<1>8. CASE Check
  <2>1. CASE checkRotation
    BY <1>8, <2>1 DEF Check, Gapless, Sized, ReadsWithoutGaps, Reading
  <2>2. CASE ~checkRotation
    <3>1. pc = "check" /\ fd' = fd /\ UNCHANGED <<disk, reader>>
      BY <1>8, <2>2 DEF Check
    <3> QED
      BY <3>1 DEF Gapless, Sized, ReadsWithoutGaps, Reading, disk, reader, Size,
                  WasTruncated, Forwarded, Elements
  <2> QED
    BY <2>1, <2>2
<1>10. CASE OpenFails \/ StatFails
  <2>1. pc' \notin Reading
    BY <1>10 DEF OpenFails, StatFails, Reading
  <2> QED
    BY <2>1 DEF Gapless, Sized, ReadsWithoutGaps
<1>9. CASE UNCHANGED vars
  BY <1>9 DEF vars, disk, tailer, control, reader, Gapless, Sized, ReadsWithoutGaps, Size,
              WasTruncated, Forwarded, Elements
<1> QED
  BY <1>3, <1>4, <1>5, <1>6, <1>7, <1>8, <1>9, <1>10 DEF Next, Tailer

\* Of a file that was not truncated the tailer skips nothing: what is before its
\* position was forwarded, or is in its hand or its buffer.
THEOREM NothingSkipped == Spec => []ReadsWithoutGaps
<1>1. Init => Gapless
  BY DEF Init, Gapless, Sized, ReadsWithoutGaps, Reading
<1>2. Typed /\ Gapless /\ [Next]_vars => Gapless'
  BY GaplessStep
<1>3. Gapless => ReadsWithoutGaps
  BY DEF Gapless
<1> QED
  BY <1>1, <1>2, <1>3, AlwaysTyped, PTL DEF Spec
-----------------------------------------------------------------------------
(* Pieces of one line *)

\* Of two units that follow each other one ends a line; if it is the second,
\* they are one line.
LEMMA Halves ==
  ASSUME NEW u \in Nat
  PROVE  /\ EndsLine(u) \/ EndsLine(u + 1)
         /\ ~EndsLine(u) => LineOf(u) = LineOf(u + 1)
<1>1. u % 2 = 0 \/ (u + 1) % 2 = 0
  OBVIOUS
<1>2. u % 2 # 0 => (u + 1) \div 2 = ((u + 1) + 1) \div 2
  OBVIOUS
<1> QED
  BY <1>1, <1>2 DEF EndsLine, LineOf

\* What is read from the start of the buffer up to its first newline, or up to
\* its end if it has none, is of one line.
LEMMA OneLine ==
  ASSUME NEW b \in Seq(Unit), \A k \in 1..Len(b) : b[k] = b[1] + k - 1,
         NEW k \in 0..Len(b), \A j \in 1..(k - 1) : ~EndsLine(b[j]),
         NEW s, Len(s) = k, \A j \in 1..k : s[j] = b[j]
  PROVE  \A u, v \in Elements(s) : LineOf(u) = LineOf(v)
<1>1. Len(b) \in Nat /\ \A j \in 1..Len(b) : b[j] \in Nat
  <2>1. \A j \in 1..Len(b) : b[j] \in Unit
    BY ElementOfSeq
  <2> QED
    BY <2>1, LenProperties DEF Unit
<1>2. k <= 2
  <2> SUFFICES ASSUME k > 2 PROVE FALSE
    BY <1>1
  <2>1. 1 \in 1..(k - 1) /\ 2 \in 1..(k - 1) /\ 1 \in 1..Len(b) /\ 2 \in 1..Len(b)
    BY <1>1
  <2>2. b[2] = b[1] + 2 - 1 /\ b[1] \in Nat
    BY <1>1, <2>1
  <2>3. b[2] = b[1] + 1
    BY <2>2
  <2>4. ~EndsLine(b[1]) /\ ~EndsLine(b[2])
    BY <2>1
  <2> QED
    BY <2>2, <2>3, <2>4, Halves
<1>3. k = 2 => LineOf(b[1]) = LineOf(b[2])
  <2> SUFFICES ASSUME k = 2 PROVE LineOf(b[1]) = LineOf(b[2])
    OBVIOUS
  <2>1. 1 \in 1..(k - 1) /\ 1 \in 1..Len(b) /\ 2 \in 1..Len(b)
    BY <1>1
  <2>2. b[2] = b[1] + 2 - 1 /\ b[1] \in Nat
    BY <1>1, <2>1
  <2>3. b[2] = b[1] + 1
    BY <2>2
  <2> QED
    BY <2>1, <2>2, <2>3, Halves
<1>4. \A i, j \in 1..k : LineOf(b[i]) = LineOf(b[j])
  <2>1. \A i \in 1..k : i = 1 \/ (i = 2 /\ k = 2)
    BY <1>1, <1>2
  <2> QED
    BY <1>3, <2>1
<1> QED
  BY <1>4 DEF Elements

\* At the start the first file holds the first units.
LEMMA UnbrokenInit == Init => Unbroken
<1> SUFFICES ASSUME Init PROVE Unbroken
  OBVIOUS
<1>1. /\ Typed /\ wrote \in Nat /\ path \in {NoFile, 1} /\ writing = path
      /\ hand = <<>> /\ sent = <<>> /\ pc = "open"
      /\ \A i \in Inode : content[i] = IF i = 1 THEN [u \in 1..wrote |-> u] ELSE <<>>
  BY TypeInit, WatcherAssumption DEF Init
<1>2. Len(<<>>) = 0 /\ Elements(<<>>) = {}
  BY Empty, NoElements
<1>3. Len([u \in 1..wrote |-> u]) = wrote /\ \A k \in 1..wrote : [u \in 1..wrote |-> u][k] = k
  BY <1>1
<1>4. \A i \in Inode : \/ i = 1 /\ Size(i) = wrote /\ \A k \in 1..wrote : content[i][k] = k
                       \/ i # 1 /\ Size(i) = 0
  BY <1>1, <1>2, <1>3 DEF Size
<1>5. ASSUME writing # NoFile, NEW k \in 1..Size(writing)
      PROVE  content[writing][k] = wrote - Size(writing) + k
  <2>1. writing = 1 /\ writing \in Inode
    BY <1>1, <1>5 DEF Typed, TypeOK
  <2>2. Size(writing) = wrote /\ content[writing][k] = k /\ k \in Nat
    BY <1>1, <1>4, <1>5, <2>1
  <2>3. wrote - wrote + k = k
    BY <1>1, <2>2
  <2> QED
    BY <2>2, <2>3
<1>6. ASSUME NEW i \in Inode, NEW k \in 1..Size(i) PROVE content[i][k] = content[i][1] + k - 1
  <2>1. i = 1 /\ Size(i) = wrote /\ \A m \in 1..wrote : content[i][m] = m
    BY <1>4
  <2>2. k \in 1..wrote /\ 1 \in 1..wrote
    BY <1>1, <2>1
  <2>3. content[i][1] = 1 /\ content[i][k] = k
    BY <2>1, <2>2
  <2> QED
    BY <2>2, <2>3
<1>7. pc \notin Reading
  BY <1>1 DEF Reading
<1>8. LinesNotGlued
  BY <1>1, <1>2 DEF LinesNotGlued
<1> QED
  BY <1>1, <1>2, <1>5, <1>6, <1>7, <1>8 DEF Unbroken

\* While nothing is truncated the disk only grows, one unit after the other.
LEMMA UnbrokenDisk ==
  ASSUME Typed, Unbroken, Disk
  PROVE  Unbroken'
<1>1. /\ TypeOK /\ DiskOK /\ Hands
  BY DEF Typed
<1>2. UNCHANGED <<pc, fd, pos, sent, hand, buf>>
  BY DEF Disk, Write, Rename, Create, Reopen, Truncate, tailer, control, reader
<1>3. SUFFICES ASSUME truncated' = <<>> PROVE Unbroken'
  BY DEF Unbroken
<1>4. truncated = <<>> /\ truncated' = truncated /\ ~Truncate
  <2>1. ASSUME Truncate PROVE FALSE
    <3>1. truncated \in Seq(Inode) /\ path \in Inode /\ truncated' = Append(truncated, path)
      BY <1>1, <2>1 DEF TypeOK, Truncate
    <3>2. truncated' # <<>>
      BY <3>1, Sent
    <3> QED
      BY <1>3, <3>2
  <2> QED
    BY <1>3, <2>1 DEF Disk, Write, Rename, Create, Reopen
<1>5. /\ writing \in 0..MaxFiles /\ fd \in 0..MaxFiles /\ inodes \in 0..MaxFiles
      /\ wrote \in Nat /\ pos \in Nat /\ offset \in Nat /\ MaxFiles \in Nat
      /\ \A i \in Inode : Size(i) \in Nat /\ \A k \in 1..Size(i) : content[i][k] \in Nat
  BY <1>1, DiskTypes
<1>6. /\ writing # NoFile =>
           \A k \in 1..Size(writing) : content[writing][k] = wrote - Size(writing) + k
      /\ \A i \in Inode : \A k \in 1..Size(i) : content[i][k] = content[i][1] + k - 1
      /\ pc \in Reading =>
           pos <= Size(fd) /\ \A k \in 1..Len(buf) : buf[k] = content[fd][pos - Len(buf) + k]
      /\ \A u, v \in Elements(hand) : LineOf(u) = LineOf(v)
      /\ LinesNotGlued
  BY <1>4 DEF Unbroken
<1>7. ASSUME NEW i \in Inode
      PROVE  /\ Len(content'[i]) \in Nat /\ Size(i) <= Len(content'[i])
             /\ \A k \in 1..Size(i) : content'[i][k] = content[i][k]
  <2>1. ~WasTruncated(i)'
    BY <1>3, Empty DEF WasTruncated, Elements
  <2> QED
    BY <2>1, DiskKeeps
<1>8. pc \in Reading =>
        /\ pos <= Len(content'[fd])
        /\ \A k \in 1..Len(buf) : buf[k] = content'[fd][pos - Len(buf) + k]
  <2> SUFFICES ASSUME pc \in Reading
               PROVE  /\ pos <= Len(content'[fd])
                      /\ \A k \in 1..Len(buf) : buf[k] = content'[fd][pos - Len(buf) + k]
    OBVIOUS
  <2>1. fd \in Inode
    BY <1>1 DEF TypeOK
  <2>2. /\ Len(buf) \in Nat /\ Len(hand) \in Nat /\ offset + Len(hand) + Len(buf) = pos
    BY <1>1, LenProperties DEF TypeOK, Hands
  <2>3. Len(buf) <= pos
    BY <1>5, <2>2
  <2>4. \A k \in 1..Len(buf) : pos - Len(buf) + k \in 1..Size(fd)
    BY <1>5, <1>6, <2>1, <2>2, <2>3
  <2>5. pos <= Size(fd) /\ Size(fd) \in Nat
    BY <1>5, <1>6, <2>1
  <2>6. pos <= Len(content'[fd])
    BY <1>5, <1>7, <2>1, <2>5
  <2> QED
    BY <1>6, <1>7, <2>1, <2>4, <2>6
<1>9. LinesNotGlued' /\ \A u, v \in Elements(hand)' : LineOf(u) = LineOf(v)
  BY <1>2, <1>4, <1>6 DEF LinesNotGlued, Elements, LineOf
<1>10. CASE \E n \in 1..2 : Write(n)
  <2>1. PICK n \in 1..2 : Write(n)
    BY <1>10
  <2>2. /\ writing \in Inode /\ wrote' = wrote + n /\ writing' = writing
        /\ \A i \in Inode : i # writing => content'[i] = content[i]
        /\ Len(content'[writing]) = Size(writing) + n
        /\ \A k \in 1..Size(writing) : content'[writing][k] = content[writing][k]
        /\ \A k \in 1..n : content'[writing][Size(writing) + k] = wrote + k
    BY <1>1, <2>1, Written DEF Write
  <2>3. ASSUME NEW k \in 1..Len(content'[writing])
        PROVE  content'[writing][k] = wrote' - Len(content'[writing]) + k
    <3>0. Size(writing) \in Nat /\ writing # NoFile
      BY <1>5, <2>2 DEF NoFile, Inode
    <3>1. wrote' - Len(content'[writing]) + k = wrote - Size(writing) + k
      BY <1>5, <2>2, <3>0
    <3>2. CASE k <= Size(writing)
      <4>1. k \in 1..Size(writing)
        BY <3>0, <3>2
      <4> QED
        BY <1>6, <2>2, <3>0, <3>1, <4>1
    <3>3. CASE ~(k <= Size(writing))
      <4>1. k - Size(writing) \in 1..n /\ Size(writing) + (k - Size(writing)) = k
        BY <2>2, <3>0, <3>3
      <4>2. content'[writing][k] = wrote + (k - Size(writing))
        BY <2>2, <4>1
      <4>3. wrote + (k - Size(writing)) = wrote - Size(writing) + k
        BY <1>5, <3>0, <4>1
      <4> QED
        BY <3>1, <4>2, <4>3
    <3> QED
      BY <3>2, <3>3
  <2>4. ASSUME NEW i \in Inode, NEW k \in 1..Len(content'[i])
        PROVE  content'[i][k] = content'[i][1] + k - 1
    <3>1. CASE i # writing
      BY <1>6, <2>2, <3>1 DEF Size
    <3>2. CASE i = writing
      <4>0. Len(content'[i]) \in Nat /\ wrote' \in Nat
        BY <1>5, <1>7, <2>2
      <4>1. k \in 1..Len(content'[i]) /\ 1 \in 1..Len(content'[i])
        BY <4>0
      <4>2. /\ content'[i][k] = wrote' - Len(content'[i]) + k
            /\ content'[i][1] = wrote' - Len(content'[i]) + 1
        BY <2>3, <3>2, <4>1
      <4>3. wrote' - Len(content'[i]) + k = wrote' - Len(content'[i]) + 1 + k - 1
        BY <4>0
      <4> QED
        BY <4>2, <4>3
    <3> QED
      BY <3>1, <3>2
  <2> QED
    BY <1>2, <1>8, <1>9, <2>2, <2>3, <2>4 DEF Unbroken, Size
<1>11. CASE Reopen
  <2>1. writing' = path /\ path \notin {NoFile, writing} /\ UNCHANGED <<content, wrote>>
    BY <1>11 DEF Reopen
  <2>2. path = inodes /\ path \in Inode /\ writing <= inodes
    BY <1>1, <2>1 DEF DiskOK, TypeOK
  <2>3. ~(path <= writing)
    BY <1>5, <2>1, <2>2
  <2>4. ~(Size(path) > 0)
    BY <1>1, <2>2, <2>3 DEF DiskOK
  <2>5. Size(path) = 0
    BY <1>5, <2>2, <2>4
  <2> QED
    BY <1>2, <1>6, <1>8, <1>9, <2>1, <2>5 DEF Unbroken, Size
<1>12. CASE Rename \/ Create
  <2>1. UNCHANGED <<content, writing, wrote>>
    BY <1>12 DEF Rename, Create
  <2> QED
    BY <1>2, <1>6, <1>8, <1>9, <2>1 DEF Unbroken, Size
<1> QED
  BY <1>4, <1>10, <1>11, <1>12 DEF Disk

\* A read goes on where the buffer ends.
LEMMA UnbrokenFill ==
  ASSUME Typed, Unbroken, NEW n \in 1..MaxUnits, Fill(n), truncated = <<>>
  PROVE  /\ pos' <= Size(fd)
         /\ \A k \in 1..Len(buf') : buf'[k] = content[fd][pos' - Len(buf') + k]
<1>1. TypeOK
  BY DEF Typed
<1>2. /\ fd \in Inode /\ Len(buf) \in Nat /\ pos' = pos + n /\ pos + n <= Size(fd)
      /\ Len(buf') = Len(buf) + n
      /\ \A k \in 1..Len(buf) : buf'[k] = buf[k]
      /\ \A k \in 1..n : buf'[Len(buf) + k] = content[fd][pos + k]
  BY <1>1, Filled, Zenon
<1>3. pos \in Nat /\ n \in Nat
  BY <1>1, WatcherAssumption DEF TypeOK
<1>4. \A k \in 1..Len(buf) : buf[k] = content[fd][pos - Len(buf) + k]
  BY DEF Unbroken, Fill, Reading
<1>5. ASSUME NEW k \in 1..Len(buf') PROVE buf'[k] = content[fd][pos' - Len(buf') + k]
  <2>1. pos' - Len(buf') + k = pos - Len(buf) + k
    BY <1>2, <1>3
  <2>2. CASE k <= Len(buf)
    <3>1. k \in 1..Len(buf)
      BY <1>2, <2>2
    <3> QED
      BY <1>2, <1>4, <2>1, <3>1
  <2>3. CASE ~(k <= Len(buf))
    <3>1. k - Len(buf) \in 1..n /\ Len(buf) + (k - Len(buf)) = k
      BY <1>2, <1>3, <2>3
    <3>2. pos + (k - Len(buf)) = pos - Len(buf) + k
      BY <1>2, <1>3, <3>1
    <3>3. buf'[Len(buf) + (k - Len(buf))] = content[fd][pos + (k - Len(buf))]
      BY <1>2, <3>1
    <3> QED
      BY <2>1, <3>1, <3>2, <3>3
  <2> QED
    BY <2>2, <2>3
<1> QED
  BY <1>2, <1>5

\* The buffer is a run of consecutive units.
LEMMA BufferRun ==
  ASSUME Typed, Unbroken, truncated = <<>>, pc \in Reading
  PROVE  \A k \in 1..Len(buf) : buf[k] = buf[1] + k - 1
<1>1. /\ TypeOK /\ Hands
  BY DEF Typed
<1>2. /\ fd \in Inode /\ pos \in Nat /\ offset \in Nat /\ Len(buf) \in Nat /\ Len(hand) \in Nat
      /\ offset + Len(hand) + Len(buf) = pos
  BY <1>1, LenProperties DEF TypeOK, Hands
<1>3. Size(fd) \in Nat /\ \A k \in 1..Size(fd) : content[fd][k] \in Nat
  <2>1. Size(fd) \in Nat /\ \A k \in 1..Size(fd) : content[fd][k] \in Unit
    BY <1>1, <1>2, DiskTypes
  <2> QED
    BY <2>1 DEF Unit
<1>4. /\ pos <= Size(fd) /\ \A k \in 1..Len(buf) : buf[k] = content[fd][pos - Len(buf) + k]
      /\ \A k \in 1..Size(fd) : content[fd][k] = content[fd][1] + k - 1
  BY <1>2 DEF Unbroken
<1>5. ASSUME NEW k \in 1..Len(buf) PROVE buf[k] = buf[1] + k - 1
  <2>1. /\ pos - Len(buf) + k \in 1..Size(fd) /\ pos - Len(buf) + 1 \in 1..Size(fd)
        /\ 1 \in 1..Size(fd) /\ 1 \in 1..Len(buf)
    BY <1>2, <1>3, <1>4
  <2>2. /\ buf[k] = content[fd][1] + (pos - Len(buf) + k) - 1
        /\ buf[1] = content[fd][1] + (pos - Len(buf) + 1) - 1
        /\ content[fd][1] \in Nat
    BY <1>3, <1>4, <2>1
  <2>3. content[fd][1] + (pos - Len(buf) + k) - 1
          = (content[fd][1] + (pos - Len(buf) + 1) - 1) + k - 1
    <3>1. \A a, x, j \in Int : a + (x + j) - 1 = (a + (x + 1) - 1) + j - 1
      OBVIOUS
    <3>2. content[fd][1] \in Int /\ pos - Len(buf) \in Int /\ k \in Int
      BY <1>2, <2>2
    <3> QED
      BY <3>1, <3>2
  <2> QED
    BY <2>2, <2>3
<1> QED
  BY <1>5

\* While nothing is truncated the tailer puts no two lines in one piece.
LEMMA UnbrokenTailer ==
  ASSUME Typed, Unbroken, Tailer
  PROVE  Unbroken'
<1>1. /\ TypeOK /\ Hands
  BY DEF Typed
<1>2. UNCHANGED disk
  BY DEF Tailer, Open, Seek, WaitFound, WaitTimesOut, Fill, ReadLine, ReadEOF, Send, Check,
         OpenFails, StatFails
<1>3. SUFFICES ASSUME truncated = <<>> PROVE Unbroken'
  BY <1>2 DEF Unbroken, disk
<1>4. /\ writing # NoFile =>
           \A k \in 1..Size(writing) : content[writing][k] = wrote - Size(writing) + k
      /\ \A i \in Inode : \A k \in 1..Size(i) : content[i][k] = content[i][1] + k - 1
      /\ pc \in Reading =>
           pos <= Size(fd) /\ \A k \in 1..Len(buf) : buf[k] = content[fd][pos - Len(buf) + k]
      /\ \A u, v \in Elements(hand) : LineOf(u) = LineOf(v)
      /\ LinesNotGlued
  BY <1>3 DEF Unbroken
<1>5. SUFFICES /\ pc' \in Reading =>
                    /\ pos' <= Len(content[fd'])
                    /\ \A k \in 1..Len(buf') : buf'[k] = content[fd'][pos' - Len(buf') + k]
               /\ \A u, v \in Elements(hand') : LineOf(u) = LineOf(v)
               /\ LinesNotGlued'
  <2>1. UNCHANGED <<content, writing, wrote>>
    BY <1>2 DEF disk
  <2> QED
    BY <1>4, <1>5, <2>1 DEF Unbroken, Size, Elements, LineOf
<1>6. sent' = sent => LinesNotGlued'
  BY <1>2, <1>4 DEF LinesNotGlued, disk
<1>7. CASE Open \/ WaitFound \/ WaitTimesOut \/ OpenFails \/ StatFails
  <2>1. pc' \notin Reading /\ UNCHANGED <<hand, sent>>
    BY <1>7 DEF Open, WaitFound, WaitTimesOut, OpenFails, StatFails, Reading, reader
  <2> QED
    BY <1>4, <1>6, <2>1
<1>8. CASE Seek
  <2>1. /\ fd \in Inode /\ fd' = fd /\ buf' = <<>> /\ UNCHANGED <<hand, sent>>
        /\ pos' = IF seekEnd THEN Size(fd) ELSE 0
    BY <1>1, <1>8 DEF Seek, TypeOK
  <2>2. Size(fd) \in Nat /\ Len(buf') = 0
    BY <1>1, <2>1, DiskTypes, Empty
  <2>3. pos' <= Size(fd)
    BY <2>1, <2>2
  <2> QED
    BY <1>4, <1>6, <2>1, <2>2, <2>3 DEF Size
<1>9. CASE \E n \in 1..MaxUnits : Fill(n)
  <2>1. PICK n \in 1..MaxUnits : Fill(n)
    BY <1>9
  <2>2. fd' = fd /\ hand' = hand /\ sent' = sent
    BY <2>1 DEF Fill
  <2>3. /\ pos' <= Size(fd)
        /\ \A k \in 1..Len(buf') : buf'[k] = content[fd][pos' - Len(buf') + k]
    BY <1>3, <2>1, UnbrokenFill
  <2> QED
    BY <1>4, <1>6, <2>2, <2>3 DEF Size
<1>10. CASE ReadLine
  <2>1. PICK k \in 1..Len(buf) :
          /\ EndsLine(buf[k]) /\ \A j \in 1..(k - 1) : ~EndsLine(buf[j])
          /\ Len(buf) \in Nat
          /\ Len(hand') = k /\ Len(buf') = Len(buf) - k
          /\ \A j \in 1..k : hand'[j] = buf[j]
          /\ \A j \in 1..(Len(buf) - k) : buf'[j] = buf[k + j]
    BY <1>1, <1>10, LineRead
  <2>2. pc = "read" /\ UNCHANGED <<fd, pos, sent>>
    BY <1>10 DEF ReadLine
  <2>3. pos \in Nat /\ buf \in Seq(Unit)
    BY <1>1 DEF TypeOK
  <2>4. \A j \in 1..Len(buf) : buf[j] = buf[1] + j - 1
    BY <1>3, <2>2, BufferRun DEF Reading
  <2>5. /\ buf \in Seq(Unit) /\ k \in 0..Len(buf)
        /\ \A j \in 1..(k - 1) : ~EndsLine(buf[j])
        /\ Len(hand') = k /\ \A j \in 1..k : hand'[j] = buf[j]
    BY <2>1, <2>3
  <2>6. \A u, v \in Elements(hand') : LineOf(u) = LineOf(v)
    BY <2>4, <2>5, OneLine, Zenon
  <2>7. ASSUME NEW j \in 1..Len(buf') PROVE buf'[j] = content[fd][pos - Len(buf') + j]
    <3>1. k + j \in 1..Len(buf) /\ j \in 1..(Len(buf) - k)
      BY <2>1
    <3>2. pos - Len(buf) + (k + j) = pos - Len(buf') + j
      BY <2>1, <2>3
    <3>3. buf[k + j] = content[fd][pos - Len(buf) + (k + j)]
      BY <1>4, <2>2, <3>1 DEF Reading
    <3> QED
      BY <2>1, <3>1, <3>2, <3>3
  <2> QED
    BY <1>4, <1>6, <2>2, <2>6, <2>7 DEF Reading, Size
<1>11. CASE ReadEOF
  <2>1. /\ pc = "read" /\ ~HasLine /\ hand' = buf /\ buf' = <<>> /\ UNCHANGED <<fd, pos, sent>>
    BY <1>11 DEF ReadEOF
  <2>2. buf \in Seq(Unit) /\ Len(buf) \in Nat
    BY <1>1, LenProperties DEF TypeOK
  <2>3. \A j \in 1..Len(buf) : buf[j] = buf[1] + j - 1
    BY <1>3, <2>1, BufferRun DEF Reading
  <2>4. Len(buf) \in 0..Len(buf) /\ \A j \in 1..(Len(buf) - 1) : j \in 1..Len(buf)
    BY <2>2
  <2>5. \A j \in 1..(Len(buf) - 1) : ~EndsLine(buf[j])
    BY <2>1, <2>4 DEF HasLine
  <2>6. \A u, v \in Elements(buf) : LineOf(u) = LineOf(v)
    BY <2>2, <2>3, <2>4, <2>5, OneLine
  <2>7. Len(buf') = 0
    BY <2>1, Empty
  <2> QED
    BY <1>4, <1>6, <2>1, <2>6, <2>7 DEF Reading, Size
<1>12. CASE Send
  <2>1. /\ Len(sent) \in Nat /\ Len(sent') = Len(sent) + 1
        /\ \A i \in 1..Len(sent) : sent'[i] = sent[i]
        /\ sent'[Len(sent) + 1] = hand
    BY <1>1, <1>12, PieceSent
  <2>2. pc \in Reading /\ hand' = <<>> /\ UNCHANGED <<fd, pos, buf>>
    BY <1>12 DEF Send, Reading
  <2>3. Elements(hand') = {}
    BY <2>2, NoElements
  <2>4. \A i \in 1..Len(sent') : i \in 1..Len(sent) \/ i = Len(sent) + 1
    BY <2>1
  <2>5. \A i \in 1..Len(sent) : \A u, v \in Elements(sent[i]) : LineOf(u) = LineOf(v)
    BY <1>3, <1>4 DEF LinesNotGlued
  <2>6. \A i \in 1..Len(sent') : \A u, v \in Elements(sent'[i]) : LineOf(u) = LineOf(v)
    BY <1>4, <2>1, <2>4, <2>5
  <2>7. LinesNotGlued'
    BY <2>6 DEF LinesNotGlued, Elements, LineOf
  <2> QED
    BY <1>4, <2>2, <2>3, <2>7 DEF Size
<1>13. CASE Check
  <2>1. pc = "check" /\ UNCHANGED reader /\ (pc' = "wait" \/ (pc' = "read" /\ fd' = fd))
    BY <1>13, Zenon DEF Check
  <2> QED
    BY <1>4, <1>6, <2>1 DEF reader, Reading, Size
<1> QED
  BY <1>7, <1>8, <1>9, <1>10, <1>11, <1>12, <1>13 DEF Tailer

\* Two lines never end up in one piece, however the file is written and however
\* it is renamed, while it is not truncated.
THEOREM NothingGlued == Spec => []LinesNotGlued
<1>1. Init => Unbroken
  BY UnbrokenInit
<1>2. Typed /\ Unbroken /\ [Next]_vars => Unbroken'
  <2> SUFFICES ASSUME Typed, Unbroken, [Next]_vars PROVE Unbroken'
    OBVIOUS
  <2>1. CASE Disk
    BY <2>1, UnbrokenDisk
  <2>2. CASE Tailer
    BY <2>2, UnbrokenTailer
  <2>3. CASE UNCHANGED vars
    BY <2>3 DEF vars, disk, tailer, control, reader, Unbroken, Size, LinesNotGlued, Elements, LineOf
  <2> QED
    BY <2>1, <2>2, <2>3 DEF Next
<1>3. Unbroken => LinesNotGlued
  BY DEF Unbroken, LinesNotGlued
<1> QED
  BY <1>1, <1>2, <1>3, AlwaysTyped, PTL DEF Spec
=============================================================================
