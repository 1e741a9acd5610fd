------------------------------ MODULE Watcher ------------------------------
(***************************************************************************)
(* One tailer: the goroutine tailLoop of internal/watcher, on one path.    *)
(* Around it a program that appends to its log file, a rotation tool that  *)
(* renames, recreates or truncates that file, and an operating system that *)
(* may refuse a call on a file that is there (no permission, no free file  *)
(* descriptor, an I/O error).                                              *)
(*                                                                         *)
(* A file is an inode and a sequence of units. Units are numbered as they  *)
(* are written; a line is two units, the second of which ends with the     *)
(* newline, so that a write, a read or a rotation can fall inside a line.  *)
(***************************************************************************)
EXTENDS Integers, Sequences

CONSTANTS
  MaxUnits,       \* bound: units written in all
  MaxFiles,       \* bound: inodes
  MaxTruncations, \* bound: uses of copytruncate
  MaxFaults       \* bound: refused calls

ASSUME WatcherAssumption ==
  /\ MaxUnits \in Nat
  /\ MaxFiles \in Nat \ {0}
  /\ MaxTruncations \in Nat
  /\ MaxFaults \in Nat

NoFile == 0
Inode == 1..MaxFiles

EndsLine(u) == u % 2 = 0
LineOf(u) == (u + 1) \div 2

VARIABLES
  path,      \* the inode under the watched name, or NoFile
  content,   \* the units in each inode
  inodes,    \* how many inodes were used so far
  writing,   \* the inode the program has open
  wrote,     \* how many units it has written
  truncated, \* the truncations so far, as a sequence of inodes
  pc,        \* where the tailer is
  seekEnd,   \* tailLoop: whether the next open skips the history
  fd,        \* the inode the tailer has open
  pos,       \* the position of its file descriptor
  buf,       \* read from the file, not yet returned by the bufio.Reader
  hand,      \* the line returned by ReadString
  offset,    \* tailUntilRotation's own count of the position
  sent,      \* what went to rawLines: a sequence of pieces of units
  start,     \* the position that the tailer began to read fd at
  history,   \* the last unit in the file when it was first to be opened
  faults,    \* how many calls were refused
  since,     \* how many pieces were sent when a refused call last sent the
             \* tailer back to the start of a file
  named      \* if fd lost its name: its size when that happened

disk == <<path, content, inodes, writing, wrote, truncated>>
control == <<pc, seekEnd, fd>>
reader == <<pos, buf, hand, offset, sent, start, history, faults, since>>
tailer == <<control, reader, named>>
vars == <<disk, tailer>>

Size(i) == Len(content[i])

\* At the start of the daemon the file may be missing, or hold some units.
Init ==
  /\ wrote \in 0..MaxUnits
  /\ path \in {NoFile, 1} /\ (path = NoFile => wrote = 0)
  /\ inodes = path /\ writing = path
  /\ content = [i \in Inode |-> IF i = 1 THEN [u \in 1..wrote |-> u] ELSE <<>>]
  /\ truncated = <<>>
  /\ pc = "open" /\ seekEnd = TRUE /\ fd = NoFile
  /\ pos = 0 /\ buf = <<>> /\ hand = <<>> /\ offset = 0
  /\ sent = <<>> /\ start = 0 /\ history = 0 /\ named = 0
  /\ faults = 0 /\ since = 0
-----------------------------------------------------------------------------
(* The disk *)

\* The program appends to the file it has open, whatever its name is now.
Write(n) ==
  /\ writing # NoFile
  /\ wrote + n <= MaxUnits
  /\ content' = [content EXCEPT ![writing] = @ \o [k \in 1..n |-> wrote + k]]
  /\ wrote' = wrote + n
  /\ UNCHANGED <<path, inodes, writing, truncated, tailer>>

\* The file is renamed (or removed).
Rename ==
  /\ path # NoFile
  /\ path' = NoFile
  /\ named' = IF path = fd THEN Size(path) ELSE named
  /\ UNCHANGED <<content, inodes, writing, wrote, truncated, control, reader>>

Create ==
  /\ path = NoFile
  /\ inodes < MaxFiles
  /\ inodes' = inodes + 1
  /\ path' = inodes + 1
  /\ UNCHANGED <<content, writing, wrote, truncated, tailer>>

\* The program reopens its log.
Reopen ==
  /\ path \notin {NoFile, writing}
  /\ writing' = path
  /\ UNCHANGED <<path, content, inodes, wrote, truncated, tailer>>

\* copytruncate: the copy is elsewhere, the file goes on empty.
Truncate ==
  /\ path # NoFile
  /\ Len(truncated) < MaxTruncations
  /\ content' = [content EXCEPT ![path] = <<>>]
  /\ truncated' = Append(truncated, path)
  /\ UNCHANGED <<path, inodes, writing, wrote, tailer>>
-----------------------------------------------------------------------------
(* tailLoop, waitForFile and the head of tailUntilRotation *)

\* Mutant: the error of os.Open is not looked at.
Open_Unchecked ==
  /\ pc = "open"
  /\ fd' = path
  /\ pc' = "seek"
  /\ UNCHANGED <<disk, seekEnd, reader, named>>

\* The file that is missing. It is not the history that is skipped next time.
Open ==
  /\ pc = "open"
  /\ fd' = path
  /\ IF path = NoFile
     THEN pc' = "wait" /\ seekEnd' = FALSE
     ELSE pc' = "seek" /\ seekEnd' = seekEnd
  /\ UNCHANGED <<disk, reader, named>>

\* The last unit of what the first open is to skip.
FirstSeen(i) == IF seekEnd /\ Size(i) > 0 THEN content[i][Size(i)] ELSE history

\* os.Open, f.Stat or f.Seek fails on a file that is there: the same return.
OpenFails ==
  /\ pc \in {"open", "seek"} /\ (pc = "open" => path # NoFile)
  /\ faults < MaxFaults
  /\ faults' = faults + 1
  /\ history' = FirstSeen(IF pc = "open" THEN path ELSE fd)
  /\ pc' = "wait" /\ seekEnd' = FALSE /\ fd' = NoFile
  /\ UNCHANGED <<disk, pos, buf, hand, offset, sent, start, since, named>>

Seek ==
  /\ pc = "seek"
  /\ pos' = (IF seekEnd THEN Size(fd) ELSE 0)
  /\ offset' = pos' /\ start' = pos'
  /\ history' = FirstSeen(fd)
  /\ buf' = <<>>
  /\ pc' = "read"
  /\ UNCHANGED <<disk, seekEnd, fd, hand, sent, faults, since, named>>

\* waitForFile saw the file, and slept a little more.
WaitFound ==
  /\ pc = "wait"
  /\ path # NoFile
  /\ pc' = "open"
  /\ UNCHANGED <<disk, seekEnd, fd, reader, named>>

\* reopenTimeout elapsed: tailLoop only logs it and tries to open all the same.
WaitTimesOut ==
  /\ pc = "wait"
  /\ pc' = "open"
  /\ UNCHANGED <<disk, seekEnd, fd, reader, named>>
-----------------------------------------------------------------------------
(* The read loop *)

HasLine == \E k \in 1..Len(buf) : EndsLine(buf[k])

\* ReadString asks the file for more: it gets some of what there is.
Fill(n) ==
  /\ pc = "read" /\ ~HasLine
  /\ pos + n <= Size(fd)
  /\ buf' = buf \o SubSeq(content[fd], pos + 1, pos + n)
  /\ pos' = pos + n
  /\ UNCHANGED <<disk, pc, seekEnd, fd, hand, offset, sent, start, history, faults, since, named>>

\* Mutant: everything buffered is taken for one line.
ReadLine_All ==
  /\ pc = "read" /\ HasLine
  /\ hand' = buf
  /\ buf' = <<>>
  /\ pc' = "send"
  /\ UNCHANGED <<disk, seekEnd, fd, pos, offset, sent, start, history, faults, since, named>>

\* Mutant: what is buffered beyond the line is forgotten.
ReadLine_Forgets ==
  /\ pc = "read" /\ HasLine
  /\ \E k \in 1..Len(buf) :
       /\ EndsLine(buf[k]) /\ \A j \in 1..(k - 1) : ~EndsLine(buf[j])
       /\ hand' = SubSeq(buf, 1, k)
       /\ buf' = <<>>
  /\ pc' = "send"
  /\ UNCHANGED <<disk, seekEnd, fd, pos, offset, sent, start, history, faults, since, named>>

ReadLine ==
  /\ pc = "read" /\ HasLine
  /\ \E k \in 1..Len(buf) :
       /\ EndsLine(buf[k]) /\ \A j \in 1..(k - 1) : ~EndsLine(buf[j])
       /\ hand' = SubSeq(buf, 1, k)
       /\ buf' = SubSeq(buf, k + 1, Len(buf))
  /\ pc' = "send"
  /\ UNCHANGED <<disk, seekEnd, fd, pos, offset, sent, start, history, faults, since, named>>

\* The end of the file, or a read error, which is not told from it: ReadString
\* returns what it has, newline or not.
ReadEOF ==
  /\ pc = "read" /\ ~HasLine
  /\ \/ pos >= Size(fd) /\ faults' = faults
     \/ faults < MaxFaults /\ faults' = faults + 1
  /\ hand' = buf
  /\ buf' = <<>>
  /\ pc' = IF buf = <<>> THEN "check" ELSE "sendlast"
  /\ UNCHANGED <<disk, seekEnd, fd, pos, offset, sent, start, history, since, named>>

\* The send to rawLines has room. Only at the end of the file is rotation checked.
Send ==
  /\ pc \in {"send", "sendlast"}
  /\ sent' = Append(sent, hand)
  /\ offset' = offset + Len(hand)
  /\ hand' = <<>>
  /\ pc' = IF pc = "send" THEN "read" ELSE "check"
  /\ UNCHANGED <<disk, seekEnd, fd, pos, buf, start, history, faults, since, named>>

\* Mutant: off by one in the comparison of the sizes.
checkRotation_NotLarger ==
  \/ path = NoFile
  \/ path # fd
  \/ Size(path) <= offset

\* Mutant: without os.SameFile.
checkRotation_SizeOnly ==
  \/ path = NoFile
  \/ Size(path) < offset

checkRotation ==
  \/ path = NoFile
  \/ path # fd
  \/ Size(path) < offset

\* After a rotation the file is closed without another read.
Check ==
  /\ pc = "check"
  /\ IF checkRotation
     THEN pc' = "wait" /\ fd' = NoFile /\ seekEnd' = FALSE /\ named' = 0
     ELSE pc' = "read" /\ UNCHANGED <<fd, seekEnd, named>>
  /\ UNCHANGED <<disk, reader>>

\* Any error of os.Stat is taken for a file that is gone, here for one that is
\* neither gone nor rotated.
StatFails ==
  /\ pc = "check" /\ ~checkRotation
  /\ faults < MaxFaults
  /\ faults' = faults + 1
  /\ since' = Len(sent)
  /\ pc' = "wait" /\ fd' = NoFile /\ seekEnd' = FALSE /\ named' = 0
  /\ UNCHANGED <<disk, pos, buf, hand, offset, sent, start, history>>
-----------------------------------------------------------------------------
Disk == (\E n \in 1..2 : Write(n)) \/ Rename \/ Create \/ Reopen \/ Truncate

Tailer ==
  \/ Open \/ Seek \/ WaitFound \/ WaitTimesOut
  \/ \E n \in 1..MaxUnits : Fill(n)
  \/ ReadLine \/ ReadEOF \/ Send \/ Check
  \/ OpenFails \/ StatFails

Next == Disk \/ Tailer

Spec == Init /\ [][Next]_vars

\* The tailer is a goroutine of its own and goes on while rawLines has room,
\* as Pipeline shows it will. Nothing is assumed of the disk.
FairSpec == Spec /\ WF_vars(Tailer)
-----------------------------------------------------------------------------
(* Properties *)

Unit == 1..MaxUnits

Reading == {"read", "send", "sendlast", "check"}

TypeOK ==
  /\ path \in Inode \cup {NoFile} /\ writing \in Inode \cup {NoFile}
  /\ content \in [Inode -> Seq(Unit)]
  /\ inodes \in 0..MaxFiles /\ wrote \in 0..MaxUnits
  /\ truncated \in Seq(Inode) /\ Len(truncated) <= MaxTruncations
  /\ pc \in Reading \cup {"open", "seek", "wait"}
  /\ seekEnd \in BOOLEAN
  /\ fd \in Inode \cup {NoFile}
  /\ fd # NoFile <=> pc \in Reading \cup {"seek"}
  /\ pos \in Nat /\ offset \in Nat /\ start \in Nat /\ named \in 0..MaxUnits
  /\ buf \in Seq(Unit) /\ hand \in Seq(Unit) /\ sent \in Seq(Seq(Unit))
  /\ history \in 0..MaxUnits
  /\ faults \in 0..MaxFaults /\ since \in 0..Len(sent)

Elements(s) == {s[k] : k \in 1..Len(s)}

Forwarded == UNION {Elements(sent[i]) : i \in 1..Len(sent)}

WasTruncated(i) == i \in Elements(truncated)

\* However often the file is rotated, truncated or missing, no part of a line
\* is forwarded twice or out of order, and none of the history. Errors on a file
\* that is there break this in two ways. A first open that fails makes the
\* second one replay the history, so that part is said without errors only. An
\* os.Stat that fails makes the tailer read the file again from its start; from
\* one such os.Stat to the next it still repeats nothing.
ForwardedOnce ==
  \A i \in (since + 1)..Len(sent) : \A a \in 1..Len(sent[i]) :
    /\ faults = 0 => sent[i][a] > history
    /\ \A j \in (since + 1)..Len(sent) : \A b \in 1..Len(sent[j]) :
         (i < j \/ (i = j /\ a < b)) => sent[i][a] < sent[j][b]

\* Of a file that was not truncated the tailer has skipped nothing up to its
\* position, although what it read waits in a buffer while it sends.
ReadsWithoutGaps ==
  pc \in Reading /\ ~WasTruncated(fd) =>
    \A k \in (start + 1)..pos :
      content[fd][k] \in Forwarded \cup Elements(hand) \cup Elements(buf)

\* Two lines never end up in one piece, unless the file is truncated and grows
\* past the tailer's position while half a line is in the buffer. (Half a line
\* in a piece is common: ReadString returns it at the end of the file.)
LinesNotGlued ==
  truncated = <<>> =>
    \A i \in 1..Len(sent) : \A u, v \in Elements(sent[i]) : LineOf(u) = LineOf(v)

\* What is written to the file that keeps the name is forwarded in the end:
\* every rename is noticed, even when the new file is missing for longer than
\* the timeout.
InFile(u) == path # NoFile /\ u \in Elements(content[path])

FollowsFile ==
  \A u \in Unit :
    (pc \in Reading \/ ~seekEnd) /\ InFile(u) /\ u > history
      ~> u \in Forwarded \/ ~InFile(u) \/ WasTruncated(path)

\* What the package comment says of rotation by rename: when the tailer leaves
\* a file that has lost its name, it has forwarded all that was written to it
\* while it had the name.
RenameLosesNothing ==
  [][ pc = "check" /\ pc' = "wait" /\ ~WasTruncated(fd)
        => \A k \in (start + 1)..named : content[fd][k] \in Forwarded ]_vars
=============================================================================
