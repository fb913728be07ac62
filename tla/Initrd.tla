------------------------------- MODULE Initrd -------------------------------
(***************************************************************************)
(* The initial ramdisk, from the image the host tool writes                *)
(* (initrd/make_initrd.c) through initialise_initrd and the operations of  *)
(* kernel/initrd.c behind the file system interface of kernel/vfs.c, to    *)
(* the clients in kernel/jslk.c: the listing of a directory, open, which   *)
(* shows a file page by page and waits for the Enter key in between, and   *)
(* vfsLog.  The keyboard interrupt stores every byte in the scancode that  *)
(* read_key looks at.                                                      *)
(***************************************************************************)
EXTENDS Integers, Sequences

CONSTANTS
  Lengths,        \* lengths of the files, in the order of the ramdisk
  Headers,        \* the bytes of the image before its first file
  Location,       \* where GRUB put the image
  Room,           \* bytes of the memory behind the image
  LogFile,        \* number of "initrd/log.txt"
  LogSizes,       \* lengths of the messages given to vfsLog
  BufSize,        \* 256
  WordSize,       \* 2^32
  Tails,          \* what may follow a name in memory that kmalloc returned
  Keys            \* keys the user presses

Before[n \in 0..Len(Lengths)] ==      \* bytes of the first n files
  IF n = 0 THEN 0 ELSE Before[n - 1] + Lengths[n]
Files == 0..(Len(Lengths) - 1)
Start(i) == Headers + Before[i]      \* its offset in the image
None == -1
Dev == -2                   \* the directory "dev"
Root == -3
Named(i) == <<i, "zero">>   \* the name of node i, terminated where it should be

ASSUME DiskParameters ==
  /\ Lengths \in Seq(Nat) /\ Len(Lengths) > 0
  /\ LogFile \in Files /\ LogSizes \subseteq Nat \ {0}
  /\ BufSize \in Nat \ {0}
  /\ Headers \in Nat /\ Location \in Nat /\ Room \in Nat
  /\ WordSize \in Nat /\ Len(Lengths) < WordSize
  /\ Location + Headers + Before[Len(Lengths)] + BufSize < WordSize
  /\ \A s, t \in LogSizes : Location + Start(LogFile) + s + t < WordSize
  /\ "zero" \in Tails
  /\ "enter" \in Keys /\ "release" \notin Keys

VARIABLES
  disk,           \* the bytes of the ramdisk's files in memory, and those behind
  header,         \* file_headers: [offset, length]
  tail,           \* what strcpy left behind the name of each node
  eof,            \* eof of each node
  openOps,        \* what kmalloc left in the volume's open and close
  pc,             \* the thread: "mount", "idle", "list", "read", "wait", "crash"
  dir,            \* the directory being listed
  file,           \* open's fsnode
  bread,          \* open's bread
  printed,        \* history: what open has printed
  entry,          \* index of the listing
  listed,         \* history: what the listing has printed
  logOffset,
  scancode        \* last byte of the keyboard
vars == <<disk, header, tail, eof, openOps, pc, file, bread, printed, dir, entry, listed,
          logOffset, scancode>>
store == <<disk, header, tail, openOps, logOffset>>
opening == <<file, bread, printed>>
listing == <<dir, entry, listed>>

Length(i) == Lengths[i + 1]
Byte(i, k) == [file |-> i, at |-> k]
Word(n) == n % WordSize

HasByte(i, a) == Location + Start(i) <= a /\ a < Location + Start(i) + Length(i)
AsLoaded(a) ==              \* a file's byte, or what lies behind the image
  IF \E i \in Files : HasByte(i, a)
  THEN LET i == CHOOSE i \in Files : HasByte(i, a) IN Byte(i, a - Location - Start(i))
  ELSE Byte(Len(Lengths), a)

(***************************************************************************)
(* make_initrd: the number of files, their headers, and the files one      *)
(* behind the other, with an offset from the start of the image.  GRUB     *)
(* loads it at Location; nodes and volume come from kmalloc and hold       *)
(* whatever that memory did: strcpy copies no terminator, so that a name   *)
(* ends where the memory happened to be zero, and eof, open and close are  *)
(* never written.                                                          *)
(***************************************************************************)
Init ==
  /\ header = [i \in Files |-> [offset |-> Start(i), length |-> Length(i)]]
  /\ disk = [a \in (Location + Headers)..(Location + Headers + Before[Len(Lengths)] + Room - 1) |->
       AsLoaded(a)]
  /\ tail \in [Files -> Tails] /\ openOps \in Tails
  /\ eof \in {[i \in Files |-> leftover] : leftover \in BOOLEAN}
  /\ pc = "mount" /\ file = 0 /\ bread = 0 /\ printed = <<>>
  /\ dir = Root /\ entry = 0 /\ listed = <<>>
  /\ logOffset = 0
  /\ scancode = "release"

(* initialise_initrd: offsets become addresses, and each header a node.    *)
Located(h) == [h EXCEPT !.offset = Word(@ + Location)]
Mount ==
  /\ pc = "mount" /\ pc' = "idle"
  /\ header' = [i \in Files |-> Located(header[i])]
  /\ UNCHANGED <<disk, tail, openOps, logOffset, eof, opening, listing, scancode>>

-----------------------------------------------------------------------------
(* initrd_read: the bytes read, and whether they reach the end.            *)
ReadSizeUnclipped(i, offset, size) == IF offset > header[i].length THEN 0 ELSE size
ReadSizeWholePages(i, offset, size) ==
  IF offset > header[i].length \/ Word(offset + size) > header[i].length THEN 0 ELSE size
ReadSize(i, offset, size) ==
  IF offset > header[i].length THEN 0
  ELSE IF Word(offset + size) > header[i].length THEN header[i].length - offset
  ELSE size
ReadBytes(i, offset, n) == [k \in 1..n |-> disk[header[i].offset + offset + k - 1]]
ReachesEnd(i, offset, n) == offset <= header[i].length /\ Word(offset + n) >= header[i].length

(* initrd_write: no limit at the file's length, and the new length stays   *)
(* in a local copy of the header.                                          *)
Write(i, offset, size) ==
  /\ disk' = [a \in DOMAIN disk |->
       IF a \in (header[i].offset + offset)..(header[i].offset + offset + size - 1)
       THEN Byte(None, a) ELSE disk[a]]
  /\ eof' = [eof EXCEPT ![i] = Word(offset + size) >= header[i].length]
  /\ UNCHANGED header

(* initrd_finddir: "dev" in the root, or the first file whose name,        *)
(* whatever follows it included, is the one asked for.  initrd_readdir:    *)
(* "dev" first in the root, then the files; index - 1 wraps at zero.       *)
(* finddir_fs and readdir_fs find nothing in a node that is no directory.  *)
IsDirectory(node) == node \in {Root, Dev}
NameOf(i) == <<i, tail[i]>>
FindDir(node, name) ==
  IF ~IsDirectory(node) THEN None
  ELSE IF node = Root /\ name = Named(Dev) THEN Dev
  ELSE IF \E i \in Files : NameOf(i) = name
       THEN CHOOSE i \in Files : NameOf(i) = name /\ \A j \in Files : NameOf(j) = name => i <= j
       ELSE None
ReadDirOfAny(node, n) ==
  IF ~IsDirectory(node) THEN Named(None)
  ELSE IF n = 0 THEN Named(Dev)
  ELSE IF n > Len(Lengths) THEN Named(None) ELSE NameOf(n - 1)
ReadDir(node, n) ==
  IF ~IsDirectory(node) THEN Named(None)
  ELSE IF node = Root /\ n = 0 THEN Named(Dev)
  ELSE IF Word(n - 1) >= Len(Lengths) THEN Named(None) ELSE NameOf(n - 1)

-----------------------------------------------------------------------------
(* kernel_main's listing, of any node: name and first page of each entry,   *)
(* which is looked up in the directory.                                    *)
ListStart(node) ==
  /\ pc = "idle"
  /\ pc' = "list" /\ dir' = node /\ entry' = 0 /\ listed' = <<>>
  /\ UNCHANGED <<store, eof, opening, scancode>>
ListEnd ==
  /\ pc = "list" /\ ReadDir(dir, entry) = Named(None)
  /\ pc' = "idle"
  /\ UNCHANGED <<store, eof, opening, listing, scancode>>
ListEntry ==
  LET name == ReadDir(dir, entry)
      i    == FindDir(dir, name)
      n    == ReadSize(i, 0, BufSize)
  IN /\ pc = "list" /\ name # Named(None)
     /\ UNCHANGED <<store, opening, dir, scancode>>
     /\ CASE i = None -> pc' = "crash" /\ UNCHANGED <<eof, entry, listed>>
          [] i = Dev  -> /\ listed' = Append(listed, <<Dev, <<>>>>)
                         /\ entry' = entry + 1 /\ UNCHANGED <<eof, pc>>
          [] OTHER    -> /\ listed' = Append(listed, <<i, ReadBytes(i, 0, n)>>)
                         /\ eof' = [eof EXCEPT ![i] = ReachesEnd(i, 0, n)]
                         /\ entry' = entry + 1 /\ UNCHANGED pc

(* open(name): look the file up, then show a page and wait, and so on.     *)
Open(i) ==
  /\ pc = "idle"
  /\ IF FindDir(Root, Named(i)) = None THEN UNCHANGED <<pc, opening>>
     ELSE pc' = "read" /\ file' = FindDir(Root, Named(i)) /\ bread' = 0 /\ printed' = <<>>
  /\ UNCHANGED <<store, eof, listing, scancode>>
ShowPage ==
  LET n == ReadSize(file, bread, BufSize)
  IN /\ pc = "read" /\ bread < header[file].length
     /\ printed' = printed \o ReadBytes(file, bread, n)
     /\ eof' = [eof EXCEPT ![file] = ReachesEnd(file, bread, n)]
     /\ bread' = bread + n
     /\ pc' = "wait"
     /\ UNCHANGED <<store, file, listing, scancode>>
(* while (read_key() != 0): over once a poll finds Enter in the scancode.  *)
Continue ==
  /\ pc = "wait" /\ scancode = "enter"
  /\ pc' = "read"
  /\ UNCHANGED <<store, eof, opening, listing, scancode>>
OpenEnd ==
  /\ pc = "read" /\ bread >= header[file].length
  /\ pc' = "idle"
  /\ UNCHANGED <<store, eof, opening, listing, scancode>>

(* vfsLog: the offset becomes the size of the last message.                *)
VfsLogAdvances(size) ==
  /\ pc = "idle" /\ FindDir(Root, Named(LogFile)) # None
  /\ Write(LogFile, logOffset, size)
  /\ logOffset' = IF logOffset < WordSize THEN logOffset + size ELSE logOffset
  /\ UNCHANGED <<tail, openOps, pc, opening, listing, scancode>>
VfsLog(size) ==
  /\ pc = "idle" /\ FindDir(Root, Named(LogFile)) # None
  /\ Write(LogFile, logOffset, size)
  /\ logOffset' = size
  /\ UNCHANGED <<tail, openOps, pc, opening, listing, scancode>>

(* open_fs and close_fs call what is in the volume, unless it is zero.     *)
OpenOrCloseFs ==
  /\ pc = "idle"
  /\ pc' = IF openOps = "zero" THEN "idle" ELSE "crash"
  /\ UNCHANGED <<store, eof, opening, listing, scancode>>

(* The user: a key goes down, or up.                                       *)
Press(key) ==
  /\ scancode' = key
  /\ UNCHANGED <<store, eof, pc, opening, listing>>
Release ==
  /\ scancode' = "release"
  /\ UNCHANGED <<store, eof, pc, opening, listing>>

ThreadStep == Mount \/ ListEntry \/ ListEnd \/ ShowPage \/ OpenEnd
Next ==
  \/ (\E node \in {Root, Dev} \union Files : ListStart(node)) \/ OpenOrCloseFs
  \/ (\E i \in Files : Open(i)) \/ (\E size \in LogSizes : VfsLog(size))
  \/ ThreadStep \/ Continue
  \/ Release \/ \E key \in Keys : Press(key)

(***************************************************************************)
(* The thread goes on; the user presses Enter time and again; and a key    *)
(* stays down far longer than one turn of the polling loop takes.          *)
(***************************************************************************)
Spec == /\ Init /\ [][Next]_vars
        /\ WF_vars(ThreadStep) /\ WF_vars(Press("enter")) /\ SF_vars(Continue)

-----------------------------------------------------------------------------
Contents(i) == [k \in 1..Length(i) |-> disk[Location + Start(i) + k - 1]]

(* open shows the file from its first byte to its last, each byte once,     *)
(* whatever its length and the size of the buffer, and leaves a file that   *)
(* is not empty at its end of file, which kernel_main prints (jslk.c:32-43, *)
(* 101-103, initrd.c:132-146).                                              *)
OpenShowsFile ==
  [][pc = "read" /\ pc' = "idle" =>
       printed = Contents(file) /\ (Length(file) > 0 => eof[file])]_vars

(* The listing of the root names "dev" and then every file once, with the   *)
(* start of its contents, and finds each name it is given, terminated or    *)
(* not; of "dev", which shares the root's operations, and of a file it is   *)
(* empty (jslk.c:76-99, initrd.c:161-190, vfs.c:31-43).                     *)
Entry(i) == <<i, SubSeq(Contents(i), 1, IF BufSize < Length(i) THEN BufSize ELSE Length(i))>>
ListsEachFile ==
  [][pc = "list" /\ pc' # "list" =>
       /\ pc' = "idle"
       /\ listed = IF dir # Root THEN <<>>
                   ELSE <<<<Dev, <<>>>>>> \o [k \in 1..Len(Lengths) |-> Entry(k - 1)]]_vars

(* However often messages are logged, only the bytes behind the log's start *)
(* change, and of them no more than any two messages take, although         *)
(* initrd_write knows no limit and the log that the image ends with is      *)
(* empty (Makefile:54): what vfsLog keeps is the length of the last message *)
(* and no sum (initrd.c:148-159, jslk.c:54).                                *)
LogConfined ==
  LET start == Location + Start(LogFile)
  IN \A a \in DOMAIN disk :
       a < start \/ (\A s, t \in LogSizes : a >= start + s + t) => disk[a] = AsLoaded(a)

(* open returns when the user keeps pressing Enter; one held Enter may      *)
(* satisfy several of its prompts (jslk.c:40-41).                           *)
OpenReturns == pc = "read" ~> pc = "idle"
=============================================================================
