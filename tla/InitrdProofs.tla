----------------------------- MODULE InitrdProofs -----------------------------
(***************************************************************************)
(* What holds of the initial ramdisk, its listing, open and vfsLog for any *)
(* files, any place in memory, any size of open's buffer and any messages. *)
(***************************************************************************)
EXTENDS Initrd, Induction, SequenceTheorems

N == Len(Lengths)
Addresses == (Location + Headers)..(Location + Headers + Before[N] + Room - 1)
At(i, k) == Location + Start(i) + k - 1      \* where byte k of file i lies

-----------------------------------------------------------------------------
(* The files lie one behind the other: make_initrd adds up their lengths    *)
(* (make_initrd.c:23-38), so that no two of them overlap.                   *)
LEMMA BeforeDefined ==
  /\ Before \in [0..N -> Nat] /\ Before[0] = 0
  /\ \A k \in 1..N : Before[k] = Before[k - 1] + Lengths[k]
<1> DEFINE G == [kx \in (1..N) \X Nat |-> kx[2] + Lengths[kx[1]]]
<1>1. N \in Nat /\ \A k \in 1..N : Lengths[k] \in Nat
  BY DiskParameters DEF N
<1>2. G \in [(1..N) \X Nat -> Nat]
  BY <1>1
<1>3. PICK g \in [0..N -> Nat] : SolvesRecursion(g, N, 0, G)
  <2>1. 0 \in Nat /\ G \in StepFunctions(N, Nat)
    BY <1>2 DEF StepFunctions
  <2> HIDE DEF G
  <2> QED BY <1>1, <2>1, RecursionSolved
<1>4. \A k \in 1..N : g[k] = g[k - 1] + Lengths[k]
  <2> SUFFICES ASSUME NEW k \in 1..N PROVE g[k] = g[k - 1] + Lengths[k]
    OBVIOUS
  <2>1. k - 1 \in 0..N
    BY <1>1
  <2>2. <<k, g[k - 1]>> \in (1..N) \X Nat
    BY <2>1
  <2>3. g[k] = G[<<k, g[k - 1]>>]
    BY <1>3 DEF SolvesRecursion
  <2> QED BY <2>2, <2>3
<1>5. g = [n \in 0..N |-> IF n = 0 THEN 0 ELSE g[n - 1] + Lengths[n]]
  <2>1. \A n \in 0..N : n # 0 => n \in 1..N
    BY <1>1
  <2> QED BY <1>3, <1>4, <2>1 DEF SolvesRecursion
<1>6. Before = [n \in 0..N |-> IF n = 0 THEN 0 ELSE Before[n - 1] + Lengths[n]]
  BY <1>5 DEF Before, N
<1>7. \A k \in 1..N : Before[k] = Before[k - 1] + Lengths[k]
  <2>1. \A k \in 1..N : k \in 0..N /\ k # 0
    BY <1>1
  <2> QED BY <1>6, <2>1
<1>8. Before[0] = 0
  BY <1>1, <1>6
<1>9. \A k \in 0..N : Before[k] \in Nat
  <2> DEFINE P == {k \in 0..N : Before[k] \in Nat}
  <2>1. 0 \in P
    BY <1>1, <1>8
  <2>2. ASSUME NEW k \in 0..(N - 1), k \in P PROVE k + 1 \in P
    <3>1. k + 1 \in 1..N /\ k + 1 - 1 = k /\ k + 1 \in 0..N
      BY <1>1
    <3>2. Lengths[k + 1] \in Nat
      BY <1>1, <3>1
    <3>3. Before[k + 1] = Before[k] + Lengths[k + 1]
      BY <1>7, <3>1
    <3>4. Before[k + 1] \in Nat
      BY <2>2, <3>2, <3>3
    <3> QED BY <3>1, <3>4
  <2>3. 0..N \subseteq P
    <3> HIDE DEF P
    <3> QED BY <1>1, <2>1, <2>2, UpTo
  <2> QED BY <2>3
<1> QED BY <1>6, <1>7, <1>8, <1>9

LEMMA BeforeGrows ==
  ASSUME NEW j \in 0..N, NEW i \in 0..j
  PROVE  Before[i] <= Before[j]
<1>1. N \in Nat /\ \A k \in 1..N : Lengths[k] \in Nat
  BY DiskParameters DEF N
<1> DEFINE P == {k \in 0..N : \A l \in 0..k : Before[l] <= Before[k]}
<1>2. 0 \in P
  BY <1>1, BeforeDefined
<1>3. ASSUME NEW k \in 0..(N - 1), k \in P PROVE k + 1 \in P
  <2>1. k + 1 \in 1..N /\ k + 1 - 1 = k /\ k \in 0..N
    BY <1>1
  <2>2. Before[k + 1] = Before[k] + Lengths[k + 1] /\ Lengths[k + 1] \in Nat
    BY <1>1, <2>1, BeforeDefined
  <2>3. ASSUME NEW l \in 0..(k + 1) PROVE Before[l] <= Before[k + 1]
    <3>1. Before[l] \in Nat /\ Before[k] \in Nat /\ Before[k + 1] \in Nat
      <4>1. l \in 0..N /\ k + 1 \in 0..N
        BY <1>1, <2>1
      <4> QED BY <2>1, <4>1, BeforeDefined
    <3>2. CASE l = k + 1
      BY <3>1, <3>2
    <3>3. CASE l # k + 1
      <4>1. l \in 0..k
        BY <2>1, <3>3
      <4>2. Before[l] <= Before[k]
        BY <1>3, <4>1
      <4> QED BY <2>2, <3>1, <4>2
    <3> QED BY <3>2, <3>3
  <2> QED BY <2>1, <2>3
<1>4. 0..N \subseteq P
  <2> HIDE DEF P
  <2> QED BY <1>1, <1>2, <1>3, UpTo
<1> QED BY <1>4

(* A file's range, and where it lies to that of another file.               *)
LEMMA FileRange ==
  ASSUME NEW i \in Files
  PROVE  /\ i \in 0..N /\ i + 1 \in 1..N /\ i + 1 \in 0..N
         /\ Length(i) \in Nat /\ Start(i) \in Nat /\ Before[N] \in Nat
         /\ Start(i) = Headers + Before[i]
         /\ Start(i) + Length(i) = Headers + Before[i + 1]
         /\ Start(i) + Length(i) <= Headers + Before[N]
         /\ \A k \in 1..Length(i) : At(i, k) \in Addresses
<1>1. N \in Nat /\ (\A k \in 1..N : Lengths[k] \in Nat) /\ Headers \in Nat /\ Location \in Nat
      /\ Room \in Nat
  BY DiskParameters DEF N
<1>2. i \in 0..N /\ i + 1 \in 1..N /\ i + 1 \in 0..N /\ i + 1 - 1 = i
  BY <1>1 DEF Files, N
<1>3. Before[i + 1] = Before[i] + Lengths[i + 1] /\ Before[i] \in Nat /\ Before[i + 1] \in Nat
      /\ Before[N] \in Nat
  BY <1>1, <1>2, BeforeDefined
<1>4. Before[i + 1] <= Before[N]
  <2>1. N \in 0..N /\ i + 1 \in 0..N
    BY <1>1, <1>2
  <2> QED BY <2>1, BeforeGrows
<1>5. Length(i) = Lengths[i + 1] /\ Length(i) \in Nat
  BY <1>1, <1>2 DEF Length
<1>6. \A k \in 1..Length(i) : At(i, k) \in Addresses
  BY <1>1, <1>3, <1>4, <1>5 DEF At, Addresses, Start
<1> QED BY <1>1, <1>2, <1>3, <1>4, <1>5, <1>6 DEF Start

-----------------------------------------------------------------------------
(***************************************************************************)
(* What is kept: headers hold offsets until the ramdisk is mounted and     *)
(* addresses from then on; open has printed the file up to bread; the      *)
(* listing has printed its first entries.                                  *)
(***************************************************************************)
HeaderOf(i) ==
  [offset |-> IF pc = "mount" THEN Start(i) ELSE Location + Start(i), length |-> Length(i)]
Laid ==
  /\ header = [i \in Files |-> HeaderOf(i)]
  /\ DOMAIN disk = Addresses
  /\ tail \in [Files -> Tails] /\ eof \in [Files -> BOOLEAN]
  /\ logOffset \in {0} \union LogSizes
Shown(i, n) == [k \in 1..n |-> disk[At(i, k)]]
Reading ==
  pc \in {"read", "wait"} =>
    /\ file \in Files /\ bread \in 0..Length(file)
    /\ printed = Shown(file, bread)
    /\ bread > 0 => eof[file] = (bread = Length(file))
FirstEntries(n) ==
  IF n = 0 THEN <<>> ELSE <<<<Dev, <<>>>>>> \o [k \in 1..(n - 1) |-> Entry(k - 1)]
Listing ==
  pc = "list" =>
    /\ dir \in {Root, Dev} \union Files
    /\ dir = Root => entry \in 0..(N + 1) /\ listed = FirstEntries(entry)
    /\ dir # Root => entry = 0 /\ listed = <<>>
InitrdInv == Laid /\ LogConfined /\ Reading /\ Listing

LEMMA InitrdInit == Init => InitrdInv
<1> SUFFICES ASSUME Init PROVE InitrdInv
  OBVIOUS
<1>1. pc = "mount"
  BY DEF Init
<1>2. Laid
  <2>1. header = [i \in Files |-> HeaderOf(i)]
    BY <1>1 DEF Init, HeaderOf
  <2>2. DOMAIN disk = Addresses
    BY DEF Init, Addresses, N
  <2>3. tail \in [Files -> Tails] /\ eof \in [Files -> BOOLEAN] /\ logOffset \in {0}
    BY DEF Init
  <2> QED BY <2>1, <2>2, <2>3 DEF Laid
<1>3. LogConfined
  <2>1. disk = [a \in Addresses |-> AsLoaded(a)]
    BY DEF Init, Addresses, N
  <2> QED BY <2>1 DEF LogConfined
<1> QED BY <1>1, <1>2, <1>3 DEF InitrdInv, Reading, Listing

(* Mounted: where a file starts, what a read of it transfers.               *)
LEMMA Mounted ==
  ASSUME InitrdInv, pc # "mount", NEW i \in Files
  PROVE  header[i].offset = Location + Start(i) /\ header[i].length = Length(i)
  BY DEF InitrdInv, Laid, HeaderOf

LEMMA WordFits ==
  ASSUME NEW x \in Nat, x < WordSize
  PROVE  Word(x) = x
  BY DiskParameters DEF Word

LEMMA ReadIs ==
  ASSUME InitrdInv, pc # "mount", NEW i \in Files, NEW offset \in 0..Length(i)
  PROVE  LET n == ReadSize(i, offset, BufSize)
         IN /\ n \in 0..(Length(i) - offset)
            /\ n = IF BufSize < Length(i) - offset THEN BufSize ELSE Length(i) - offset
            /\ offset < Length(i) => n > 0
            /\ ReachesEnd(i, offset, n) = (offset + n = Length(i))
            /\ ReadBytes(i, offset, n) = [k \in 1..n |-> disk[At(i, offset + k)]]
<1>1. /\ Length(i) \in Nat /\ Start(i) \in Nat /\ Before[N] \in Nat
      /\ Start(i) + Length(i) <= Headers + Before[N]
  BY FileRange
<1>2. /\ BufSize \in Nat \ {0} /\ WordSize \in Nat /\ Location \in Nat /\ Headers \in Nat
      /\ Location + Headers + Before[N] + BufSize < WordSize
  BY DiskParameters DEF N
<1>3. header[i].offset = Location + Start(i) /\ header[i].length = Length(i)
  BY Mounted
<1>4. Word(offset + BufSize) = offset + BufSize
  BY <1>1, <1>2, WordFits
<1> DEFINE n == ReadSize(i, offset, BufSize)
<1>5. n = IF offset + BufSize > Length(i) THEN Length(i) - offset ELSE BufSize
  BY <1>1, <1>3, <1>4 DEF ReadSize
<1>6. /\ n \in 0..(Length(i) - offset)
      /\ n = IF BufSize < Length(i) - offset THEN BufSize ELSE Length(i) - offset
      /\ offset < Length(i) => n > 0
  BY <1>1, <1>2, <1>5
<1> HIDE DEF n
<1>7. Word(offset + n) = offset + n
  BY <1>1, <1>2, <1>6, WordFits
<1>8. ReachesEnd(i, offset, n) = (offset + n = Length(i))
  BY <1>1, <1>3, <1>6, <1>7 DEF ReachesEnd
<1>9. ReadBytes(i, offset, n) = [k \in 1..n |-> disk[At(i, offset + k)]]
  <2>1. \A k \in 1..n : header[i].offset + offset + k - 1 = At(i, offset + k)
    BY <1>1, <1>2, <1>3, <1>6 DEF At
  <2> QED BY <2>1 DEF ReadBytes
<1> QED BY <1>6, <1>8, <1>9 DEF n

(* The names: looking up the name of a file finds that file, and no other.  *)
LEMMA NamesFound ==
  ASSUME InitrdInv
  PROVE  /\ FindDir(Root, Named(Dev)) = Dev
         /\ \A i \in Files : FindDir(Root, NameOf(i)) = i /\ NameOf(i) # Named(None)
         /\ \A i \in Files : FindDir(Root, Named(i)) \in {i, None}
<1>1. Files \subseteq Nat /\ \A i, j \in Files : NameOf(i) = NameOf(j) => i = j
  BY DEF Files, NameOf
<1>2. \A i \in Files : NameOf(i) # Named(Dev) /\ NameOf(i) # Named(None) /\ Named(i) # Named(Dev)
  BY <1>1 DEF NameOf, Named, Dev, None
<1>3. FindDir(Root, Named(Dev)) = Dev
  BY DEF FindDir, IsDirectory
<1>4. ASSUME NEW i \in Files PROVE FindDir(Root, NameOf(i)) = i
  <2> DEFINE First(f) == NameOf(f) = NameOf(i) /\ \A j \in Files : NameOf(j) = NameOf(i) => f <= j
  <2>1. First(i)
    BY <1>1
  <2>2. \A f \in Files : First(f) => f = i
    BY <1>1
  <2> HIDE DEF First
  <2>3. (CHOOSE f \in Files : First(f)) = i
    BY <2>1, <2>2
  <2> QED BY <1>2, <2>3 DEF FindDir, IsDirectory, First
<1>5. ASSUME NEW i \in Files PROVE FindDir(Root, Named(i)) \in {i, None}
  <2>1. CASE \E j \in Files : NameOf(j) = Named(i)
    <3>1. NameOf(i) = Named(i)
      BY <2>1 DEF NameOf, Named
    <3> QED BY <1>4, <3>1
  <2>2. CASE ~\E j \in Files : NameOf(j) = Named(i)
    BY <1>2, <2>2 DEF FindDir, IsDirectory
  <2> QED BY <2>1, <2>2
<1> QED BY <1>2, <1>3, <1>4, <1>5

-----------------------------------------------------------------------------
(* A step that leaves the ramdisk alone.                                    *)
LEMMA StoreKept ==
  ASSUME InitrdInv, pc # "mount", pc' # "mount", UNCHANGED store,
         eof' \in [Files -> BOOLEAN]
  PROVE  /\ Laid' /\ LogConfined'
         /\ \A i, n : Shown(i, n)' = Shown(i, n)
         /\ \A n : FirstEntries(n)' = FirstEntries(n)
<1>1. UNCHANGED <<disk, header, tail, logOffset>>
  BY DEF store
<1>2. Laid'
  BY <1>1 DEF InitrdInv, Laid, HeaderOf
<1>3. LogConfined'
  BY <1>1 DEF InitrdInv, LogConfined
<1>4. \A i, n : Shown(i, n)' = Shown(i, n)
  BY <1>1 DEF Shown
<1>5. \A n : FirstEntries(n)' = FirstEntries(n)
  BY <1>1 DEF FirstEntries, Entry, Contents
<1> QED BY <1>2, <1>3, <1>4, <1>5

LEMMA MountStep ==
  ASSUME InitrdInv, Mount
  PROVE  InitrdInv'
<1>1. pc = "mount" /\ pc' = "idle" /\ UNCHANGED <<disk, tail, logOffset, eof>>
  BY DEF Mount
<1>2. \A i \in Files : header'[i] = HeaderOf(i)'
  <2> SUFFICES ASSUME NEW i \in Files PROVE header'[i] = HeaderOf(i)'
    OBVIOUS
  <2>1. header[i] = [offset |-> Start(i), length |-> Length(i)]
    BY <1>1 DEF InitrdInv, Laid, HeaderOf
  <2>2. header'[i] = [header[i] EXCEPT !.offset = Word(@ + Location)]
    BY DEF Mount, Located
  <2>3. /\ Start(i) \in Nat /\ Location \in Nat /\ BufSize \in Nat \ {0}
        /\ Length(i) \in Nat /\ Before[N] \in Nat /\ Headers \in Nat /\ WordSize \in Nat
        /\ Start(i) + Length(i) <= Headers + Before[N]
        /\ Location + Headers + Before[N] + BufSize < WordSize
    BY FileRange, DiskParameters DEF N
  <2>4. Word(Start(i) + Location) = Location + Start(i)
    <3>1. Start(i) + Location \in Nat /\ Start(i) + Location < WordSize
      BY <2>3
    <3>2. Word(Start(i) + Location) = Start(i) + Location
      BY <3>1, WordFits
    <3> QED BY <2>3, <3>2
  <2> QED BY <1>1, <2>1, <2>2, <2>4 DEF HeaderOf
<1>3. header' = [i \in Files |-> HeaderOf(i)']
  <2>1. header' = [i \in Files |-> Located(header[i])]
    BY DEF Mount
  <2> QED BY <1>2, <2>1
<1>4. Laid'
  BY <1>1, <1>3 DEF InitrdInv, Laid
<1>5. LogConfined'
  BY <1>1 DEF InitrdInv, LogConfined
<1> QED BY <1>1, <1>4, <1>5 DEF InitrdInv, Reading, Listing

(* The listing: each turn shows one more entry (jslk.c:76-99).              *)
LEMMA ListStep ==
  ASSUME InitrdInv, ListEntry
  PROVE  InitrdInv' /\ pc' = "list"
<1> DEFINE name == ReadDir(dir, entry)
           i    == FindDir(dir, name)
           n    == ReadSize(i, 0, BufSize)
<1>1. pc = "list" /\ name # Named(None) /\ UNCHANGED store
  BY DEF ListEntry
<1>2. /\ i = None => pc' = "crash" /\ UNCHANGED <<eof, entry, listed>>
      /\ i = Dev => /\ listed' = Append(listed, <<Dev, <<>>>>)
                    /\ entry' = entry + 1 /\ UNCHANGED <<eof, pc>>
      /\ i # None /\ i # Dev =>
            /\ listed' = Append(listed, <<i, ReadBytes(i, 0, n)>>)
            /\ eof' = [eof EXCEPT ![i] = ReachesEnd(i, 0, n)]
            /\ entry' = entry + 1 /\ UNCHANGED pc
  BY DEF ListEntry, Dev, None
<1>3. N \in Nat /\ N < WordSize /\ WordSize \in Nat
  BY DiskParameters DEF N
<1>4. dir = Root
  <2>1. CASE dir = Dev
    <3>1. entry = 0
      BY <1>1, <2>1 DEF InitrdInv, Listing, Dev, Root
    <3>2. Word(entry - 1) = WordSize - 1
      BY <1>3, <3>1 DEF Word
    <3> QED BY <1>1, <1>3, <2>1, <3>1, <3>2 DEF ReadDir, IsDirectory, N, Dev, Root
  <2>2. CASE dir \in Files
    BY <1>1, <2>2 DEF ReadDir, IsDirectory, Files, Dev, Root
  <2> QED BY <1>1, <2>1, <2>2 DEF InitrdInv, Listing
<1>5. entry \in 0..(N + 1) /\ listed = FirstEntries(entry)
  BY <1>1, <1>4 DEF InitrdInv, Listing
<1>6. CASE entry = 0
  <2>1. i = Dev
    BY <1>4, <1>6, NamesFound DEF ReadDir, IsDirectory
  <2>2. /\ listed' = Append(listed, <<Dev, <<>>>>) /\ entry' = 1 /\ UNCHANGED <<eof, pc>>
    <3> HIDE DEF i
    <3>1. entry' = entry + 1 /\ UNCHANGED <<eof, pc>> /\ listed' = Append(listed, <<Dev, <<>>>>)
      BY <1>2, <2>1 DEF Dev, None
    <3> QED BY <1>6, <3>1
  <2>3. FirstEntries(1) = Append(FirstEntries(0), <<Dev, <<>>>>)
    BY DEF FirstEntries
  <2>4. /\ Laid' /\ LogConfined' /\ FirstEntries(1)' = FirstEntries(1)
    BY <1>1, <2>2, StoreKept DEF InitrdInv, Laid
  <2>5. listed' = FirstEntries(1)'
    BY <1>5, <1>6, <2>2, <2>3, <2>4
  <2>6. dir' = dir
    BY DEF ListEntry
  <2>7. entry' \in 0..(N + 1)
    BY <1>3, <2>2
  <2>8. Listing'
    BY <1>4, <2>2, <2>5, <2>6, <2>7 DEF Listing
  <2>9. pc' = "list"
    BY <1>1, <2>2
  <2> QED BY <2>4, <2>8, <2>9 DEF InitrdInv, Reading
<1>7. CASE entry # 0
  <2> DEFINE f == entry - 1
  <2>1. Word(f) = f /\ f \in Nat /\ f < WordSize
    <3>1. f \in Nat /\ f < WordSize
      BY <1>3, <1>5, <1>7
    <3> QED BY <3>1, WordFits
  <2>2. f \in Files /\ name = NameOf(f)
    <3>1. ~(Word(entry - 1) >= N) /\ name = NameOf(entry - 1)
      BY <1>1, <1>3, <1>4, <1>7 DEF ReadDir, IsDirectory, N
    <3> QED BY <1>3, <2>1, <3>1 DEF Files, N
  <2>3. i = f
    BY <1>4, <2>2, NamesFound
  <2>4. f # None /\ f # Dev
    BY <2>2 DEF Files, None, Dev
  <2> HIDE DEF f, i
  <2>5. /\ listed' = Append(listed, <<f, ReadBytes(f, 0, ReadSize(f, 0, BufSize))>>)
        /\ eof' = [eof EXCEPT ![f] = ReachesEnd(f, 0, ReadSize(f, 0, BufSize))]
        /\ entry' = entry + 1 /\ UNCHANGED pc
    BY <1>2, <2>3, <2>4
  <2>6. eof' \in [Files -> BOOLEAN]
    <3>1. ReachesEnd(f, 0, ReadSize(f, 0, BufSize)) \in BOOLEAN
      BY DEF ReachesEnd
    <3> QED BY <2>5, <3>1 DEF InitrdInv, Laid
  <2>7. /\ Laid' /\ LogConfined' /\ \A m : FirstEntries(m)' = FirstEntries(m)
    BY <1>1, <2>5, <2>6, StoreKept
  <2>8. <<f, ReadBytes(f, 0, ReadSize(f, 0, BufSize))>> = Entry(f)
    <3> DEFINE m == ReadSize(f, 0, BufSize)
    <3>1. Length(f) \in Nat /\ 0 \in 0..Length(f)
      BY <2>2, FileRange
    <3>2. /\ m \in 0..Length(f)
          /\ m = IF BufSize < Length(f) THEN BufSize ELSE Length(f)
          /\ ReadBytes(f, 0, m) = [k \in 1..m |-> disk[At(f, 0 + k)]]
      <4>1. pc # "mount" /\ Length(f) - 0 = Length(f)
        BY <1>1, <3>1
      <4> QED BY <2>2, <3>1, <4>1, ReadIs
    <3> HIDE DEF m
    <3>3. Contents(f) = [k \in 1..Length(f) |-> disk[At(f, k)]]
      BY DEF Contents, At
    <3>4. SubSeq(Contents(f), 1, m) = [k \in 1..m |-> disk[At(f, k)]]
      BY <3>1, <3>2, <3>3
    <3>5. [k \in 1..m |-> disk[At(f, 0 + k)]] = [k \in 1..m |-> disk[At(f, k)]]
      OBVIOUS
    <3> QED BY <3>2, <3>4, <3>5 DEF Entry, m
  <2>9. FirstEntries(entry + 1) = Append(FirstEntries(entry), Entry(f))
    <3> DEFINE g == [k \in 1..(entry - 1) |-> Entry(k - 1)]
               h == [k \in 1..entry |-> Entry(k - 1)]
    <3>1. entry \in Nat \ {0} /\ entry + 1 # 0 /\ entry + 1 - 1 = entry /\ entry - 1 = f
      BY <1>3, <1>5, <1>7 DEF f
    <3>2. h = Append(g, Entry(f))
      BY <3>1
    <3>3. <<<<Dev, <<>>>>>> \o Append(g, Entry(f)) = Append(<<<<Dev, <<>>>>>> \o g, Entry(f))
      BY <3>1
    <3>4. FirstEntries(entry) = <<<<Dev, <<>>>>>> \o g /\ FirstEntries(entry + 1) = <<<<Dev, <<>>>>>> \o h
      BY <3>1 DEF FirstEntries
    <3> QED BY <3>2, <3>3, <3>4
  <2>10. (listed = FirstEntries(entry))'
    <3>1. disk' = disk
      BY <1>1 DEF store
    <3>2. FirstEntries(entry)' = FirstEntries(entry + 1)
      BY <2>5, <3>1 DEF FirstEntries, Entry, Contents
    <3>3. listed' = Append(listed, Entry(f))
      BY <2>5, <2>8
    <3> QED BY <1>5, <2>9, <3>2, <3>3
  <2>11. entry' \in 0..(N + 1) /\ dir' = dir
    <3>1. entry = f + 1 /\ f < N
      BY <1>3, <1>5, <2>2 DEF f, Files, N
    <3> QED BY <1>3, <1>5, <2>5, <3>1, <2>2 DEF Files, ListEntry
  <2>12. Listing'
    BY <1>4, <2>10, <2>11 DEF Listing
  <2>13. pc' = "list"
    BY <1>1, <2>5
  <2> QED BY <2>7, <2>12, <2>13 DEF InitrdInv, Reading
<1> QED BY <1>6, <1>7
(* The listing ends after the last entry of the root, at once elsewhere.    *)
LEMMA ListingDone ==
  ASSUME InitrdInv, ListEnd
  PROVE  listed = IF dir # Root THEN <<>> ELSE FirstEntries(N + 1)
<1>1. pc = "list" /\ ReadDir(dir, entry) = Named(None)
  BY DEF ListEnd
<1>2. N \in Nat /\ N < WordSize /\ WordSize \in Nat
  BY DiskParameters DEF N
<1>3. CASE dir = Root
  <2>1. entry \in 0..(N + 1) /\ listed = FirstEntries(entry)
    BY <1>1, <1>3 DEF InitrdInv, Listing
  <2>2. entry # 0
    BY <1>1, <1>3 DEF ReadDir, IsDirectory, Named, Dev, None
  <2>3. entry - 1 \in Nat /\ entry - 1 < WordSize
    BY <1>2, <2>1, <2>2
  <2>4. Word(entry - 1) = entry - 1
    BY <2>3, WordFits
  <2>5. entry = N + 1
    <3>1. SUFFICES ASSUME entry - 1 < N PROVE FALSE
      BY <1>2, <2>1
    <3>2. ReadDir(dir, entry) = NameOf(entry - 1)
      BY <1>2, <1>3, <2>2, <2>3, <2>4, <3>1 DEF ReadDir, IsDirectory, N
    <3>3. entry - 1 \in Files
      BY <1>2, <2>3, <3>1 DEF Files, N
    <3> QED BY <1>1, <3>2, <3>3, NamesFound
  <2> QED BY <1>3, <2>1, <2>5
<1>4. CASE dir # Root
  BY <1>1, <1>4 DEF InitrdInv, Listing
<1> QED BY <1>3, <1>4

(* A page: open prints the bytes that follow the ones it has printed.       *)
LEMMA PageStep ==
  ASSUME InitrdInv, ShowPage
  PROVE  InitrdInv'
<1> DEFINE n == ReadSize(file, bread, BufSize)
<1>1. /\ pc = "read" /\ pc' = "wait" /\ bread < header[file].length
      /\ printed' = printed \o ReadBytes(file, bread, n)
      /\ eof' = [eof EXCEPT ![file] = ReachesEnd(file, bread, n)]
      /\ bread' = bread + n /\ file' = file /\ UNCHANGED store
  BY DEF ShowPage
<1>2. file \in Files /\ bread \in 0..Length(file) /\ printed = Shown(file, bread)
  BY <1>1 DEF InitrdInv, Reading
<1>3. Length(file) \in Nat /\ header[file].length = Length(file)
  BY <1>1, <1>2, FileRange, Mounted
<1>4. /\ n \in 0..(Length(file) - bread) /\ n > 0
      /\ ReachesEnd(file, bread, n) = (bread + n = Length(file))
      /\ ReadBytes(file, bread, n) = [k \in 1..n |-> disk[At(file, bread + k)]]
  BY <1>1, <1>2, <1>3, ReadIs
<1> HIDE DEF n
<1>5. printed' = Shown(file, bread + n)
  <2>1. printed' = [k \in 1..bread |-> disk[At(file, k)]]
                     \o [k \in 1..n |-> disk[At(file, bread + k)]]
    BY <1>1, <1>2, <1>4 DEF Shown
  <2>2. [k \in 1..bread |-> disk[At(file, k)]] \o [k \in 1..n |-> disk[At(file, bread + k)]]
          = [k \in 1..(bread + n) |-> disk[At(file, k)]]
    <3> DEFINE D(k) == disk[At(file, k)]
    <3>1. bread \in Nat /\ n \in Nat
      BY <1>2, <1>3, <1>4
    <3> HIDE DEF D
    <3>2. [k \in 1..bread |-> D(k)] \o [k \in 1..n |-> D(bread + k)] = [k \in 1..(bread + n) |-> D(k)]
      BY <3>1
    <3> QED BY <3>2 DEF D
  <2> QED BY <2>1, <2>2 DEF Shown
<1>6. eof' \in [Files -> BOOLEAN] /\ eof'[file] = (bread + n = Length(file))
  BY <1>1, <1>2, <1>4 DEF InitrdInv, Laid
<1>7. Laid' /\ LogConfined'
  BY <1>1, <1>6, StoreKept
<1>8. Reading'
  <2>1. (printed = Shown(file, bread))'
    <3>1. disk' = disk
      BY <1>1 DEF store
    <3> QED BY <1>1, <1>5, <3>1 DEF Shown
  <2>2. bread' \in 0..Length(file)
    BY <1>1, <1>2, <1>3, <1>4
  <2>3. (file \in Files /\ bread \in 0..Length(file))'
    BY <1>1, <1>2, <2>2
  <2>4. (bread > 0 => eof[file] = (bread = Length(file)))'
    BY <1>1, <1>6
  <2> QED BY <2>1, <2>3, <2>4 DEF Reading
<1> QED BY <1>1, <1>7, <1>8 DEF InitrdInv, Listing

(* A log message: at most two of them lie behind the log's start.           *)
LEMMA LogStep ==
  ASSUME InitrdInv, NEW size \in LogSizes, VfsLog(size)
  PROVE  InitrdInv'
<1>1. /\ pc = "idle" /\ pc' = "idle" /\ logOffset' = size
      /\ UNCHANGED <<header, tail>> /\ Write(LogFile, logOffset, size)
  BY DEF VfsLog, Write
<1> DEFINE here == (header[LogFile].offset + logOffset)..(header[LogFile].offset + logOffset + size - 1)
<1>2. /\ disk' = [a \in DOMAIN disk |-> IF a \in here THEN Byte(None, a) ELSE disk[a]]
      /\ eof' = [eof EXCEPT ![LogFile] = Word(logOffset + size) >= header[LogFile].length]
  BY <1>1 DEF Write
<1>3. LogFile \in Files /\ LogSizes \subseteq Nat \ {0}
  BY DiskParameters
<1>4. Laid'
  <2>1. DOMAIN disk' = Addresses /\ header' = [i \in Files |-> HeaderOf(i)']
    BY <1>1, <1>2 DEF InitrdInv, Laid, HeaderOf
  <2>2. eof' \in [Files -> BOOLEAN]
    <3> DEFINE full == Word(logOffset + size) >= header[LogFile].length
    <3>1. full \in BOOLEAN
      OBVIOUS
    <3>2. eof' = [eof EXCEPT ![LogFile] = full] /\ eof \in [Files -> BOOLEAN]
      BY <1>2 DEF InitrdInv, Laid
    <3> HIDE DEF full
    <3> QED BY <3>1, <3>2
  <2> QED BY <1>1, <2>1, <2>2 DEF InitrdInv, Laid
<1>5. LogConfined'
  <2> DEFINE start == Location + Start(LogFile)
             Outside(a) == a < start \/ (\A s, t \in LogSizes : a >= start + s + t)
  <2>1. start \in Nat /\ header[LogFile].offset = start
    BY <1>1, <1>3, Mounted, FileRange, DiskParameters
  <2>2. logOffset \in {0} \union LogSizes
    BY DEF InitrdInv, Laid
  <2>3. ASSUME NEW a \in Int, Outside(a) PROVE a \notin here
    <3> HIDE DEF start
    <3>1. CASE logOffset = 0
      <4>1. a < start \/ a >= start + size + size
        BY <2>3
      <4> QED BY <1>3, <2>1, <3>1, <4>1
    <3>2. CASE logOffset \in LogSizes
      <4>1. a < start \/ a >= start + logOffset + size
        BY <2>3, <3>2
      <4> QED BY <1>3, <2>1, <3>2, <4>1
    <3> QED BY <2>2, <3>1, <3>2
  <2>4. DOMAIN disk' = DOMAIN disk /\ DOMAIN disk \subseteq Int
    BY <1>2, DiskParameters, BeforeDefined DEF InitrdInv, Laid, Addresses
  <2>5. ASSUME NEW a \in DOMAIN disk, Outside(a) PROVE disk'[a] = AsLoaded(a)
    <3>1. disk[a] = AsLoaded(a)
      BY <2>5 DEF InitrdInv, LogConfined
    <3>2. a \notin here
      BY <2>3, <2>4, <2>5
    <3> HIDE DEF here
    <3> QED BY <1>2, <3>1, <3>2
  <2> QED BY <2>4, <2>5 DEF LogConfined
<1> QED BY <1>1, <1>4, <1>5 DEF InitrdInv, Reading, Listing
LEMMA StartSteps ==
  ASSUME InitrdInv
  PROVE  /\ \A node \in {Root, Dev} \union Files : ListStart(node) => InitrdInv'
         /\ \A i \in Files : Open(i) => InitrdInv'
         /\ OpenOrCloseFs => InitrdInv'
<1>1. ASSUME NEW node \in {Root, Dev} \union Files, ListStart(node) PROVE InitrdInv'
  <2>1. /\ pc = "idle" /\ pc' = "list" /\ dir' = node /\ entry' = 0 /\ listed' = <<>>
        /\ UNCHANGED store /\ eof' = eof
    BY <1>1 DEF ListStart
  <2>2. Laid' /\ LogConfined'
    BY <2>1, StoreKept DEF InitrdInv, Laid
  <2>3. (listed = FirstEntries(entry))' /\ 0 \in 0..(N + 1)
    BY <2>1, DiskParameters DEF FirstEntries, N
  <2> QED BY <2>1, <2>2, <2>3 DEF InitrdInv, Reading, Listing
<1>2. ASSUME NEW i \in Files, Open(i) PROVE InitrdInv'
  <2>1. pc = "idle" /\ UNCHANGED store /\ eof' = eof /\ pc' \in {"idle", "read"}
    BY <1>2 DEF Open
  <2>2. Laid' /\ LogConfined'
    BY <2>1, StoreKept DEF InitrdInv, Laid
  <2>3. pc' = "read" => file' \in Files /\ bread' = 0 /\ printed' = <<>>
    BY <1>2, <2>1, NamesFound DEF Open
  <2>4. pc' = "read" => (printed = Shown(file, bread))' /\ 0 \in 0..Length(file)'
    <3> SUFFICES ASSUME pc' = "read" PROVE (printed = Shown(file, bread))' /\ 0 \in 0..Length(file)'
      OBVIOUS
    <3>1. Length(file') \in Nat
      BY <2>3, FileRange
    <3>2. 0 \in 0..Length(file)'
      BY <3>1 DEF Length
    <3> QED BY <2>3, <3>2 DEF Shown
  <2> QED BY <2>1, <2>2, <2>3, <2>4 DEF InitrdInv, Reading, Listing
<1>3. ASSUME OpenOrCloseFs PROVE InitrdInv'
  <2>1. pc = "idle" /\ UNCHANGED store /\ eof' = eof /\ pc' \in {"idle", "crash"}
    BY <1>3 DEF OpenOrCloseFs
  <2>2. Laid' /\ LogConfined'
    BY <2>1, StoreKept DEF InitrdInv, Laid
  <2> QED BY <2>1, <2>2 DEF InitrdInv, Reading, Listing
<1> QED BY <1>1, <1>2, <1>3

(* The steps that change nothing but where the thread is, or the keyboard.  *)
LEMMA QuietSteps ==
  ASSUME InitrdInv, UNCHANGED <<store, eof, opening, listing>>,
         \/ pc' = pc
         \/ pc \in {"list", "read"} /\ pc' = "idle"
         \/ pc = "wait" /\ pc' = "read"
  PROVE  InitrdInv'
<1>1. UNCHANGED <<disk, header, tail, logOffset, eof, file, bread, printed, dir, entry, listed>>
  BY DEF store, opening, listing
<1>2. (pc = "mount") = (pc' = "mount")
  OBVIOUS
<1>3. Laid'
  BY <1>1, <1>2 DEF InitrdInv, Laid, HeaderOf
<1>4. LogConfined'
  BY <1>1 DEF InitrdInv, LogConfined
<1>5. Reading'
  <2>1. Shown(file, bread)' = Shown(file, bread)
    BY <1>1 DEF Shown
  <2> QED BY <1>1, <2>1 DEF InitrdInv, Reading
<1>6. Listing'
  <2>1. FirstEntries(entry)' = FirstEntries(entry)
    BY <1>1 DEF FirstEntries, Entry, Contents
  <2>2. pc' = "list" => pc = "list"
    OBVIOUS
  <2> QED BY <1>1, <2>1, <2>2 DEF InitrdInv, Listing
<1> QED BY <1>3, <1>4, <1>5, <1>6 DEF InitrdInv

(* Every step of the kernel, and every key, keeps the invariant.            *)
LEMMA InitrdInvStep ==
  ASSUME InitrdInv, [Next]_vars
  PROVE  InitrdInv'
<1>1. ASSUME NEW node \in {Root, Dev} \union Files, ListStart(node) PROVE InitrdInv'
  BY <1>1, StartSteps
<1>2. CASE OpenOrCloseFs
  BY <1>2, StartSteps
<1>3. ASSUME NEW i \in Files, Open(i) PROVE InitrdInv'
  BY <1>3, StartSteps
<1>4. ASSUME NEW size \in LogSizes, VfsLog(size) PROVE InitrdInv'
  BY <1>4, LogStep
<1>5. CASE Mount
  BY <1>5, MountStep
<1>6. CASE ListEntry
  BY <1>6, ListStep
<1>7. CASE ListEnd
  BY <1>7, QuietSteps DEF ListEnd
<1>8. CASE ShowPage
  BY <1>8, PageStep
<1>9. CASE OpenEnd
  BY <1>9, QuietSteps DEF OpenEnd
<1>10. CASE Continue
  BY <1>10, QuietSteps DEF Continue
<1>11. CASE Release
  BY <1>11, QuietSteps DEF Release
<1>12. ASSUME NEW key \in Keys, Press(key) PROVE InitrdInv'
  BY <1>12, QuietSteps DEF Press
<1>13. CASE UNCHANGED vars
  BY <1>13, QuietSteps DEF vars, store, opening, listing
<1> QED BY <1>1, <1>2, <1>3, <1>4, <1>5, <1>6, <1>7, <1>8, <1>9, <1>10, <1>11, <1>12, <1>13
        DEF Next, ThreadStep

(* The inductive invariant: the ramdisk as it was laid out, and how far the *)
(* listing and open have got in it (initrd.c:132-260, jslk.c:32-103).       *)
THEOREM InitrdInvariant == Spec => []InitrdInv
<1>1. InitrdInv /\ [Next]_vars => InitrdInv'
  BY InitrdInvStep
<1> QED BY InitrdInit, <1>1, PTL DEF Spec

-----------------------------------------------------------------------------
(* However often messages are logged, of whatever lengths, only the bytes   *)
(* behind the log's start change, and no more of them than two messages     *)
(* take, although initrd_write knows no limit: the files before the log     *)
(* stay as the host tool wrote them (initrd.c:148-159, jslk.c:54).          *)
THEOREM LogStaysConfined == Spec => []LogConfined
<1>1. InitrdInv => LogConfined
  BY DEF InitrdInv
<1> QED BY <1>1, InitrdInvariant, PTL

(* open prints a file from its first byte to its last, for every length     *)
(* and every size of its buffer (jslk.c:32-43, initrd.c:132-146).           *)
THEOREM OpenShowsAll == Spec => OpenShowsFile
<1>1. ASSUME InitrdInv, [Next]_vars, pc = "read", pc' = "idle"
      PROVE  printed = Contents(file) /\ (Length(file) > 0 => eof[file])
  <2>1. OpenEnd
    BY <1>1 DEF Next, ThreadStep, vars, ListStart, OpenOrCloseFs, Open, VfsLog, Mount, ListEntry,
                ListEnd, ShowPage, Continue, Release, Press
  <2>2. /\ file \in Files /\ bread \in 0..Length(file) /\ printed = Shown(file, bread)
        /\ bread > 0 => eof[file] = (bread = Length(file))
    BY <1>1 DEF InitrdInv, Reading
  <2>3. header[file].length = Length(file) /\ Length(file) \in Nat
    BY <1>1, <2>2, Mounted, FileRange
  <2>4. bread = Length(file)
    BY <2>1, <2>2, <2>3 DEF OpenEnd
  <2>5. Shown(file, Length(file)) = Contents(file)
    BY DEF Shown, Contents, At
  <2> QED BY <2>2, <2>3, <2>4, <2>5
<1>2. InitrdInv /\ [Next]_vars =>
        [pc = "read" /\ pc' = "idle" =>
           printed = Contents(file) /\ (Length(file) > 0 => eof[file])]_vars
  BY <1>1
<1> QED BY <1>2, InitrdInvariant, PTL DEF Spec, OpenShowsFile

(* The listing of the root names "dev" and every file once, in the order of *)
(* the ramdisk, each with the start of what the disk holds of it, whatever  *)
(* follows the names in memory; of "dev" and of a file it is empty          *)
(* (jslk.c:76-99, initrd.c:161-190, vfs.c:31-43).                           *)
THEOREM ListingComplete == Spec => ListsEachFile
<1>1. ASSUME InitrdInv, [Next]_vars, pc = "list", pc' # "list"
      PROVE  /\ pc' = "idle"
             /\ listed = IF dir # Root THEN <<>>
                         ELSE <<<<Dev, <<>>>>>> \o [k \in 1..Len(Lengths) |-> Entry(k - 1)]
  <2>1. ~ListEntry
    BY <1>1, ListStep
  <2>2. ListEnd
    <3>1. ~Mount /\ ~ShowPage /\ ~OpenEnd /\ ~Continue /\ ~OpenOrCloseFs
      BY <1>1 DEF Mount, ShowPage, OpenEnd, Continue, OpenOrCloseFs
    <3>2. /\ \A node \in {Root, Dev} \union Files : ~ListStart(node)
          /\ \A i \in Files : ~Open(i)
          /\ \A size \in LogSizes : ~VfsLog(size)
      BY <1>1 DEF ListStart, Open, VfsLog
    <3>3. ~Release /\ (\A key \in Keys : ~Press(key)) /\ ~UNCHANGED vars
      BY <1>1 DEF Release, Press, vars
    <3> QED BY <1>1, <2>1, <3>1, <3>2, <3>3 DEF Next, ThreadStep
  <2>3. N \in Nat
    BY DiskParameters DEF N
  <2>4. FirstEntries(N + 1) = <<<<Dev, <<>>>>>> \o [k \in 1..N |-> Entry(k - 1)]
    <3> DEFINE First(l) == <<<<Dev, <<>>>>>> \o [k \in 1..l |-> Entry(k - 1)]
    <3>1. \A m, l : m # 0 /\ m - 1 = l => FirstEntries(m) = First(l)
      BY Zenon DEF FirstEntries
    <3> HIDE DEF First
    <3>2. N + 1 # 0 /\ (N + 1) - 1 = N
      BY <2>3
    <3>3. FirstEntries(N + 1) = First(N)
      BY <2>3, <3>1, <3>2
    <3> QED BY <3>3 DEF First
  <2>5. pc' = "idle"
    BY <2>2 DEF ListEnd
  <2> QED BY <1>1, <2>2, <2>4, <2>5, ListingDone DEF N
<1>2. InitrdInv /\ [Next]_vars =>
        [pc = "list" /\ pc' # "list" =>
           /\ pc' = "idle"
           /\ listed = IF dir # Root THEN <<>>
                       ELSE <<<<Dev, <<>>>>>> \o [k \in 1..Len(Lengths) |-> Entry(k - 1)]]_vars
  BY <1>1
<1> QED BY <1>2, InitrdInvariant, PTL DEF Spec, ListsEachFile
=============================================================================
