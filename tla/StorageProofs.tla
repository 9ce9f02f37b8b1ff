--------------------------- MODULE StorageProofs ---------------------------
(* Proofs about the storage service, for any number of sessions, paths,     *)
(* values and blocks.                                                       *)
EXTENDS Storage, TLAPS, FiniteSetTheorems, FunctionTheorems,
        WellFoundedInduction, NaturalsInduction

----------------------------------------------------------------------------
(* Blocks and their contents.                                               *)

(* The lowest block of a set is one of its blocks.                          *)
LEMMA LowestIn ==
  ASSUME NEW S \in SUBSET Blocks, S # {}
  PROVE  Lowest(S) \in S
<1> DEFINE R == {ss \in Nat \X Nat : ss[1] < ss[2]}
<1>1. IsWellFoundedOn(R, Nat)
  BY NatLessThanWellFounded DEF OpToRel
<1>2. \A s, u \in Nat : u < s => <<u, s>> \in R
  OBVIOUS
<1>3. S \subseteq Nat
  BY StorageAssumption DEF Blocks
<1> HIDE DEF R
<1>4. PICK s \in S : \A u \in S : ~ (<<u, s>> \in R)
  BY <1>1, <1>3, WFMin
<1>5. \A u \in S : s <= u
  <2> TAKE u \in S
  <2>1. s \in Nat /\ u \in Nat /\ ~(u < s)
    BY <1>2, <1>3, <1>4
  <2>2. QED BY <2>1
<1>6. QED BY <1>5 DEF Lowest

(* No block has the number 0.                                               *)
LEMMA ZeroNoBlock == 0 \notin Blocks
BY StorageAssumption DEF Blocks

(* What is read from a block tells what it is.                              *)
LEMMA FileFacts ==
  ASSUME NEW c, NEW p \in Paths, IsFile(c, p)
  PROVE  /\ c[1] = "file" /\ c[2] = p /\ c[3] \in Values
         /\ c \in Nodes /\ c # Junk
         /\ \A q \in Paths : IsFile(c, q) => q = p
         /\ \A f \in FileMaps : c # FilesNode(f)
<1>1. PICK v \in Values : c = Entry(p, v)
  BY DEF IsFile
<1>2. c[1] = "file" /\ c[2] = p /\ c[3] = v
  BY <1>1 DEF Entry
<1>3. c \in Nodes
  BY <1>1 DEF Nodes
<1>4. c # Junk
  <2>1. Junk[1] = "junk"
    BY DEF Junk
  <2>2. QED BY <1>2, <2>1
<1>5. \A q \in Paths : IsFile(c, q) => q = p
  <2> TAKE q \in Paths
  <2>1. HAVE IsFile(c, q)
  <2>2. PICK w \in Values : c = Entry(q, w)
    BY <2>1 DEF IsFile
  <2>3. c[2] = q
    BY <2>2 DEF Entry
  <2>4. QED BY <1>2, <2>3
<1>6. \A f \in FileMaps : c # FilesNode(f)
  <2> TAKE f \in FileMaps
  <2>1. FilesNode(f)[1] = "files"
    BY DEF FilesNode
  <2>2. QED BY <1>2, <2>1
<1>7. QED BY <1>2, <1>3, <1>4, <1>5, <1>6

(* A node of the tree of files.                                             *)
LEMMA NodeFacts ==
  ASSUME NEW f \in FileMaps
  PROVE  /\ FilesNode(f)[2] = f /\ FilesNode(f) \in Nodes /\ FilesNode(f) # Junk
         /\ \A p \in Paths : ~IsFile(FilesNode(f), p)
<1>1. FilesNode(f)[1] = "files" /\ FilesNode(f)[2] = f
  BY DEF FilesNode
<1>2. Junk[1] = "junk"
  BY DEF Junk
<1>3. FilesNode(f) \in Nodes
  BY DEF Nodes
<1>4. \A p \in Paths : ~IsFile(FilesNode(f), p)
  BY FileFacts
<1>5. QED BY <1>1, <1>2, <1>3, <1>4

----------------------------------------------------------------------------
(* Super blocks.                                                            *)

(* The super block to mount is one, or blank.                               *)
LEMMA ChosenType ==
  ASSUME NEW s \in [0..1 -> Supers]
  PROVE  Chosen(s) \in Supers /\ Blank \in Supers
<1>1. Blank \in Supers
  BY DEF Blank, Supers, BlockNumbers
<1>2. s[0] \in Supers /\ s[1] \in Supers
  OBVIOUS
<1>3. QED BY <1>1, <1>2 DEF Chosen

(* Forgetting what the other super block leads to does not change which one *)
(* is mounted, nor its content.                                             *)
LEMMA ChosenTidy ==
  ASSUME NEW s \in [0..1 -> Supers]
  PROVE  Tidy(s) \in [0..1 -> Supers] /\ Chosen(Tidy(s)) = Chosen(s)
<1> DEFINE T == Tidy(s)
<1>1. T \in [0..1 -> Supers]
  <2> SUFFICES ASSUME NEW i \in 0..1
               PROVE  (IF s[i] = Chosen(s) THEN s[i]
                       ELSE [s[i] EXCEPT !.files = 0, !.free = {}]) \in Supers
    BY DEF Tidy
  <2>1. s[i] \in Supers
    OBVIOUS
  <2>2. QED BY <2>1 DEF Supers, BlockNumbers
<1>2. ASSUME NEW i \in 0..1
      PROVE  /\ T[i].valid = s[i].valid /\ T[i].flags = s[i].flags
             /\ T[i].flags2 = s[i].flags2
             /\ s[i] = Chosen(s) => T[i] = s[i]
  <2>1. s[i] \in Supers
    OBVIOUS
  <2>2. T[i] = IF s[i] = Chosen(s) THEN s[i]
               ELSE [s[i] EXCEPT !.files = 0, !.free = {}]
    BY DEF Tidy
  <2>3. QED BY <2>1, <2>2 DEF Supers
<1> HIDE DEF T
<1>3. /\ SuperValid(T[0], 0) = SuperValid(s[0], 0)
      /\ SuperValid(T[1], 1) = SuperValid(s[1], 1)
      /\ NewerThan(T[1], T[0]) = NewerThan(s[1], s[0])
  BY <1>2 DEF SuperValid, NewerThan
<1>4. /\ s[0] = Chosen(s) => T[0] = s[0]
      /\ s[1] = Chosen(s) => T[1] = s[1]
  BY <1>2
<1>5. Chosen(T) = Chosen(s)
  BY <1>3, <1>4 DEF Chosen
<1>6. QED BY <1>1, <1>5 DEF T

(* The next version is in the other slot, newer than this one, and this one *)
(* is not newer than the next.                                              *)
LEMMA VersionFacts ==
  ASSUME NEW n \in 0..3
  PROVE  /\ NextVersion(n) \in 0..3 /\ NextVersion(n) % 2 \in 0..1 /\ n % 2 \in 0..1
         /\ NextVersion(n) % 2 = 1 - (n % 2)
         /\ (NextVersion(n) - n) % 4 = 1 /\ (n - NextVersion(n)) % 4 # 1
<1>1. n = 0 \/ n = 1 \/ n = 2 \/ n = 3
  OBVIOUS
<1>2. QED BY <1>1 DEF NextVersion

(* Which super block is mounted: the cases.                                 *)
LEMMA ChosenCases ==
  ASSUME NEW s \in [0..1 -> Supers]
  PROVE  \/ Chosen(s) = s[0] /\ SuperValid(s[0], 0) /\ s[0].flags % 2 = 0
            /\ ~(SuperValid(s[1], 1) /\ NewerThan(s[1], s[0]))
         \/ Chosen(s) = s[1] /\ SuperValid(s[1], 1) /\ s[1].flags % 2 = 1
            /\ (SuperValid(s[0], 0) => NewerThan(s[1], s[0]))
         \/ Chosen(s) = Blank /\ Blank.flags = 0 /\ ~SuperValid(s[0], 0) /\ ~SuperValid(s[1], 1)
<1>1. Blank.flags = 0
  BY DEF Blank
<1>2. SuperValid(s[0], 0) => s[0].flags % 2 = 0
  BY DEF SuperValid
<1>3. SuperValid(s[1], 1) => s[1].flags % 2 = 1
  BY DEF SuperValid
<1>4. QED BY <1>1, <1>2, <1>3 DEF Chosen

(* update_super_block: version v goes to its slot.                          *)
InSlot(s, v, img) == [s EXCEPT ![v % 2] = img]

(* A super block of the next version is the one to mount as soon as it is   *)
(* written whole.                                                           *)
LEMMA ChosenNew ==
  ASSUME NEW s \in [0..1 -> Supers], NEW img \in Supers,
         NEW v, v = NextVersion(Chosen(s).flags),
         img.valid, img.flags = v, img.flags2 = v
  PROVE  InSlot(s, v, img) \in [0..1 -> Supers] /\ Chosen(InSlot(s, v, img)) = img
<1> SUFFICES /\ [s EXCEPT ![v % 2] = img] \in [0..1 -> Supers]
             /\ Chosen([s EXCEPT ![v % 2] = img]) = img
  BY DEF InSlot
<1> DEFINE n == Chosen(s).flags
           S == [s EXCEPT ![v % 2] = img]
<1>1. n \in 0..3
  BY ChosenType DEF Supers
<1>2. v \in 0..3 /\ v % 2 \in 0..1 /\ v % 2 = 1 - (n % 2) /\ n % 2 \in 0..1
      /\ (v - n) % 4 = 1 /\ (n - v) % 4 # 1
  BY <1>1, VersionFacts
<1>3. S \in [0..1 -> Supers] /\ S[v % 2] = img /\ S[n % 2] = s[n % 2]
  <2>1. ASSUME NEW i \in 0..1, NEW j \in 0..1, j = 1 - i
        PROVE  /\ [s EXCEPT ![j] = img] \in [0..1 -> Supers]
               /\ [s EXCEPT ![j] = img][j] = img /\ [s EXCEPT ![j] = img][i] = s[i]
    BY <2>1
  <2> DEFINE i == n % 2
             j == v % 2
  <2>2. i \in 0..1 /\ j \in 0..1 /\ j = 1 - i
    BY <1>1, <1>2
  <2> HIDE DEF i, j
  <2>3. [s EXCEPT ![j] = img] \in [0..1 -> Supers] /\ [s EXCEPT ![j] = img][j] = img
        /\ [s EXCEPT ![j] = img][i] = s[i]
    BY <2>1, <2>2
  <2>4. QED BY <2>3 DEF i, j
<1> HIDE DEF S
<1>4. CASE Chosen(s) = s[0] /\ SuperValid(s[0], 0) /\ s[0].flags % 2 = 0
  <2>1. n % 2 = 0 /\ v % 2 = 1 /\ S[0] = s[0] /\ S[1] = img /\ s[0].flags = n
    BY <1>2, <1>3, <1>4
  <2>2. SuperValid(S[1], 1) /\ NewerThan(S[1], S[0]) /\ SuperValid(S[0], 0)
    BY <1>2, <1>4, <2>1 DEF SuperValid, NewerThan
  <2>3. QED BY <2>1, <2>2, <1>3 DEF Chosen, S
<1>5. CASE Chosen(s) = s[1] /\ SuperValid(s[1], 1) /\ s[1].flags % 2 = 1
  <2>1. n % 2 = 1 /\ v % 2 = 0 /\ S[1] = s[1] /\ S[0] = img /\ s[1].flags = n
    BY <1>2, <1>3, <1>5
  <2>2. SuperValid(S[0], 0) /\ ~NewerThan(S[1], S[0])
    BY <1>2, <2>1 DEF SuperValid, NewerThan
  <2>3. QED BY <2>1, <2>2, <1>3 DEF Chosen, S
<1>6. CASE Chosen(s) = Blank /\ Blank.flags = 0 /\ ~SuperValid(s[0], 0)
  <2>1. n % 2 = 0 /\ v % 2 = 1 /\ S[0] = s[0] /\ S[1] = img
    BY <1>2, <1>3, <1>6
  <2>2. SuperValid(S[1], 1) /\ ~SuperValid(S[0], 0)
    BY <1>2, <1>6, <2>1 DEF SuperValid
  <2>3. QED BY <2>1, <2>2, <1>3 DEF Chosen, S
<1>7. QED BY <1>4, <1>5, <1>6, ChosenCases

(* A super block that is not written whole leaves the other one to mount.   *)
LEMMA ChosenTorn ==
  ASSUME NEW s \in [0..1 -> Supers], NEW img \in Supers,
         NEW v, v = NextVersion(Chosen(s).flags),
         img.flags = v, img.flags2 # v
  PROVE  InSlot(s, v, img) \in [0..1 -> Supers] /\ Chosen(InSlot(s, v, img)) = Chosen(s)
<1> SUFFICES /\ [s EXCEPT ![v % 2] = img] \in [0..1 -> Supers]
             /\ Chosen([s EXCEPT ![v % 2] = img]) = Chosen(s)
  BY DEF InSlot
<1> DEFINE n == Chosen(s).flags
           S == [s EXCEPT ![v % 2] = img]
<1>1. n \in 0..3
  BY ChosenType DEF Supers
<1>2. v \in 0..3 /\ v % 2 \in 0..1 /\ v % 2 = 1 - (n % 2) /\ n % 2 \in 0..1
  BY <1>1, VersionFacts
<1>3. S \in [0..1 -> Supers] /\ S[v % 2] = img /\ S[n % 2] = s[n % 2]
  <2>1. ASSUME NEW i \in 0..1, NEW j \in 0..1, j = 1 - i
        PROVE  /\ [s EXCEPT ![j] = img] \in [0..1 -> Supers]
               /\ [s EXCEPT ![j] = img][j] = img /\ [s EXCEPT ![j] = img][i] = s[i]
    BY <2>1
  <2> DEFINE i == n % 2
             j == v % 2
  <2>2. i \in 0..1 /\ j \in 0..1 /\ j = 1 - i
    BY <1>1, <1>2
  <2> HIDE DEF i, j
  <2>3. [s EXCEPT ![j] = img] \in [0..1 -> Supers] /\ [s EXCEPT ![j] = img][j] = img
        /\ [s EXCEPT ![j] = img][i] = s[i]
    BY <2>1, <2>2
  <2>4. QED BY <2>3 DEF i, j
<1> HIDE DEF S
<1>4. \A i : ~SuperValid(img, i)
  BY DEF SuperValid
<1>5. CASE Chosen(s) = s[0] /\ SuperValid(s[0], 0) /\ s[0].flags % 2 = 0
  <2>1. S[0] = s[0] /\ S[1] = img
    BY <1>2, <1>3, <1>5
  <2>2. QED BY <1>3, <1>4, <1>5, <2>1 DEF Chosen, S
<1>6. CASE Chosen(s) = s[1] /\ SuperValid(s[1], 1) /\ s[1].flags % 2 = 1
  <2>1. S[1] = s[1] /\ S[0] = img
    BY <1>2, <1>3, <1>6
  <2>2. QED BY <1>3, <1>4, <1>6, <2>1 DEF Chosen, S
<1>7. CASE Chosen(s) = Blank /\ Blank.flags = 0 /\ ~SuperValid(s[0], 0) /\ ~SuperValid(s[1], 1)
  <2>1. S[0] = s[0] /\ S[1] = img
    BY <1>2, <1>3, <1>7
  <2>2. QED BY <1>3, <1>4, <1>7, <2>1 DEF Chosen, S
<1>8. QED BY <1>5, <1>6, <1>7, ChosenCases

----------------------------------------------------------------------------
(* Trees of files.                                                          *)

(* The files of a well-formed device: each has a block of its own, none the *)
(* root's, and the blocks in use are those.                                 *)
LEMMA TreeFacts ==
  ASSUME NEW root \in BlockNumbers, NEW free \in SUBSET Blocks, NEW d,
         WellFormed(root, free, d), NEW C, C = FilesAt(root, d)
  PROVE  /\ C \in FileMaps
         /\ \A p, q \in Paths : C[p] = C[q] /\ C[p] # 0 => p = q
         /\ \A p \in Paths : C[p] # 0 => C[p] # root /\ C[p] \in Below(root, d)
                                         /\ IsFile(d[C[p]], p)
         /\ root # 0 => d[root] = FilesNode(C) /\ root \in Below(root, d)
         /\ \A b \in FileBlocks(C) : b # root /\ b # 0 /\ b \in Below(root, d)
         /\ \A b \in Below(root, d) : b \in Blocks /\ (b = root \/ b \in FileBlocks(C))
<1>1. C \in FileMaps /\ (root # 0 => d[root] = FilesNode(C))
  <2>1. CASE root = 0
    <3>1. NoFiles \in FileMaps
      BY DEF NoFiles, FileMaps, BlockNumbers
    <3>2. QED BY <2>1, <3>1 DEF FilesAt
  <2>2. CASE root # 0
    <3>1. PICK f \in FileMaps : d[root] = FilesNode(f)
      BY <2>2 DEF WellFormed
    <3>2. C = f
      BY <2>2, <3>1, NodeFacts DEF FilesAt
    <3>3. QED BY <3>1, <3>2
  <2>3. QED BY <2>1, <2>2
<1>2. \A p \in Paths : C[p] # 0 => IsFile(d[C[p]], p)
  BY DEF WellFormed
<1>3. \A p, q \in Paths : C[p] = C[q] /\ C[p] # 0 => p = q
  BY <1>2, FileFacts
<1>4. \A p \in Paths : C[p] # 0 => C[p] # root
  BY <1>1, <1>2, NodeFacts
<1>5. \A p \in Paths : C[p] # 0 => C[p] \in Below(root, d)
  BY DEF Below, FileBlocks
<1>6. root # 0 => root \in Below(root, d)
  BY DEF Below
<1>7. \A b \in FileBlocks(C) : b # root /\ b # 0 /\ b \in Below(root, d)
  BY <1>4, <1>5 DEF FileBlocks
<1>8. \A b \in Below(root, d) : b \in Blocks /\ (b = root \/ b \in FileBlocks(C))
  <2>1. \A b \in Below(root, d) : b \in Blocks
    BY DEF WellFormed
  <2>2. QED BY <2>1 DEF Below, FileBlocks
<1>9. QED BY <1>1, <1>2, <1>3, <1>4, <1>5, <1>6, <1>7, <1>8

(* Only the blocks in use count.                                            *)
LEMMA TreeFrame ==
  ASSUME NEW root \in BlockNumbers, NEW free \in SUBSET Blocks, NEW d, NEW e,
         WellFormed(root, free, d), \A b \in Below(root, d) : e[b] = d[b]
  PROVE  /\ FilesAt(root, e) = FilesAt(root, d) /\ Below(root, e) = Below(root, d)
         /\ WellFormed(root, free, e)
<1> DEFINE C == FilesAt(root, d)
<1>1. /\ \A p \in Paths : C[p] # 0 => C[p] \in Below(root, d)
      /\ root # 0 => root \in Below(root, d)
  BY TreeFacts
<1>2. FilesAt(root, e) = C
  BY <1>1 DEF FilesAt
<1>3. Below(root, e) = Below(root, d)
  BY <1>2 DEF Below
<1> HIDE DEF C
<1>4. \A p \in Paths : C[p] # 0 => IsFile(e[C[p]], p)
  BY <1>1 DEF WellFormed, C
<1>5. root # 0 => \E f \in FileMaps : e[root] = FilesNode(f)
  BY <1>1 DEF WellFormed
<1>6. WellFormed(root, free, e)
  BY <1>2, <1>3, <1>4, <1>5 DEF WellFormed
<1>7. QED BY <1>2, <1>3, <1>6 DEF C

----------------------------------------------------------------------------
(* Transactions, one by one.                                                *)

(* The same, the hypothesis under a name.                                   *)
SameBelow(root, d, e) == \A b \in Below(root, d) : e[b] = d[b]

LEMMA TreeSame ==
  ASSUME NEW root \in BlockNumbers, NEW free \in SUBSET Blocks, NEW d, NEW e,
         WellFormed(root, free, d), SameBelow(root, d, e)
  PROVE  FilesAt(root, e) = FilesAt(root, d) /\ WellFormed(root, free, e)
<1>1. \A b \in Below(root, d) : e[b] = d[b]
  BY DEF SameBelow
<1>2. QED BY <1>1, TreeFrame

(* A session without transaction.                                           *)
LEMMA RestFacts ==
  ASSUME NEW r \in {Inactive, FailedTr}
  PROVE  /\ r \in Transactions /\ ~r.active
         /\ r.alloc = {} /\ r.freed = {} /\ r.removed = {}
         /\ \A b \in Blocks : r.updated[b] = 0
         /\ \A p \in Paths : r.added[p] = 0
<1>1. /\ Inactive \in Transactions /\ ~Inactive.active
      /\ Inactive.alloc = {} /\ Inactive.freed = {} /\ Inactive.removed = {}
      /\ Inactive.updated = [b \in Blocks |-> 0] /\ Inactive.added = NoFiles
  BY DEF Inactive, Transactions, NoFiles, FileMaps, BlockNumbers
<1>2. /\ FailedTr \in Transactions /\ FailedTr.active = Inactive.active
      /\ FailedTr.alloc = Inactive.alloc /\ FailedTr.freed = Inactive.freed
      /\ FailedTr.removed = Inactive.removed
      /\ FailedTr.updated = Inactive.updated /\ FailedTr.added = Inactive.added
  BY <1>1 DEF FailedTr, Transactions
<1>3. r = Inactive \/ r = FailedTr
  OBVIOUS
<1>4. \A b \in Blocks : r.updated[b] = 0
  BY <1>1, <1>2, <1>3
<1>5. \A p \in Paths : r.added[p] = 0
  BY <1>1, <1>2, <1>3 DEF NoFiles
<1>6. QED BY <1>1, <1>2, <1>3, <1>4, <1>5

(* It is consistent with every device.                                      *)
LEMMA RestOK ==
  ASSUME NEW r \in {Inactive, FailedTr}, NEW C \in FileMaps, NEW free, NEW K
  PROVE  TransactionOK(r, C, free, K, {}, {})
<1>1. /\ ~r.active /\ r.alloc = {} /\ r.freed = {} /\ r.removed = {}
      /\ \A b \in Blocks : r.updated[b] = 0
      /\ \A p \in Paths : r.added[p] = 0
  BY RestFacts
<1>2. \A p \in Paths : C[p] # 0 => C[p] \in Blocks
  BY DEF FileMaps, BlockNumbers
<1>3. QED BY <1>1, <1>2 DEF TransactionOK

(* The transaction that a request begins.                                   *)
LEMMA BegunOK ==
  ASSUME NEW r, r = [Inactive EXCEPT !.active = TRUE],
         NEW C \in FileMaps, NEW free, NEW K
  PROVE  /\ r \in Transactions /\ r.active /\ r.alloc = {}
         /\ r.added = Inactive.added /\ r.updated = Inactive.updated
         /\ r.removed = Inactive.removed
         /\ TransactionOK(r, C, free, K, {}, {})
<1>1. /\ Inactive \in Transactions
      /\ Inactive.alloc = {} /\ Inactive.freed = {} /\ Inactive.removed = {}
      /\ \A b \in Blocks : Inactive.updated[b] = 0
      /\ \A p \in Paths : Inactive.added[p] = 0
  BY RestFacts
<1>2. /\ r \in Transactions /\ r.active /\ r.alloc = Inactive.alloc
      /\ r.freed = Inactive.freed /\ r.removed = Inactive.removed
      /\ r.updated = Inactive.updated /\ r.added = Inactive.added
  BY <1>1 DEF Transactions
<1> r.failed = FALSE
  BY DEF Inactive
<1>3. /\ r.alloc = {} /\ r.freed = {} /\ r.removed = {}
      /\ \A b \in Blocks : r.updated[b] = 0
      /\ \A p \in Paths : r.added[p] = 0
  BY <1>1, <1>2
<1>4. \A p \in Paths : C[p] # 0 => C[p] \in Blocks
  BY DEF FileMaps, BlockNumbers
<1>5. TransactionOK(r, C, free, K, {}, {})
  BY <1>2, <1>3, <1>4 DEF TransactionOK
<1>6. QED BY <1>2, <1>3, <1>5

(* The contents of a transaction's files may change, their names may not.   *)
LEMMA TransactionFrame ==
  ASSUME NEW r, NEW C, NEW free, NEW K, NEW L, NEW new, NEW old,
         TransactionOK(r, C, free, K, new, old),
         \A b \in r.alloc : \A p \in Paths : IsFile(K[b], p) => IsFile(L[b], p)
  PROVE  TransactionOK(r, C, free, L, new, old)
<1>1. \A p \in Paths :
       C[p] # 0 /\ r.updated[C[p]] # 0 =>
         r.updated[C[p]] \in r.alloc /\ r.added[p] = 0 /\ IsFile(L[r.updated[C[p]]], p)
  BY DEF TransactionOK
<1>2. \A p \in Paths :
       r.added[p] # 0 => r.added[p] \in r.alloc /\ IsFile(L[r.added[p]], p)
  BY DEF TransactionOK
<1>3. QED BY <1>1, <1>2 DEF TransactionOK

(* file_create: the transaction r with block b for the new file p.          *)
Made(r, p, b) == [r EXCEPT !.alloc = @ \cup {b}, !.added[p] = b]

LEMMA CreateOK ==
  ASSUME NEW r \in Transactions, NEW C \in FileMaps, NEW free, NEW K, NEW L,
         TransactionOK(r, C, free, K, {}, {}), r.active,
         NEW p \in Paths, r.added[p] = 0, C[p] = 0 \/ C[p] \in r.removed,
         NEW b \in Blocks, b \in free \ r.alloc,
         IsFile(L[b], p), \A c \in r.alloc : L[c] = K[c],
         NEW n, n = Made(r, p, b)
  PROVE  n \in Transactions /\ n.active /\ TransactionOK(n, C, free, L, {}, {})
<1>1. /\ n \in Transactions /\ n.active /\ n.failed = r.failed
      /\ n.alloc = r.alloc \cup {b}
      /\ n.added = [r.added EXCEPT ![p] = b] /\ n.updated = r.updated
      /\ n.removed = r.removed /\ n.freed = r.freed
  BY DEF Made, Transactions, FileMaps, BlockNumbers
<1>2. n.added[p] = b /\ \A q \in Paths : q # p => n.added[q] = r.added[q]
  BY <1>1 DEF Transactions, FileMaps
<1>3. b # 0
  BY ZeroNoBlock
<1>4. r.alloc \subseteq Blocks /\ \A q \in Paths : C[q] # 0 => C[q] \in Blocks
  BY DEF Transactions, FileMaps, BlockNumbers
<1>5. \A q \in Paths :
       C[q] # 0 /\ n.updated[C[q]] # 0 =>
         n.updated[C[q]] \in n.alloc /\ n.added[q] = 0 /\ IsFile(L[n.updated[C[q]]], q)
  <2> TAKE q \in Paths
  <2>1. HAVE C[q] # 0 /\ n.updated[C[q]] # 0
  <2>2. /\ r.updated[C[q]] \in r.alloc /\ r.added[q] = 0
        /\ IsFile(K[r.updated[C[q]]], q) /\ C[q] \notin r.removed
    BY <1>1, <1>4, <2>1 DEF TransactionOK
  <2>3. q # p
    BY <2>1, <2>2
  <2>4. QED BY <1>1, <1>2, <2>2, <2>3
<1>6. \A q \in Paths :
       n.added[q] # 0 => n.added[q] \in n.alloc /\ IsFile(L[n.added[q]], q)
  BY <1>1, <1>2 DEF TransactionOK
<1>7. \A x \in n.alloc :
       \/ \E q \in Paths : n.added[q] = x
       \/ \E q \in Paths : C[q] # 0 /\ n.updated[C[q]] = x
       \/ x \in {}
  <2> TAKE x \in n.alloc
  <2>1. CASE x = b
    BY <1>2, <2>1
  <2>2. CASE x \in r.alloc
    <3>1. CASE \E q \in Paths : r.added[q] = x
      <4>1. PICK q \in Paths : r.added[q] = x
        BY <3>1
      <4>2. x # 0
        BY <1>4, <2>2, ZeroNoBlock
      <4>3. q # p
        BY <4>1, <4>2
      <4>4. QED BY <1>2, <4>1, <4>3
    <3>2. CASE \E q \in Paths : C[q] # 0 /\ r.updated[C[q]] = x
      BY <1>1, <3>2
    <3>3. QED BY <2>2, <3>1, <3>2 DEF TransactionOK
  <2>3. QED BY <1>1, <2>1, <2>2
<1>8. QED BY <1>1, <1>5, <1>6, <1>7 DEF TransactionOK

(* file_block_map_update of a committed file: copy on write, from block o   *)
(* to b.                                                                    *)
Copied(r, o, b) == [r EXCEPT !.alloc = @ \cup {b}, !.freed = @ \cup {o},
                             !.updated[o] = b]

LEMMA CopyOK ==
  ASSUME NEW r \in Transactions, NEW C \in FileMaps, NEW free, NEW K, NEW L,
         TransactionOK(r, C, free, K, {}, {}), r.active,
         \A x, y \in Paths : C[x] = C[y] /\ C[x] # 0 => x = y,
         NEW p \in Paths, C[p] # 0, r.added[p] = 0, C[p] \notin r.removed,
         NEW o, o = C[p], r.updated[o] = 0,
         NEW b \in Blocks, b \in free \ r.alloc,
         IsFile(L[b], p), \A c \in r.alloc : L[c] = K[c],
         NEW n, n = Copied(r, o, b)
  PROVE  n \in Transactions /\ n.active /\ TransactionOK(n, C, free, L, {}, {})
<1>1. o \in Blocks /\ o # 0 /\ o \in FileBlocks(C)
  BY DEF FileMaps, BlockNumbers, FileBlocks
<1>2. /\ n \in Transactions /\ n.active /\ n.failed = r.failed
      /\ n.alloc = r.alloc \cup {b}
      /\ n.updated = [r.updated EXCEPT ![o] = b] /\ n.added = r.added
      /\ n.removed = r.removed /\ n.freed = r.freed \cup {o}
  BY <1>1 DEF Copied, Transactions, FileMaps, BlockNumbers
<1>3. n.updated[o] = b /\ \A x \in Blocks : x # o => n.updated[x] = r.updated[x]
  BY <1>1, <1>2 DEF Transactions
<1>4. b # 0
  BY ZeroNoBlock
<1>5. r.alloc \subseteq Blocks /\ \A q \in Paths : C[q] # 0 => C[q] \in Blocks
  BY DEF Transactions, FileMaps, BlockNumbers
<1>6. \A x \in Blocks :
       n.updated[x] # 0 => x \in FileBlocks(C) /\ x \in n.freed \ n.removed
  BY <1>1, <1>2, <1>3 DEF TransactionOK
<1>7. \A q \in Paths :
       C[q] # 0 /\ n.updated[C[q]] # 0 =>
         n.updated[C[q]] \in n.alloc /\ n.added[q] = 0 /\ IsFile(L[n.updated[C[q]]], q)
  <2> TAKE q \in Paths
  <2>1. HAVE C[q] # 0 /\ n.updated[C[q]] # 0
  <2>2. CASE q = p
    BY <1>2, <1>3, <2>2
  <2>3. CASE q # p
    <3>1. C[q] # o /\ C[q] \in Blocks
      BY <1>5, <2>1, <2>3
    <3>2. QED BY <1>2, <1>3, <2>1, <3>1 DEF TransactionOK
  <2>4. QED BY <2>2, <2>3
<1>8. \A q \in Paths :
       n.added[q] # 0 => n.added[q] \in n.alloc /\ IsFile(L[n.added[q]], q)
  BY <1>2 DEF TransactionOK
<1>9. \A x \in n.freed : n.updated[x] # 0 \/ x \in n.removed \/ x \in {}
  <2> TAKE x \in n.freed
  <2>1. x \in Blocks
    BY <1>2 DEF Transactions
  <2>2. QED BY <1>2, <1>3, <1>4, <2>1 DEF TransactionOK
<1>10. \A x \in n.alloc :
       \/ \E q \in Paths : n.added[q] = x
       \/ \E q \in Paths : C[q] # 0 /\ n.updated[C[q]] = x
       \/ x \in {}
  <2> TAKE x \in n.alloc
  <2>1. CASE x = b
    BY <1>3, <2>1
  <2>2. CASE x \in r.alloc
    <3>1. CASE \E q \in Paths : r.added[q] = x
      BY <1>2, <3>1
    <3>2. CASE \E q \in Paths : C[q] # 0 /\ r.updated[C[q]] = x
      <4>1. PICK q \in Paths : C[q] # 0 /\ r.updated[C[q]] = x
        BY <3>2
      <4>2. x # 0
        BY <1>5, <2>2, ZeroNoBlock
      <4>3. C[q] # o /\ C[q] \in Blocks
        BY <1>5, <4>1, <4>2
      <4>4. QED BY <1>3, <4>1, <4>3
    <3>3. QED BY <2>2, <3>1, <3>2 DEF TransactionOK
  <2>3. QED BY <1>2, <2>1, <2>2
<1>11. n.alloc \subseteq free /\ n.removed \subseteq FileBlocks(C) /\ n.removed \subseteq n.freed
  BY <1>2 DEF TransactionOK
<1>12. QED BY <1>2, <1>6, <1>7, <1>8, <1>9, <1>10, <1>11 DEF TransactionOK

(* file_lookup_not_removed and the search in files_added: the cases.        *)
LEMMA LookupCases ==
  ASSUME NEW r \in Transactions, NEW C \in FileMaps, C = Committed,
         NEW p \in Paths, NEW l, l = Lookup(r, p)
  PROVE  \/ /\ r.added[p] # 0 /\ r.added[p] \in Blocks
            /\ l.block = r.added[p] /\ l.committed = 0
         \/ /\ r.added[p] = 0 /\ (C[p] = 0 \/ C[p] \in r.removed)
            /\ l.block = 0 /\ l.committed = 0
         \/ /\ r.added[p] = 0 /\ C[p] \in Blocks /\ C[p] # 0 /\ C[p] \notin r.removed
            /\ r.updated[C[p]] # 0 /\ r.updated[C[p]] \in Blocks
            /\ l.block = r.updated[C[p]] /\ l.committed = C[p]
         \/ /\ r.added[p] = 0 /\ C[p] \in Blocks /\ C[p] # 0 /\ C[p] \notin r.removed
            /\ r.updated[C[p]] = 0
            /\ l.block = C[p] /\ l.committed = C[p]
<1>1. l = IF r.added[p] # 0 THEN [block |-> r.added[p], committed |-> 0]
          ELSE IF C[p] = 0 \/ C[p] \in r.removed THEN [block |-> 0, committed |-> 0]
          ELSE IF r.updated[C[p]] # 0
               THEN [block |-> r.updated[C[p]], committed |-> C[p]]
          ELSE [block |-> C[p], committed |-> C[p]]
  BY DEF Lookup
<1>2. /\ C[p] # 0 => C[p] \in Blocks
      /\ r.added[p] # 0 => r.added[p] \in Blocks
      /\ C[p] \in Blocks => (r.updated[C[p]] # 0 => r.updated[C[p]] \in Blocks)
  BY DEF Transactions, FileMaps, BlockNumbers
<1>3. QED BY <1>1, <1>2

(* The blocks of a transaction's files: each is one file's.                 *)
LEMMA OwnBlocks ==
  ASSUME NEW r \in Transactions, NEW C \in FileMaps, NEW free, NEW K, NEW new, NEW old,
         TransactionOK(r, C, free, K, new, old),
         NEW p \in Paths, NEW q \in Paths
  PROVE  /\ r.added[p] # 0 /\ r.added[p] = r.added[q] => p = q
         /\ C[p] # 0 /\ C[q] # 0 /\ r.updated[C[p]] # 0
            /\ r.updated[C[p]] = r.updated[C[q]] => p = q
         /\ C[q] # 0 /\ r.added[p] # 0 => r.added[p] # r.updated[C[q]]
<1>1. r.added[p] # 0 => IsFile(K[r.added[p]], p)
  BY DEF TransactionOK
<1>2. r.added[q] # 0 => IsFile(K[r.added[q]], q)
  BY DEF TransactionOK
<1>3. C[p] # 0 /\ r.updated[C[p]] # 0 => r.added[p] = 0 /\ IsFile(K[r.updated[C[p]]], p)
  BY DEF TransactionOK
<1>4. C[q] # 0 /\ r.updated[C[q]] # 0 => r.added[q] = 0 /\ IsFile(K[r.updated[C[q]]], q)
  BY DEF TransactionOK
<1>5. QED BY <1>1, <1>2, <1>3, <1>4, FileFacts

(* What file_delete does to a transaction: the cases.                       *)
LEMMA DeletedCases ==
  ASSUME NEW r \in Transactions, NEW C \in FileMaps, C = Committed, NEW free, NEW K,
         TransactionOK(r, C, free, K, {}, {}), FileBlocks(C) \cap free = {},
         NEW p \in Paths, NEW l, l = Lookup(r, p), l.block # 0,
         NEW n, n = Deleted(r, p)
  PROVE  /\ n \in Transactions /\ (r.active => n.active) /\ (n.failed => r.failed)
         /\ n.added[p] = 0 /\ \A q \in Paths : q # p => n.added[q] = r.added[q]
         /\ n.alloc = r.alloc \ {l.block}
         /\ \/ /\ l.committed = 0 /\ l.block = r.added[p] /\ r.added[p] # 0
               /\ l.block \in r.alloc
               /\ n.removed = r.removed /\ n.freed = r.freed
               /\ \A b \in Blocks : n.updated[b] = r.updated[b]
            \/ /\ l.committed = C[p] /\ C[p] # 0 /\ C[p] \in Blocks /\ r.added[p] = 0
               /\ C[p] \notin r.removed
               /\ n.removed = r.removed \cup {C[p]}
               /\ n.freed = r.freed \cup {C[p]}
               /\ n.updated[C[p]] = 0
               /\ \A b \in Blocks : b # C[p] => n.updated[b] = r.updated[b]
               /\ \/ l.block = C[p] /\ C[p] \notin r.alloc /\ r.updated[C[p]] = 0
                  \/ l.block = r.updated[C[p]] /\ l.block \in r.alloc
<1> DEFINE own == l.block \in r.alloc
           upd == [b \in Blocks |-> IF b = l.committed THEN 0 ELSE r.updated[b]]
           rem == IF l.committed = 0 THEN r.removed ELSE r.removed \cup {l.committed}
           frd == IF own THEN r.freed ELSE r.freed \cup {l.block}
<1>1. n = [r EXCEPT !.added[p] = 0, !.updated = upd, !.removed = rem,
                    !.alloc = @ \ {l.block}, !.freed = frd]
  BY DEF Deleted
<1>2. l.block \in Blocks /\ (l.committed # 0 => l.committed \in Blocks)
  BY LookupCases
<1>3. upd \in [Blocks -> BlockNumbers] /\ rem \in SUBSET Blocks /\ frd \in SUBSET Blocks
  BY <1>2 DEF Transactions, BlockNumbers
<1>4. /\ upd[l.committed] = 0 \/ l.committed \notin Blocks
      /\ \A b \in Blocks : b # l.committed => upd[b] = r.updated[b]
  OBVIOUS
<1>5. /\ l.committed = 0 => rem = r.removed
      /\ l.committed # 0 => rem = r.removed \cup {l.committed}
      /\ l.block \in r.alloc => frd = r.freed
      /\ l.block \notin r.alloc => frd = r.freed \cup {l.block}
  OBVIOUS
<1> HIDE DEF upd, rem, frd
<1>6. /\ n.added = [r.added EXCEPT ![p] = 0] /\ n.updated = upd /\ n.removed = rem
      /\ n.alloc = r.alloc \ {l.block} /\ n.freed = frd
      /\ n.active = r.active /\ n.failed = r.failed /\ n \in Transactions
  <2>1. [r.added EXCEPT ![p] = 0] \in FileMaps
    BY DEF Transactions, FileMaps, BlockNumbers
  <2>2. r.alloc \ {l.block} \in SUBSET Blocks
    BY DEF Transactions
  <2> DEFINE add == [r.added EXCEPT ![p] = 0]
             all == r.alloc \ {l.block}
  <2>3. n = [r EXCEPT !.added = add, !.updated = upd, !.removed = rem,
                      !.alloc = all, !.freed = frd]
    BY <1>1 DEF Transactions
  <2> HIDE DEF add, all
  <2>4. /\ n.added = add /\ n.updated = upd /\ n.removed = rem
        /\ n.alloc = all /\ n.freed = frd /\ n.active = r.active /\ n.failed = r.failed
    BY <2>3 DEF Transactions
  <2>5. n \in Transactions
    BY <1>3, <2>1, <2>2, <2>3 DEF Transactions, add, all
  <2>6. QED BY <2>4, <2>5 DEF add, all
<1>7. n.added[p] = 0 /\ \A q \in Paths : q # p => n.added[q] = r.added[q]
  BY <1>6 DEF Transactions, FileMaps
<1>8. CASE l.committed = 0
  <2>1. r.added[p] # 0 /\ l.block = r.added[p]
    BY <1>8, LookupCases
  <2>2. l.block \in r.alloc
    BY <2>1 DEF TransactionOK
  <2>3. \A b \in Blocks : upd[b] = r.updated[b]
    BY <1>4, <1>8, ZeroNoBlock
  <2>4. QED BY <1>5, <1>6, <1>7, <1>8, <2>1, <2>2, <2>3
<1>9. CASE l.committed # 0
  <2>1. /\ l.committed = C[p] /\ C[p] # 0 /\ C[p] \in Blocks /\ r.added[p] = 0
        /\ C[p] \notin r.removed
        /\ \/ l.block = C[p] /\ r.updated[C[p]] = 0
           \/ l.block = r.updated[C[p]]
    BY <1>9, LookupCases
  <2>2. upd[C[p]] = 0 /\ \A b \in Blocks : b # C[p] => upd[b] = r.updated[b]
    BY <1>4, <2>1
  <2>3. rem = r.removed \cup {C[p]}
    BY <1>5, <2>1
  <2>4. CASE l.block = C[p] /\ r.updated[C[p]] = 0
    <3>1. C[p] \in FileBlocks(C)
      BY <2>1 DEF FileBlocks
    <3>2. C[p] \notin r.alloc
      BY <3>1 DEF TransactionOK
    <3>3. QED BY <1>5, <1>6, <1>7, <2>1, <2>2, <2>3, <2>4, <3>2
  <2>5. CASE l.block = r.updated[C[p]]
    <3>1. l.block \in r.alloc /\ C[p] \in r.freed
      BY <2>1, <2>5 DEF TransactionOK
    <3>2. frd = r.freed \cup {C[p]}
      BY <1>5, <3>1
    <3>3. QED BY <1>6, <1>7, <2>1, <2>2, <2>3, <2>5, <3>1, <3>2
  <2>6. QED BY <2>1, <2>4, <2>5
<1>10. QED BY <1>8, <1>9

(* file_delete leaves a transaction that is consistent.                     *)
LEMMA DeletedOK ==
  ASSUME NEW r \in Transactions, NEW C \in FileMaps, C = Committed, NEW free, NEW K,
         TransactionOK(r, C, free, K, {}, {}), FileBlocks(C) \cap free = {},
         \A x, y \in Paths : C[x] = C[y] /\ C[x] # 0 => x = y, r.active,
         NEW p \in Paths, NEW l, l = Lookup(r, p), l.block # 0,
         NEW n, n = Deleted(r, p)
  PROVE  TransactionOK(n, C, free, K, {}, {})
<1>1. /\ n \in Transactions /\ n.active
      /\ n.added[p] = 0 /\ \A q \in Paths : q # p => n.added[q] = r.added[q]
      /\ n.alloc = r.alloc \ {l.block}
  BY DeletedCases
<1> ~n.failed
  <2>1. n.failed => r.failed
    BY DeletedCases
  <2>2. QED BY <2>1 DEF TransactionOK
<1>2. \A q \in Paths : C[q] # 0 => C[q] \in Blocks /\ C[q] \in FileBlocks(C)
  BY DEF FileMaps, BlockNumbers, FileBlocks
<1>3. /\ r.alloc \subseteq Blocks /\ r.freed \subseteq Blocks /\ 0 \notin r.alloc
      /\ n.freed \subseteq Blocks
  BY <1>1, ZeroNoBlock DEF Transactions
<1>4. \A q \in Paths : q # p /\ r.added[q] # 0 => r.added[q] # l.block
  <2> TAKE q \in Paths
  <2>1. HAVE q # p /\ r.added[q] # 0
  <2>2. r.added[q] \in r.alloc /\ (C[p] # 0 => r.added[q] # r.updated[C[p]])
        /\ (r.added[p] # 0 => r.added[q] # r.added[p])
    BY <2>1, OwnBlocks DEF TransactionOK
  <2>3. C[p] # 0 => C[p] \notin r.alloc
    BY <1>2 DEF TransactionOK
  <2>4. QED BY <2>2, <2>3, LookupCases
<1>5. \A q \in Paths : q # p /\ C[q] # 0 /\ r.updated[C[q]] # 0 => r.updated[C[q]] # l.block
  <2> TAKE q \in Paths
  <2>1. HAVE q # p /\ C[q] # 0 /\ r.updated[C[q]] # 0
  <2>2. /\ r.updated[C[q]] \in r.alloc
        /\ r.added[p] # 0 => r.updated[C[q]] # r.added[p]
        /\ C[p] # 0 => r.updated[C[q]] # r.updated[C[p]]
    BY <2>1, OwnBlocks DEF TransactionOK
  <2>3. C[p] # 0 => C[p] \notin r.alloc
    BY <1>2 DEF TransactionOK
  <2>4. QED BY <2>2, <2>3, LookupCases
<1>6. \A q \in Paths :
       n.added[q] # 0 => n.added[q] \in n.alloc /\ IsFile(K[n.added[q]], q)
  BY <1>1, <1>4 DEF TransactionOK
<1>7. CASE /\ l.committed = 0 /\ l.block = r.added[p] /\ r.added[p] # 0
           /\ l.block \in r.alloc
           /\ n.removed = r.removed /\ n.freed = r.freed
           /\ \A b \in Blocks : n.updated[b] = r.updated[b]
  <2>1. \A q \in Paths :
         C[q] # 0 /\ n.updated[C[q]] # 0 =>
           n.updated[C[q]] \in n.alloc /\ n.added[q] = 0 /\ IsFile(K[n.updated[C[q]]], q)
    <3> TAKE q \in Paths
    <3>1. HAVE C[q] # 0 /\ n.updated[C[q]] # 0
    <3>2. /\ n.updated[C[q]] = r.updated[C[q]] /\ r.updated[C[q]] \in r.alloc
          /\ r.added[q] = 0 /\ IsFile(K[r.updated[C[q]]], q)
      BY <1>2, <1>7, <3>1 DEF TransactionOK
    <3>3. q # p
      BY <1>7, <3>2
    <3>4. QED BY <1>1, <1>5, <3>1, <3>2, <3>3
  <2>2. \A b \in n.freed : n.updated[b] # 0 \/ b \in n.removed \/ b \in {}
    BY <1>3, <1>7 DEF TransactionOK
  <2>3. \A b \in n.alloc :
         \/ \E q \in Paths : n.added[q] = b
         \/ \E q \in Paths : C[q] # 0 /\ n.updated[C[q]] = b
         \/ b \in {}
    <3> TAKE b \in n.alloc
    <3>1. b \in r.alloc /\ b # r.added[p]
      BY <1>1, <1>7
    <3>2. CASE \E q \in Paths : r.added[q] = b
      BY <1>1, <3>1, <3>2
    <3>3. CASE \E q \in Paths : C[q] # 0 /\ r.updated[C[q]] = b
      BY <1>2, <1>7, <3>3
    <3>4. QED BY <3>1, <3>2, <3>3 DEF TransactionOK
  <2>4. \A b \in Blocks :
         n.updated[b] # 0 => b \in FileBlocks(C) /\ b \in n.freed \ n.removed
    BY <1>7 DEF TransactionOK
  <2>5. n.alloc \subseteq free /\ n.removed \subseteq FileBlocks(C) /\ n.removed \subseteq n.freed
    BY <1>1, <1>7 DEF TransactionOK
  <2>6. QED BY <1>1, <1>6, <2>1, <2>2, <2>3, <2>4, <2>5 DEF TransactionOK
<1>8. CASE /\ l.committed = C[p] /\ C[p] # 0 /\ C[p] \in Blocks /\ r.added[p] = 0
           /\ C[p] \notin r.removed
           /\ n.removed = r.removed \cup {C[p]}
           /\ n.freed = r.freed \cup {C[p]}
           /\ n.updated[C[p]] = 0
           /\ \A b \in Blocks : b # C[p] => n.updated[b] = r.updated[b]
           /\ \/ l.block = C[p] /\ C[p] \notin r.alloc /\ r.updated[C[p]] = 0
              \/ l.block = r.updated[C[p]] /\ l.block \in r.alloc
  <2>1. \A q \in Paths :
         C[q] # 0 /\ n.updated[C[q]] # 0 =>
           n.updated[C[q]] \in n.alloc /\ n.added[q] = 0 /\ IsFile(K[n.updated[C[q]]], q)
    <3> TAKE q \in Paths
    <3>1. HAVE C[q] # 0 /\ n.updated[C[q]] # 0
    <3>2. q # p /\ C[q] # C[p] /\ C[q] \in Blocks
      BY <1>2, <1>8, <3>1
    <3>3. /\ n.updated[C[q]] = r.updated[C[q]] /\ r.updated[C[q]] \in r.alloc
          /\ r.added[q] = 0 /\ IsFile(K[r.updated[C[q]]], q)
      BY <1>8, <3>1, <3>2 DEF TransactionOK
    <3>4. QED BY <1>1, <1>5, <3>1, <3>2, <3>3
  <2>2. \A b \in n.freed : n.updated[b] # 0 \/ b \in n.removed \/ b \in {}
    BY <1>3, <1>8 DEF TransactionOK
  <2>3. \A b \in n.alloc :
         \/ \E q \in Paths : n.added[q] = b
         \/ \E q \in Paths : C[q] # 0 /\ n.updated[C[q]] = b
         \/ b \in {}
    <3> TAKE b \in n.alloc
    <3>1. b \in r.alloc /\ b # l.block /\ b # 0
      BY <1>1, <1>3
    <3>2. CASE \E q \in Paths : r.added[q] = b
      BY <1>1, <1>8, <3>1, <3>2
    <3>3. CASE \E q \in Paths : C[q] # 0 /\ r.updated[C[q]] = b
      <4>1. PICK q \in Paths : C[q] # 0 /\ r.updated[C[q]] = b
        BY <3>3
      <4>2. C[q] # C[p] /\ C[q] \in Blocks
        BY <1>2, <1>8, <3>1, <4>1
      <4>3. QED BY <1>8, <4>1, <4>2
    <3>4. QED BY <3>1, <3>2, <3>3 DEF TransactionOK
  <2>4. \A b \in Blocks :
         n.updated[b] # 0 => b \in FileBlocks(C) /\ b \in n.freed \ n.removed
    BY <1>8 DEF TransactionOK
  <2>5. n.alloc \subseteq free /\ n.removed \subseteq FileBlocks(C) /\ n.removed \subseteq n.freed
    BY <1>1, <1>2, <1>8 DEF TransactionOK
  <2>6. QED BY <1>1, <1>6, <2>1, <2>2, <2>3, <2>4, <2>5 DEF TransactionOK
<1>9. QED BY <1>7, <1>8, DeletedCases

(* The root that a commit allocates, and the one it frees.                  *)
Rooted(r, new, old) == [r EXCEPT !.alloc = @ \cup new, !.freed = @ \cup old]

LEMMA RootsOK ==
  ASSUME NEW r \in Transactions, NEW C \in FileMaps, NEW free \in SUBSET Blocks,
         NEW K, TransactionOK(r, C, free, K, {}, {}), r.active,
         NEW new \in SUBSET Blocks, NEW old \in SUBSET Blocks, new \subseteq free,
         NEW n, n = Rooted(r, new, old)
  PROVE  /\ n \in Transactions /\ n.active /\ TransactionOK(n, C, free, K, new, old)
         /\ n.added = r.added /\ n.updated = r.updated /\ n.removed = r.removed
         /\ n.alloc = r.alloc \cup new /\ n.freed = r.freed \cup old
<1>1. /\ n \in Transactions /\ n.active /\ n.failed = r.failed
      /\ n.added = r.added /\ n.updated = r.updated /\ n.removed = r.removed
      /\ n.alloc = r.alloc \cup new /\ n.freed = r.freed \cup old
  BY DEF Rooted, Transactions
<1>2. \A p \in Paths :
       C[p] # 0 /\ n.updated[C[p]] # 0 =>
         n.updated[C[p]] \in n.alloc /\ n.added[p] = 0 /\ IsFile(K[n.updated[C[p]]], p)
  BY <1>1 DEF TransactionOK
<1>3. \A p \in Paths :
       n.added[p] # 0 => n.added[p] \in n.alloc /\ IsFile(K[n.added[p]], p)
  BY <1>1 DEF TransactionOK
<1>4. /\ n.alloc \subseteq free
      /\ n.removed \subseteq FileBlocks(C) /\ n.removed \subseteq n.freed
      /\ \A b \in Blocks :
           n.updated[b] # 0 => b \in FileBlocks(C) /\ b \in n.freed \ n.removed
      /\ \A b \in n.freed : n.updated[b] # 0 \/ b \in n.removed \/ b \in old
  BY <1>1 DEF TransactionOK
<1>5. \A b \in n.alloc :
       \/ \E p \in Paths : n.added[p] = b
       \/ \E p \in Paths : C[p] # 0 /\ n.updated[C[p]] = b
       \/ b \in new
  BY <1>1 DEF TransactionOK
<1>6. QED BY <1>1, <1>2, <1>3, <1>4, <1>5 DEF TransactionOK

----------------------------------------------------------------------------
(* What a commit leaves.                                                    *)

(* The files N that transaction r makes of the committed files C, where the *)
(* blocks in use are used: what it allocated, and what it did not free.     *)
Renewed(N, r, C, K, used) ==
  /\ N \in FileMaps
  /\ \A p \in Paths : N[p] # 0 =>
       (N[p] \in r.alloc /\ IsFile(K[N[p]], p)) \/ (N[p] = C[p] /\ C[p] \notin r.freed)
  /\ \A p \in Paths : C[p] # 0 /\ C[p] \notin r.freed => N[p] = C[p]
  /\ \A p \in Paths : r.added[p] # 0 => N[p] = r.added[p]
  /\ \A p \in Paths : C[p] # 0 /\ r.updated[C[p]] # 0 => N[p] = r.updated[C[p]]
  /\ \A p \in Paths : C[p] # 0 /\ C[p] \in r.removed => N[p] = r.added[p]
  /\ \A p \in Paths : C[p] = 0 => N[p] = r.added[p]
  /\ r.alloc \cap r.freed = {} /\ r.alloc \cap used = {}

(* file_transaction_complete makes such files.                              *)
LEMMA NewFilesFacts ==
  ASSUME NEW C, C = Committed, NEW root \in BlockNumbers, NEW free \in SUBSET Blocks, NEW d,
         WellFormed(root, free, d), C = FilesAt(root, d),
         NEW r \in Transactions, NEW K, NEW new, NEW old,
         TransactionOK(r, C, free, K, new, old), old \subseteq {root}, ~AddConflicts(r),
         NEW N, N = NewFiles(r)
  PROVE  Renewed(N, r, C, K, Below(root, d))
<1>1. C \in FileMaps /\ (\A p \in Paths : C[p] # 0 => C[p] # root /\ C[p] \in Below(root, d))
      /\ (\A b \in FileBlocks(C) : b # root /\ b # 0 /\ b \in Below(root, d))
      /\ (root # 0 => root \in Below(root, d))
  BY TreeFacts
<1>2. \A p \in Paths : C[p] # 0 => C[p] \in Blocks
  BY <1>1 DEF FileMaps, BlockNumbers
<1> DEFINE k(p) == IF C[p] = 0 \/ C[p] \in r.removed THEN 0
                   ELSE IF r.updated[C[p]] # 0 THEN r.updated[C[p]] ELSE C[p]
<1>3. \A p \in Paths : Kept(r)[p] = k(p)
  BY DEF Kept
<1>4. \A p \in Paths : r.added[p] # 0 => k(p) = 0
  BY <1>3 DEF AddConflicts
<1>5. \A p \in Paths : N[p] = IF r.added[p] # 0 THEN r.added[p] ELSE k(p)
  BY <1>3 DEF NewFiles
<1>6. \A p \in Paths : k(p) \in BlockNumbers
  BY <1>1, <1>2 DEF Transactions, FileMaps, BlockNumbers
<1>7. N \in FileMaps
  <2>1. N = [p \in Paths |-> N[p]]
    BY DEF NewFiles
  <2>2. \A p \in Paths : N[p] \in BlockNumbers
    BY <1>5, <1>6 DEF Transactions, FileMaps
  <2>3. QED BY <2>1, <2>2 DEF FileMaps
<1>8. \A p \in Paths : C[p] # 0 /\ r.updated[C[p]] # 0 =>
         /\ C[p] \in r.freed /\ C[p] \notin r.removed /\ r.added[p] = 0
         /\ r.updated[C[p]] \in r.alloc /\ IsFile(K[r.updated[C[p]]], p)
  BY <1>2 DEF TransactionOK
<1>9. \A p \in Paths : C[p] # 0 /\ C[p] \notin r.removed /\ r.updated[C[p]] = 0
         => C[p] \notin r.freed
  BY <1>1 DEF TransactionOK
<1>10. \A p \in Paths : r.added[p] # 0 => r.added[p] \in r.alloc /\ IsFile(K[r.added[p]], p)
  BY DEF TransactionOK
<1>11. r.removed \subseteq r.freed
  BY DEF TransactionOK
<1>12. r.alloc \cap Below(root, d) = {}
  BY DEF TransactionOK, WellFormed
<1>13. r.alloc \cap r.freed = {}
  <2> SUFFICES ASSUME NEW b \in r.alloc, b \in r.freed PROVE FALSE
    OBVIOUS
  <2>1. b \in Blocks
    BY DEF Transactions
  <2>2. r.updated[b] # 0 \/ b \in r.removed \/ b \in old
    BY DEF TransactionOK
  <2>3. b \in FileBlocks(C) \/ b = root
    BY <2>1, <2>2 DEF TransactionOK
  <2>4. b # 0
    BY <2>1, ZeroNoBlock
  <2>5. b \in Below(root, d)
    BY <1>1, <2>3, <2>4
  <2>6. QED BY <1>12, <2>5
<1> HIDE DEF k
<1>14. \A p \in Paths : N[p] # 0 =>
         (N[p] \in r.alloc /\ IsFile(K[N[p]], p)) \/ (N[p] = C[p] /\ C[p] \notin r.freed)
  <2> TAKE p \in Paths
  <2>1. HAVE N[p] # 0
  <2>2. CASE r.added[p] # 0
    BY <1>5, <1>10, <2>2
  <2>3. CASE r.added[p] = 0
    <3>1. N[p] = k(p) /\ k(p) # 0
      BY <1>5, <2>1, <2>3
    <3>2. C[p] # 0 /\ C[p] \notin r.removed
      BY <3>1 DEF k
    <3>3. CASE r.updated[C[p]] # 0
      BY <1>8, <3>1, <3>2, <3>3 DEF k
    <3>4. CASE r.updated[C[p]] = 0
      BY <1>9, <3>1, <3>2, <3>4 DEF k
    <3>5. QED BY <3>3, <3>4
  <2>4. QED BY <2>2, <2>3
<1>15. \A p \in Paths : C[p] # 0 /\ C[p] \notin r.freed => N[p] = C[p]
  <2> TAKE p \in Paths
  <2>1. HAVE C[p] # 0 /\ C[p] \notin r.freed
  <2>2. C[p] \notin r.removed /\ r.updated[C[p]] = 0
    BY <1>8, <1>11, <2>1
  <2>3. k(p) = C[p]
    BY <2>1, <2>2 DEF k
  <2>4. QED BY <1>4, <1>5, <2>1, <2>3
<1>16. \A p \in Paths : C[p] # 0 /\ r.updated[C[p]] # 0 => N[p] = r.updated[C[p]]
  <2> TAKE p \in Paths
  <2>1. HAVE C[p] # 0 /\ r.updated[C[p]] # 0
  <2>2. k(p) = r.updated[C[p]] /\ r.added[p] = 0
    BY <1>8, <2>1 DEF k
  <2>3. QED BY <1>5, <2>2
<1>17. \A p \in Paths : C[p] # 0 /\ C[p] \in r.removed => N[p] = r.added[p]
  BY <1>5 DEF k
<1>18. \A p \in Paths : C[p] = 0 => N[p] = r.added[p]
  BY <1>5 DEF k
<1>19. QED BY <1>5, <1>7, <1>12, <1>13, <1>14, <1>15, <1>16, <1>17, <1>18 DEF Renewed

(* The device that a commit leaves is well formed, with the new files.      *)
LEMMA CommitTree ==
  ASSUME NEW C, C = Committed, NEW root \in BlockNumbers, NEW free \in SUBSET Blocks, NEW d,
         WellFormed(root, free, d), C = FilesAt(root, d),
         NEW r \in Transactions, NEW K, NEW new, NEW old,
         TransactionOK(r, C, free, K, new, old), ~AddConflicts(r),
         NEW N, N = NewFiles(r), NEW e,
         \A b \in r.alloc : e[b] = K[b],
         \A b \in Blocks \ (r.alloc \cup r.freed) : e[b] = d[b],
         NEW nroot \in BlockNumbers, NEW nfree, nfree = (free \ r.alloc) \cup r.freed,
         IF Changed(r)
         THEN /\ nroot \in r.alloc /\ K[nroot] = FilesNode(N)
              /\ new = {nroot} /\ old = {root} \ {0} /\ old \subseteq r.freed
         ELSE nroot = root /\ new = {} /\ old = {}
  PROVE  WellFormed(nroot, nfree, e) /\ FilesAt(nroot, e) = N
<1>1. /\ N \in FileMaps
      /\ \A p \in Paths : N[p] # 0 =>
           (N[p] \in r.alloc /\ IsFile(K[N[p]], p)) \/ (N[p] = C[p] /\ C[p] \notin r.freed)
      /\ \A p \in Paths : C[p] # 0 /\ C[p] \notin r.freed => N[p] = C[p]
      /\ \A p \in Paths : r.added[p] # 0 => N[p] = r.added[p]
      /\ \A p \in Paths : C[p] # 0 /\ r.updated[C[p]] # 0 => N[p] = r.updated[C[p]]
      /\ r.alloc \cap r.freed = {} /\ r.alloc \cap Below(root, d) = {}
  <2>1. old \subseteq {root}
    OBVIOUS
  <2>2. Renewed(N, r, C, K, Below(root, d))
    BY <2>1, NewFilesFacts
  <2>3. QED BY <2>2 DEF Renewed
<1>2. /\ C \in FileMaps
      /\ \A p \in Paths : C[p] # 0 => C[p] # root /\ C[p] \in Below(root, d)
                                         /\ IsFile(d[C[p]], p)
      /\ root # 0 => root \in Below(root, d)
      /\ \A b \in Below(root, d) : b \in Blocks /\ (b = root \/ b \in FileBlocks(C))
  BY TreeFacts
<1>3. r.alloc \subseteq Blocks /\ r.freed \subseteq Blocks /\ 0 \notin Blocks /\ r.alloc \subseteq free
  BY ZeroNoBlock DEF Transactions, TransactionOK
<1>4. Below(root, d) \cup free = Blocks /\ Below(root, d) \cap free = {}
  BY DEF WellFormed
<1>5. CASE ~Changed(r)
  <2>1. /\ r.removed = {} /\ \A p \in Paths : r.added[p] = 0
        /\ \A b \in Blocks : r.updated[b] = 0
    BY <1>5 DEF Changed
  <2>2. \A p \in Paths : C[p] # 0 => C[p] \in Blocks
    BY <1>2 DEF FileMaps, BlockNumbers
  <2>3. r.alloc = {}
    <3> SUFFICES ASSUME NEW b \in r.alloc PROVE FALSE
      OBVIOUS
    <3>1. \/ \E p \in Paths : r.added[p] = b
          \/ \E p \in Paths : C[p] # 0 /\ r.updated[C[p]] = b
      BY <1>5 DEF TransactionOK
    <3>2. QED BY <1>3, <2>1, <2>2, <3>1
  <2>4. r.freed = {}
    BY <1>3, <1>5, <2>1 DEF TransactionOK
  <2>5. \A b \in Below(root, d) : e[b] = d[b]
    BY <1>2, <2>3, <2>4
  <2>6. WellFormed(root, free, e) /\ FilesAt(root, e) = C
    BY <2>5, TreeFrame
  <2>7. N = C
    <3>1. \A p \in Paths : N[p] = C[p]
      BY <1>1, <2>3, <2>4
    <3>2. QED BY <1>1, <1>2, <3>1 DEF FileMaps
  <2>8. nfree = free /\ nroot = root
    BY <1>5, <2>3, <2>4
  <2>9. QED BY <2>6, <2>7, <2>8
<1>6. CASE Changed(r)
  <2>1. nroot \in r.alloc /\ nroot # 0 /\ e[nroot] = FilesNode(N)
    BY <1>3, <1>6
  <2>2. FilesAt(nroot, e) = N
    BY <1>1, <2>1, NodeFacts DEF FilesAt
  <2>3. \A p \in Paths : N[p] # 0 => IsFile(e[N[p]], p)
    <3> TAKE p \in Paths
    <3>1. HAVE N[p] # 0
    <3>2. CASE N[p] \in r.alloc /\ IsFile(K[N[p]], p)
      BY <3>2
    <3>3. CASE N[p] = C[p] /\ C[p] \notin r.freed
      <4>1. C[p] \in Below(root, d) /\ IsFile(d[C[p]], p)
        BY <1>2, <3>1, <3>3
      <4>2. C[p] \in Blocks \ (r.alloc \cup r.freed)
        BY <1>1, <1>2, <3>3, <4>1
      <4>3. e[C[p]] = d[C[p]]
        BY <4>2
      <4>4. QED BY <3>3, <4>1, <4>3
    <3>4. QED BY <1>1, <3>1, <3>2, <3>3
  <2>4. \A b : b \in Below(nroot, e) <=> b = nroot \/ (b # 0 /\ \E p \in Paths : N[p] = b)
    BY <2>1, <2>2 DEF Below, FileBlocks
  <2>5. \A b \in Below(nroot, e) : b \in Blocks \ nfree
    <3> TAKE b \in Below(nroot, e)
    <3>1. CASE b \in r.alloc
      BY <1>1, <1>3, <3>1
    <3>2. CASE b \notin r.alloc
      <4>1. PICK p \in Paths : N[p] = b /\ b # 0
        BY <2>1, <2>4, <3>2
      <4>2. b = C[p] /\ C[p] \notin r.freed
        BY <1>1, <3>2, <4>1
      <4>3. b \in Below(root, d)
        BY <1>2, <4>1, <4>2
      <4>4. QED BY <1>4, <4>2, <4>3
    <3>3. QED BY <3>1, <3>2
  <2>6. ASSUME NEW b \in Blocks, b \notin nfree PROVE b \in Below(nroot, e)
    <3>1. CASE b \in r.alloc
      <4>1. \/ \E p \in Paths : r.added[p] = b
            \/ \E p \in Paths : C[p] # 0 /\ r.updated[C[p]] = b
            \/ b = nroot
        BY <1>6, <3>1 DEF TransactionOK
      <4>2. b # 0
        BY <1>3
      <4>3. QED BY <1>1, <2>4, <4>1, <4>2
    <3>2. CASE b \notin r.alloc
      <4>1. b \notin free /\ b \notin r.freed
        BY <2>6, <3>2
      <4>2. b \in Below(root, d)
        BY <1>4, <4>1
      <4>3. b # 0 /\ b # root
        BY <1>3, <1>6, <4>1
      <4>4. PICK p \in Paths : C[p] = b
        BY <1>2, <4>2, <4>3 DEF FileBlocks
      <4>5. N[p] = b
        BY <1>1, <4>1, <4>3, <4>4
      <4>6. QED BY <2>4, <4>3, <4>5
    <3>3. QED BY <3>1, <3>2
  <2>7. nfree \subseteq Blocks
    BY <1>3
  <2>8. Below(nroot, e) \cup nfree = Blocks /\ Below(nroot, e) \cap nfree = {}
    BY <2>5, <2>6, <2>7
  <2>9. QED BY <1>1, <2>1, <2>2, <2>3, <2>8 DEF WellFormed
<1>7. QED BY <1>5, <1>6

(* Another transaction that freed none of the same blocks goes on beside    *)
(* the new files.                                                           *)
LEMMA SurvivorOK ==
  ASSUME NEW C \in FileMaps, NEW N, NEW r \in Transactions, NEW K, NEW L, NEW used,
         Renewed(N, r, C, K, used), FileBlocks(C) \subseteq used,
         NEW free, NEW nfree, nfree = (free \ r.alloc) \cup r.freed,
         NEW s \in Transactions, TransactionOK(s, C, free, K, {}, {}),
         s.alloc \cap r.alloc = {}, s.freed \cap r.freed = {},
         \A b \in s.alloc : L[b] = K[b]
  PROVE  TransactionOK(s, N, nfree, L, {}, {})
<1>1. /\ N \in FileMaps
      /\ \A p \in Paths : N[p] # 0 => N[p] \in r.alloc \/ N[p] = C[p]
      /\ \A p \in Paths : C[p] # 0 /\ C[p] \notin r.freed => N[p] = C[p]
      /\ r.alloc \cap FileBlocks(C) = {}
  BY DEF Renewed
<1>2. \A p \in Paths : C[p] # 0 /\ C[p] \in s.freed => N[p] = C[p]
  BY <1>1
<1>3. \A p \in Paths : N[p] # 0 /\ N[p] \in FileBlocks(C) => N[p] = C[p]
  BY <1>1
<1>4. \A b \in FileBlocks(C) : b \in s.freed => b \in FileBlocks(N)
  BY <1>2 DEF FileBlocks
<1>5. \A p \in Paths : N[p] # 0 => N[p] \in Blocks
  BY <1>1 DEF FileMaps, BlockNumbers
<1>6. \A p \in Paths : C[p] # 0 => C[p] \in Blocks
  BY DEF FileMaps, BlockNumbers
<1>7. /\ s.alloc \subseteq nfree
      /\ s.removed \subseteq FileBlocks(N) /\ s.removed \subseteq s.freed
      /\ \A b \in Blocks :
           s.updated[b] # 0 => b \in FileBlocks(N) /\ b \in s.freed \ s.removed
  BY <1>4 DEF TransactionOK
<1>8. \A p \in Paths :
       N[p] # 0 /\ s.updated[N[p]] # 0 =>
         s.updated[N[p]] \in s.alloc /\ s.added[p] = 0 /\ IsFile(L[s.updated[N[p]]], p)
  <2> TAKE p \in Paths
  <2>1. HAVE N[p] # 0 /\ s.updated[N[p]] # 0
  <2>2. N[p] \in FileBlocks(C)
    BY <1>5, <2>1 DEF TransactionOK
  <2>3. N[p] = C[p]
    BY <1>3, <2>1, <2>2
  <2>4. QED BY <2>1, <2>3 DEF TransactionOK
<1>9. \A p \in Paths :
       s.added[p] # 0 => s.added[p] \in s.alloc /\ IsFile(L[s.added[p]], p)
  BY DEF TransactionOK
<1>10. \A b \in s.alloc :
       \/ \E p \in Paths : s.added[p] = b
       \/ \E p \in Paths : N[p] # 0 /\ s.updated[N[p]] = b
       \/ b \in {}
  <2> TAKE b \in s.alloc
  <2>1. CASE \E p \in Paths : s.added[p] = b
    BY <2>1
  <2>2. CASE \E p \in Paths : C[p] # 0 /\ s.updated[C[p]] = b
    <3>1. PICK p \in Paths : C[p] # 0 /\ s.updated[C[p]] = b
      BY <2>2
    <3>2. b # 0
      BY ZeroNoBlock DEF Transactions
    <3>3. C[p] \in s.freed
      BY <1>6, <3>1, <3>2 DEF TransactionOK
    <3>4. QED BY <1>2, <3>1, <3>3
  <2>3. QED BY <2>1, <2>2 DEF TransactionOK
<1>11. \A b \in s.freed : s.updated[b] # 0 \/ b \in s.removed \/ b \in {}
  BY DEF TransactionOK
<1>12. ~s.active => s \in {Inactive, FailedTr}
  BY DEF TransactionOK
<1>13. QED BY <1>7, <1>8, <1>9, <1>10, <1>11, <1>12 DEF TransactionOK

----------------------------------------------------------------------------
(* Open files.                                                              *)

(* Sizes, and a file that has just been opened.                             *)
LEMMA HandleFacts ==
  ASSUME NEW b \in BlockNumbers, NEW c \in BlockNumbers
  PROVE  /\ Handle(b, c) \in Handles /\ Handle(b, c).block = b /\ Handle(b, c).committed = c
         /\ Handle(b, c).saw = NULL /\ FileSize(b) \in 0..1
<1>1. FileSize(b) \in 0..1
  BY DEF FileSize, Size
<1> HIDE DEF FileSize
<1>2. QED BY <1>1 DEF Handle, Handles

(* Sizes of files.                                                          *)
LEMMA SizeFacts == \A v : Size(v) \in 0..1
BY DEF Size

(* file_transaction_failed leaves a file that is consistent.                *)
LEMMA RestoredOK ==
  ASSUME NEW h \in Handles \cup {NULL}, NEW lost \in BOOLEAN, NEW s, NEW C,
         h # NULL => HandleOK(h, s, C), NEW r \in {Inactive, FailedTr}, C \in FileMaps
  PROVE  /\ Restored(h, lost) \in Handles \cup {NULL}
         /\ Restored(h, lost) # NULL => HandleOK(Restored(h, lost), r, C)
         /\ Restored(h, lost) # NULL => Restored(h, lost).saw = NULL
<1>1. CASE h = NULL
  BY <1>1 DEF Restored
<1>2. CASE h # NULL
  <2>1. h \in Handles
    BY <1>2
  <2> DEFINE g == Restored(h, lost)
  <2>2. /\ g \in Handles /\ g.block = g.committed /\ g.saw = NULL
        /\ g.committed = 0 \/ g.committed = h.committed
    <3>1. /\ g = Handle(0, 0) \/ g = Handle(h.committed, h.committed)
             \/ (h.block = h.committed /\ g = [h EXCEPT !.used = FALSE, !.saw = NULL])
      BY <1>2 DEF Restored
    <3>2. h.committed \in BlockNumbers /\ 0 \in BlockNumbers
      BY <2>1 DEF Handles, BlockNumbers
    <3>3. CASE g = Handle(0, 0) \/ g = Handle(h.committed, h.committed)
      BY <3>2, <3>3, HandleFacts
    <3>4. CASE h.block = h.committed /\ g = [h EXCEPT !.used = FALSE, !.saw = NULL]
      BY <2>1, <3>4 DEF Handles
    <3>5. QED BY <3>1, <3>3, <3>4
  <2>3. /\ r.removed = {} /\ (\A b \in Blocks : r.updated[b] = 0)
        /\ \A p \in Paths : r.added[p] = 0
    BY RestFacts
  <2> HIDE DEF g
  <2>4. g.committed # 0 => g.committed \in FileBlocks(C) /\ g.committed \in Blocks
    BY <1>2, <2>1, <2>2 DEF HandleOK, Handles, BlockNumbers
  <2>5. HandleOK(g, r, C)
    BY <2>2, <2>3, <2>4 DEF HandleOK
  <2>6. QED BY <2>2, <2>5 DEF g
<1>3. QED BY <1>1, <1>2

(* An open file of another session beside the new files of a commit.        *)
LEMMA AppliedOther ==
  ASSUME NEW C \in FileMaps, NEW N, NEW t \in Sessions, NEW u \in Sessions, u # t,
         NEW r \in Transactions, r = tr[t], NEW K, NEW used,
         Renewed(N, r, C, K, used), FileBlocks(C) \subseteq used,
         NEW free, NEW new, NEW old, TransactionOK(r, C, free, K, new, old),
         old \cap FileBlocks(C) = {},
         NEW s \in Transactions, TransactionOK(s, C, free, K, {}, {}),
         \A x, y \in Paths : C[x] = C[y] /\ C[x] # 0 => x = y,
         NEW h \in Handles, h = file[u], h # NULL, HandleOK(h, s, C)
  PROVE  /\ Applied(t)[u] \in Handles /\ HandleOK(Applied(t)[u], s, N)
         /\ ~Moves(t, u) => Applied(t)[u] = h
<1> DEFINE c == h.committed
           x == ToCommit(t, u)
<1>1. x = IF c = 0 THEN 0 ELSE IF c \in r.removed THEN 0
          ELSE IF r.updated[c] # 0 THEN r.updated[c] ELSE c
  BY DEF ToCommit
<1>2. Moves(t, u) <=> x # c
  BY DEF Moves
<1> DEFINE m == [h EXCEPT !.block = x, !.committed = x, !.size = FileSize(x)]
<1>3. Applied(t)[u] = IF x # c THEN m ELSE h
  BY <1>2 DEF Applied
<1>4. c \in BlockNumbers
  BY DEF Handles
<1> HIDE DEF x, c
<1>5. /\ N \in FileMaps
      /\ \A p \in Paths : N[p] # 0 =>
           (N[p] \in r.alloc /\ IsFile(K[N[p]], p)) \/ (N[p] = C[p] /\ C[p] \notin r.freed)
      /\ \A p \in Paths : C[p] # 0 /\ C[p] \notin r.freed => N[p] = C[p]
      /\ \A p \in Paths : C[p] # 0 /\ r.updated[C[p]] # 0 => N[p] = r.updated[C[p]]
      /\ r.alloc \cap FileBlocks(C) = {}
  BY DEF Renewed
<1>6. x \in BlockNumbers
  BY <1>1, <1>4 DEF Transactions, BlockNumbers
<1>7. Applied(t)[u] \in Handles /\ m.block = x /\ m.committed = x
  <2>1. FileSize(x) \in 0..1
    BY <1>6, HandleFacts
  <2>2. m \in Handles /\ m.block = x /\ m.committed = x
    BY <1>6, <2>1 DEF Handles
  <2>3. QED BY <1>3, <2>2
<1> HIDE DEF m
<1>8. CASE c = 0
  <2>1. Applied(t)[u] = h
    BY <1>1, <1>3, <1>8
  <2>2. HandleOK(h, s, N)
    BY <1>8 DEF HandleOK, c
  <2>3. QED BY <1>7, <2>1, <2>2
<1>9. CASE c # 0
  <2>1. /\ c \in FileBlocks(C) /\ c \in Blocks
        /\ \A p \in Paths : C[p] = c => s.added[p] = 0
        /\ h.block = IF c \in s.removed THEN 0
                     ELSE IF s.updated[c] # 0 THEN s.updated[c] ELSE c
    BY <1>4, <1>9 DEF HandleOK, c, BlockNumbers
  <2>2. PICK p \in Paths : C[p] = c
    BY <2>1 DEF FileBlocks
  <2>3. CASE x = c
    <3>1. c \notin r.removed /\ r.updated[c] = 0
      <4>1. c \notin r.removed
        BY <1>1, <1>9, <2>3
      <4>2. r.updated[c] # 0 => r.updated[c] \in r.alloc
        BY <1>9, <2>2 DEF TransactionOK
      <4>3. QED BY <1>1, <1>5, <1>9, <2>1, <2>3, <4>1, <4>2
    <3>2. c \notin r.freed
      BY <2>1, <3>1 DEF TransactionOK
    <3>3. N[p] = c
      BY <1>5, <1>9, <2>2, <3>2
    <3>4. c \in FileBlocks(N)
      BY <1>9, <3>3 DEF FileBlocks
    <3>5. \A q \in Paths : N[q] = c => s.added[q] = 0
      <4> TAKE q \in Paths
      <4>1. HAVE N[q] = c
      <4>2. C[q] = c
        BY <1>5, <1>9, <2>1, <4>1
      <4>3. QED BY <2>1, <4>2
    <3>6. HandleOK(h, s, N)
      BY <1>9, <2>1, <3>4, <3>5 DEF HandleOK, c
    <3>7. Applied(t)[u] = h
      BY <1>3, <2>3
    <3>8. QED BY <1>7, <3>6, <3>7
  <2>4. CASE x # c /\ x = 0
    <3>1. Applied(t)[u] = m
      BY <1>3, <2>4
    <3>2. HandleOK(m, s, N)
      BY <1>7, <2>4 DEF HandleOK
    <3>3. QED BY <1>2, <1>7, <2>4, <3>1, <3>2
  <2>5. CASE x # c /\ x # 0
    <3>1. x = r.updated[c] /\ N[p] = x /\ x \in r.alloc
      BY <1>1, <1>5, <1>9, <2>2, <2>5 DEF TransactionOK
    <3>2. x \in FileBlocks(N) /\ x \in Blocks
      BY <1>6, <2>5, <3>1 DEF FileBlocks, BlockNumbers
    <3>3. \A q \in Paths : N[q] = x => s.added[q] = 0
      <4> TAKE q \in Paths
      <4>1. HAVE N[q] = x
      <4>2. IsFile(K[x], q) \/ x = C[q]
        BY <1>5, <2>5, <4>1
      <4>3. x # C[q]
        BY <1>5, <2>5, <3>1 DEF FileBlocks
      <4>4. IsFile(K[x], p)
        BY <1>9, <2>2, <2>5, <3>1 DEF TransactionOK
      <4>5. q = p
        BY <4>2, <4>3, <4>4, FileFacts
      <4>6. QED BY <2>1, <2>2, <4>5
    <3>4. x \notin s.removed /\ s.updated[x] = 0
      BY <1>5, <3>1, <3>2 DEF TransactionOK
    <3>5. HandleOK(m, s, N)
      BY <1>7, <2>5, <3>2, <3>3, <3>4 DEF HandleOK
    <3>6. QED BY <1>2, <1>3, <1>7, <2>5, <3>5
  <2>6. QED BY <2>3, <2>4, <2>5
<1>10. QED BY <1>8, <1>9

(* The open file of the session that commits.                               *)
LEMMA AppliedSelf ==
  ASSUME NEW C \in FileMaps, NEW N, NEW t \in Sessions,
         NEW r \in Transactions, r = tr[t], NEW K, NEW used,
         Renewed(N, r, C, K, used), FileBlocks(C) \subseteq used,
         NEW free, NEW new, NEW old, TransactionOK(r, C, free, K, new, old),
         old \cap FileBlocks(C) = {},
         NEW h \in Handles, h = file[t], h # NULL, HandleOK(h, r, C)
  PROVE  Applied(t)[t] \in Handles /\ HandleOK(Applied(t)[t], Inactive, N)
         /\ Applied(t)[t].saw = NULL
<1> DEFINE c == h.committed
           x == ToCommit(t, t)
           g == Applied(t)[t]
<1>1. x = IF c = 0 THEN IF h.block \in {r.added[p] : p \in Paths} THEN h.block ELSE 0
          ELSE IF c \in r.removed THEN 0
          ELSE IF r.updated[c] # 0 THEN r.updated[c] ELSE c
  BY DEF ToCommit
<1> DEFINE k == [h EXCEPT !.used = FALSE, !.saw = NULL]
           m == [k EXCEPT !.block = x, !.committed = x, !.size = FileSize(x)]
<1>2. g = IF x # c THEN m ELSE k
  BY DEF Applied, Moves
<1>3. c \in BlockNumbers /\ h.block \in BlockNumbers
  BY DEF Handles
<1>4. k \in Handles /\ k.block = h.block /\ k.committed = h.committed /\ k.saw = NULL
  BY DEF Handles
<1>5. /\ Inactive.removed = {} /\ (\A b \in Blocks : Inactive.updated[b] = 0)
      /\ \A p \in Paths : Inactive.added[p] = 0
  BY RestFacts
<1> HIDE DEF x, c, g
<1>6. x \in BlockNumbers
  BY <1>1, <1>3 DEF Transactions, BlockNumbers
<1>7. g \in Handles /\ g.committed = x /\ g.saw = NULL /\ (x # c => g.block = x)
  <2>1. FileSize(x) \in 0..1
    BY <1>6, HandleFacts
  <2> HIDE DEF k
  <2>2. m \in Handles /\ m.block = x /\ m.committed = x /\ m.saw = NULL
    BY <1>4, <1>6, <2>1 DEF Handles
  <2>3. QED BY <1>2, <1>4, <2>2 DEF c
<1> HIDE DEF k, m
<1>8. /\ \A p \in Paths : C[p] # 0 /\ C[p] \notin r.freed => N[p] = C[p]
      /\ \A p \in Paths : r.added[p] # 0 => N[p] = r.added[p]
      /\ \A p \in Paths : C[p] # 0 /\ r.updated[C[p]] # 0 => N[p] = r.updated[C[p]]
      /\ r.alloc \cap FileBlocks(C) = {}
  BY DEF Renewed
<1>9. x # 0 => x \in FileBlocks(N)
  <2> SUFFICES ASSUME x # 0 PROVE x \in FileBlocks(N)
    OBVIOUS
  <2>1. CASE c = 0
    <3>1. PICK p \in Paths : r.added[p] = x
      BY <1>1, <2>1
    <3>2. QED BY <1>8, <3>1 DEF FileBlocks
  <2>2. CASE c # 0
    <3>1. c \in FileBlocks(C) /\ c \in Blocks
      BY <1>3, <2>2 DEF HandleOK, c, BlockNumbers
    <3>2. PICK p \in Paths : C[p] = c
      BY <3>1 DEF FileBlocks
    <3>3. CASE r.updated[c] # 0
      <4>1. c \notin r.removed
        BY <3>1, <3>3 DEF TransactionOK
      <4>2. QED BY <1>1, <1>8, <2>2, <3>2, <3>3, <4>1 DEF FileBlocks
    <3>4. CASE r.updated[c] = 0
      <4>1. c \notin r.removed /\ x = c
        BY <1>1, <2>2, <3>4
      <4>2. c \notin r.freed
        BY <3>1, <3>4, <4>1 DEF TransactionOK
      <4>3. QED BY <1>8, <2>2, <3>2, <4>1, <4>2 DEF FileBlocks
    <3>5. QED BY <3>3, <3>4
  <2>3. QED BY <2>1, <2>2
<1>10. g.block = x
  <2>1. CASE x # c
    BY <1>7, <2>1
  <2>2. CASE x = c /\ c = 0
    <3>1. h.block # 0 => \E p \in Paths : r.added[p] = h.block
      BY <2>2 DEF HandleOK, c
    <3>2. h.block = 0
      BY <1>1, <2>2, <3>1
    <3>3. QED BY <1>2, <1>4, <2>2, <3>2
  <2>3. CASE x = c /\ c # 0
    <3>1. /\ c \in FileBlocks(C) /\ c \in Blocks
          /\ h.block = IF c \in r.removed THEN 0
                       ELSE IF r.updated[c] # 0 THEN r.updated[c] ELSE c
      BY <1>3, <2>3 DEF HandleOK, c, BlockNumbers
    <3>2. h.block = c
      BY <1>1, <2>3, <3>1
    <3>3. QED BY <1>2, <1>4, <2>3, <3>2
  <2>4. QED BY <2>1, <2>2, <2>3
<1>11. x # 0 => x \in Blocks
  BY <1>6 DEF BlockNumbers
<1>12. HandleOK(g, Inactive, N)
  BY <1>5, <1>7, <1>9, <1>10, <1>11 DEF HandleOK
<1>13. QED BY <1>7, <1>12 DEF g

----------------------------------------------------------------------------
(* Steps of the service.                                                    *)

(* What the invariant says while the service runs.                          *)
LEMMA UpFacts ==
  ASSUME StoreInv, fs.state = "up"
  PROVE  /\ fs.files \in BlockNumbers /\ fs.free \in SUBSET Blocks /\ fs.version \in 0..3
         /\ Chosen(super).files = fs.files /\ Chosen(super).free = fs.free
         /\ Chosen(super).flags = fs.version
         /\ WellFormed(fs.files, fs.free, disk)
         /\ Committed \in FileMaps /\ Contents \in [Blocks -> Nodes]
<1>1. fs.files \in BlockNumbers /\ fs.free \in SUBSET Blocks /\ fs.version \in 0..3
  BY DEF StoreInv, StoreTypes
<1>2. /\ Chosen(super).files = fs.files /\ Chosen(super).free = fs.free
      /\ Chosen(super).flags = fs.version
  BY DEF StoreInv, MemoryIsOnDisk
<1>3. WellFormed(fs.files, fs.free, disk)
  BY <1>2 DEF StoreInv, OnDevice
<1>4. Committed \in FileMaps
  BY <1>1, <1>3, TreeFacts DEF Committed
<1>5. Contents \in [Blocks -> Nodes]
  BY DEF StoreInv, StoreTypes, Contents, Content, Dirty
<1>6. QED BY <1>1, <1>2, <1>3, <1>4, <1>5

(* The blocks of open transactions are none of the committed ones.          *)
LEMMA AllocApart ==
  ASSUME StoreInv, fs.state = "up", NEW t \in Sessions
  PROVE  /\ tr[t] \in Transactions /\ tr[t].alloc \subseteq fs.free
         /\ tr[t].alloc \cap Below(fs.files, disk) = {}
         /\ FileBlocks(Committed) \cap fs.free = {}
<1>1. tr[t] \in Transactions
  BY DEF StoreInv, StoreTypes
<1>2. tr[t].alloc \subseteq fs.free
  BY DEF StoreInv, SessionsOK, TransactionOK
<1>3. Below(fs.files, disk) \cap fs.free = {}
  BY UpFacts DEF WellFormed
<1>4. FileBlocks(Committed) \subseteq Below(fs.files, disk)
  <2> DEFINE C == FilesAt(fs.files, disk)
  <2>1. \A b \in FileBlocks(C) : b \in Below(fs.files, disk)
    <3> HIDE DEF C
    <3>1. C = FilesAt(fs.files, disk)
      BY DEF C
    <3>2. QED BY <3>1, UpFacts, TreeFacts
  <2>2. QED BY <2>1 DEF Committed
<1>5. QED BY <1>1, <1>2, <1>3, <1>4

(* The committed files while the service runs.                              *)
LEMMA CommittedFacts ==
  ASSUME StoreInv, fs.state = "up", NEW C, C = Committed
  PROVE  /\ C \in FileMaps /\ C = FilesAt(fs.files, disk)
         /\ \A x, y \in Paths : C[x] = C[y] /\ C[x] # 0 => x = y
         /\ FileBlocks(C) \cap fs.free = {} /\ FileBlocks(C) \subseteq Below(fs.files, disk)
         /\ \A p \in Paths : C[p] # 0 => /\ C[p] \in Blocks /\ C[p] \in FileBlocks(C)
                                         /\ IsFile(disk[C[p]], p)
         /\ \A b \in FileBlocks(C) : b \in Blocks /\ b # fs.files /\ \E p \in Paths : C[p] = b
<1>1. C = FilesAt(fs.files, disk) /\ fs.files \in BlockNumbers /\ fs.free \in SUBSET Blocks
      /\ WellFormed(fs.files, fs.free, disk)
  BY UpFacts DEF Committed
<1>2. /\ C \in FileMaps
      /\ \A x, y \in Paths : C[x] = C[y] /\ C[x] # 0 => x = y
      /\ \A p \in Paths : C[p] # 0 => IsFile(disk[C[p]], p)
      /\ \A b \in FileBlocks(C) : b # fs.files /\ b # 0 /\ b \in Below(fs.files, disk)
      /\ \A b \in Below(fs.files, disk) : b \in Blocks
  <2> PICK root, free, d : root = fs.files /\ free = fs.free /\ d = disk
    OBVIOUS
  <2> DEFINE D == FilesAt(root, d)
  <2>1. root \in BlockNumbers /\ free \in SUBSET Blocks /\ WellFormed(root, free, d)
    BY <1>1
  <2>2. D \in FileMaps
    BY <2>1, TreeFacts
  <2>3. ASSUME NEW p \in Paths, NEW q \in Paths, D[p] = D[q], D[p] # 0
        PROVE  p = q
    <3>1. IsFile(d[D[p]], p) /\ IsFile(d[D[q]], q)
      BY <2>1, <2>3 DEF WellFormed
    <3> HIDE DEF D
    <3>2. QED BY <2>3, <3>1, FileFacts
  <2>4. \A p \in Paths : D[p] # 0 => IsFile(d[D[p]], p)
    BY <2>1 DEF WellFormed
  <2>5. \A b \in FileBlocks(D) : b # root /\ b # 0 /\ b \in Below(root, d)
    BY <2>1, TreeFacts
  <2>6. \A b \in Below(root, d) : b \in Blocks
    BY <2>1, TreeFacts
  <2>7. C = D
    BY <1>1
  <2> HIDE DEF D
  <2>8. QED BY <2>2, <2>3, <2>4, <2>5, <2>6, <2>7
<1>3. \A p \in Paths : C[p] # 0 => C[p] \in FileBlocks(C)
  BY DEF FileBlocks
<1>4. \A b \in FileBlocks(C) : \E p \in Paths : C[p] = b
  BY DEF FileBlocks
<1>5. Below(fs.files, disk) \cap fs.free = {}
  BY <1>1 DEF WellFormed
<1>6. QED BY <1>1, <1>2, <1>3, <1>4, <1>5

(* An open file has a block of its transaction or a committed one.          *)
LEMMA OpenBlock ==
  ASSUME StoreInv, fs.state = "up", NEW t \in Sessions, NEW h, h = file[t], h # NULL, h.block # 0
  PROVE  /\ h \in Handles /\ h.block \in Blocks
         /\ \/ h.block \in tr[t].alloc
            \/ h.block \in FileBlocks(Committed) /\ h.block = h.committed
<1>1. PICK C, r, free, K, new, old :
        /\ C = Committed /\ r = tr[t] /\ free = fs.free /\ K = Contents
        /\ new = NewRoot(t) /\ old = OldRoot(t)
  OBVIOUS
<1>2. TransactionOK(r, C, free, K, new, old) /\ HandleOK(h, r, C)
  BY <1>1 DEF StoreInv, SessionsOK
<1>3. h \in Handles /\ h.block \in Blocks
  BY DEF StoreInv, StoreTypes, Handles, BlockNumbers
<1>4. CASE h.committed = 0
  <2>1. PICK p \in Paths : r.added[p] = h.block
    BY <1>2, <1>4 DEF HandleOK
  <2>2. QED BY <1>1, <1>2, <1>3, <2>1 DEF TransactionOK
<1>5. CASE h.committed # 0
  <2>1. /\ h.committed \in FileBlocks(C)
        /\ h.block = h.committed \/ h.block = r.updated[h.committed]
    BY <1>2, <1>5 DEF HandleOK
  <2>2. PICK p \in Paths : C[p] = h.committed
    BY <2>1 DEF FileBlocks
  <2>3. h.block = r.updated[h.committed] => h.block \in r.alloc
    BY <1>2, <1>5, <2>2 DEF TransactionOK
  <2>4. QED BY <1>1, <1>3, <2>1, <2>3
<1>6. QED BY <1>4, <1>5

(* Nothing that the other sessions see or have done is touched by t.        *)
Others(t) ==
  /\ Committed' = Committed /\ StoreOnDisk' = StoreOnDisk
  /\ \A u \in Sessions \ {t} : /\ tr'[u] = tr[u] /\ file'[u] = file[u]
                              /\ Changes'[u] = Changes[u] /\ Created'[u] = Created[u]
  /\ \A u \in Sessions \ {t} : file[u] # NULL /\ file[u].block # 0 =>
       Contents'[file[u].block] = Contents[file[u].block]

(* A step of session t: its transaction becomes r, its open file h, the     *)
(* dirty blocks L and the device d; a commit in progress is its own.        *)
LEMMA SessionStep ==
  ASSUME StoreInv, fs.state = "up", NEW t \in Sessions, com = NULL \/ com.tr = t,
         UNCHANGED <<super, fs>>,
         ctr' \in Counters, dev' \in Counters, calm' \in BOOLEAN, CounterOK',
         NEW r \in Transactions, tr' = [tr EXCEPT ![t] = r],
         NEW h \in Handles \cup {NULL}, file' = [file EXCEPT ![t] = h],
         NEW L \in [Blocks -> Nodes], cache' = L,
         NEW d \in [Blocks -> Nodes], disk' = d,
         \A b \in Below(fs.files, disk) : d[b] = disk[b],
         \A u \in Sessions \ {t} : \A b \in tr[u].alloc :
           b \notin r.alloc /\ L[b] = cache[b] /\ d[b] = disk[b],
         \A b \in Blocks : L[b] # Junk => b \in r.alloc \/ (cache[b] # Junk /\ b \notin tr[t].alloc),
         com' = NULL \/ (com' \in Commits /\ com'.tr = t /\ CommitOK(t)'),
         NEW C, C = Committed, NEW K, K = Contents',
         NEW new, new = NewRoot(t)', NEW old, old = OldRoot(t)',
         TransactionOK(r, C, fs.free, K, new, old),
         h # NULL => HandleOK(h, r, C)
  PROVE  StoreInv' /\ Others(t)
<1> DEFINE root == fs.files
           free == fs.free
<1>1. /\ root \in BlockNumbers /\ free \in SUBSET Blocks /\ WellFormed(root, free, disk)
      /\ C = FilesAt(root, disk) /\ Chosen(super).files = root /\ Chosen(super).free = free
      /\ Chosen(super).flags = fs.version
  BY UpFacts DEF Committed
<1>2. FilesAt(root, d) = C /\ WellFormed(root, free, d)
  <2>1. PICK e : e = disk
    OBVIOUS
  <2>2. WellFormed(root, free, e) /\ SameBelow(root, e, d) /\ C = FilesAt(root, e)
    BY <1>1, <2>1 DEF SameBelow
  <2> HIDE DEF root, free
  <2>3. QED BY <1>1, <2>2, TreeSame
<1>3. Committed' = C
  BY <1>2 DEF Committed
<1>4. StoreTypes'
  BY DEF StoreInv, StoreTypes
<1>5. OnDevice'
  BY <1>1, <1>2 DEF OnDevice
<1>6. MemoryIsOnDisk' /\ CounterOK' /\ Offline'
  BY DEF StoreInv, MemoryIsOnDisk, CounterOK, Offline
<1>7. /\ tr'[t] = r /\ \A u \in Sessions \ {t} : tr'[u] = tr[u]
      /\ file'[t] = h /\ \A u \in Sessions \ {t} : file'[u] = file[u]
  BY DEF StoreInv, StoreTypes
<1>8. com' # NULL => com'.tr = t
  OBVIOUS
<1>9. ASSUME NEW u \in Sessions, u # t
      PROVE  TransactionOK(tr'[u], C, free, K, NewRoot(u)', OldRoot(u)')
  <2>1. NewRoot(u) = {} /\ OldRoot(u) = {} /\ NewRoot(u)' = {} /\ OldRoot(u)' = {}
    BY <1>8, <1>9 DEF NewRoot, OldRoot, Committing
  <2>2. TransactionOK(tr[u], C, free, Contents, {}, {})
    BY <2>1 DEF StoreInv, SessionsOK
  <2>3. tr[u].alloc \subseteq Blocks
    BY AllocApart DEF Transactions
  <2>4. \A b \in tr[u].alloc : K[b] = Contents[b]
    BY <1>9, <2>3 DEF Contents, Content, Dirty
  <2>5. TransactionOK(tr[u], C, free, K, {}, {})
    BY <2>2, <2>4, TransactionFrame
  <2>6. QED BY <1>7, <1>9, <2>1, <2>5
<1>10. SessionsOK'
  <2>1. \A u \in Sessions :
          TransactionOK(tr'[u], C, free, K, NewRoot(u)', OldRoot(u)')
    BY <1>7, <1>9
  <2>2. \A u \in Sessions : file'[u] # NULL => HandleOK(file'[u], tr'[u], C)
    BY <1>7 DEF StoreInv, SessionsOK
  <2>3. \A u, w \in Sessions : u # w => tr'[u].alloc \cap tr'[w].alloc = {}
    BY <1>7 DEF StoreInv, SessionsOK
  <2>4. \A b \in Blocks : cache'[b] # Junk => \E u \in Sessions : b \in tr'[u].alloc
    BY <1>7 DEF StoreInv, SessionsOK, Dirty
  <2>5. QED BY <1>3, <2>1, <2>2, <2>3, <2>4 DEF SessionsOK, Dirty
<1>11. \A u \in Sessions : Committing(u)' => CommitOK(u)'
  BY <1>8 DEF Committing
<1>12. StoreInv'
  BY <1>3, <1>4, <1>5, <1>6, <1>10, <1>11 DEF StoreInv
<1>13. StoreOnDisk' = StoreOnDisk
  <2>1. \A p \in Paths : C[p] # 0 => d[C[p]] = disk[C[p]]
    BY <1>1, TreeFacts
  <2>2. FilesAt(Chosen(super').files, d) = C /\ FilesAt(Chosen(super).files, disk) = C
    BY <1>1, <1>2
  <2>3. QED BY <2>1, <2>2 DEF StoreOnDisk
<1>14. ASSUME NEW u \in Sessions, u # t
       PROVE  Changes'[u] = Changes[u] /\ Created'[u] = Created[u]
  <2>1. tr'[u] = tr[u] /\ Committed' = Committed
    BY <1>3, <1>7, <1>14
  <2>2. \A b \in tr[u].alloc : Content(b)' = Content(b)
    BY <1>14 DEF Content, Dirty
  <2>3. \A p \in Paths : tr[u].added[p] # 0 => tr[u].added[p] \in tr[u].alloc
    BY DEF StoreInv, SessionsOK, TransactionOK
  <2>4. \A p \in Paths : C[p] # 0 /\ tr[u].updated[C[p]] # 0
                         => tr[u].updated[C[p]] \in tr[u].alloc
    BY DEF StoreInv, SessionsOK, TransactionOK
  <2> PICK s : s = tr[u] OBVIOUS
  <2>5. ASSUME NEW p \in Paths
        PROVE  Change(s, p)' = Change(s, p)
    BY <2>1, <2>2, <2>3, <2>4 DEF Change
  <2>6. Changes'[u] = [p \in Paths |-> Change(s, p)'] /\ Created'[u] = Creates(s)'
    BY <2>1 DEF Changes, Change, Created, Creates
  <2>7. Changes[u] = [p \in Paths |-> Change(s, p)] /\ Created[u] = Creates(s)
    BY DEF Changes, Change, Created, Creates
  <2>8. Creates(s)' = Creates(s)
    BY <2>1 DEF Creates
  <2>9. QED BY <2>5, <2>6, <2>7, <2>8
<1>15. ASSUME NEW u \in Sessions, u # t, file[u] # NULL, file[u].block # 0
       PROVE  Contents'[file[u].block] = Contents[file[u].block]
  <2>1. PICK b : b = file[u].block
    OBVIOUS
  <2>2. b \in Blocks /\ (b \in tr[u].alloc \/ b \in FileBlocks(C))
    BY <1>15, <2>1, OpenBlock
  <2>3. CASE b \in tr[u].alloc
    BY <1>15, <2>1, <2>2, <2>3 DEF Contents, Content, Dirty
  <2>4. CASE b \in FileBlocks(C)
    <3>1. b \in Below(root, disk) /\ b \notin free
      BY <2>4, CommittedFacts
    <3>2. b \notin r.alloc
      BY <3>1 DEF TransactionOK
    <3>3. cache[b] = Junk
      <4>1. \A w \in Sessions : tr[w].alloc \subseteq free
        BY AllocApart
      <4>2. QED BY <2>2, <3>1, <4>1 DEF StoreInv, SessionsOK, Dirty
    <3>4. L[b] = Junk /\ d[b] = disk[b]
      BY <2>2, <3>1, <3>2, <3>3
    <3>5. QED BY <2>1, <2>2, <3>3, <3>4 DEF Contents, Content, Dirty
  <2>5. QED BY <2>2, <2>3, <2>4
<1>16. QED BY <1>3, <1>7, <1>12, <1>13, <1>14, <1>15 DEF Others

(* The same, of what the step leaves.                                       *)
LEMMA SessionDone ==
  ASSUME StoreInv, fs.state = "up", NEW t \in Sessions, com = NULL \/ com.tr = t,
         UNCHANGED <<super, fs>>,
         ctr' \in Counters, dev' \in Counters, calm' \in BOOLEAN, CounterOK',
         tr' = [tr EXCEPT ![t] = tr'[t]], tr'[t] \in Transactions,
         file' = [file EXCEPT ![t] = file'[t]], file'[t] \in Handles \cup {NULL},
         cache' \in [Blocks -> Nodes], disk' \in [Blocks -> Nodes],
         \A b \in Below(fs.files, disk) : disk'[b] = disk[b],
         \A u \in Sessions \ {t} : \A b \in tr[u].alloc :
           b \notin tr'[t].alloc /\ cache'[b] = cache[b] /\ disk'[b] = disk[b],
         \A b \in Blocks :
           cache'[b] # Junk => b \in tr'[t].alloc \/ (cache[b] # Junk /\ b \notin tr[t].alloc),
         com' = NULL \/ (com' \in Commits /\ com'.tr = t /\ CommitOK(t)'),
         TransactionOK(tr'[t], Committed, fs.free, Contents', NewRoot(t)', OldRoot(t)'),
         file'[t] # NULL => HandleOK(file'[t], tr'[t], Committed)
  PROVE  StoreInv' /\ Others(t)
<1>1. PICK r, h, L, d, C, K, new, old :
        /\ r = tr'[t] /\ h = file'[t] /\ L = cache' /\ d = disk' /\ C = Committed
        /\ K = Contents' /\ new = NewRoot(t)' /\ old = OldRoot(t)'
  OBVIOUS
<1>2. QED BY <1>1, SessionStep

(* What is forgotten.                                                       *)
LEMMA ForgetFacts ==
  ASSUME NEW d \in [Blocks -> Nodes], NEW S
  PROVE  /\ Forget(d, S) \in [Blocks -> Nodes]
         /\ \A b \in Blocks : b \in S => Forget(d, S)[b] = Junk
         /\ \A b \in Blocks : b \notin S => Forget(d, S)[b] = d[b]
BY DEF Forget, Nodes

(* transaction_fail of one session.                                         *)
LEMMA FailStep ==
  ASSUME StoreInv, fs.state = "up", NEW t \in Sessions, com = NULL \/ com.tr = t,
         UNCHANGED <<super, fs>>, com' = NULL,
         ctr' \in Counters, dev' \in Counters, calm' \in BOOLEAN, CounterOK',
         NEW e \in [Blocks -> Nodes], \A b \in Blocks \ tr[t].alloc : e[b] = disk[b],
         FailFrom(tr, file, e, {t})
  PROVE  /\ StoreInv' /\ Others(t) /\ tr'[t] = FailedTr
         /\ file'[t] # NULL => file'[t].saw = NULL
<1> DEFINE S == UNION {tr[u].alloc : u \in {t}}
<1>1. S = tr[t].alloc
  OBVIOUS
<1> HIDE DEF S
<1>2. PICK lost \in SUBSET Reread(file, {t}) :
        file' = [u \in Sessions |->
                  IF u \in {t} THEN Restored(file[u], u \in lost) ELSE file[u]]
  BY DEF FailFrom
<1>3. PICK h : h = Restored(file[t], t \in lost)
  OBVIOUS
<1>4. PICK L : L = Forget(cache, S)
  OBVIOUS
<1>5. PICK d : d = Forget(e, S)
  OBVIOUS
<1>6. tr' = [u \in Sessions |-> IF u \in {t} THEN FailedTr ELSE tr[u]] /\ cache' = L /\ disk' = d
  BY <1>4, <1>5 DEF FailFrom, S
<1>7. tr \in [Sessions -> Transactions] /\ file \in [Sessions -> Handles \cup {NULL}]
      /\ cache \in [Blocks -> Nodes] /\ disk \in [Blocks -> Nodes]
  BY DEF StoreInv, StoreTypes
<1>8. tr' = [tr EXCEPT ![t] = FailedTr] /\ file' = [file EXCEPT ![t] = h]
  BY <1>2, <1>3, <1>6, <1>7
<1>9. L \in [Blocks -> Nodes] /\ d \in [Blocks -> Nodes]
  BY <1>4, <1>5, <1>7, ForgetFacts
<1>10. /\ \A b \in Blocks : b \in tr[t].alloc => L[b] = Junk
       /\ \A b \in Blocks : b \notin tr[t].alloc => L[b] = cache[b] /\ d[b] = disk[b]
  BY <1>1, <1>4, <1>5, <1>7, ForgetFacts
<1>11. FailedTr \in Transactions /\ FailedTr.alloc = {}
  BY RestFacts
<1>12. Committed \in FileMaps
  BY UpFacts
<1>13. \A K : TransactionOK(FailedTr, Committed, fs.free, K, {}, {})
  BY <1>12, RestOK
<1>14. /\ h \in Handles \cup {NULL} /\ (h # NULL => HandleOK(h, FailedTr, Committed))
       /\ h # NULL => h.saw = NULL
  <2>1. file[t] \in Handles \cup {NULL}
    BY <1>7
  <2>2. file[t] # NULL => HandleOK(file[t], tr[t], Committed)
    BY DEF StoreInv, SessionsOK
  <2>3. (t \in lost) \in BOOLEAN
    OBVIOUS
  <2>4. QED BY <1>3, <1>12, <2>1, <2>2, <2>3, RestoredOK
<1>15. \A b \in Below(fs.files, disk) : d[b] = disk[b]
  <2>1. tr[t].alloc \cap Below(fs.files, disk) = {} /\ Below(fs.files, disk) \subseteq Blocks
    BY AllocApart, UpFacts DEF WellFormed
  <2>2. QED BY <1>10, <2>1
<1>16. \A u \in Sessions \ {t} : \A b \in tr[u].alloc :
         b \notin FailedTr.alloc /\ L[b] = cache[b] /\ d[b] = disk[b]
  <2>1. \A u \in Sessions \ {t} : tr[u].alloc \subseteq Blocks /\ tr[t].alloc \cap tr[u].alloc = {}
    BY <1>7 DEF StoreInv, SessionsOK, Transactions
  <2>2. QED BY <1>10, <1>11, <2>1
<1>17. \A b \in Blocks : L[b] # Junk => b \in FailedTr.alloc \/ (cache[b] # Junk /\ b \notin tr[t].alloc)
  BY <1>10
<1>18. NewRoot(t)' = {} /\ OldRoot(t)' = {}
  BY DEF NewRoot, OldRoot, Committing
<1>19. PICK K : K = Contents'
  OBVIOUS
<1>20. StoreInv' /\ Others(t)
  BY <1>6, <1>8, <1>9, <1>11, <1>13, <1>14, <1>15, <1>16, <1>17, <1>18, <1>19, SessionStep
<1>21. QED BY <1>7, <1>8, <1>14, <1>20

(* A request of session t: only its transaction, its open file and its      *)
(* dirty blocks change.                                                     *)
LEMMA RequestStep ==
  ASSUME StoreInv, Idle, NEW t \in Sessions, UNCHANGED <<disk, super, ctr, dev, calm, fs, com>>,
         NEW r \in Transactions, tr' = [tr EXCEPT ![t] = r],
         NEW h \in Handles \cup {NULL}, file' = [file EXCEPT ![t] = h],
         NEW L \in [Blocks -> Nodes], cache' = L,
         \A u \in Sessions \ {t} : \A b \in tr[u].alloc : b \notin r.alloc /\ L[b] = cache[b],
         \A b \in Blocks : L[b] # Junk => b \in r.alloc \/ (cache[b] # Junk /\ b \notin tr[t].alloc),
         NEW C, C = Committed, NEW K, K = [b \in Blocks |-> IF L[b] # Junk THEN L[b] ELSE disk[b]],
         TransactionOK(r, C, fs.free, K, {}, {}),
         h # NULL => HandleOK(h, r, C)
  PROVE  StoreInv' /\ Others(t)
<1>1. fs.state = "up" /\ com = NULL /\ com' = NULL
  BY DEF Idle
<1>2. ctr' \in Counters /\ dev' \in Counters /\ calm' \in BOOLEAN /\ CounterOK'
  BY DEF StoreInv, StoreTypes, CounterOK
<1>3. disk \in [Blocks -> Nodes]
  BY DEF StoreInv, StoreTypes
<1>4. K = Contents'
  BY DEF Contents, Content, Dirty
<1>5. NewRoot(t)' = {} /\ OldRoot(t)' = {}
  BY <1>1 DEF NewRoot, OldRoot, Committing
<1>6. PICK d : d = disk
  OBVIOUS
<1>7. \A u \in Sessions \ {t} : \A b \in tr[u].alloc :
        b \notin r.alloc /\ L[b] = cache[b] /\ d[b] = disk[b]
  BY <1>6
<1>8. /\ UNCHANGED <<super, fs>> /\ disk' = d /\ d \in [Blocks -> Nodes]
      /\ \A b \in Below(fs.files, disk) : d[b] = disk[b]
  BY <1>3, <1>6
<1>9. QED BY <1>1, <1>2, <1>4, <1>5, <1>7, <1>8, SessionStep

(* The same, of what the request leaves.                                    *)
LEMMA RequestDone ==
  ASSUME StoreInv, Idle, NEW t \in Sessions, UNCHANGED <<disk, super, ctr, dev, calm, fs, com>>,
         tr' = [tr EXCEPT ![t] = tr'[t]], tr'[t] \in Transactions,
         file' = [file EXCEPT ![t] = file'[t]], file'[t] \in Handles \cup {NULL},
         cache' \in [Blocks -> Nodes],
         \A u \in Sessions \ {t} : \A b \in tr[u].alloc : b \notin tr'[t].alloc /\ cache'[b] = cache[b],
         \A b \in Blocks :
           cache'[b] # Junk => b \in tr'[t].alloc \/ (cache[b] # Junk /\ b \notin tr[t].alloc),
         TransactionOK(tr'[t], Committed, fs.free, Contents', {}, {}),
         file'[t] # NULL => HandleOK(file'[t], tr'[t], Committed)
  PROVE  StoreInv' /\ Others(t)
<1>1. PICK r, h, L, C, K : r = tr'[t] /\ h = file'[t] /\ L = cache' /\ C = Committed
                           /\ K = [b \in Blocks |-> IF L[b] # Junk THEN L[b] ELSE disk[b]]
  OBVIOUS
<1>2. K = Contents'
  BY <1>1 DEF Contents, Content, Dirty
<1>3. QED BY <1>1, <1>2, RequestStep

(* What session t has while the service waits for a request.                *)
LEMMA IdleFacts ==
  ASSUME StoreInv, Idle, NEW t \in Sessions
  PROVE  /\ fs.state = "up" /\ tr[t] \in Transactions /\ file[t] \in Handles \cup {NULL}
         /\ tr \in [Sessions -> Transactions] /\ file \in [Sessions -> Handles \cup {NULL}]
         /\ cache \in [Blocks -> Nodes] /\ disk \in [Blocks -> Nodes]
         /\ TransactionOK(tr[t], Committed, fs.free, Contents, {}, {})
         /\ file[t] # NULL => HandleOK(file[t], tr[t], Committed)
         /\ \A u \in Sessions \ {t} : tr[u].alloc \subseteq Blocks
                                      /\ tr[u].alloc \cap tr[t].alloc = {}
         /\ Contents = [b \in Blocks |-> IF cache[b] # Junk THEN cache[b] ELSE disk[b]]
         /\ \A b \in Blocks : cache[b] # Junk => \E u \in Sessions : b \in tr[u].alloc
         /\ tr[t].alloc \subseteq Blocks
<1>1. fs.state = "up" /\ NewRoot(t) = {} /\ OldRoot(t) = {}
  BY DEF Idle, NewRoot, OldRoot, Committing
<1>2. /\ tr \in [Sessions -> Transactions] /\ file \in [Sessions -> Handles \cup {NULL}]
      /\ cache \in [Blocks -> Nodes] /\ disk \in [Blocks -> Nodes]
  BY DEF StoreInv, StoreTypes
<1>3. TransactionOK(tr[t], Committed, fs.free, Contents, {}, {})
  BY <1>1 DEF StoreInv, SessionsOK
<1>4. /\ file[t] # NULL => HandleOK(file[t], tr[t], Committed)
      /\ \A u \in Sessions \ {t} : tr[u].alloc \cap tr[t].alloc = {}
      /\ \A b \in Blocks : cache[b] # Junk => \E u \in Sessions : b \in tr[u].alloc
  BY DEF StoreInv, SessionsOK, Dirty
<1>5. \A u \in Sessions : tr[u].alloc \subseteq Blocks
  BY <1>2 DEF Transactions
<1>6. Contents = [b \in Blocks |-> IF cache[b] # Junk THEN cache[b] ELSE disk[b]]
  BY DEF Contents, Content, Dirty
<1>7. QED BY <1>1, <1>2, <1>3, <1>4, <1>5, <1>6

(* An open file that the transaction has not touched.                       *)
LEMMA HandleFrame ==
  ASSUME NEW h, NEW r, NEW s, NEW C, HandleOK(h, r, C),
         s.added = r.added, s.updated = r.updated, s.removed = r.removed
  PROVE  HandleOK(h, s, C)
BY DEF HandleOK

(* A request begins a transaction.                                          *)
LEMMA BeginStep ==
  ASSUME StoreInv, NEW t \in Sessions, Begin(t)
  PROVE  StoreInv' /\ Others(t)
<1>1. Idle /\ ~tr[t].active /\ ~tr[t].failed
      /\ UNCHANGED <<disk, super, ctr, dev, calm, fs, com>> /\ file' = file /\ cache' = cache
  BY DEF Begin
<1>2. PICK r : r = [Inactive EXCEPT !.active = TRUE]
  OBVIOUS
<1>3. PICK C : C = Committed
  OBVIOUS
<1>4. C \in FileMaps
  BY <1>1, <1>3, UpFacts DEF Idle
<1>5. tr' = [tr EXCEPT ![t] = r]
  BY <1>2 DEF Begin
<1>6. /\ r \in Transactions /\ r.active /\ r.alloc = {}
      /\ r.added = Inactive.added /\ r.updated = Inactive.updated /\ r.removed = Inactive.removed
      /\ \A K : TransactionOK(r, C, fs.free, K, {}, {})
  BY <1>2, <1>4, BegunOK
<1>7. tr[t] = Inactive
  <2>1. tr[t] \in {Inactive, FailedTr}
    BY <1>1, IdleFacts DEF TransactionOK
  <2>2. FailedTr.failed
    BY DEF FailedTr, Inactive
  <2>3. QED BY <1>1, <2>1, <2>2
<1>8. file[t] # NULL => HandleOK(file[t], r, C)
  BY <1>1, <1>3, <1>6, <1>7, IdleFacts, HandleFrame
<1>9. file' = [file EXCEPT ![t] = file[t]] /\ file[t] \in Handles \cup {NULL}
  BY <1>1, IdleFacts
<1>10. PICK L : L = cache
  OBVIOUS
<1>11. PICK K : K = [b \in Blocks |-> IF L[b] # Junk THEN L[b] ELSE disk[b]]
  OBVIOUS
<1>12. cache' = L /\ L \in [Blocks -> Nodes]
  BY <1>1, <1>10, IdleFacts
<1>13. tr[t].alloc = {}
  BY <1>7, RestFacts
<1>14. QED BY <1>1, <1>3, <1>5, <1>6, <1>8, <1>9, <1>10, <1>11, <1>12, <1>13, RequestStep

(* A request that changes the open file only.                               *)
LEMMA HandleStep ==
  ASSUME StoreInv, Idle, NEW t \in Sessions,
         UNCHANGED <<disk, super, ctr, dev, calm, fs, tr, cache, com>>,
         NEW h \in Handles \cup {NULL}, file' = [file EXCEPT ![t] = h],
         h # NULL => HandleOK(h, tr[t], Committed)
  PROVE  StoreInv' /\ Others(t)
<1>1. UNCHANGED <<disk, super, ctr, dev, calm, fs, com>> /\ tr' = [tr EXCEPT ![t] = tr[t]]
  BY IdleFacts
<1>2. PICK L : L = cache
  OBVIOUS
<1>3. PICK K : K = [b \in Blocks |-> IF L[b] # Junk THEN L[b] ELSE disk[b]]
  OBVIOUS
<1>4. cache' = L /\ L \in [Blocks -> Nodes]
  BY <1>2, IdleFacts
<1>5. PICK r : r = tr[t]
  OBVIOUS
<1>6. r \in Transactions /\ TransactionOK(r, Committed, fs.free, K, {}, {})
  BY <1>2, <1>3, <1>5, IdleFacts
<1>7. \A u \in Sessions \ {t} : \A b \in tr[u].alloc : b \notin r.alloc /\ L[b] = cache[b]
  BY <1>2, <1>5, IdleFacts
<1>8. \A b \in Blocks : L[b] # Junk => b \in r.alloc \/ (cache[b] # Junk /\ b \notin tr[t].alloc)
  BY <1>2, <1>5
<1>9. PICK C : C = Committed
  OBVIOUS
<1>10. TransactionOK(r, C, fs.free, K, {}, {}) /\ (h # NULL => HandleOK(h, r, C))
  BY <1>5, <1>6, <1>9
<1>11. tr' = [tr EXCEPT ![t] = r]
  BY <1>1, <1>5
<1>12. r \in Transactions
  BY <1>6
<1>13. QED BY <1>1, <1>3, <1>4, <1>7, <1>8, <1>9, <1>10, <1>11, <1>12, RequestStep

(* file_open.                                                               *)
LEMMA OpenStep ==
  ASSUME StoreInv, NEW t \in Sessions, NEW p \in Paths, Open(t, p)
  PROVE  StoreInv' /\ Others(t)
<1>1. Idle /\ UNCHANGED <<disk, super, ctr, dev, calm, fs, tr, cache, com>>
  BY DEF Open, Ready
<1>2. PICK l : l = Lookup(tr[t], p)
  OBVIOUS
<1>3. PICK C : C = Committed
  OBVIOUS
<1>4. PICK r : r = tr[t]
  OBVIOUS
<1>5. r \in Transactions /\ TransactionOK(r, C, fs.free, Contents, {}, {})
  BY <1>1, <1>3, <1>4, IdleFacts
<1>6. C \in FileMaps /\ \A x, y \in Paths : C[x] = C[y] /\ C[x] # 0 => x = y
  <2>1. fs.state = "up"
    BY <1>1 DEF Idle
  <2>2. QED BY <1>3, <2>1, CommittedFacts
<1>7. l.block # 0 /\ file' = [file EXCEPT ![t] = Handle(l.block, l.committed)]
  BY <1>2 DEF Open, SetFile
<1>8. PICK h : h = Handle(l.block, l.committed)
  OBVIOUS
<1>9. h.block = l.block /\ h.committed = l.committed
  BY <1>8 DEF Handle
<1>10. l = Lookup(r, p)
  BY <1>2, <1>4
<1>11. CASE r.added[p] # 0 /\ r.added[p] \in Blocks /\ l.block = r.added[p] /\ l.committed = 0
  <2>1. h \in Handles
    BY <1>8, <1>11, HandleFacts DEF BlockNumbers
  <2>2. HandleOK(h, r, C)
    BY <1>9, <1>11 DEF HandleOK
  <2>3. QED BY <1>1, <1>3, <1>4, <1>7, <1>8, <2>1, <2>2, HandleStep
<1>12. CASE /\ r.added[p] = 0 /\ C[p] \in Blocks /\ C[p] # 0 /\ C[p] \notin r.removed
            /\ l.block = (IF r.updated[C[p]] # 0 THEN r.updated[C[p]] ELSE C[p])
            /\ l.block \in Blocks /\ l.committed = C[p]
  <2>1. h \in Handles
    BY <1>8, <1>12, HandleFacts DEF BlockNumbers
  <2>2. C[p] \in FileBlocks(C)
    BY <1>12 DEF FileBlocks
  <2>3. HandleOK(h, r, C)
    BY <1>6, <1>9, <1>12, <2>2 DEF HandleOK
  <2>4. QED BY <1>1, <1>3, <1>4, <1>7, <1>8, <2>1, <2>3, HandleStep
<1>13. QED BY <1>3, <1>5, <1>6, <1>7, <1>10, <1>11, <1>12, LookupCases

(* A client closes its file.                                                *)
LEMMA CloseStep ==
  ASSUME StoreInv, NEW t \in Sessions, Close(t)
  PROVE  StoreInv' /\ Others(t)
<1>1. Idle /\ UNCHANGED <<disk, super, ctr, dev, calm, fs, tr, cache, com>>
      /\ file' = [file EXCEPT ![t] = NULL]
  BY DEF Close, Ready, SetFile
<1>2. QED BY <1>1, HandleStep

(* A request that changes the transaction and leaves the open file and the  *)
(* dirty blocks of others; it discards what it had allocated.               *)
LEMMA EndStep ==
  ASSUME StoreInv, Idle, NEW t \in Sessions, UNCHANGED <<disk, super, ctr, dev, calm, fs, com>>,
         tr' = [tr EXCEPT ![t] = Inactive],
         NEW h \in Handles \cup {NULL}, file' = [file EXCEPT ![t] = h],
         cache' = Forget(cache, tr[t].alloc),
         h # NULL => HandleOK(h, Inactive, Committed)
  PROVE  StoreInv' /\ Others(t)
<1>1. PICK L : L = Forget(cache, tr[t].alloc)
  OBVIOUS
<1>2. PICK K : K = [b \in Blocks |-> IF L[b] # Junk THEN L[b] ELSE disk[b]]
  OBVIOUS
<1>3. PICK C : C = Committed
  OBVIOUS
<1>4. C \in FileMaps
  BY <1>3, UpFacts DEF Idle
<1>5. /\ L \in [Blocks -> Nodes]
      /\ \A b \in Blocks : b \in tr[t].alloc => L[b] = Junk
      /\ \A b \in Blocks : b \notin tr[t].alloc => L[b] = cache[b]
  BY <1>1, IdleFacts, ForgetFacts
<1>6. Inactive \in Transactions /\ Inactive.alloc = {}
  BY RestFacts
<1>7. TransactionOK(Inactive, C, fs.free, K, {}, {})
  BY <1>4, RestOK
<1>8. \A u \in Sessions \ {t} : \A b \in tr[u].alloc : b \notin Inactive.alloc /\ L[b] = cache[b]
  <2> TAKE u \in Sessions \ {t}
  <2> TAKE b \in tr[u].alloc
  <2>1. b \in Blocks /\ b \notin tr[t].alloc
    BY IdleFacts
  <2>2. QED BY <1>5, <1>6, <2>1
<1>9. \A b \in Blocks : L[b] # Junk => b \in Inactive.alloc \/ (cache[b] # Junk /\ b \notin tr[t].alloc)
  BY <1>5
<1>10. cache' = L /\ (h # NULL => HandleOK(h, Inactive, C))
  BY <1>1, <1>3
<1>11. QED BY <1>2, <1>3, <1>5, <1>6, <1>7, <1>8, <1>9, <1>10, RequestStep

(* The answer to the last request of a failed transaction.                  *)
LEMMA ClearFailedStep ==
  ASSUME StoreInv, NEW t \in Sessions, ClearFailed(t)
  PROVE  StoreInv' /\ Others(t)
<1>1. /\ Idle /\ tr[t].failed /\ UNCHANGED <<disk, super, ctr, dev, calm, fs, com>>
      /\ tr' = [tr EXCEPT ![t] = Inactive] /\ file' = file /\ cache' = cache
  BY DEF ClearFailed, SetTr
<1>2. tr[t] \in {Inactive, FailedTr}
  BY <1>1, IdleFacts DEF TransactionOK
<1>3. tr[t].alloc = {}
  BY <1>2, RestFacts
<1>4. cache' = Forget(cache, tr[t].alloc)
  BY <1>1, <1>3, IdleFacts DEF Forget
<1>5. file[t] \in Handles \cup {NULL} /\ file' = [file EXCEPT ![t] = file[t]]
  BY <1>1, IdleFacts
<1>6. Inactive.added = tr[t].added /\ Inactive.updated = tr[t].updated
      /\ Inactive.removed = tr[t].removed
  BY <1>2 DEF FailedTr, Inactive
<1>7. file[t] # NULL => HandleOK(file[t], Inactive, Committed)
  BY <1>1, <1>6, IdleFacts, HandleFrame
<1>8. QED BY <1>1, <1>4, <1>5, <1>7, EndStep

(* A transaction is discarded, and a client disconnects.                    *)
LEMMA DiscardStep ==
  ASSUME StoreInv, NEW t \in Sessions, NEW close \in BOOLEAN, Discard(t, close)
  PROVE  StoreInv' /\ Others(t)
<1>1. /\ Idle /\ UNCHANGED <<disk, super, ctr, dev, calm, fs, com>>
      /\ tr' = [tr EXCEPT ![t] = Inactive] /\ cache' = Forget(cache, tr[t].alloc)
  BY DEF Discard
<1>2. CASE close /\ SetFile(t, NULL)
  BY <1>1, <1>2, EndStep DEF SetFile
<1>3. CASE ~close /\ \E lost \in SUBSET Reread(file, {t}) :
                       SetFile(t, Restored(file[t], t \in lost))
  <2>1. PICK lost \in SUBSET Reread(file, {t}) : SetFile(t, Restored(file[t], t \in lost))
    BY <1>3
  <2>2. PICK h : h = Restored(file[t], t \in lost)
    OBVIOUS
  <2>3. /\ file[t] \in Handles \cup {NULL} /\ (t \in lost) \in BOOLEAN
        /\ file[t] # NULL => HandleOK(file[t], tr[t], Committed)
    BY <1>1, IdleFacts
  <2>4. Committed \in FileMaps
    BY <1>1, UpFacts DEF Idle
  <2>5. h \in Handles \cup {NULL} /\ (h # NULL => HandleOK(h, Inactive, Committed))
    BY <2>2, <2>3, <2>4, RestoredOK
  <2>6. file' = [file EXCEPT ![t] = h]
    BY <2>1, <2>2 DEF SetFile
  <2>7. QED BY <1>1, <2>5, <2>6, EndStep
<1>4. QED BY <1>2, <1>3 DEF Discard

(* find_free_block: a block that nobody uses.                               *)
LEMMA AvailableFacts ==
  ASSUME StoreInv, Idle, Available # {}, NEW b, b = Lowest(Available)
  PROVE  /\ b \in Blocks /\ b \in fs.free /\ \A u \in Sessions : b \notin tr[u].alloc
         /\ cache[b] = Junk /\ b \notin Below(fs.files, disk)
<1>1. fs.free \subseteq Blocks /\ Below(fs.files, disk) \cap fs.free = {}
  BY UpFacts DEF Idle, WellFormed
<1>2. Available \in SUBSET Blocks
  BY <1>1 DEF Available
<1>3. b \in Available
  BY <1>2, LowestIn
<1>4. b \in Blocks /\ b \in fs.free /\ \A u \in Sessions : b \notin tr[u].alloc
  BY <1>2, <1>3 DEF Available
<1>5. cache[b] = Junk
  BY <1>4 DEF StoreInv, SessionsOK, Dirty
<1>6. QED BY <1>1, <1>4, <1>5

(* A dirty block of session t gets a content.                               *)
LEMMA DirtyFacts ==
  ASSUME StoreInv, Idle, NEW t \in Sessions, NEW b \in Blocks,
         \A u \in Sessions \ {t} : b \notin tr[u].alloc,
         NEW c \in Nodes, c # Junk, NEW L, SetBlock(b, c), L = cache',
         NEW K, K = [x \in Blocks |-> IF L[x] # Junk THEN L[x] ELSE disk[x]]
  PROVE  /\ L \in [Blocks -> Nodes] /\ K[b] = c /\ Contents \in [Blocks -> Nodes]
         /\ \A x \in Blocks : x # b => K[x] = Contents[x]
         /\ \A u \in Sessions \ {t} : \A x \in tr[u].alloc : L[x] = cache[x]
         /\ \A x \in Blocks : L[x] # Junk => x = b \/ cache[x] # Junk
<1>1. cache \in [Blocks -> Nodes]
  BY IdleFacts
<1>2. Contents = [x \in Blocks |-> IF cache[x] # Junk THEN cache[x] ELSE disk[x]]
  BY IdleFacts
<1>3. L \in [Blocks -> Nodes] /\ L[b] = c /\ \A x \in Blocks : x # b => L[x] = cache[x]
  BY <1>1 DEF SetBlock
<1>4. \A u \in Sessions \ {t} : tr[u].alloc \subseteq Blocks
  BY IdleFacts
<1>5. Contents \in [Blocks -> Nodes]
  BY UpFacts DEF Idle
<1>6. QED BY <1>2, <1>3, <1>4, <1>5

(* A request fails the transaction of its session.                          *)
LEMMA FailRequest ==
  ASSUME StoreInv, Idle, NEW t \in Sessions, Fail(t), UNCHANGED <<super, ctr, dev, calm, fs, com>>
  PROVE  /\ StoreInv' /\ Others(t) /\ tr'[t] = FailedTr
         /\ file'[t] # NULL => file'[t].saw = NULL
<1>1. FailFrom(tr, file, disk, {t}) /\ com = NULL /\ com' = NULL /\ fs.state = "up"
  BY DEF Fail, Idle
<1>2. /\ ctr' \in Counters /\ dev' \in Counters /\ calm' \in BOOLEAN /\ CounterOK'
      /\ disk \in [Blocks -> Nodes]
  BY DEF StoreInv, StoreTypes, CounterOK
<1>3. UNCHANGED <<super, fs>>
  OBVIOUS
<1>4. QED BY <1>1, <1>2, <1>3, FailStep

(* file_create.                                                             *)
LEMMA OpenCreateStep ==
  ASSUME StoreInv, NEW t \in Sessions, NEW p \in Paths, OpenCreate(t, p)
  PROVE  StoreInv' /\ Others(t)
<1>1. Idle /\ tr[t].active /\ Lookup(tr[t], p).block = 0 /\ UNCHANGED <<super, ctr, dev, calm, fs, com>>
  BY DEF OpenCreate, Ready
<1>2. PICK r : r = tr[t]
  OBVIOUS
<1>3. PICK b : b = Lowest(Available)
  OBVIOUS
<1>4. PICK C : C = Committed
  OBVIOUS
<1>5. /\ r \in Transactions /\ TransactionOK(r, C, fs.free, Contents, {}, {}) /\ r.active
      /\ C \in FileMaps
  <2>1. C \in FileMaps
    BY <1>1, <1>4, UpFacts DEF Idle
  <2>2. QED BY <1>1, <1>2, <1>4, <2>1, IdleFacts
<1>6. CASE /\ Available # {} /\ UNCHANGED disk
           /\ SetTr(t, [r EXCEPT !.alloc = @ \cup {b}, !.added[p] = b])
           /\ SetFile(t, [Handle(b, 0) EXCEPT !.size = 0]) /\ SetBlock(b, Entry(p, Empty))
  <2>1. PICK n : n = Made(r, p, b)
    OBVIOUS
  <2>2. PICK h : h = [Handle(b, 0) EXCEPT !.size = 0]
    OBVIOUS
  <2> PICK c : c = Entry(p, Empty)
    OBVIOUS
  <2>3. PICK L : L = cache'
    OBVIOUS
  <2>4. PICK K : K = [x \in Blocks |-> IF L[x] # Junk THEN L[x] ELSE disk[x]]
    OBVIOUS
  <2>5. tr' = [tr EXCEPT ![t] = n] /\ file' = [file EXCEPT ![t] = h] /\ cache' = L
    BY <1>6, <2>1, <2>2, <2>3 DEF SetTr, SetFile, Made
  <2>6. /\ b \in Blocks /\ b \in fs.free /\ b \notin r.alloc
        /\ \A u \in Sessions : b \notin tr[u].alloc
    BY <1>1, <1>2, <1>3, <1>6, AvailableFacts
  <2>7. IsFile(c, p)
    BY StorageAssumption DEF IsFile
  <2>8. c \in Nodes /\ c # Junk
    BY <2>7, FileFacts
  <2>9. /\ L \in [Blocks -> Nodes] /\ K[b] = c
        /\ \A x \in Blocks : x # b => K[x] = Contents[x]
        /\ \A u \in Sessions \ {t} : \A x \in tr[u].alloc : L[x] = cache[x]
        /\ \A x \in Blocks : L[x] # Junk => x = b \/ cache[x] # Junk
    <3>1. SetBlock(b, c)
      BY <1>6
    <3>2. QED BY <1>1, <2>3, <2>4, <2>6, <2>8, <3>1, DirtyFacts
  <2>10. r.alloc \subseteq Blocks
    BY <1>1, <1>2, IdleFacts
  <2>11. \A x \in r.alloc : K[x] = Contents[x]
    BY <2>6, <2>9, <2>10
  <2>12. r.added[p] = 0 /\ (C[p] = 0 \/ C[p] \in r.removed)
    <3>1. Lookup(r, p).block = 0
      BY <1>1, <1>2
    <3>2. QED BY <1>4, <1>5, <3>1, LookupCases, ZeroNoBlock
  <2>13. n \in Transactions /\ n.active /\ TransactionOK(n, C, fs.free, K, {}, {})
    <3>1. IsFile(K[b], p) /\ b \in fs.free \ r.alloc /\ r.active /\ p \in Paths /\ b \in Blocks
      BY <1>5, <2>6, <2>7, <2>9
    <3>2. QED BY <1>5, <2>1, <2>6, <2>11, <2>12, <3>1, CreateOK
  <2>14. n.alloc = r.alloc \cup {b} /\ n.added[p] = b
    BY <1>5, <2>1 DEF Made, Transactions, FileMaps
  <2>15. h \in Handles /\ HandleOK(h, n, C)
    <3>1. /\ Handle(b, 0) \in Handles /\ Handle(b, 0).block = b /\ Handle(b, 0).committed = 0
      BY <2>6, HandleFacts DEF BlockNumbers
    <3>2. h.block = b /\ h.committed = 0 /\ h \in Handles
      BY <2>2, <3>1 DEF Handles
    <3>3. QED BY <2>14, <3>2 DEF HandleOK
  <2>16. \A u \in Sessions \ {t} : \A x \in tr[u].alloc : x \notin n.alloc /\ L[x] = cache[x]
    BY <1>1, <1>2, <2>6, <2>9, <2>14, IdleFacts
  <2>17. \A x \in Blocks : L[x] # Junk => x \in n.alloc \/ (cache[x] # Junk /\ x \notin tr[t].alloc)
    BY <1>2, <2>9, <2>14
  <2>18. UNCHANGED <<disk, super, ctr, dev, calm, fs, com>>
    BY <1>1, <1>6
  <2>19. QED BY <1>1, <1>4, <2>4, <2>5, <2>9, <2>13, <2>15, <2>16, <2>17, <2>18, RequestStep
<1>7. CASE Fail(t)
  BY <1>1, <1>7, FailRequest
<1>8. QED BY <1>2, <1>3, <1>6, <1>7 DEF OpenCreate

(* Committed blocks are not dirty.                                          *)
LEMMA CommittedClean ==
  ASSUME StoreInv, fs.state = "up", NEW b \in Below(fs.files, disk)
  PROVE  cache[b] = Junk /\ Contents[b] = disk[b] /\ b \in Blocks
<1>1. b \in Blocks
  BY UpFacts DEF WellFormed
<1>2. \A u \in Sessions : b \notin tr[u].alloc
  BY AllocApart
<1>3. cache[b] = Junk
  BY <1>1, <1>2 DEF StoreInv, SessionsOK, Dirty
<1>4. QED BY <1>1, <1>3 DEF Contents, Content, Dirty

(* An open file h of transaction r designates the file p.                   *)
Designates(h, r, C, K, p) ==
  /\ IsFile(K[h.block], p) /\ h.block \in Blocks
  /\ \/ h.committed = 0 /\ h.block = r.added[p] /\ h.block \in r.alloc
     \/ /\ h.committed = C[p] /\ C[p] # 0 /\ C[p] \notin r.removed /\ r.added[p] = 0
        /\ \/ h.block = r.updated[C[p]] /\ h.block \in r.alloc
           \/ h.block = C[p] /\ r.updated[C[p]] = 0 /\ h.block \notin r.alloc

(* So does every open file that is not gone.                                *)
LEMMA OpenFile ==
  ASSUME StoreInv, Idle, NEW t \in Sessions, file[t] # NULL,
         NEW h \in Handles, h.block = file[t].block, h.committed = file[t].committed,
         h.block # 0, NEW r, r = tr[t], NEW C, C = Committed
  PROVE  \E p \in Paths : Designates(h, r, C, Contents, p)
<1>1. fs.state = "up" /\ r \in Transactions /\ TransactionOK(r, C, fs.free, Contents, {}, {})
  BY IdleFacts
<1>2. HandleOK(file[t], r, C)
  BY IdleFacts
<1>3. /\ \A p \in Paths : C[p] # 0 => /\ C[p] \in Blocks /\ C[p] \in FileBlocks(C)
                                       /\ IsFile(disk[C[p]], p)
      /\ FileBlocks(C) \cap fs.free = {} /\ FileBlocks(C) \subseteq Below(fs.files, disk)
      /\ \A b \in FileBlocks(C) : \E p \in Paths : C[p] = b
  BY <1>1, CommittedFacts
<1>4. h.block \in Blocks
  BY DEF Handles, BlockNumbers
<1>5. CASE h.committed = 0
  <2>1. PICK p \in Paths : r.added[p] = h.block
    BY <1>2, <1>5 DEF HandleOK
  <2>2. h.block \in r.alloc /\ IsFile(Contents[h.block], p)
    BY <1>1, <2>1 DEF TransactionOK
  <2>3. QED BY <1>4, <1>5, <2>1, <2>2 DEF Designates
<1>6. CASE h.committed # 0
  <2>1. /\ h.committed \in FileBlocks(C) /\ h.committed \notin r.removed
        /\ \A p \in Paths : C[p] = h.committed => r.added[p] = 0
        /\ h.block = IF r.updated[h.committed] # 0 THEN r.updated[h.committed]
                     ELSE h.committed
    BY <1>2, <1>6 DEF HandleOK
  <2>2. PICK p \in Paths : C[p] = h.committed
    BY <1>3, <2>1
  <2>3. C[p] # 0 /\ C[p] \in Blocks /\ IsFile(disk[C[p]], p) /\ r.added[p] = 0
    BY <1>3, <1>6, <2>1, <2>2
  <2>4. CASE r.updated[C[p]] # 0
    <3>1. h.block = r.updated[C[p]] /\ h.block \in r.alloc /\ IsFile(Contents[h.block], p)
      BY <1>1, <2>1, <2>2, <2>3, <2>4 DEF TransactionOK
    <3>2. QED BY <1>4, <2>1, <2>2, <2>3, <3>1 DEF Designates
  <2>5. CASE r.updated[C[p]] = 0
    <3>1. h.block = C[p] /\ C[p] \in FileBlocks(C)
      BY <2>1, <2>2, <2>5
    <3>2. Contents[C[p]] = disk[C[p]]
      BY <1>1, <1>3, <3>1, CommittedClean
    <3>3. C[p] \notin r.alloc
      BY <1>1, <1>3, <3>1 DEF TransactionOK
    <3>4. QED BY <1>4, <2>1, <2>2, <2>3, <2>5, <3>1, <3>2, <3>3 DEF Designates
  <2>6. QED BY <2>4, <2>5
<1>7. QED BY <1>5, <1>6

(* What a file holds.                                                       *)
LEMMA FileContent ==
  ASSUME NEW c, NEW p \in Paths, IsFile(c, p)
  PROVE  c[3] \in Values
BY DEF IsFile, Entry

(* The content of an open file.                                             *)
LEMMA OpenContent ==
  ASSUME StoreInv, Idle, NEW t \in Sessions, NEW h, h = file[t], h # NULL, h.block # 0
  PROVE  Content(h.block)[3] \in Values
<1>1. PICK r, C : r = tr[t] /\ C = Committed
  OBVIOUS
<1>2. h \in Handles
  BY OpenBlock DEF Idle
<1>3. PICK p \in Paths : Designates(h, r, C, Contents, p)
  BY <1>1, <1>2, OpenFile
<1>4. h.block \in Blocks /\ IsFile(Contents[h.block], p)
  BY <1>3 DEF Designates
<1>5. QED BY <1>4, FileContent DEF Contents

(* storage_file_read and storage_file_get_size.                             *)
LEMMA ReadStep ==
  ASSUME StoreInv, NEW t \in Sessions, Read(t) \/ GetSize(t)
  PROVE  /\ StoreInv' /\ Others(t) /\ UNCHANGED <<disk, cache, fs, tr>> /\ tr[t].active
         /\ fs.state = "up" /\ file'[t].block = file[t].block /\ file'[t].used
         /\ file'[t].saw = Content(file[t].block)[3]
<1>1. /\ Idle /\ UNCHANGED <<disk, super, ctr, dev, calm, fs, tr, cache, com>>
      /\ file[t] # NULL /\ file[t].block # 0 /\ tr[t].active
  BY DEF Read, GetSize, Tell, Ready
<1>2. PICK v : v = Content(file[t].block)[3]
  OBVIOUS
<1>3. PICK h : h = [file[t] EXCEPT !.used = TRUE, !.saw = v]
  OBVIOUS
<1>4. file' = [file EXCEPT ![t] = h]
  BY <1>2, <1>3 DEF Read, GetSize, Tell, SetFile
<1>5. v \in Values
  BY <1>1, <1>2, OpenContent
<1>6. /\ h \in Handles /\ h.block = file[t].block /\ h.committed = file[t].committed
      /\ h.used /\ h.saw = v
  BY <1>1, <1>3, <1>5, IdleFacts DEF Handles
<1>7. HandleOK(h, tr[t], Committed)
  BY <1>1, <1>6, IdleFacts DEF HandleOK
<1>8. StoreInv' /\ Others(t)
  BY <1>1, <1>4, <1>6, <1>7, HandleStep
<1>9. file'[t] = h
  BY <1>1, <1>4, IdleFacts
<1>10. QED BY <1>1, <1>2, <1>6, <1>8, <1>9 DEF Idle

(* The contents K once block b is written.                                  *)
Put(K, b, c) == [K EXCEPT ![b] = c]

(* file_block_map_update: in place.                                         *)
LEMMA InPlaceStep ==
  ASSUME StoreInv, Idle, NEW t \in Sessions, file[t] # NULL, tr[t].active,
         NEW h \in Handles, h.block = file[t].block, h.committed = file[t].committed,
         NEW r, r = tr[t], NEW C, C = Committed,
         NEW p \in Paths, Designates(h, r, C, Contents, p), h.block \in r.alloc,
         NEW v \in Values, NEW b, b = h.block,
         tr' = [tr EXCEPT ![t] = r], file' = [file EXCEPT ![t] = h],
         SetBlock(b, Entry(p, v)), UNCHANGED <<disk, super, ctr, dev, calm, fs, com>>
  PROVE  StoreInv' /\ Others(t) /\ Contents' = Put(Contents, b, Entry(p, v))
<1>1. PICK L : L = cache'
  OBVIOUS
<1>2. PICK K : K = [x \in Blocks |-> IF L[x] # Junk THEN L[x] ELSE disk[x]]
  OBVIOUS
<1>3. PICK c : c = Entry(p, v)
  OBVIOUS
<1>4. b \in Blocks /\ IsFile(Contents[b], p) /\ b \in tr[t].alloc
  BY DEF Designates
<1>5. \A u \in Sessions \ {t} : b \notin tr[u].alloc
  BY <1>4, IdleFacts
<1>6. IsFile(c, p) /\ SetBlock(b, c)
  BY <1>3 DEF IsFile
<1>7. c \in Nodes /\ c # Junk
  BY <1>6, FileFacts
<1>8. /\ L \in [Blocks -> Nodes] /\ K[b] = c /\ Contents \in [Blocks -> Nodes]
      /\ \A x \in Blocks : x # b => K[x] = Contents[x]
      /\ \A u \in Sessions \ {t} : \A x \in tr[u].alloc : L[x] = cache[x]
      /\ \A x \in Blocks : L[x] # Junk => x = b \/ cache[x] # Junk
  BY <1>1, <1>2, <1>4, <1>5, <1>6, <1>7, DirtyFacts
<1>9. r \in Transactions /\ TransactionOK(r, C, fs.free, Contents, {}, {}) /\ r.alloc \subseteq Blocks
  BY IdleFacts
<1>10. \A x \in r.alloc : \A q \in Paths : IsFile(Contents[x], q) => IsFile(K[x], q)
  <2> TAKE x \in r.alloc
  <2> TAKE q \in Paths
  <2>1. CASE x # b
    BY <1>8, <1>9, <2>1
  <2>2. CASE x = b
    <3>1. IsFile(Contents[b], q) => q = p
      BY <1>4, FileFacts
    <3>2. QED BY <1>6, <1>8, <2>2, <3>1
  <2>3. QED BY <2>1, <2>2
<1>11. TransactionOK(r, C, fs.free, K, {}, {})
  BY <1>9, <1>10, TransactionFrame
<1>12. HandleOK(h, r, C)
  BY IdleFacts DEF HandleOK
<1>13. \A u \in Sessions \ {t} : \A x \in tr[u].alloc : x \notin r.alloc /\ L[x] = cache[x]
  BY <1>8, IdleFacts
<1>14. \A x \in Blocks : L[x] # Junk => x \in r.alloc \/ (cache[x] # Junk /\ x \notin tr[t].alloc)
  BY <1>4, <1>8
<1>15. StoreInv' /\ Others(t)
  <2>1. cache' = L /\ L \in [Blocks -> Nodes] /\ r \in Transactions /\ h \in Handles \cup {NULL}
    BY <1>1, <1>8, <1>9
  <2>2. QED BY <1>2, <1>11, <1>12, <1>13, <1>14, <2>1, RequestStep
<1>16. K = Contents'
  BY <1>1, <1>2 DEF Contents, Content, Dirty
<1>17. K = Put(Contents, b, c)
  BY <1>2, <1>8 DEF Put
<1>18. QED BY <1>3, <1>15, <1>16, <1>17

(* file_block_map_update: in a copy.                                        *)
LEMMA CopyStep ==
  ASSUME StoreInv, Idle, NEW t \in Sessions, file[t] # NULL, tr[t].active,
         NEW h \in Handles, h.block = file[t].block, h.committed = file[t].committed,
         NEW r, r = tr[t], NEW C, C = Committed,
         NEW p \in Paths, Designates(h, r, C, Contents, p), h.block \notin r.alloc,
         NEW v \in Values, Available # {}, NEW b, b = Lowest(Available),
         NEW o, o = h.block, NEW n, n = Copied(r, o, b), tr' = [tr EXCEPT ![t] = n],
         NEW g, g = [h EXCEPT !.block = b], file' = [file EXCEPT ![t] = g],
         SetBlock(b, Entry(p, v)), UNCHANGED <<disk, super, ctr, dev, calm, fs, com>>
  PROVE  /\ StoreInv' /\ Others(t) /\ Contents' = Put(Contents, b, Entry(p, v))
         /\ r \in Transactions /\ b \in Blocks /\ b \notin r.alloc /\ o = C[p] /\ C[p] # 0
<1>1. PICK L : L = cache'
  OBVIOUS
<1>2. PICK K : K = [x \in Blocks |-> IF L[x] # Junk THEN L[x] ELSE disk[x]]
  OBVIOUS
<1>3. PICK c : c = Entry(p, v)
  OBVIOUS
<1>4. /\ o = C[p] /\ h.committed = o /\ C[p] # 0 /\ C[p] \notin r.removed
      /\ r.added[p] = 0 /\ r.updated[o] = 0
  BY DEF Designates
<1>5. /\ b \in Blocks /\ b \in fs.free /\ b \notin r.alloc
      /\ \A u \in Sessions : b \notin tr[u].alloc
  BY AvailableFacts
<1>6. IsFile(c, p) /\ SetBlock(b, c)
  BY <1>3 DEF IsFile
<1>7. c \in Nodes /\ c # Junk
  BY <1>6, FileFacts
<1>8. /\ L \in [Blocks -> Nodes] /\ K[b] = c /\ Contents \in [Blocks -> Nodes]
      /\ \A x \in Blocks : x # b => K[x] = Contents[x]
      /\ \A u \in Sessions \ {t} : \A x \in tr[u].alloc : L[x] = cache[x]
      /\ \A x \in Blocks : L[x] # Junk => x = b \/ cache[x] # Junk
  BY <1>1, <1>2, <1>5, <1>6, <1>7, DirtyFacts
<1>9. r \in Transactions /\ TransactionOK(r, C, fs.free, Contents, {}, {}) /\ r.alloc \subseteq Blocks
  BY IdleFacts
<1>10. C \in FileMaps /\ \A x, y \in Paths : C[x] = C[y] /\ C[x] # 0 => x = y
  BY CommittedFacts DEF Idle
<1>11. \A x \in r.alloc : K[x] = Contents[x]
  BY <1>5, <1>8, <1>9
<1>12. n \in Transactions /\ n.active /\ TransactionOK(n, C, fs.free, K, {}, {})
  <2>1. IsFile(K[b], p) /\ b \in fs.free \ r.alloc /\ r.active
    BY <1>5, <1>6, <1>8
  <2>2. QED BY <1>4, <1>5, <1>9, <1>10, <1>11, <2>1, CopyOK, SMTT(60)
<1>13. o \in FileBlocks(C) /\ o \in Blocks
  BY <1>4, CommittedFacts DEF Idle
<1>14. /\ n.alloc = r.alloc \cup {b} /\ n.added = r.added /\ n.removed = r.removed
       /\ n.updated[o] = b
  BY <1>9, <1>13 DEF Copied, Transactions
<1>15. g \in Handles /\ g.block = b /\ g.committed = o
  BY <1>4, <1>5 DEF Handles, BlockNumbers
<1>16. HandleOK(g, n, C)
  <2>1. \A q \in Paths : C[q] = o => q = p
    BY <1>4, <1>10
  <2>2. b # 0 /\ o # 0
    BY <1>5, <1>13, ZeroNoBlock
  <2>3. QED BY <1>4, <1>13, <1>14, <1>15, <2>1, <2>2 DEF HandleOK
<1>17. \A u \in Sessions \ {t} : \A x \in tr[u].alloc : x \notin n.alloc /\ L[x] = cache[x]
  BY <1>5, <1>8, <1>14, IdleFacts
<1>18. \A x \in Blocks : L[x] # Junk => x \in n.alloc \/ (cache[x] # Junk /\ x \notin tr[t].alloc)
  BY <1>8, <1>14
<1>19. StoreInv' /\ Others(t)
  <2>1. cache' = L /\ L \in [Blocks -> Nodes] /\ n \in Transactions /\ g \in Handles \cup {NULL}
    BY <1>1, <1>8, <1>12, <1>15
  <2>2. K = Contents'
    BY <1>1, <1>2 DEF Contents, Content, Dirty
  <2>3. tr'[t] = n /\ file'[t] = g
    BY IdleFacts
  <2>4. tr' = [tr EXCEPT ![t] = tr'[t]] /\ file' = [file EXCEPT ![t] = file'[t]]
    BY <2>3
  <2>5. QED BY <1>12, <1>16, <1>17, <1>18, <2>1, <2>2, <2>3, <2>4, RequestDone
<1>20. K = Contents'
  BY <1>1, <1>2 DEF Contents, Content, Dirty
<1>21. K = Put(Contents, b, c)
  BY <1>2, <1>8 DEF Put
<1>22. QED BY <1>3, <1>4, <1>5, <1>9, <1>19, <1>20, <1>21

(* What file_block_map_update does: the cases.                              *)
LEMMA UpdateCases ==
  ASSUME StoreInv, Idle, NEW t \in Sessions, file[t] # NULL, NEW h \in Handles,
         h.block = file[t].block, h.committed = file[t].committed, h.block # 0,
         NEW r, r = tr[t], NEW C, C = Committed, NEW v, Update(t, r, h, v)
  PROVE  \/ \E p \in Paths :
              /\ Designates(h, r, C, Contents, p) /\ h.block \in r.alloc
              /\ tr' = [tr EXCEPT ![t] = r] /\ file' = [file EXCEPT ![t] = h]
              /\ SetBlock(h.block, Entry(p, v)) /\ UNCHANGED disk
         \/ \E p \in Paths :
              /\ Designates(h, r, C, Contents, p) /\ h.block \notin r.alloc
              /\ Available # {}
              /\ tr' = [tr EXCEPT ![t] = Copied(r, h.block, Lowest(Available))]
              /\ file' = [file EXCEPT ![t] = [h EXCEPT !.block = Lowest(Available)]]
              /\ SetBlock(Lowest(Available), Entry(p, v)) /\ UNCHANGED disk
         \/ Fail(t)
<1>1. PICK p \in Paths : Designates(h, r, C, Contents, p)
  BY OpenFile
<1>2. h.block \in Blocks /\ PathAt(h.block) = p
  <2>1. h.block \in Blocks /\ IsFile(Contents[h.block], p)
    BY <1>1 DEF Designates
  <2>2. Content(h.block)[2] = p
    BY <2>1, FileFacts DEF Contents
  <2>3. QED BY <2>1, <2>2 DEF PathAt
<1>3. QED BY <1>1, <1>2 DEF Update, Copied, SetTr, SetFile

(* file_block_map_update.                                                   *)
LEMMA UpdateStep ==
  ASSUME StoreInv, Idle, NEW t \in Sessions, file[t] # NULL, tr[t].active, NEW h \in Handles,
         h.block = file[t].block, h.committed = file[t].committed, h.block # 0,
         NEW v \in Values, Update(t, tr[t], h, v), UNCHANGED <<super, ctr, dev, calm, fs, com>>
  PROVE  StoreInv' /\ Others(t)
<1>1. PICK r, C, b, o, k : r = tr[t] /\ C = Committed /\ b = Lowest(Available) /\ o = h.block
                           /\ k = [h EXCEPT !.block = b]
  OBVIOUS
<1>2. CASE \E p \in Paths :
             /\ Designates(h, r, C, Contents, p) /\ h.block \in r.alloc
             /\ tr' = [tr EXCEPT ![t] = r] /\ file' = [file EXCEPT ![t] = h]
             /\ SetBlock(h.block, Entry(p, v)) /\ UNCHANGED disk
  <2>1. PICK p \in Paths :
             /\ Designates(h, r, C, Contents, p) /\ h.block \in r.alloc
             /\ tr' = [tr EXCEPT ![t] = r] /\ file' = [file EXCEPT ![t] = h]
             /\ SetBlock(o, Entry(p, v)) /\ UNCHANGED disk
    BY <1>1, <1>2
  <2>2. UNCHANGED <<disk, super, ctr, dev, calm, fs, com>>
    BY <2>1
  <2>3. QED BY <1>1, <2>1, <2>2, InPlaceStep
<1>3. CASE \E p \in Paths :
             /\ Designates(h, r, C, Contents, p) /\ h.block \notin r.alloc
             /\ Available # {}
             /\ tr' = [tr EXCEPT ![t] = Copied(r, h.block, Lowest(Available))]
             /\ file' = [file EXCEPT ![t] = [h EXCEPT !.block = Lowest(Available)]]
             /\ SetBlock(Lowest(Available), Entry(p, v)) /\ UNCHANGED disk
  <2>1. PICK n : n = Copied(r, o, b)
    OBVIOUS
  <2>2. PICK p \in Paths :
             /\ Designates(h, r, C, Contents, p) /\ h.block \notin r.alloc
             /\ Available # {}
             /\ tr' = [tr EXCEPT ![t] = n] /\ file' = [file EXCEPT ![t] = k]
             /\ SetBlock(b, Entry(p, v)) /\ UNCHANGED disk
    BY <1>1, <1>3, <2>1
  <2>3. UNCHANGED <<disk, super, ctr, dev, calm, fs, com>>
    BY <2>2
  <2>4. QED BY <1>1, <2>1, <2>2, <2>3, CopyStep
<1>4. CASE Fail(t)
  BY <1>4, FailRequest
<1>5. QED
  <2>1. Update(t, r, h, v)
    BY <1>1
  <2>2. QED BY <1>1, <1>2, <1>3, <1>4, <2>1, UpdateCases

(* storage_file_write.                                                      *)
LEMMA WriteStep ==
  ASSUME StoreInv, NEW t \in Sessions, NEW v \in Values, Write(t, v)
  PROVE  StoreInv' /\ Others(t)
<1>1. Idle /\ tr[t].active /\ file[t] # NULL /\ UNCHANGED <<super, ctr, dev, calm, fs, com>>
  BY DEF Write, Ready
<1>2. PICK h : h = [file[t] EXCEPT !.used = TRUE, !.size = Size(v), !.saw = v]
  OBVIOUS
<1>3. h \in Handles /\ h.block = file[t].block /\ h.committed = file[t].committed
  <2>1. file[t] \in Handles /\ Size(v) \in 0..1
    BY <1>1, IdleFacts, SizeFacts
  <2>2. QED BY <1>2, <2>1 DEF Handles
<1>4. CASE h.block # 0 /\ Update(t, tr[t], h, v)
  BY <1>1, <1>3, <1>4, UpdateStep
<1>5. CASE Fail(t)
  BY <1>1, <1>5, FailRequest
<1>6. QED BY <1>2, <1>3, <1>4, <1>5 DEF Write

(* storage_file_set_size: the file keeps its mark.                          *)
LEMMA SetSizeFacts ==
  ASSUME StoreInv, NEW t \in Sessions, NEW v \in Values, SetSize(t, v)
  PROVE  /\ Idle /\ tr[t].active /\ file[t] # NULL /\ UNCHANGED <<super, ctr, dev, calm, fs, com>>
         /\ file[t].block # 0
         /\ \E h \in Handles :
              /\ h.block = file[t].block /\ h.committed = file[t].committed
              /\ h.used = file[t].used /\ h.saw = (IF file[t].saw = NULL THEN NULL ELSE v)
              /\ Update(t, tr[t], h, v)
<1>1. /\ Idle /\ tr[t].active /\ file[t] # NULL /\ UNCHANGED <<super, ctr, dev, calm, fs, com>>
      /\ file[t].block # 0
  BY DEF SetSize, Ready
<1>2. PICK g, w, h : /\ g = file[t] /\ w = (IF g.saw = NULL THEN NULL ELSE v)
                     /\ h = [g EXCEPT !.used = g.used, !.size = Size(v), !.saw = w]
  OBVIOUS
<1>3. g \in Handles /\ w \in Values \cup {NULL} /\ g.used \in BOOLEAN
  BY <1>1, <1>2, IdleFacts DEF Handles
<1>4. h = [g EXCEPT !.size = Size(v), !.saw = IF @ = NULL THEN NULL ELSE v]
  BY <1>2, <1>3 DEF Handles
<1>5. Update(t, tr[t], h, v)
  BY <1>2, <1>4 DEF SetSize
<1>6. /\ h \in Handles /\ h.block = g.block /\ h.committed = g.committed
      /\ h.used = g.used /\ h.saw = w
  <2>1. Size(v) \in 0..1
    BY SizeFacts
  <2>2. QED BY <1>2, <1>3, <2>1 DEF Handles
<1>7. QED BY <1>1, <1>2, <1>5, <1>6

LEMMA SetSizeStep ==
  ASSUME StoreInv, NEW t \in Sessions, NEW v \in Values, SetSize(t, v)
  PROVE  StoreInv' /\ Others(t)
<1>1. PICK h : /\ h \in Handles /\ h.block = file[t].block /\ h.committed = file[t].committed
               /\ file[t].block # 0 /\ Update(t, tr[t], h, v)
               /\ Idle /\ tr[t].active /\ file[t] # NULL
               /\ UNCHANGED <<super, ctr, dev, calm, fs, com>>
  BY SetSizeFacts
<1>2. QED BY <1>1, UpdateStep

(* A block cannot be read, and a commit is refused.                         *)
LEMMA FailingStep ==
  ASSUME StoreInv, NEW t \in Sessions, ReadError(t) \/ CommitRefused(t)
  PROVE  /\ StoreInv' /\ Others(t) /\ tr'[t] = FailedTr
         /\ file'[t] # NULL => file'[t].saw = NULL
<1>1. Idle /\ Fail(t) /\ UNCHANGED <<super, ctr, dev, calm, fs, com>>
  BY DEF ReadError, CommitRefused, Ready
<1>2. QED BY <1>1, FailRequest

(* The open file of a session that deletes a file.                          *)
LEMMA DeletedHandle ==
  ASSUME NEW r \in Transactions, NEW C \in FileMaps, C = Committed, NEW free, NEW K,
         TransactionOK(r, C, free, K, {}, {}), FileBlocks(C) \cap free = {},
         \A x, y \in Paths : C[x] = C[y] /\ C[x] # 0 => x = y,
         NEW p \in Paths, NEW l, l = Lookup(r, p), l.block # 0,
         NEW n, n = Deleted(r, p), NEW g \in Handles, HandleOK(g, r, C),
         NEW h \in Handles, h.committed = g.committed,
         h.block = IF g.block = l.block THEN 0 ELSE g.block
  PROVE  HandleOK(h, n, C)
<1>1. /\ n \in Transactions
      /\ n.added[p] = 0 /\ \A q \in Paths : q # p => n.added[q] = r.added[q]
  BY DeletedCases
<1>2. /\ h \in Handles /\ h.committed = g.committed
      /\ g.block = l.block => h.block = 0
      /\ g.block # l.block => h.block = g.block
  OBVIOUS
<1>3. \A q \in Paths : C[q] # 0 => C[q] \in Blocks /\ C[q] \in FileBlocks(C) /\ C[q] \notin r.alloc
  BY DEF FileMaps, BlockNumbers, FileBlocks, TransactionOK
<1>4. \A q \in Paths : /\ r.added[q] # 0 => r.added[q] \in r.alloc
                       /\ C[q] # 0 /\ r.updated[C[q]] # 0 => r.updated[C[q]] \in r.alloc
  BY DEF TransactionOK
<1>5. CASE g.committed = 0
  <2>1. CASE h.block = 0
    BY <1>2, <1>5, <2>1 DEF HandleOK
  <2>2. CASE h.block # 0
    <3>1. h.block = g.block /\ g.block # l.block
      BY <1>2, <2>2
    <3>2. PICK q \in Paths : r.added[q] = g.block
      BY <1>5, <2>2, <3>1 DEF HandleOK
    <3>3. q # p
      <4>1. r.added[p] # 0 => l.block = r.added[p]
        BY LookupCases
      <4>2. QED BY <2>2, <3>1, <3>2, <4>1
    <3>4. n.added[q] = h.block
      BY <1>1, <3>1, <3>2, <3>3
    <3>5. QED BY <1>2, <1>5, <3>4 DEF HandleOK
  <2>3. QED BY <2>1, <2>2
<1>6. CASE g.committed # 0
  <2>1. /\ g.committed \in FileBlocks(C)
        /\ \A q \in Paths : C[q] = g.committed => r.added[q] = 0
        /\ g.block = IF g.committed \in r.removed THEN 0
                     ELSE IF r.updated[g.committed] # 0 THEN r.updated[g.committed]
                     ELSE g.committed
    BY <1>6 DEF HandleOK
  <2>2. PICK q \in Paths : C[q] = g.committed
    BY <2>1 DEF FileBlocks
  <2>3. C[q] # 0 /\ C[q] \in Blocks /\ C[q] \notin r.alloc /\ r.added[q] = 0
    BY <1>3, <1>6, <2>1, <2>2
  <2>4. \A x \in Paths : C[x] = g.committed => n.added[x] = 0
    BY <1>1, <2>1
  <2>5. CASE /\ l.committed = 0 /\ l.block = r.added[p] /\ r.added[p] # 0 /\ l.block \in r.alloc
             /\ n.removed = r.removed /\ n.freed = r.freed
             /\ \A b \in Blocks : n.updated[b] = r.updated[b]
    <3>1. g.block # l.block
      <4>1. r.added[p] # r.updated[C[q]]
        BY <2>3, <2>5, OwnBlocks
      <4>2. QED BY <2>1, <2>2, <2>3, <2>5, <4>1
    <3>2. QED BY <1>2, <1>6, <2>1, <2>2, <2>3, <2>4, <2>5, <3>1 DEF HandleOK
  <2>6. CASE /\ l.committed = C[p] /\ C[p] # 0 /\ C[p] \in Blocks /\ r.added[p] = 0
             /\ C[p] \notin r.removed
             /\ n.removed = r.removed \cup {C[p]} /\ n.updated[C[p]] = 0
             /\ \A b \in Blocks : b # C[p] => n.updated[b] = r.updated[b]
             /\ \/ l.block = C[p] /\ C[p] \notin r.alloc /\ r.updated[C[p]] = 0
                \/ l.block = r.updated[C[p]] /\ l.block \in r.alloc
    <3>1. CASE q = p
      <4>1. g.block = l.block
        BY <2>1, <2>2, <2>6, <3>1
      <4>2. QED BY <1>2, <1>6, <2>1, <2>2, <2>4, <2>6, <3>1, <4>1 DEF HandleOK
    <3>2. CASE q # p
      <4>1. C[q] # C[p]
        BY <2>6, <3>2
      <4>2. r.updated[C[p]] # 0 => r.updated[C[q]] # r.updated[C[p]]
        BY <2>3, <2>6, <3>2, OwnBlocks
      <4>3. r.updated[C[q]] # 0 => r.updated[C[q]] # C[p]
        BY <1>3, <1>4, <2>3, <2>6
      <4>4. g.block # l.block
        BY <2>1, <2>2, <2>3, <2>6, <4>1, <4>2, <4>3
      <4>5. QED BY <1>2, <1>6, <2>1, <2>2, <2>3, <2>4, <2>6, <4>1, <4>4 DEF HandleOK
    <3>3. QED BY <3>1, <3>2
  <2>7. QED BY <2>5, <2>6, DeletedCases
<1>7. QED BY <1>5, <1>6, <1>2

(* file_delete.                                                             *)
LEMMA DeleteStep ==
  ASSUME StoreInv, NEW t \in Sessions, NEW p \in Paths, Delete(t, p)
  PROVE  StoreInv' /\ Others(t)
<1>1. PICK r, C, l, n, b : r = tr[t] /\ C = Committed /\ l = Lookup(r, p)
                           /\ n = Deleted(r, p) /\ b = l.block
  OBVIOUS
<1>2. Idle /\ r.active /\ b # 0 /\ UNCHANGED <<disk, super, ctr, dev, calm, fs, com>>
  BY <1>1 DEF Delete, Ready
<1>3. /\ r \in Transactions /\ TransactionOK(r, C, fs.free, Contents, {}, {})
      /\ r.alloc \subseteq Blocks
  BY <1>1, <1>2, IdleFacts
<1>4. /\ C \in FileMaps /\ FileBlocks(C) \cap fs.free = {}
      /\ \A x, y \in Paths : C[x] = C[y] /\ C[x] # 0 => x = y
  BY <1>1, <1>2, CommittedFacts DEF Idle
<1>5. n \in Transactions /\ n.alloc = r.alloc \ {b}
  BY <1>1, <1>2, <1>3, <1>4, DeletedCases
<1>6. TransactionOK(n, C, fs.free, Contents, {}, {})
  BY <1>1, <1>2, <1>3, <1>4, DeletedOK
<1>7. /\ tr' = [tr EXCEPT ![t] = n]
      /\ file' = [file EXCEPT ![t] = IF file[t] # NULL /\ file[t].block = b
                                     THEN [file[t] EXCEPT !.block = 0, !.saw = NULL] ELSE file[t]]
      /\ cache' = IF b \in r.alloc THEN Forget(cache, {b}) ELSE cache
  BY <1>1 DEF Delete, SetTr, SetFile
<1>8. tr'[t] = n /\ tr' = [tr EXCEPT ![t] = tr'[t]]
  BY <1>2, <1>7, IdleFacts
<1>9. /\ file' = [file EXCEPT ![t] = file'[t]]
      /\ file'[t] = IF file[t] # NULL /\ file[t].block = b
                    THEN [file[t] EXCEPT !.block = 0, !.saw = NULL] ELSE file[t]
  BY <1>2, <1>7, IdleFacts
<1>10. file'[t] \in Handles \cup {NULL} /\ (file'[t] # NULL => HandleOK(file'[t], n, C))
  <2>1. CASE file[t] = NULL
    BY <1>9, <2>1
  <2>2. CASE file[t] # NULL
    <3>1. PICK g, h :
            g = file[t] /\ h = IF g.block = l.block THEN [g EXCEPT !.block = 0, !.saw = NULL] ELSE g
      OBVIOUS
    <3>2. g \in Handles /\ HandleOK(g, r, C)
      BY <1>1, <1>2, <2>2, <3>1, IdleFacts
    <3>3. h \in Handles /\ HandleOK(h, n, C)
      <4>1. PICK free, K : free = fs.free /\ K = Contents
        OBVIOUS
      <4>2. TransactionOK(r, C, free, K, {}, {}) /\ FileBlocks(C) \cap free = {} /\ l.block # 0
        BY <1>1, <1>2, <1>3, <1>4, <4>1
      <4>3. C = Committed /\ l = Lookup(r, p) /\ n = Deleted(r, p) /\ r \in Transactions
        BY <1>1, <1>3
      <4>4. C \in FileMaps /\ \A x, y \in Paths : C[x] = C[y] /\ C[x] # 0 => x = y
        BY <1>4
      <4>5. /\ h \in Handles /\ h.committed = g.committed
            /\ h.block = IF g.block = l.block THEN 0 ELSE g.block
        BY <3>1, <3>2 DEF Handles, BlockNumbers
      <4>6. QED BY <3>2, <4>2, <4>3, <4>4, <4>5, DeletedHandle
    <3>4. file'[t] = h
      BY <1>1, <1>9, <2>2, <3>1
    <3>5. QED BY <3>3, <3>4
  <2>3. QED BY <2>1, <2>2
<1>11. /\ cache' \in [Blocks -> Nodes]
       /\ \A x \in Blocks : b \in r.alloc /\ x = b => cache'[x] = Junk
       /\ \A x \in Blocks : b \notin r.alloc \/ x # b => cache'[x] = cache[x]
  BY <1>2, <1>7, IdleFacts, ForgetFacts
<1>12. \A x \in n.alloc : Contents'[x] = Contents[x]
  BY <1>2, <1>3, <1>5, <1>11 DEF Contents, Content, Dirty
<1>13. TransactionOK(n, C, fs.free, Contents', {}, {})
  BY <1>6, <1>12, TransactionFrame
<1>14. \A u \in Sessions \ {t} : \A x \in tr[u].alloc : x \notin n.alloc /\ cache'[x] = cache[x]
  <2> TAKE u \in Sessions \ {t}
  <2> TAKE x \in tr[u].alloc
  <2>1. x \in Blocks /\ x \notin r.alloc
    BY <1>1, <1>2, IdleFacts
  <2>2. QED BY <1>5, <1>11, <2>1
<1>15. \A x \in Blocks : cache'[x] # Junk => x \in n.alloc \/ (cache[x] # Junk /\ x \notin tr[t].alloc)
  BY <1>1, <1>5, <1>11
<1>16. QED BY <1>1, <1>2, <1>5, <1>8, <1>9, <1>10, <1>11, <1>13, <1>14, <1>15, RequestDone

(* What transaction_complete prepares.                                      *)
LEMMA PreparedFacts ==
  ASSUME StoreInv, NEW t \in Sessions, Ready(t), CanCommit(t)
  PROVE  LET r == tr[t]
             n == Prepared(t).tr
             new == Prepared(t).new
             old == IF Changed(r) THEN {fs.files} \ {0} ELSE {}
         IN /\ n = [r EXCEPT !.alloc = r.alloc \cup new, !.freed = r.freed \cup old]
            /\ new \in SUBSET Blocks /\ old \in SUBSET Blocks /\ new \subseteq fs.free
            /\ \A x \in new : \A u \in Sessions : x \notin tr[u].alloc
            /\ new \cap Below(fs.files, disk) = {}
            /\ Prepared(t).free = (fs.free \ (r.alloc \cup new)) \cup (r.freed \cup old)
            /\ Prepared(t).files \in BlockNumbers
            /\ IF Changed(r) THEN new = {Prepared(t).files} /\ Prepared(t).files \in Blocks
               ELSE new = {} /\ Prepared(t).files = fs.files
<1> DEFINE r == tr[t]
           n == Prepared(t).tr
           new == Prepared(t).new
           old == IF Changed(r) THEN {fs.files} \ {0} ELSE {}
<1>1. Idle /\ (Changed(r) => Available # {})
  BY DEF Ready, CanCommit
<1>2. fs.files \in BlockNumbers
  BY <1>1, UpFacts DEF Idle
<1>3. CASE Changed(r)
  <2>1. PICK b : b = Lowest(Available)
    OBVIOUS
  <2>2. b \in Blocks /\ b \in fs.free /\ (\A u \in Sessions : b \notin tr[u].alloc)
        /\ b \notin Below(fs.files, disk)
    BY <1>1, <1>3, <2>1, AvailableFacts
  <2>3. /\ new = {b} /\ Prepared(t).files = b
        /\ n = [r EXCEPT !.alloc = r.alloc \cup new, !.freed = r.freed \cup old]
        /\ Prepared(t).free = (fs.free \ (r.alloc \cup new)) \cup (r.freed \cup old)
    BY <1>3, <2>1 DEF Prepared
  <2>4. old \in SUBSET Blocks /\ old \subseteq {fs.files}
    BY <1>2 DEF BlockNumbers
  <2>5. QED BY <1>3, <2>2, <2>3, <2>4 DEF BlockNumbers
<1>4. CASE ~Changed(r)
  <2>1. /\ new = {} /\ old = {} /\ Prepared(t).files = fs.files
        /\ n = [r EXCEPT !.alloc = r.alloc \cup new, !.freed = r.freed \cup old]
        /\ Prepared(t).free = (fs.free \ (r.alloc \cup new)) \cup (r.freed \cup old)
    BY <1>4 DEF Prepared
  <2>2. QED BY <1>2, <1>4, <2>1
<1>5. QED BY <1>3, <1>4

(* The files that a commit makes are files.                                 *)
LEMMA NewFilesType ==
  ASSUME NEW r \in Transactions, Committed \in FileMaps
  PROVE  NewFiles(r) \in FileMaps
<1>1. r.added \in FileMaps /\ r.updated \in [Blocks -> BlockNumbers]
  BY DEF Transactions
<1>2. \A p \in Paths : Committed[p] \in BlockNumbers /\ r.added[p] \in BlockNumbers
  BY <1>1 DEF FileMaps
<1>3. \A p \in Paths : Committed[p] # 0 => r.updated[Committed[p]] \in BlockNumbers
  BY <1>1, <1>2 DEF BlockNumbers
<1>4. \A p \in Paths : Kept(r)[p] \in BlockNumbers
  BY <1>2, <1>3 DEF Kept, BlockNumbers
<1>5. QED BY <1>2, <1>4 DEF NewFiles, FileMaps

(* transaction_complete, up to the first write.                             *)
LEMMA CommitPrepareStep ==
  ASSUME StoreInv, NEW t \in Sessions, CommitPrepare(t)
  PROVE  StoreInv' /\ Others(t)
<1>1. Ready(t) /\ CanCommit(t) /\ Idle /\ tr[t].active /\ fs.state = "up" /\ com = NULL
      /\ UNCHANGED <<disk, super, ctr, dev, calm, fs, file>>
  BY DEF CommitPrepare, Ready, Idle
<1>2. PICK r, C, n, new, old, root :
        /\ r = tr[t] /\ C = Committed /\ n = Prepared(t).tr /\ new = Prepared(t).new
        /\ old = (IF Changed(r) THEN {fs.files} \ {0} ELSE {}) /\ root = Prepared(t).files
  OBVIOUS
<1>3. /\ n = [r EXCEPT !.alloc = r.alloc \cup new, !.freed = r.freed \cup old]
      /\ new \in SUBSET Blocks /\ old \in SUBSET Blocks /\ new \subseteq fs.free
      /\ \A x \in new : \A u \in Sessions : x \notin tr[u].alloc
      /\ new \cap Below(fs.files, disk) = {}
      /\ Prepared(t).free = (fs.free \ (r.alloc \cup new)) \cup (r.freed \cup old)
      /\ root \in BlockNumbers
      /\ IF Changed(r) THEN new = {root} /\ root \in Blocks ELSE new = {} /\ root = fs.files
  BY <1>1, <1>2, PreparedFacts
<1>4. PICK N : N = NewFiles(r)
  OBVIOUS
<1>5. /\ r \in Transactions /\ TransactionOK(r, C, fs.free, Contents, {}, {}) /\ r.active
      /\ C \in FileMaps /\ fs.free \in SUBSET Blocks
  BY <1>1, <1>2, IdleFacts, UpFacts
<1>6. N \in FileMaps /\ FilesNode(N) \in Nodes /\ FilesNode(N) # Junk
  BY <1>2, <1>4, <1>5, NewFilesType, NodeFacts
<1>7. /\ tr' = [tr EXCEPT ![t] = n]
      /\ com' = [tr |-> t, files |-> root, free |-> Prepared(t).free]
      /\ cache' = [b \in Blocks |-> IF b \in new THEN FilesNode(N) ELSE cache[b]]
  BY <1>2, <1>4 DEF CommitPrepare, SetTr
<1>8. PICK L, K, d, h : L = cache' /\ K = Contents' /\ d = disk /\ h = file[t]
  OBVIOUS
<1>9. /\ L \in [Blocks -> Nodes] /\ \A b \in new : L[b] = FilesNode(N)
      /\ \A b \in Blocks : b \notin new => L[b] = cache[b]
  BY <1>1, <1>3, <1>6, <1>7, <1>8, IdleFacts
<1>10. \A b \in r.alloc : K[b] = Contents[b]
  <2>1. \A b \in r.alloc : b \in Blocks /\ b \notin new
    BY <1>2, <1>3, <1>5 DEF Transactions
  <2>2. QED BY <1>1, <1>8, <1>9, <2>1 DEF Contents, Content, Dirty
<1>11. /\ n \in Transactions /\ n.active /\ TransactionOK(n, C, fs.free, K, new, old)
       /\ n.added = r.added /\ n.updated = r.updated /\ n.removed = r.removed
       /\ n.alloc = r.alloc \cup new /\ n.freed = r.freed \cup old
  <2>1. /\ n \in Transactions /\ n.active
        /\ n.added = r.added /\ n.updated = r.updated /\ n.removed = r.removed
        /\ n.alloc = r.alloc \cup new /\ n.freed = r.freed \cup old
    BY <1>3, <1>5 DEF Transactions
  <2>2. n = Rooted(r, new, old)
    BY <1>3 DEF Rooted
  <2>3. TransactionOK(n, C, fs.free, K, new, old)
    <3>1. PICK free : free = fs.free
      OBVIOUS
    <3>2. TransactionOK(r, C, free, K, {}, {})
      BY <1>5, <1>10, <3>1, TransactionFrame
    <3>3. new \subseteq free /\ free \in SUBSET Blocks
      BY <1>3, <1>5, <3>1
    <3>4. TransactionOK(n, C, free, K, new, old)
      BY <1>3, <1>5, <2>2, <3>2, <3>3, RootsOK
    <3>5. QED BY <3>1, <3>4
  <2>4. QED BY <2>1, <2>3
<1>12. Committed' = Committed
  BY <1>1 DEF Committed
<1>13. /\ Changed(n) <=> Changed(r)
       /\ NewFiles(n)' = N /\ (AddConflicts(n)' <=> AddConflicts(r))
  <2>1. (Changed(n) <=> Changed(r)) /\ Kept(n)' = Kept(r)
    BY <1>11, <1>12 DEF Changed, Kept
  <2>2. QED BY <1>4, <1>11, <2>1 DEF NewFiles, AddConflicts
<1>14. tr'[t] = n /\ com' \in Commits /\ com' # NULL /\ com'.tr = t /\ com'.files = root
       /\ com'.free = (fs.free \ n.alloc) \cup n.freed
  <2>1. tr'[t] = n
    BY <1>1, <1>7, IdleFacts
  <2>2. Prepared(t).free \in SUBSET Blocks
    BY <1>3, <1>5 DEF Transactions
  <2>3. com' \in Commits
    BY <1>3, <1>7, <2>2 DEF Commits
  <2>4. QED BY <1>3, <1>7, <1>11, <2>1, <2>3, NullAssumption
<1>15. Committing(t)'
  BY <1>14 DEF Committing
<1>16. new = NewRoot(t)' /\ old = OldRoot(t)'
  BY <1>1, <1>2, <1>3, <1>13, <1>14, <1>15 DEF NewRoot, OldRoot
<1>17. CommitOK(t)'
  <2>1. ~AddConflicts(tr[t])'
    <3>1. ~AddConflicts(r)
      BY <1>1, <1>2 DEF CanCommit
    <3>2. QED BY <1>13, <1>14, <3>1 DEF AddConflicts, Kept
  <2>2. CASE Changed(r)
    <3>1. root \in n.alloc /\ K[root] = FilesNode(N)
      BY <1>3, <1>6, <1>8, <1>9, <1>11, <2>2 DEF Contents, Content, Dirty
    <3>2. Content(com.files)' = FilesNode(N)
      BY <1>3, <1>8, <1>14, <2>2, <3>1 DEF Contents, Content, Dirty
    <3>3. NewFiles(tr[t])' = N
      BY <1>13, <1>14 DEF NewFiles, Kept
    <3>4. Changed(tr[t])'
      BY <1>13, <1>14, <2>2 DEF Changed
    <3>5. {fs.files} \ {0} \subseteq n.freed
      BY <1>2, <1>11, <2>2
    <3>6. QED BY <1>1, <1>11, <1>14, <2>1, <3>1, <3>2, <3>3, <3>4, <3>5 DEF CommitOK
  <2>3. CASE ~Changed(r)
    <3>1. ~Changed(tr[t])'
      BY <1>13, <1>14, <2>3 DEF Changed
    <3>2. QED BY <1>1, <1>3, <1>11, <1>14, <2>1, <2>3, <3>1 DEF CommitOK
  <2>4. QED BY <2>2, <2>3
<1>18. /\ h \in Handles \cup {NULL} /\ file' = [file EXCEPT ![t] = h]
       /\ h # NULL => HandleOK(h, n, C)
  <2>1. h \in Handles \cup {NULL} /\ (h # NULL => HandleOK(h, r, C))
    BY <1>1, <1>2, <1>8, IdleFacts
  <2>2. file' = [file EXCEPT ![t] = h]
    BY <1>1, <1>8, IdleFacts
  <2>3. QED BY <1>11, <2>1, <2>2, HandleFrame
<1>19. \A u \in Sessions \ {t} : \A b \in tr[u].alloc :
         b \notin n.alloc /\ L[b] = cache[b] /\ d[b] = disk[b]
  <2> TAKE u \in Sessions \ {t}
  <2> TAKE b \in tr[u].alloc
  <2>1. b \in Blocks /\ b \notin r.alloc /\ b \notin new
    BY <1>1, <1>2, <1>3, IdleFacts
  <2>2. QED BY <1>8, <1>9, <1>11, <2>1
<1>20. \A b \in Blocks : L[b] # Junk => b \in n.alloc \/ (cache[b] # Junk /\ b \notin tr[t].alloc)
  BY <1>2, <1>9, <1>11
<1>21. /\ ctr' \in Counters /\ dev' \in Counters /\ calm' \in BOOLEAN /\ CounterOK'
       /\ d \in [Blocks -> Nodes] /\ disk' = d /\ UNCHANGED <<super, fs>>
       /\ \A b \in Below(fs.files, disk) : d[b] = disk[b]
  BY <1>1, <1>8 DEF StoreInv, StoreTypes, CounterOK
<1>22. cache' = L /\ tr' = [tr EXCEPT ![t] = n]
  BY <1>7, <1>8
<1>23. tr' = [tr EXCEPT ![t] = tr'[t]] /\ file'[t] = h /\ file' = [file EXCEPT ![t] = file'[t]]
  BY <1>1, <1>14, <1>18, <1>22, IdleFacts
<1>24. /\ tr'[t] \in Transactions /\ file'[t] \in Handles \cup {NULL}
       /\ cache' \in [Blocks -> Nodes] /\ disk' \in [Blocks -> Nodes]
       /\ \A b \in Below(fs.files, disk) : disk'[b] = disk[b]
       /\ \A u \in Sessions \ {t} : \A b \in tr[u].alloc :
            b \notin tr'[t].alloc /\ cache'[b] = cache[b] /\ disk'[b] = disk[b]
       /\ \A b \in Blocks :
            cache'[b] # Junk => b \in tr'[t].alloc \/ (cache[b] # Junk /\ b \notin tr[t].alloc)
  BY <1>8, <1>9, <1>11, <1>14, <1>18, <1>19, <1>20, <1>21, <1>22, <1>23
<1>25. /\ TransactionOK(tr'[t], Committed, fs.free, Contents', NewRoot(t)', OldRoot(t)')
       /\ file'[t] # NULL => HandleOK(file'[t], tr'[t], Committed)
  BY <1>2, <1>8, <1>11, <1>14, <1>16, <1>18, <1>23
<1>26. QED BY <1>1, <1>14, <1>17, <1>21, <1>23, <1>24, <1>25, SessionDone

(* The counters.                                                            *)
LEMMA IncrementFacts ==
  ASSUME NEW c \in Counters
  PROVE  Increment(c) \in Counters /\ 0 \in Counters
<1>1. CtrMod \in Nat /\ CtrMod > 1
  BY StorageAssumption
<1>2. c \in Nat
  BY <1>1 DEF Counters
<1>3. (c + 1) % CtrMod \in 0..CtrMod - 1
  BY <1>1, <1>2
<1>4. QED BY <1>1, <1>3 DEF Increment, Counters

(* Outcomes of a write with counter c.  What is reported done is on the     *)
(* device; without a fault the driver has the device's counter or none, and *)
(* with the device's own counter the write is done.                         *)
LEMMA WriteDataFacts ==
  ASSUME NEW c \in Counters, dev \in Counters, NEW o \in WriteData(c)
  PROVE  /\ o.ctr \in Counters /\ o.dev \in Counters /\ o.fault \in BOOLEAN
         /\ o.ok => o.landed
         /\ ~o.fault => o.ctr \in {0, o.dev}
         /\ ~o.fault /\ c = dev => o.landed /\ o.ok
<1>1. Increment(c) \in Counters /\ Increment(dev) \in Counters /\ 0 \in Counters
  BY IncrementFacts
<1> DEFINE a == c = dev
           d == IF a THEN Increment(dev) ELSE dev
<1>2. d \in Counters /\ a \in BOOLEAN
  BY <1>1
<1>3. \/ o = Outcome(a, a, Answered(c, a), d, FALSE)
      \/ \E k \in {c, 0} : o = Outcome(a, FALSE, k, d, TRUE)
      \/ \E k \in {c, 0} : o = Outcome(FALSE, FALSE, k, dev, TRUE)
  BY DEF WriteData
<1>4. CASE o = Outcome(a, a, Answered(c, a), d, FALSE)
  <2>1. o.landed = a /\ o.ok = a /\ o.ctr = Answered(c, a) /\ o.dev = d /\ o.fault = FALSE
    BY <1>4 DEF Outcome
  <2>2. Answered(c, a) = IF a THEN Increment(c) ELSE 0
    BY DEF Answered
  <2>3. CASE a
    BY <1>1, <2>1, <2>2, <2>3
  <2>4. CASE ~a
    BY <1>1, <2>1, <2>2, <2>4
  <2>5. QED BY <2>3, <2>4
<1>5. CASE \E k \in {c, 0} : o = Outcome(a, FALSE, k, d, TRUE)
  <2>1. PICK k \in {c, 0} : o = Outcome(a, FALSE, k, d, TRUE)
    BY <1>5
  <2>2. o.ok = FALSE /\ o.ctr = k /\ o.dev = d /\ o.fault = TRUE
    BY <2>1 DEF Outcome
  <2>3. QED BY <1>1, <1>2, <2>2
<1>6. CASE \E k \in {c, 0} : o = Outcome(FALSE, FALSE, k, dev, TRUE)
  <2>1. PICK k \in {c, 0} : o = Outcome(FALSE, FALSE, k, dev, TRUE)
    BY <1>6
  <2>2. o.ok = FALSE /\ o.ctr = k /\ o.dev = dev /\ o.fault = TRUE
    BY <2>1 DEF Outcome
  <2>3. QED BY <1>1, <2>2
<1>7. QED BY <1>3, <1>4, <1>5, <1>6

(* Outcomes of any write.                                                   *)
LEMMA OutcomeFacts ==
  ASSUME ctr \in Counters, dev \in Counters, NEW o \in RpmbWrite
  PROVE  /\ o.ctr \in Counters /\ o.dev \in Counters /\ o.fault \in BOOLEAN
         /\ o.ok => o.landed
         /\ ~o.fault => o.ctr \in {0, o.dev}
         /\ ~o.fault /\ ctr \in {0, dev} => o.landed /\ o.ok
<1>1. CASE ctr # 0 /\ o \in WriteData(ctr)
  <2>1. PICK c \in Counters : c = ctr
    OBVIOUS
  <2>2. o \in WriteData(c)
    BY <1>1, <2>1
  <2>3. QED BY <1>1, <2>1, <2>2, WriteDataFacts
<1>2. CASE o \in WriteData(dev)
  <2>1. PICK c \in Counters : c = dev
    OBVIOUS
  <2>2. o \in WriteData(c)
    BY <1>2, <2>1
  <2>3. QED BY <2>1, <2>2, WriteDataFacts
<1>3. CASE o \in ReadCounterFails
  <2>1. PICK k \in Counters : o = Outcome(FALSE, FALSE, k, dev, TRUE)
    BY <1>3 DEF ReadCounterFails
  <2>2. o.ok = FALSE /\ o.ctr = k /\ o.dev = dev /\ o.fault = TRUE
    BY <2>1 DEF Outcome
  <2>3. QED BY <2>2
<1>4. QED BY <1>1, <1>2, <1>3 DEF RpmbWrite

(* The counters after a write.                                              *)
LEMMA DeviceFacts ==
  ASSUME StoreInv, NEW o \in RpmbWrite, Device(o)
  PROVE  ctr' \in Counters /\ dev' \in Counters /\ calm' \in BOOLEAN /\ CounterOK'
<1>1. ctr' = o.ctr /\ dev' = o.dev /\ calm' = ~o.fault
  BY DEF Device
<1>2. ctr \in Counters /\ dev \in Counters
  BY DEF StoreInv, StoreTypes
<1>3. /\ o.ctr \in Counters /\ o.dev \in Counters /\ o.fault \in BOOLEAN
      /\ ~o.fault => o.ctr \in {0, o.dev}
  BY <1>2, OutcomeFacts
<1>4. QED BY <1>1, <1>3 DEF CounterOK

(* A commit in progress.                                                    *)
LEMMA CommitFacts ==
  ASSUME StoreInv, com # NULL, NEW t, t = com.tr
  PROVE  /\ t \in Sessions /\ com \in Commits /\ fs.state = "up" /\ Committing(t) /\ CommitOK(t)
         /\ tr[t] \in Transactions /\ tr[t].active /\ com.files \in BlockNumbers
         /\ com.free \in SUBSET Blocks
         /\ TransactionOK(tr[t], Committed, fs.free, Contents, NewRoot(t), OldRoot(t))
         /\ \A u \in Sessions \ {t} : /\ NewRoot(u) = {} /\ OldRoot(u) = {}
                                      /\ tr[u].alloc \subseteq Blocks
                                      /\ tr[u].alloc \cap tr[t].alloc = {}
<1>1. com \in Commits
  BY DEF StoreInv, StoreTypes
<1>2. t \in Sessions /\ com.files \in BlockNumbers /\ com.free \in SUBSET Blocks
  BY <1>1 DEF Commits
<1>3. Committing(t) /\ CommitOK(t)
  BY <1>2 DEF Committing, StoreInv
<1>4. fs.state = "up" /\ tr[t].active
  BY <1>3 DEF CommitOK
<1>5. \A u \in Sessions : tr[u] \in Transactions
  BY DEF StoreInv, StoreTypes
<1>6. TransactionOK(tr[t], Committed, fs.free, Contents, NewRoot(t), OldRoot(t))
  BY <1>2 DEF StoreInv, SessionsOK
<1>7. \A u \in Sessions \ {t} : /\ NewRoot(u) = {} /\ OldRoot(u) = {}
  BY DEF NewRoot, OldRoot, Committing
<1>8. \A u \in Sessions \ {t} : tr[u].alloc \subseteq Blocks /\ tr[u].alloc \cap tr[t].alloc = {}
  BY <1>2, <1>5 DEF StoreInv, SessionsOK, Transactions
<1>9. QED BY <1>1, <1>2, <1>3, <1>4, <1>5, <1>6, <1>7, <1>8

(* A dirty block is written.                                                *)
LEMMA WrittenStep ==
  ASSUME StoreInv, com # NULL, NEW t, t = com.tr, NEW b \in tr[t].alloc, Dirty(b),
         ctr' \in Counters, dev' \in Counters, calm' \in BOOLEAN, CounterOK',
         disk' = [disk EXCEPT ![b] = cache[b]], cache' = Forget(cache, {b}),
         UNCHANGED <<tr, file, com, super, fs>>
  PROVE  StoreInv' /\ Others(t) /\ Contents' = Contents
<1>1. /\ t \in Sessions /\ com \in Commits /\ fs.state = "up" /\ CommitOK(t)
      /\ tr[t] \in Transactions /\ com.files \in BlockNumbers
      /\ TransactionOK(tr[t], Committed, fs.free, Contents, NewRoot(t), OldRoot(t))
      /\ \A u \in Sessions \ {t} : tr[u].alloc \subseteq Blocks /\ tr[u].alloc \cap tr[t].alloc = {}
  BY CommitFacts
<1>2. b \in Blocks
  BY <1>1 DEF Transactions
<1>3. /\ cache \in [Blocks -> Nodes] /\ disk \in [Blocks -> Nodes]
      /\ tr \in [Sessions -> Transactions] /\ file \in [Sessions -> Handles \cup {NULL}]
  BY DEF StoreInv, StoreTypes
<1>4. /\ cache' \in [Blocks -> Nodes] /\ cache'[b] = Junk
      /\ \A x \in Blocks : x # b => cache'[x] = cache[x]
  BY <1>2, <1>3, ForgetFacts
<1>5. /\ disk' \in [Blocks -> Nodes] /\ disk'[b] = cache[b]
      /\ \A x \in Blocks : x # b => disk'[x] = disk[x]
  BY <1>2, <1>3
<1>6. Contents' = Contents /\ \A x \in Blocks : Content(x)' = Content(x)
  BY <1>4, <1>5 DEF Contents, Content, Dirty
<1>7. \A x \in Below(fs.files, disk) : disk'[x] = disk[x]
  <2>1. tr[t].alloc \cap Below(fs.files, disk) = {} /\ Below(fs.files, disk) \subseteq Blocks
    BY <1>1, AllocApart, UpFacts DEF WellFormed
  <2>2. QED BY <1>5, <2>1
<1>8. Committed' = Committed
  <2>1. PICK root, free, d, e : root = fs.files /\ free = fs.free /\ d = disk /\ e = disk'
    OBVIOUS
  <2>2. /\ root \in BlockNumbers /\ free \in SUBSET Blocks /\ WellFormed(root, free, d)
        /\ SameBelow(root, d, e)
    BY <1>1, <1>7, <2>1, UpFacts DEF SameBelow
  <2>3. FilesAt(root, e) = FilesAt(root, d)
    BY <2>2, TreeSame
  <2>4. QED BY <2>1, <2>3 DEF Committed
<1>9. NewRoot(t)' = NewRoot(t) /\ OldRoot(t)' = OldRoot(t)
  BY DEF NewRoot, OldRoot, Committing, Changed
<1>10. CommitOK(t)'
  <2>1. PICK r : r = tr[t] /\ r = tr'[t]
    OBVIOUS
  <2>2. NewFiles(tr[t])' = NewFiles(tr[t]) /\ (AddConflicts(tr[t])' <=> AddConflicts(tr[t]))
    <3>1. Kept(r)' = Kept(r)
      BY <1>8 DEF Kept
    <3>2. NewFiles(r)' = NewFiles(r) /\ (AddConflicts(r)' <=> AddConflicts(r))
      BY <3>1 DEF NewFiles, AddConflicts
    <3>3. NewFiles(tr[t])' = NewFiles(r)'
      BY <2>1 DEF NewFiles, Kept
    <3>4. AddConflicts(tr[t])' <=> AddConflicts(r)'
      BY <2>1 DEF AddConflicts, Kept
    <3>5. QED BY <2>1, <3>2, <3>3, <3>4
  <2>3. Changed(tr[t])' <=> Changed(tr[t])
    BY DEF Changed
  <2>4. com.files \in tr[t].alloc => Content(com.files)' = Content(com.files)
    BY <1>1, <1>6 DEF Transactions, Content, Dirty
  <2>5. QED BY <1>1, <2>2, <2>3, <2>4 DEF CommitOK
<1>11. /\ tr' = [tr EXCEPT ![t] = tr'[t]] /\ tr'[t] = tr[t]
       /\ file' = [file EXCEPT ![t] = file'[t]] /\ file'[t] \in Handles \cup {NULL}
  BY <1>1, <1>3
<1>12. \A u \in Sessions \ {t} : \A x \in tr[u].alloc :
         x \notin tr'[t].alloc /\ cache'[x] = cache[x] /\ disk'[x] = disk[x]
  <2> TAKE u \in Sessions \ {t}
  <2> TAKE x \in tr[u].alloc
  <2>1. x \in Blocks /\ x \notin tr[t].alloc /\ x # b
    BY <1>1
  <2>2. QED BY <1>4, <1>5, <1>11, <2>1
<1>13. \A x \in Blocks :
         cache'[x] # Junk => x \in tr'[t].alloc \/ (cache[x] # Junk /\ x \notin tr[t].alloc)
  BY <1>4, <1>11
<1>14. file'[t] # NULL => HandleOK(file'[t], tr'[t], Committed)
  <2>1. file[t] # NULL => HandleOK(file[t], tr[t], Committed)
    BY <1>1 DEF StoreInv, SessionsOK
  <2>2. QED BY <1>11, <2>1
<1>15. TransactionOK(tr'[t], Committed, fs.free, Contents', NewRoot(t)', OldRoot(t)')
  BY <1>1, <1>6, <1>9, <1>11
<1>16. com' \in Commits /\ com'.tr = t /\ UNCHANGED <<super, fs>> /\ tr'[t] \in Transactions
  BY <1>1, <1>11
<1>17. StoreInv' /\ Others(t)
  BY <1>1, <1>4, <1>5, <1>7, <1>10, <1>11, <1>12, <1>13, <1>14, <1>15, <1>16, SessionDone
<1>18. QED BY <1>6, <1>17

(* block_cache_complete_write.                                              *)
LEMMA WriteBlockStep ==
  ASSUME StoreInv, NEW b \in Blocks, WriteBlock(b)
  PROVE  \E t \in Sessions :
           /\ StoreInv' /\ Others(t)
           /\ \/ t = com.tr /\ UNCHANGED <<tr, file>> /\ Contents' = Contents
              \/ tr'[t] = FailedTr /\ (file'[t] # NULL => file'[t].saw = NULL)
<1>1. PICK t : t = com.tr
  OBVIOUS
<1>2. com # NULL /\ b \in tr[t].alloc /\ Dirty(b) /\ UNCHANGED <<super, fs>>
  BY <1>1 DEF WriteBlock
<1>3. t \in Sessions /\ fs.state = "up"
  BY <1>1, <1>2, CommitFacts
<1>4. PICK o \in RpmbWrite :
        LET d == IF o.landed THEN [disk EXCEPT ![b] = cache[b]] ELSE disk
        IN /\ Device(o)
           /\ \/ /\ o.ok
                 /\ disk' = d
                 /\ cache' = Forget(cache, {b})
                 /\ UNCHANGED <<tr, file, com>>
              \/ /\ ~o.ok
                 /\ FailFrom(tr, file, d, {com.tr})
                 /\ com' = NULL
  BY DEF WriteBlock
<1>5. ctr' \in Counters /\ dev' \in Counters /\ calm' \in BOOLEAN /\ CounterOK'
  BY <1>4, DeviceFacts
<1>6. o.ok => o.landed
  BY OutcomeFacts DEF StoreInv, StoreTypes
<1>7. CASE /\ o.landed /\ disk' = [disk EXCEPT ![b] = cache[b]] /\ cache' = Forget(cache, {b})
           /\ UNCHANGED <<tr, file, com>>
  <2>1. UNCHANGED <<tr, file, com, super, fs>>
    BY <1>2, <1>7
  <2>2. StoreInv' /\ Others(t) /\ Contents' = Contents
    BY <1>1, <1>2, <1>5, <1>7, <2>1, WrittenStep
  <2>3. QED BY <1>1, <1>3, <2>1, <2>2
<1>8. CASE com' = NULL /\ FailFrom(tr, file, IF o.landed THEN [disk EXCEPT ![b] = cache[b]] ELSE disk, {t})
  <2>1. PICK e : e = IF o.landed THEN [disk EXCEPT ![b] = cache[b]] ELSE disk
    OBVIOUS
  <2>2. e \in [Blocks -> Nodes] /\ \A x \in Blocks \ tr[t].alloc : e[x] = disk[x]
    BY <1>2, <2>1 DEF StoreInv, StoreTypes
  <2>3. FailFrom(tr, file, e, {t})
    BY <1>8, <2>1
  <2>4. /\ StoreInv' /\ Others(t) /\ tr'[t] = FailedTr
        /\ file'[t] # NULL => file'[t].saw = NULL
    BY <1>1, <1>2, <1>3, <1>5, <1>8, <2>2, <2>3, FailStep
  <2>5. QED BY <1>3, <2>4
<1>9. QED BY <1>1, <1>4, <1>6, <1>7, <1>8

(* The files of a device d whose super blocks are s.                        *)
FilesOn(s, d) ==
  LET f == FilesAt(Chosen(s).files, d)
  IN [p \in Paths |-> IF f[p] = 0 THEN NoFile ELSE d[f[p]][3]]

(* Nothing is pending.                                                      *)
NonePending == \A u \in Sessions : /\ Changes[u] = [p \in Paths |-> Same]
                                   /\ Created[u] = {}

(* A session without transaction has no changes.                            *)
LEMMA RestChanges ==
  ASSUME NEW r \in {Inactive, FailedTr}, Committed \in FileMaps
  PROVE  (\A p \in Paths : Change(r, p) = Same) /\ Creates(r) = {}
<1>1. /\ r.removed = {} /\ (\A b \in Blocks : r.updated[b] = 0)
      /\ \A p \in Paths : r.added[p] = 0
  BY RestFacts
<1>2. \A p \in Paths : Committed[p] # 0 => Committed[p] \in Blocks
  BY DEF FileMaps, BlockNumbers
<1>3. QED BY <1>1, <1>2 DEF Change, Creates

(* The service stops over a device that is well formed.                     *)
LEMMA HaltStep ==
  ASSUME NEW s \in [0..1 -> Supers], NEW d \in [Blocks -> Nodes],
         WellFormed(Chosen(s).files, Chosen(s).free, d),
         NEW state \in {"down", "aborted"}, Halt(state, s, d), dev' \in Counters
  PROVE  StoreInv' /\ StoreOnDisk' = FilesOn(s, d) /\ NonePending'
         /\ \A t \in Sessions : tr'[t] = Inactive /\ file'[t] = NULL
<1>1. PICK root, free, e : root = Chosen(s).files /\ free = Chosen(s).free /\ e = disk'
  OBVIOUS
<1>2. root \in BlockNumbers /\ free \in SUBSET Blocks /\ WellFormed(root, free, d)
  BY <1>1, ChosenType DEF Supers
<1>3. /\ fs' = [Down EXCEPT !.state = state] /\ super' = Tidy(s)
      /\ disk' = Forget(d, Blocks \ Below(root, d))
      /\ tr' = [t \in Sessions |-> Inactive] /\ file' = [t \in Sessions |-> NULL]
      /\ cache' = [b \in Blocks |-> Junk] /\ com' = NULL /\ ctr' = 0 /\ calm' = TRUE
  BY <1>1 DEF Halt, Reachable
<1>4. super' \in [0..1 -> Supers] /\ Chosen(super') = Chosen(s)
  BY <1>3, ChosenTidy
<1>5. e \in [Blocks -> Nodes] /\ \A b \in Below(root, d) : e[b] = d[b]
  <2>1. Below(root, d) \subseteq Blocks
    BY <1>2 DEF WellFormed
  <2>2. QED BY <1>1, <1>3, <2>1, ForgetFacts
<1>6. FilesAt(root, e) = FilesAt(root, d) /\ WellFormed(root, free, e)
  BY <1>2, <1>5, TreeFrame
<1>7. fs'.files = 0 /\ fs'.state = state /\ fs'.free = {} /\ fs'.version = 0
      /\ fs' = [state |-> state, files |-> 0, free |-> {}, version |-> 0]
  BY <1>3 DEF Down
<1>8. Committed' = NoFiles /\ NoFiles \in FileMaps
  BY <1>7 DEF Committed, FilesAt, NoFiles, FileMaps, BlockNumbers
<1>9. Inactive \in Transactions /\ Inactive.alloc = {}
  BY RestFacts
<1>10. StoreTypes'
  <2>1. fs' \in [state : {"up", "down", "aborted"}, files : BlockNumbers,
                 free : SUBSET Blocks, version : 0..3]
    BY <1>7 DEF BlockNumbers
  <2>2. cache' \in [Blocks -> Nodes]
    BY <1>3 DEF Nodes
  <2>3. tr' \in [Sessions -> Transactions]
    BY <1>3, <1>9
  <2>4. file' \in [Sessions -> Handles \cup {NULL}]
    BY <1>3
  <2>5. disk' \in [Blocks -> Nodes]
    BY <1>1, <1>5
  <2>6. ctr' \in Counters
    BY <1>3, IncrementFacts
  <2>7. QED BY <1>3, <1>4, <2>1, <2>2, <2>3, <2>4, <2>5, <2>6 DEF StoreTypes
<1>11. OnDevice'
  BY <1>1, <1>4, <1>6 DEF OnDevice
<1>12. MemoryIsOnDisk' /\ CounterOK'
  BY <1>3, <1>7 DEF MemoryIsOnDisk, CounterOK
<1>13. SessionsOK'
  <2>1. \A K, x : TransactionOK(Inactive, NoFiles, x, K, {}, {})
    BY <1>8, RestOK
  <2>2. \A t \in Sessions : tr'[t] = Inactive /\ file'[t] = NULL
                            /\ NewRoot(t)' = {} /\ OldRoot(t)' = {}
    BY <1>3 DEF NewRoot, OldRoot, Committing
  <2>3. \A t \in Sessions :
          TransactionOK(tr'[t], Committed', fs'.free, Contents', NewRoot(t)', OldRoot(t)')
    BY <1>8, <2>1, <2>2
  <2>4. \A t \in Sessions : tr'[t].alloc = {} /\ file'[t] = NULL
    BY <1>9, <2>2
  <2>5. \A b \in Blocks : cache'[b] = Junk
    BY <1>3
  <2>6. QED BY <2>3, <2>4, <2>5 DEF SessionsOK, Dirty
<1>14. Offline'
  BY <1>3, <1>7 DEF Offline
<1>15. StoreInv'
  BY <1>3, <1>10, <1>11, <1>12, <1>13, <1>14 DEF StoreInv, Committing
<1>16. StoreOnDisk' = FilesOn(s, d)
  <2>1. PICK f : f = FilesAt(root, d)
    OBVIOUS
  <2>2. \A p \in Paths : f[p] # 0 => e[f[p]] = d[f[p]]
    <3>1. \A p \in Paths : f[p] # 0 => f[p] \in Below(root, d)
      BY <2>1 DEF Below, FileBlocks
    <3>2. QED BY <1>5, <3>1
  <2>3. FilesAt(Chosen(super').files, e) = f /\ FilesAt(Chosen(s).files, d) = f
    BY <1>1, <1>4, <1>6, <2>1
  <2>4. QED BY <1>1, <2>2, <2>3 DEF StoreOnDisk, FilesOn
<1>17. NonePending'
  <2>1. PICK r : r = Inactive
    OBVIOUS
  <2>2. (\A p \in Paths : Change(r, p)' = Same) /\ Creates(r)' = {}
    <3>1. /\ r.removed = {} /\ (\A b \in Blocks : r.updated[b] = 0)
          /\ \A p \in Paths : r.added[p] = 0
      BY <2>1, RestFacts
    <3>2. \A p \in Paths : Committed'[p] = 0
      BY <1>8 DEF NoFiles
    <3>3. QED BY <3>1, <3>2 DEF Change, Creates
  <2>3. \A u \in Sessions : tr'[u] = r
    BY <1>3, <2>1
  <2>4. \A u \in Sessions : Changes'[u] = [p \in Paths |-> Change(r, p)'] /\ Created'[u] = Creates(r)'
    BY <2>3 DEF Changes, Change, Created, Creates
  <2>5. QED BY <2>2, <2>4 DEF NonePending
<1>18. QED BY <1>3, <1>15, <1>16, <1>17

(* When all blocks of a commit are written, its super block is one to       *)
(* mount: the device is well formed below it, with the new files.           *)
LEMMA NewSuperFacts ==
  ASSUME StoreInv, SuperWritable, NEW t, t = com.tr, NEW img,
         img = SuperImage(NextVersion(fs.version))
  PROVE  /\ img \in Supers /\ img.valid /\ img.files = com.files /\ img.free = com.free
         /\ img.flags = NextVersion(fs.version) /\ img.flags2 = NextVersion(fs.version)
         /\ NewSupers(img) \in [0..1 -> Supers] /\ Chosen(NewSupers(img)) = img
         /\ WellFormed(com.files, com.free, disk)
         /\ FilesAt(com.files, disk) = NewFiles(tr[t])
         /\ \A b \in tr[t].alloc : Contents[b] = disk[b]
         /\ Renewed(NewFiles(tr[t]), tr[t], Committed, Contents, Below(fs.files, disk))
<1>1. com # NULL /\ \A b \in tr[t].alloc : ~Dirty(b)
  BY DEF SuperWritable
<1>2. /\ t \in Sessions /\ fs.state = "up" /\ Committing(t) /\ CommitOK(t) /\ tr[t] \in Transactions
      /\ com.files \in BlockNumbers /\ com.free \in SUBSET Blocks
      /\ TransactionOK(tr[t], Committed, fs.free, Contents, NewRoot(t), OldRoot(t))
  BY <1>1, CommitFacts
<1>3. PICK v : v = NextVersion(fs.version)
  OBVIOUS
<1>4. /\ super \in [0..1 -> Supers] /\ fs.version = Chosen(super).flags /\ fs.version \in 0..3
      /\ fs.files \in BlockNumbers /\ fs.free \in SUBSET Blocks
      /\ WellFormed(fs.files, fs.free, disk)
  BY <1>2, UpFacts DEF StoreInv, StoreTypes
<1>5. v \in 0..3
  BY <1>3, <1>4, VersionFacts
<1>6. img = [valid |-> TRUE, flags |-> v, flags2 |-> v, files |-> com.files, free |-> com.free]
  BY <1>3 DEF SuperImage
<1>7. /\ img \in Supers /\ img.valid /\ img.files = com.files /\ img.free = com.free
      /\ img.flags = v /\ img.flags2 = v
  BY <1>2, <1>5, <1>6 DEF Supers
<1>8. NewSupers(img) \in [0..1 -> Supers] /\ Chosen(NewSupers(img)) = img
  <2>1. NewSupers(img) = InSlot(super, v, img) /\ v = NextVersion(Chosen(super).flags)
    BY <1>3, <1>4 DEF NewSupers, SuperSlot, InSlot
  <2>2. QED BY <1>4, <1>7, <2>1, ChosenNew
<1>9. \A b \in tr[t].alloc : Contents[b] = disk[b]
  BY <1>1, <1>2 DEF Contents, Content, Transactions
<1>10. PICK C, r, K, N, new, old, root, free, d, nroot, nfree :
         /\ C = Committed /\ r = tr[t] /\ K = Contents /\ N = NewFiles(r) /\ new = NewRoot(t)
         /\ old = OldRoot(t) /\ root = fs.files /\ free = fs.free /\ d = disk
         /\ nroot = com.files /\ nfree = com.free
  OBVIOUS
<1>11. /\ root \in BlockNumbers /\ free \in SUBSET Blocks /\ WellFormed(root, free, d)
       /\ C = FilesAt(root, d) /\ r \in Transactions /\ TransactionOK(r, C, free, K, new, old)
       /\ ~AddConflicts(r) /\ nroot \in BlockNumbers
       /\ nfree = (free \ r.alloc) \cup r.freed
       /\ \A b \in r.alloc : d[b] = K[b]
  BY <1>2, <1>4, <1>9, <1>10 DEF CommitOK, Committed
<1>12. IF Changed(r)
       THEN /\ nroot \in r.alloc /\ K[nroot] = FilesNode(N)
            /\ new = {nroot} /\ old = {root} \ {0} /\ old \subseteq r.freed
       ELSE nroot = root /\ new = {} /\ old = {}
  <2>1. CASE Changed(r)
    <3>1. /\ nroot \in r.alloc /\ Content(nroot) = FilesNode(N) /\ {root} \ {0} \subseteq r.freed
      BY <1>2, <1>10, <2>1 DEF CommitOK
    <3>2. K[nroot] = FilesNode(N)
      BY <1>10, <1>11, <3>1 DEF Contents, Transactions
    <3>3. QED BY <1>2, <1>10, <2>1, <3>1, <3>2 DEF NewRoot, OldRoot
  <2>2. CASE ~Changed(r)
    BY <1>2, <1>10, <2>2 DEF CommitOK, NewRoot, OldRoot
  <2>3. QED BY <2>1, <2>2
<1>13. old \subseteq {root}
  BY <1>12
<1>14. WellFormed(nroot, nfree, d) /\ FilesAt(nroot, d) = N
  BY <1>10, <1>11, <1>12, CommitTree
<1>15. Renewed(N, r, C, K, Below(root, d))
  BY <1>10, <1>11, <1>13, NewFilesFacts
<1>16. QED BY <1>3, <1>7, <1>8, <1>9, <1>10, <1>14, <1>15

(* The service stops.  Either nothing is committed, or all of a commit      *)
(* whose blocks are written.                                                *)
LEMMA HaltingStep ==
  ASSUME StoreInv,
         CommitAborts \/ Crash \/ CrashInSuper \/ \E b \in Blocks : CrashInBlock(b)
  PROVE  /\ StoreInv' /\ NonePending' /\ \A t \in Sessions : tr'[t] = Inactive /\ file'[t] = NULL
         /\ \/ StoreOnDisk' = StoreOnDisk
            \/ /\ SuperWritable
               /\ StoreOnDisk' = FilesOn(NewSupers(SuperImage(NextVersion(fs.version))), disk)
<1>1. /\ super \in [0..1 -> Supers] /\ disk \in [Blocks -> Nodes]
      /\ WellFormed(Chosen(super).files, Chosen(super).free, disk)
  BY DEF StoreInv, StoreTypes, OnDevice
<1>2. StoreOnDisk = FilesOn(super, disk)
  BY DEF StoreOnDisk, FilesOn
<1> DEFINE Done == /\ StoreInv' /\ NonePending'
                   /\ \A t \in Sessions : tr'[t] = Inactive /\ file'[t] = NULL
<1>dev. dev' \in Counters
  <2>1. ctr \in Counters /\ dev \in Counters
    BY DEF StoreInv, StoreTypes
  <2>2. Increment(dev) \in Counters
    BY <2>1, IncrementFacts
  <2>3. CASE CommitAborts
    <3>1. PICK o \in RpmbWrite : dev' = o.dev
      BY <2>3 DEF CommitAborts
    <3>2. QED BY <2>1, <3>1, OutcomeFacts
  <2>4. CASE Crash
    BY <2>1, <2>4 DEF Crash
  <2>5. CASE CrashInSuper \/ \E b \in Blocks : CrashInBlock(b)
    BY <2>1, <2>2, <2>5 DEF CrashInSuper, CrashInBlock, CutShort
  <2>6. QED BY <2>3, <2>4, <2>5
<1>3. ASSUME NEW state \in {"down", "aborted"}, Halt(state, super, disk)
      PROVE  Done /\ StoreOnDisk' = StoreOnDisk
  BY <1>1, <1>2, <1>dev, <1>3, HaltStep
<1>4. PICK img : img = SuperImage(NextVersion(fs.version))
  OBVIOUS
<1>5. ASSUME NEW state \in {"down", "aborted"}, SuperWritable, Halt(state, NewSupers(img), disk)
      PROVE  Done /\ StoreOnDisk' = FilesOn(NewSupers(img), disk)
  <2>1. /\ NewSupers(img) \in [0..1 -> Supers]
        /\ WellFormed(Chosen(NewSupers(img)).files, Chosen(NewSupers(img)).free, disk)
    BY <1>4, <1>5, NewSuperFacts
  <2>2. QED BY <1>1, <1>dev, <1>5, <2>1, HaltStep
<1>6. CASE CommitAborts
  <2>1. PICK o \in RpmbWrite :
          /\ SuperWritable
          /\ Halt("aborted", IF o.landed THEN NewSupers(img) ELSE super, disk)
    BY <1>4, <1>6 DEF CommitAborts
  <2>2. CASE o.landed
    BY <1>4, <1>5, <2>1, <2>2
  <2>3. CASE ~o.landed
    BY <1>3, <2>1, <2>3
  <2>4. QED BY <2>2, <2>3
<1>7. CASE Crash
  BY <1>3, <1>7 DEF Crash
<1>8. ASSUME NEW b \in Blocks, CrashInBlock(b)
      PROVE  Done /\ StoreOnDisk' = StoreOnDisk
  <2>1. PICK t, d : t = com.tr /\ d = [disk EXCEPT ![b] = Junk]
    OBVIOUS
  <2>2. com # NULL /\ b \in tr[t].alloc /\ Halt("down", super, d)
    BY <1>8, <2>1 DEF CrashInBlock
  <2>3. t \in Sessions /\ fs.state = "up"
    BY <2>1, <2>2, CommitFacts
  <2>4. PICK root, free, e : root = fs.files /\ free = fs.free /\ e = disk
    OBVIOUS
  <2>5. /\ root \in BlockNumbers /\ free \in SUBSET Blocks /\ WellFormed(root, free, e)
        /\ Chosen(super).files = root /\ Chosen(super).free = free
    BY <2>3, <2>4, UpFacts
  <2>6. b \notin Below(root, e) /\ Below(root, e) \subseteq Blocks
    BY <2>2, <2>3, <2>4, <2>5, AllocApart DEF WellFormed
  <2>7. d \in [Blocks -> Nodes] /\ \A x \in Below(root, e) : d[x] = e[x]
    BY <1>1, <2>1, <2>4, <2>6 DEF Nodes
  <2>8. FilesAt(root, d) = FilesAt(root, e) /\ WellFormed(root, free, d)
    BY <2>5, <2>7, TreeFrame
  <2>9. Done /\ StoreOnDisk' = FilesOn(super, d)
    BY <1>1, <1>dev, <2>2, <2>5, <2>7, <2>8, HaltStep
  <2>10. FilesOn(super, d) = FilesOn(super, disk)
    <3>1. PICK f : f = FilesAt(root, e)
      OBVIOUS
    <3>2. \A p \in Paths : f[p] # 0 => f[p] \in Below(root, e)
      BY <3>1 DEF Below, FileBlocks
    <3>3. \A p \in Paths : f[p] # 0 => d[f[p]] = e[f[p]]
      BY <2>7, <3>2
    <3>4. FilesAt(Chosen(super).files, d) = f /\ FilesAt(Chosen(super).files, e) = f
      BY <2>5, <2>8, <3>1
    <3>5. QED BY <2>4, <3>3, <3>4 DEF FilesOn
  <2>11. QED BY <1>2, <2>9, <2>10
<1>9. CASE CrashInSuper
  <2>1. PICK old, torn : old = super[SuperSlot] /\ torn = TornImage(old, img)
    OBVIOUS
  <2>2. SuperWritable /\ Halt("down", NewSupers(torn), disk)
    BY <1>4, <1>9, <2>1 DEF CrashInSuper
  <2>3. PICK v : v = NextVersion(fs.version)
    OBVIOUS
  <2>4. /\ img \in Supers /\ img.flags = v /\ img.flags2 = v
    BY <1>4, <2>2, <2>3, NewSuperFacts
  <2>5. fs.state = "up"
    BY <2>2, CommitFacts DEF SuperWritable
  <2>6. fs.version = Chosen(super).flags /\ fs.version \in 0..3
    BY <2>5, UpFacts
  <2>7. v % 2 \in 0..1 /\ SuperSlot = v % 2
    BY <2>3, <2>6, VersionFacts DEF SuperSlot
  <2>8. old \in Supers
    BY <1>1, <2>1, <2>7
  <2>9. torn = [img EXCEPT !.flags2 = old.flags2]
    BY <2>1 DEF TornImage
  <2>10. CASE old.flags2 = v
    <3>1. torn = img
      BY <2>4, <2>9, <2>10 DEF Supers
    <3>2. QED BY <1>4, <1>5, <2>2, <3>1
  <2>11. CASE old.flags2 # v
    <3>1. torn \in Supers /\ torn.flags = v /\ torn.flags2 # v
      BY <2>4, <2>8, <2>9, <2>11 DEF Supers
    <3>2. NewSupers(torn) = InSlot(super, v, torn) /\ v = NextVersion(Chosen(super).flags)
      BY <2>3, <2>6, <2>7 DEF NewSupers, InSlot
    <3>3. NewSupers(torn) \in [0..1 -> Supers] /\ Chosen(NewSupers(torn)) = Chosen(super)
      BY <1>1, <3>1, <3>2, ChosenTorn
    <3>4. Done /\ StoreOnDisk' = FilesOn(NewSupers(torn), disk)
      BY <1>1, <1>dev, <2>2, <3>3, HaltStep
    <3>5. FilesOn(NewSupers(torn), disk) = FilesOn(super, disk)
      BY <3>3 DEF FilesOn
    <3>6. QED BY <1>2, <3>4, <3>5
  <2>12. QED BY <2>10, <2>11
<1>10. QED BY <1>6, <1>7, <1>8, <1>9

(* fs_init.                                                                 *)
LEMMA MountStep ==
  ASSUME StoreInv, Mount
  PROVE  /\ StoreInv' /\ NonePending' /\ NonePending /\ StoreOnDisk' = StoreOnDisk
         /\ UNCHANGED <<tr, file>> /\ \A t \in Sessions : tr[t] = Inactive
<1>1. PICK s : s = Chosen(super)
  OBVIOUS
<1>2. /\ fs.state = "down" /\ UNCHANGED <<disk, super, ctr, dev, calm, tr, file, cache, com>>
      /\ fs' = [state |-> "up", files |-> s.files, free |-> s.free, version |-> s.flags]
  BY <1>1 DEF Mount
<1>3. com = NULL /\ \A t \in Sessions : tr[t] = Inactive /\ file[t] = NULL
  BY <1>2 DEF StoreInv, Offline
<1>4. s \in Supers
  BY <1>1, ChosenType DEF StoreInv, StoreTypes
<1>5. /\ fs' \in [state : {"up", "down", "aborted"}, files : BlockNumbers,
                  free : SUBSET Blocks, version : 0..3]
      /\ fs'.state = "up" /\ fs'.files = s.files /\ fs'.free = s.free /\ fs'.version = s.flags
  BY <1>2, <1>4 DEF Supers
<1>6. StoreTypes' /\ OnDevice' /\ CounterOK' /\ MemoryIsOnDisk' /\ Offline'
  BY <1>1, <1>2, <1>5 DEF StoreInv, StoreTypes, OnDevice, CounterOK, MemoryIsOnDisk, Offline
<1>7. Committed' \in FileMaps /\ Committed \in FileMaps
  <2>1. PICK root, free, d : root = s.files /\ free = s.free /\ d = disk
    OBVIOUS
  <2>2. root \in BlockNumbers /\ free \in SUBSET Blocks /\ WellFormed(root, free, d)
    BY <1>1, <1>4, <2>1 DEF StoreInv, OnDevice, Supers
  <2>3. FilesAt(root, d) \in FileMaps
    BY <2>2, TreeFacts
  <2>4. Committed' \in FileMaps
    BY <1>2, <1>5, <2>1, <2>3 DEF Committed
  <2>5. fs.files = 0
    BY <1>2 DEF StoreInv, Offline, Down
  <2>6. Committed = NoFiles
    BY <2>5 DEF Committed, FilesAt
  <2>7. QED BY <2>4, <2>6 DEF NoFiles, FileMaps, BlockNumbers
<1>8. SessionsOK'
  <2>1. \A K, free : TransactionOK(Inactive, Committed', free, K, {}, {})
    BY <1>7, RestOK
  <2>2. Inactive.alloc = {}
    BY RestFacts
  <2>3. \A t \in Sessions : tr'[t] = Inactive /\ file'[t] = NULL
                            /\ NewRoot(t)' = {} /\ OldRoot(t)' = {}
    BY <1>2, <1>3 DEF NewRoot, OldRoot, Committing
  <2>4. \A t \in Sessions :
          TransactionOK(tr'[t], Committed', fs'.free, Contents', NewRoot(t)', OldRoot(t)')
    BY <2>1, <2>3
  <2>5. \A t \in Sessions : tr'[t].alloc = {} /\ file'[t] = NULL /\ tr[t].alloc = {}
    BY <1>3, <2>2, <2>3
  <2>6. \A b \in Blocks : cache'[b] = Junk
    BY <1>2, <2>5 DEF StoreInv, SessionsOK, Dirty
  <2>7. QED BY <2>4, <2>5, <2>6 DEF SessionsOK, Dirty
<1>9. StoreInv'
  BY <1>2, <1>3, <1>6, <1>8 DEF StoreInv, Committing
<1>10. StoreOnDisk' = StoreOnDisk
  BY <1>2 DEF StoreOnDisk
<1>11. NonePending /\ NonePending'
  <2>1. PICK r : r = Inactive
    OBVIOUS
  <2>2. /\ (\A p \in Paths : Change(r, p) = Same) /\ Creates(r) = {}
        /\ (\A p \in Paths : Change(r, p)' = Same) /\ Creates(r)' = {}
    <3>1. /\ r.removed = {} /\ (\A b \in Blocks : r.updated[b] = 0)
          /\ \A p \in Paths : r.added[p] = 0
      BY <2>1, RestFacts
    <3>2. \A p \in Paths : /\ Committed[p] # 0 => Committed[p] \in Blocks
                           /\ Committed'[p] # 0 => Committed'[p] \in Blocks
      BY <1>7 DEF FileMaps, BlockNumbers
    <3>3. QED BY <3>1, <3>2 DEF Change, Creates
  <2>3. \A u \in Sessions : tr'[u] = r /\ tr[u] = r
    BY <1>2, <1>3, <2>1
  <2>4. \A u \in Sessions : Changes'[u] = [p \in Paths |-> Change(r, p)'] /\ Created'[u] = Creates(r)'
    BY <2>3 DEF Changes, Change, Created, Creates
  <2>5. \A u \in Sessions : Changes[u] = [p \in Paths |-> Change(r, p)] /\ Created[u] = Creates(r)
    BY <2>3 DEF Changes, Change, Created, Creates
  <2>6. QED BY <2>2, <2>4, <2>5 DEF NonePending
<1>12. QED BY <1>2, <1>3, <1>9, <1>10, <1>11

(* What a transaction frees is in use.                                      *)
LEMMA FreedInUse ==
  ASSUME StoreInv, fs.state = "up", NEW t \in Sessions
  PROVE  tr[t].freed \subseteq Below(fs.files, disk)
<1>1. PICK C, r : C = Committed /\ r = tr[t]
  OBVIOUS
<1>2. /\ r \in Transactions /\ TransactionOK(r, C, fs.free, Contents, NewRoot(t), OldRoot(t))
  BY <1>1 DEF StoreInv, SessionsOK, StoreTypes
<1>3. FileBlocks(C) \subseteq Below(fs.files, disk)
  BY <1>1, CommittedFacts
<1>4. OldRoot(t) \subseteq Below(fs.files, disk)
  BY DEF OldRoot, Below
<1>5. r.freed \subseteq Blocks
  BY <1>2 DEF Transactions
<1>6. \A b \in r.freed : b \in FileBlocks(C) \/ b \in OldRoot(t)
  BY <1>2, <1>5 DEF TransactionOK
<1>7. QED BY <1>1, <1>3, <1>4, <1>6

(* The super block is written: transaction t has committed, the sessions F  *)
(* fail, and no other one has freed the same blocks.                        *)
LEMMA CommittedStep ==
  ASSUME StoreInv, SuperWritable, NEW t, t = com.tr, NEW F \in SUBSET (Sessions \ {t}),
         \A u \in Sessions \ (F \cup {t}) : tr[u].freed \cap tr[t].freed = {},
         ctr' \in Counters, dev' \in Counters, calm' \in BOOLEAN, CounterOK',
         super' = Tidy(NewSupers(SuperImage(NextVersion(fs.version)))),
         fs' = [fs EXCEPT !.files = com.files, !.free = com.free,
                          !.version = NextVersion(fs.version)],
         FailFrom([tr EXCEPT ![t] = Inactive], Applied(t), Forget(disk, tr[t].freed), F),
         com' = NULL
  PROVE  /\ StoreInv' /\ Committed' = NewFiles(tr[t])
         /\ StoreOnDisk' = FilesOn(NewSupers(SuperImage(NextVersion(fs.version))), disk)
         /\ tr'[t] = Inactive /\ (\A u \in F : tr'[u] = FailedTr)
         /\ \A u \in Sessions \ (F \cup {t}) :
              /\ tr'[u] = tr[u] /\ file'[u] = Applied(t)[u]
              /\ \A b \in tr[u].alloc : Content(b)' = Content(b)
         /\ \A b \in FileBlocks(Committed) \ tr[t].freed : Content(b)' = Content(b)
         /\ \A u \in F \cup {t} : file'[u] # NULL => file'[u].saw = NULL
<1>1. PICK img, s, r, C, K, N, used, S, V :
        /\ img = SuperImage(NextVersion(fs.version)) /\ s = NewSupers(img) /\ r = tr[t]
        /\ C = Committed /\ K = Contents /\ N = NewFiles(r) /\ used = Below(fs.files, disk)
        /\ S = UNION {tr[u].alloc : u \in F} /\ V = Sessions \ (F \cup {t})
  OBVIOUS
<1>2. com # NULL /\ \A b \in r.alloc : ~Dirty(b)
  BY <1>1 DEF SuperWritable
<1>3. /\ t \in Sessions /\ fs.state = "up" /\ r \in Transactions /\ CommitOK(t)
      /\ com.files \in BlockNumbers /\ com.free \in SUBSET Blocks
      /\ TransactionOK(r, C, fs.free, K, NewRoot(t), OldRoot(t))
      /\ \A u \in Sessions \ {t} : /\ NewRoot(u) = {} /\ OldRoot(u) = {}
                                   /\ tr[u].alloc \subseteq Blocks
                                   /\ tr[u].alloc \cap r.alloc = {}
  BY <1>1, <1>2, CommitFacts
<1>4. /\ s \in [0..1 -> Supers] /\ Chosen(s) = img
      /\ img.files = com.files /\ img.free = com.free /\ img.flags = NextVersion(fs.version)
      /\ WellFormed(com.files, com.free, disk) /\ FilesAt(com.files, disk) = N
      /\ Renewed(N, r, C, K, used)
  BY <1>1, NewSuperFacts
<1>5. /\ tr \in [Sessions -> Transactions] /\ file \in [Sessions -> Handles \cup {NULL}]
      /\ cache \in [Blocks -> Nodes] /\ disk \in [Blocks -> Nodes]
      /\ fs \in [state : {"up", "down", "aborted"}, files : BlockNumbers,
                 free : SUBSET Blocks, version : 0..3]
  BY DEF StoreInv, StoreTypes
<1>6. com.free = (fs.free \ r.alloc) \cup r.freed
  BY <1>1, <1>3 DEF CommitOK
<1>7. /\ C \in FileMaps /\ FileBlocks(C) \subseteq used /\ FileBlocks(C) \cap fs.free = {}
      /\ \A x, y \in Paths : C[x] = C[y] /\ C[x] # 0 => x = y
      /\ \A b \in FileBlocks(C) : b # fs.files
  BY <1>1, <1>3, CommittedFacts
<1>8. r.freed \subseteq used /\ used \cap fs.free = {} /\ fs.version \in 0..3
  BY <1>1, <1>3, FreedInUse, UpFacts DEF WellFormed
<1>9. /\ super' \in [0..1 -> Supers] /\ Chosen(super') = img
  BY <1>1, <1>4, ChosenTidy
<1>10. \A u \in Sessions \ {t} : tr[u].alloc \subseteq fs.free
  BY <1>3, AllocApart
<1>11. /\ tr' = [u \in Sessions |-> IF u \in F THEN FailedTr ELSE [tr EXCEPT ![t] = Inactive][u]]
       /\ cache' = Forget(cache, UNION {[tr EXCEPT ![t] = Inactive][u].alloc : u \in F})
       /\ disk' = Forget(Forget(disk, r.freed), UNION {[tr EXCEPT ![t] = Inactive][u].alloc : u \in F})
  BY <1>1 DEF FailFrom
<1>12. UNION {[tr EXCEPT ![t] = Inactive][u].alloc : u \in F} = S
  <2>1. \A u \in F : [tr EXCEPT ![t] = Inactive][u] = tr[u]
    BY <1>5
  <2>2. QED BY <1>1, <2>1
<1>13. cache' = Forget(cache, S) /\ disk' = Forget(Forget(disk, r.freed), S)
  BY <1>11, <1>12
<1>14. /\ tr'[t] = Inactive /\ (\A u \in F : tr'[u] = FailedTr)
       /\ \A u \in V : tr'[u] = tr[u]
  BY <1>1, <1>3, <1>5, <1>11
<1>15. /\ S \subseteq fs.free /\ S \cap r.alloc = {} /\ S \subseteq Blocks
       /\ \A u \in V : tr[u].alloc \cap S = {}
  <2>1. \A u \in V, w \in F : tr[u].alloc \cap tr[w].alloc = {}
    BY <1>1 DEF StoreInv, SessionsOK
  <2>2. QED BY <1>1, <1>3, <1>10, <2>1
<1>16. /\ cache' \in [Blocks -> Nodes] /\ disk' \in [Blocks -> Nodes]
       /\ \A b \in Blocks : b \in S => cache'[b] = Junk
       /\ \A b \in Blocks : b \notin S => cache'[b] = cache[b]
       /\ \A b \in Blocks : b \notin S /\ b \notin r.freed => disk'[b] = disk[b]
  BY <1>5, <1>13, ForgetFacts
<1>17. \A b \in Below(com.files, disk) : disk'[b] = disk[b]
  <2>1. Below(com.files, disk) \cap com.free = {} /\ Below(com.files, disk) \subseteq Blocks
    BY <1>4 DEF WellFormed
  <2>2. S \subseteq com.free /\ r.freed \subseteq com.free
    BY <1>6, <1>15
  <2>3. QED BY <1>16, <2>1, <2>2
<1>18. WellFormed(com.files, com.free, disk') /\ FilesAt(com.files, disk') = N
  <2>1. PICK root, free, d, e : root = com.files /\ free = com.free /\ d = disk /\ e = disk'
    OBVIOUS
  <2>2. /\ root \in BlockNumbers /\ free \in SUBSET Blocks /\ WellFormed(root, free, d)
        /\ \A x \in Below(root, d) : e[x] = d[x]
    BY <1>3, <1>4, <1>17, <2>1
  <2>3. FilesAt(root, e) = FilesAt(root, d) /\ WellFormed(root, free, e)
    BY <2>2, TreeFrame
  <2>4. QED BY <1>4, <2>1, <2>3
<1>19. /\ fs' \in [state : {"up", "down", "aborted"}, files : BlockNumbers,
                   free : SUBSET Blocks, version : 0..3]
       /\ fs'.state = "up" /\ fs'.files = com.files /\ fs'.free = com.free
       /\ fs'.version = NextVersion(fs.version)
  <2>1. NextVersion(fs.version) \in 0..3
    BY <1>8, VersionFacts
  <2>2. QED BY <1>3, <1>5, <2>1
<1>20. Committed' = N
  BY <1>18, <1>19 DEF Committed
<1>21. OnDevice' /\ MemoryIsOnDisk' /\ CounterOK' /\ Offline'
  BY <1>4, <1>9, <1>18, <1>19 DEF OnDevice, MemoryIsOnDisk, CounterOK, Offline
<1>22. N \in FileMaps
  BY <1>4 DEF Renewed
<1>23. \A u \in V : \A b \in tr[u].alloc : Content(b)' = Content(b)
  <2> TAKE u \in V
  <2> TAKE b \in tr[u].alloc
  <2>1. b \in Blocks /\ b \notin S /\ b \notin r.freed
    BY <1>1, <1>3, <1>8, <1>10, <1>15
  <2>2. QED BY <1>16, <2>1 DEF Content, Dirty
<1>24. OldRoot(t) \cap FileBlocks(C) = {}
  BY <1>7 DEF OldRoot
<1>25. ASSUME NEW u \in Sessions, u # t
       PROVE  tr[u] \in Transactions /\ TransactionOK(tr[u], C, fs.free, K, {}, {})
  <2>1. TransactionOK(tr[u], Committed, fs.free, Contents, NewRoot(u), OldRoot(u))
    BY DEF StoreInv, SessionsOK
  <2>2. NewRoot(u) = {} /\ OldRoot(u) = {}
    BY <1>3, <1>25
  <2>3. TransactionOK(tr[u], Committed, fs.free, Contents, {}, {})
    BY <2>1, <2>2
  <2>4. QED BY <1>1, <1>5, <2>3
<1>26. ASSUME NEW u \in Sessions
       PROVE  TransactionOK(tr'[u], N, com.free, Contents', {}, {})
  <2>1. CASE u = t \/ u \in F
    <3>1. tr'[u] \in {Inactive, FailedTr}
      BY <1>14, <2>1
    <3>2. QED BY <1>22, <3>1, RestOK
  <2>2. CASE u \in V
    <3>1. u # t /\ tr[u].alloc \cap r.alloc = {} /\ tr[u].freed \cap r.freed = {}
      BY <1>1, <1>3, <2>2
    <3>2. \A b \in tr[u].alloc : Contents'[b] = K[b]
      BY <1>1, <1>3, <1>23, <2>2, <3>1 DEF Contents
    <3>3. PICK q, free, nfree, L : q = tr[u] /\ free = fs.free /\ nfree = com.free /\ L = Contents'
      OBVIOUS
    <3>4. /\ q \in Transactions /\ TransactionOK(q, C, free, K, {}, {})
          /\ q.alloc \cap r.alloc = {} /\ q.freed \cap r.freed = {}
          /\ \A b \in q.alloc : L[b] = K[b]
          /\ nfree = (free \ r.alloc) \cup r.freed
      BY <1>6, <1>25, <3>1, <3>2, <3>3
    <3>5. TransactionOK(q, N, nfree, L, {}, {})
      BY <1>3, <1>4, <1>7, <3>4, SurvivorOK
    <3>6. QED BY <1>14, <2>2, <3>3, <3>5
  <2>3. QED BY <1>1, <2>1, <2>2
<1>27. PICK lost : file' = [u \in Sessions |->
                     IF u \in F THEN Restored(Applied(t)[u], u \in lost) ELSE Applied(t)[u]]
  BY DEF FailFrom
<1>28. ASSUME NEW u \in Sessions
       PROVE  /\ Applied(t)[u] \in Handles \cup {NULL}
              /\ Applied(t)[u] # NULL => HandleOK(Applied(t)[u], IF u = t THEN Inactive ELSE tr[u], N)
              /\ u = t /\ Applied(t)[u] # NULL => Applied(t)[u].saw = NULL
  <2>1. CASE file[u] = NULL
    <3>1. Applied(t)[u] = NULL
      BY <2>1 DEF Applied, Moves
    <3>2. QED BY <3>1
  <2>2. CASE file[u] # NULL
    <3>1. PICK h, q, free, new, old : h = file[u] /\ q = tr[u] /\ free = fs.free /\ new = NewRoot(t)
                                      /\ old = OldRoot(t)
      OBVIOUS
    <3>2. h \in Handles /\ h # NULL /\ HandleOK(h, q, C)
      BY <1>1, <1>5, <2>2, <3>1 DEF StoreInv, SessionsOK
    <3>3. TransactionOK(r, C, free, K, new, old) /\ old \cap FileBlocks(C) = {}
      BY <1>3, <1>24, <3>1
    <3>4. CASE u = t
      <4>1. /\ C \in FileMaps /\ t \in Sessions /\ r \in Transactions /\ r = tr[t]
            /\ Renewed(N, r, C, K, used) /\ FileBlocks(C) \subseteq used
            /\ h \in Handles /\ h = file[t] /\ h # NULL /\ HandleOK(h, r, C)
        BY <1>1, <1>3, <1>4, <1>7, <3>1, <3>2, <3>4
      <4>2. /\ Applied(t)[t] \in Handles /\ HandleOK(Applied(t)[t], Inactive, N)
            /\ Applied(t)[t].saw = NULL
        BY ONLY <3>3, <4>1, AppliedSelf
      <4>3. QED BY <3>4, <4>2
    <3>5. CASE u # t
      <4>1. q \in Transactions /\ TransactionOK(q, C, free, K, {}, {})
        BY <1>25, <3>1, <3>5
      <4>2. /\ C \in FileMaps /\ t \in Sessions /\ r \in Transactions /\ r = tr[t]
            /\ Renewed(N, r, C, K, used) /\ FileBlocks(C) \subseteq used
            /\ h \in Handles /\ h = file[u] /\ h # NULL /\ HandleOK(h, q, C)
            /\ \A x, y \in Paths : C[x] = C[y] /\ C[x] # 0 => x = y
        BY <1>1, <1>3, <1>4, <1>7, <3>1, <3>2
      <4>3. Applied(t)[u] \in Handles /\ HandleOK(Applied(t)[u], q, N)
        BY <3>3, <3>5, <4>1, <4>2, AppliedOther
      <4>4. QED BY <3>1, <3>5, <4>3
    <3>6. QED BY <3>4, <3>5
  <2>3. QED BY <2>1, <2>2
<1>29. ASSUME NEW u \in Sessions
       PROVE  /\ file'[u] \in Handles \cup {NULL}
              /\ file'[u] # NULL => HandleOK(file'[u], tr'[u], N)
              /\ u \in F \cup {t} /\ file'[u] # NULL => file'[u].saw = NULL
  <2>1. CASE u \in F
    <3>1. PICK h, q, x : h = Applied(t)[u] /\ q = tr[u] /\ x = (u \in lost)
      OBVIOUS
    <3>2. h \in Handles \cup {NULL} /\ (h # NULL => HandleOK(h, q, N)) /\ x \in BOOLEAN
      BY <1>28, <2>1, <3>1
    <3>3. file'[u] = Restored(h, x) /\ tr'[u] \in {Inactive, FailedTr}
      BY <1>14, <1>27, <2>1, <3>1
    <3>4. QED BY <1>22, <3>2, <3>3, RestoredOK
  <2>2. CASE u \notin F
    <3>1. file'[u] = Applied(t)[u] /\ tr'[u] = IF u = t THEN Inactive ELSE tr[u]
      BY <1>1, <1>14, <1>27, <2>2
    <3>2. Applied(t)[u] # NULL => HandleOK(Applied(t)[u], tr'[u], N)
      BY <1>28, <3>1
    <3>3. u \in F \cup {t} /\ file'[u] # NULL => file'[u].saw = NULL
      BY <1>28, <2>2, <3>1
    <3>4. QED BY <1>28, <3>1, <3>2, <3>3
  <2>3. QED BY <2>1, <2>2
<1>30. StoreTypes'
  <2>1. Inactive \in Transactions /\ FailedTr \in Transactions
    BY RestFacts
  <2>2. tr' \in [Sessions -> Transactions]
    BY <1>1, <1>5, <1>11, <1>14, <2>1
  <2>3. file' \in [Sessions -> Handles \cup {NULL}]
    BY <1>27, <1>29
  <2>4. QED BY <1>9, <1>16, <1>19, <2>2, <2>3 DEF StoreTypes
<1>31. SessionsOK'
  <2>1. \A u \in Sessions : NewRoot(u)' = {} /\ OldRoot(u)' = {}
    BY DEF NewRoot, OldRoot, Committing
  <2>2. \A u \in Sessions :
          TransactionOK(tr'[u], Committed', fs'.free, Contents', NewRoot(u)', OldRoot(u)')
    BY <1>19, <1>20, <1>26, <2>1
  <2>3. \A u \in Sessions : file'[u] # NULL => HandleOK(file'[u], tr'[u], Committed')
    BY <1>20, <1>29
  <2>4. \A u \in Sessions : u \notin V => tr'[u].alloc = {}
    BY <1>1, <1>14, RestFacts
  <2>5. \A u, w \in Sessions : u # w => tr'[u].alloc \cap tr'[w].alloc = {}
    <3>1. \A u, w \in Sessions : u # w => tr[u].alloc \cap tr[w].alloc = {}
      BY DEF StoreInv, SessionsOK
    <3>2. \A u \in Sessions : tr'[u].alloc \subseteq tr[u].alloc
      BY <1>14, <2>4
    <3>3. QED BY <3>1, <3>2
  <2>6. ASSUME NEW b \in Blocks, cache'[b] # Junk
        PROVE  \E u \in Sessions : b \in tr'[u].alloc
    <3>1. b \notin S /\ cache[b] # Junk
      BY <1>16, <2>6
    <3>2. PICK u \in Sessions : b \in tr[u].alloc
      BY <3>1 DEF StoreInv, SessionsOK, Dirty
    <3>3. u \in V
      BY <1>1, <1>2, <3>1, <3>2 DEF Dirty
    <3>4. QED BY <1>14, <3>2, <3>3
  <2>7. QED BY <2>2, <2>3, <2>5, <2>6 DEF SessionsOK, Dirty
<1>32. StoreInv'
  BY <1>21, <1>30, <1>31 DEF StoreInv, Committing
<1>33. StoreOnDisk' = FilesOn(s, disk)
  <2>1. \A p \in Paths : N[p] # 0 => disk'[N[p]] = disk[N[p]]
    <3>1. \A p \in Paths : N[p] # 0 => N[p] \in Below(com.files, disk)
      BY <1>4 DEF Below, FileBlocks
    <3>2. QED BY <1>17, <3>1
  <2>2. FilesAt(Chosen(super').files, disk') = N /\ FilesAt(Chosen(s).files, disk) = N
    BY <1>4, <1>9, <1>18
  <2>3. QED BY <2>1, <2>2 DEF StoreOnDisk, FilesOn
<1>34. \A u \in V : file'[u] = Applied(t)[u]
  BY <1>1, <1>27
<1>35. \A b \in FileBlocks(C) \ r.freed : Content(b)' = Content(b)
  <2> TAKE b \in FileBlocks(C) \ r.freed
  <2>1. b \in Blocks /\ b \notin S
    <3>1. b \in Blocks
      BY <1>1, <1>3, CommittedFacts
    <3>2. QED BY <1>7, <1>15, <3>1
  <2>2. QED BY <1>16, <2>1 DEF Content, Dirty
<1>36. \A u \in F \cup {t} : file'[u] # NULL => file'[u].saw = NULL
  BY <1>3, <1>29
<1>37. QED BY <1>1, <1>14, <1>20, <1>23, <1>32, <1>33, <1>34, <1>35, <1>36

(* The step that commits: those that go on have freed nothing that t has    *)
(* freed, and have used no file that t has changed.                         *)
LEMMA CommitSuperStep ==
  ASSUME StoreInv, CommitSuper, NEW t, t = com.tr
  PROVE  /\ StoreInv' /\ SuperWritable /\ t \in Sessions /\ Committed' = NewFiles(tr[t])
         /\ StoreOnDisk' = FilesOn(NewSupers(SuperImage(NextVersion(fs.version))), disk)
         /\ tr'[t] = Inactive
         /\ \E F \in SUBSET (Sessions \ {t}) :
              /\ \A u \in F : tr'[u] = FailedTr
              /\ \A u \in Sessions \ (F \cup {t}) :
                   /\ tr'[u] = tr[u] /\ file'[u] = Applied(t)[u]
                   /\ \A b \in tr[u].alloc : Content(b)' = Content(b)
                   /\ tr[u].freed \cap tr[t].freed = {}
                   /\ tr[u].active /\ file[u] # NULL /\ file[u].used => ~Moves(t, u)
              /\ \A b \in FileBlocks(Committed) \ tr[t].freed : Content(b)' = Content(b)
              /\ \A u \in F \cup {t} : file'[u] # NULL => file'[u].saw = NULL
<1>1. /\ SuperWritable /\ com' = NULL
      /\ \E o \in RpmbWrite : o.ok /\ Device(o)
      /\ super' = Tidy(NewSupers(SuperImage(NextVersion(fs.version))))
      /\ fs' = [fs EXCEPT !.files = com.files, !.free = com.free,
                          !.version = NextVersion(fs.version)]
  BY DEF CommitSuper
<1>2. PICK F \in {UsedChanged(t) \cup FreedTwice(t), ActiveOthers(t)} :
        FailFrom([tr EXCEPT ![t] = Inactive], Applied(t), Forget(disk, tr[t].freed), F)
  BY DEF CommitSuper
<1>3. ctr' \in Counters /\ dev' \in Counters /\ calm' \in BOOLEAN /\ CounterOK'
  BY <1>1, DeviceFacts
<1>4. com # NULL
  BY <1>1 DEF SuperWritable
<1>5. t \in Sessions
  BY <1>4, CommitFacts
<1>6. F \in SUBSET (Sessions \ {t})
  BY <1>2 DEF UsedChanged, FreedTwice, ActiveOthers
<1>7. \A u \in Sessions : ~tr[u].active => tr[u].freed = {}
  <2> TAKE u \in Sessions
  <2>1. ~tr[u].active => tr[u] \in {Inactive, FailedTr}
    BY DEF StoreInv, SessionsOK, TransactionOK
  <2>2. QED BY <2>1, RestFacts
<1>8. \A u \in Sessions \ (F \cup {t}) :
        /\ tr[u].freed \cap tr[t].freed = {}
        /\ tr[u].active /\ file[u] # NULL /\ file[u].used => ~Moves(t, u)
  BY <1>2, <1>7 DEF UsedChanged, FreedTwice, ActiveOthers
<1>9. /\ StoreInv' /\ Committed' = NewFiles(tr[t])
      /\ StoreOnDisk' = FilesOn(NewSupers(SuperImage(NextVersion(fs.version))), disk)
      /\ tr'[t] = Inactive /\ (\A u \in F : tr'[u] = FailedTr)
      /\ \A u \in Sessions \ (F \cup {t}) :
           /\ tr'[u] = tr[u] /\ file'[u] = Applied(t)[u]
           /\ \A b \in tr[u].alloc : Content(b)' = Content(b)
      /\ \A b \in FileBlocks(Committed) \ tr[t].freed : Content(b)' = Content(b)
      /\ \A u \in F \cup {t} : file'[u] # NULL => file'[u].saw = NULL
  BY <1>1, <1>2, <1>3, <1>6, <1>8, CommittedStep
<1>10. QED BY <1>1, <1>5, <1>6, <1>8, <1>9

(* The files of a device that is not blank have a block each, and leave no  *)
(* block out.                                                               *)
LEMMA InitBlockFacts ==
  ASSUME NEW n, n = Cardinality(InitFiles)
  PROVE  /\ n \in Nat /\ n < NumBlocks /\ InitBlock \in [InitFiles -> 2..n + 1]
         /\ \A x, y \in InitFiles : x # y => InitBlock[x] # InitBlock[y]
         /\ \A b \in 2..n + 1 : \E x \in InitFiles : InitBlock[x] = b
<1>1. IsFiniteSet(InitFiles) /\ n < NumBlocks
  BY StorageAssumption
<1>2. n \in Nat
  BY <1>1, FS_CardinalityType
<1>3. IsFiniteSet(2..n + 1) /\ Cardinality(2..n + 1) = n
  <2>1. PICK m : m = n + 1
    OBVIOUS
  <2>2. m \in Int /\ 2 \in Int
    BY <1>2, <2>1
  <2>3. IsFiniteSet(2..m) /\ Cardinality(2..m) = IF 2 > m THEN 0 ELSE m - 2 + 1
    BY <2>2, FS_Interval
  <2>4. QED BY <1>2, <2>1, <2>3
<1>4. PICK g \in Bijection(InitFiles, 2..n + 1) : TRUE
  <2>1. PICK T : T = 2..n + 1
    OBVIOUS
  <2>2. IsFiniteSet(T) /\ Cardinality(InitFiles) = Cardinality(T)
    BY <1>3, <2>1
  <2>3. ExistsBijection(InitFiles, T)
    BY <1>1, <2>2, FS_SameCardinalityBij
  <2>4. Bijection(InitFiles, T) # {}
    BY <2>3, Fun_ExistsBij
  <2>5. QED BY <2>1, <2>4
<1>5. g \in [InitFiles -> 2..n + 1] /\ \A x, y \in InitFiles : g[x] = g[y] => x = y
  <2>1. PICK S, T : S = InitFiles /\ T = 2..n + 1
    OBVIOUS
  <2>2. g \in Bijection(S, T)
    BY <1>4, <2>1
  <2>3. g \in [S -> T] /\ \A x, y \in S : g[x] = g[y] => x = y
    BY <2>2, Fun_BijectionProperties
  <2>4. QED BY <2>1, <2>3
<1>6. InitBlock \in [InitFiles -> 2..n + 1] /\ \A x, y \in InitFiles : x # y => InitBlock[x] # InitBlock[y]
  BY <1>5 DEF InitBlock
<1>7. InitBlock \in Injection(InitFiles, 2..n + 1)
  BY <1>6, Fun_IsInj
<1>8. InitBlock \in Surjection(InitFiles, 2..n + 1)
  BY <1>3, <1>7, FS_Injection
<1>9. \A b \in 2..n + 1 : \E x \in InitFiles : InitBlock[x] = b
  BY <1>8, Fun_SurjectionProperties
<1>10. QED BY <1>1, <1>2, <1>6, <1>9

(* The super block to mount of such a device is the one with its version.   *)
Versions(n, free) ==
  [i \in 0..1 |->
    IF n % 2 = i
    THEN [valid |-> TRUE, flags |-> n, flags2 |-> n, files |-> 1, free |-> free]
    ELSE [valid |-> TRUE, flags |-> (n + 3) % 4, flags2 |-> (n + 3) % 4,
          files |-> 0, free |-> {}]]

LEMMA InitSuper ==
  ASSUME NEW n \in 0..3, NEW free \in SUBSET Blocks, NEW s, s = Versions(n, free)
  PROVE  /\ s \in [0..1 -> Supers] /\ Chosen(s).files = 1 /\ Chosen(s).free = free
<1>1. (n + 3) % 4 \in 0..3 /\ 1 \in BlockNumbers /\ 0 \in BlockNumbers
  BY StorageAssumption DEF Blocks, BlockNumbers
<1>2. s \in [0..1 -> Supers]
  BY <1>1 DEF Supers, Versions
<1>3. CASE n = 0 \/ n = 2
  <2>1. /\ s[0] = [valid |-> TRUE, flags |-> n, flags2 |-> n, files |-> 1, free |-> free]
        /\ s[1].flags = (n + 3) % 4
    BY <1>3 DEF Versions
  <2>2. SuperValid(s[0], 0) /\ ~NewerThan(s[1], s[0])
    BY <1>3, <2>1 DEF SuperValid, NewerThan
  <2>3. Chosen(s) = s[0]
    BY <2>2 DEF Chosen
  <2>4. QED BY <1>2, <2>1, <2>3
<1>4. CASE n = 1 \/ n = 3
  <2>1. /\ s[1] = [valid |-> TRUE, flags |-> n, flags2 |-> n, files |-> 1, free |-> free]
        /\ s[0].flags = (n + 3) % 4
    BY <1>4 DEF Versions
  <2>2. SuperValid(s[1], 1) /\ NewerThan(s[1], s[0])
    BY <1>4, <2>1 DEF SuperValid, NewerThan
  <2>3. Chosen(s) = s[1]
    BY <2>2 DEF Chosen
  <2>4. QED BY <1>2, <2>1, <2>3
<1>5. QED BY <1>3, <1>4

(* A device with the files InitFiles is well formed.                        *)
LEMMA FormattedFacts ==
  ASSUME NEW v \in Values, NEW n \in InitVersions, Formatted(v, n)
  PROVE  disk \in [Blocks -> Nodes] /\ super \in [0..1 -> Supers] /\ OnDevice
<1>1. PICK k, f, used, free :
        /\ k = Cardinality(InitFiles) /\ used = 1..k + 1 /\ free = Blocks \ used
        /\ f = [x \in Paths |-> IF x \in InitFiles THEN InitBlock[x] ELSE 0]
  OBVIOUS
<1>2. /\ disk = [b \in Blocks |->
                  IF b = 1 THEN FilesNode(f)
                  ELSE IF b \in used THEN Entry(CHOOSE x \in InitFiles : f[x] = b, v)
                  ELSE Junk]
      /\ super = Versions(n, free)
  BY <1>1 DEF Formatted, Versions
<1>3. /\ k \in Nat /\ k < NumBlocks /\ InitBlock \in [InitFiles -> 2..k + 1]
      /\ \A x, y \in InitFiles : x # y => InitBlock[x] # InitBlock[y]
      /\ \A b \in 2..k + 1 : \E x \in InitFiles : InitBlock[x] = b
  BY <1>1, InitBlockFacts
<1>4. /\ NumBlocks \in Nat /\ InitFiles \subseteq Paths /\ n \in 0..3 /\ used \subseteq Blocks
      /\ 1 \in used /\ 1 \in Blocks
      /\ \A b \in used : b = 1 \/ b \in 2..k + 1
      /\ \A b \in 2..k + 1 : b \in used /\ b # 1 /\ b # 0 /\ b \in Blocks
  BY <1>1, <1>3, StorageAssumption DEF Blocks
<1>5. /\ f \in FileMaps /\ \A x \in InitFiles : f[x] = InitBlock[x] /\ f[x] \in 2..k + 1
      /\ \A x \in Paths : f[x] # 0 => x \in InitFiles
  BY <1>1, <1>3, <1>4 DEF FileMaps, BlockNumbers
<1>6. \A x \in InitFiles : disk[f[x]] = Entry(x, v)
  <2> TAKE x \in InitFiles
  <2>1. f[x] \in Blocks /\ f[x] # 1 /\ f[x] \in used
    BY <1>4, <1>5
  <2>2. (CHOOSE y \in InitFiles : f[y] = f[x]) = x
    <3>1. \A y \in InitFiles : f[y] = f[x] => y = x
      BY <1>3, <1>5
    <3>2. QED BY <3>1
  <2>3. disk[f[x]] = Entry(CHOOSE y \in InitFiles : f[y] = f[x], v)
    BY <1>2, <2>1
  <2>4. QED BY <2>2, <2>3
<1>7. \A b \in 2..k + 1 : \E x \in InitFiles : f[x] = b
  BY <1>3, <1>5
<1>8. disk[1] = FilesNode(f)
  BY <1>2, <1>4
<1>9. disk \in [Blocks -> Nodes]
  <2>1. Junk \in Nodes /\ FilesNode(f) \in Nodes
    BY <1>5, NodeFacts DEF Nodes
  <2>2. \A x \in InitFiles : Entry(x, v) \in Nodes
    BY <1>4 DEF Nodes
  <2>3. ASSUME NEW b \in Blocks PROVE disk[b] \in Nodes
    <3>1. CASE b = 1
      BY <1>8, <2>1, <3>1
    <3>2. CASE b # 1 /\ b \in used
      <4>1. PICK x \in InitFiles : f[x] = b
        BY <1>4, <1>7, <3>2
      <4>2. QED BY <1>6, <2>2, <4>1
    <3>3. CASE b \notin used
      <4>1. disk[b] = Junk
        BY <1>2, <1>4, <3>3
      <4>2. QED BY <2>1, <4>1
    <3>4. QED BY <3>1, <3>2, <3>3
  <2>4. disk = [b \in Blocks |-> disk[b]]
    BY <1>2
  <2>5. QED BY <2>3, <2>4
<1>10. super \in [0..1 -> Supers] /\ Chosen(super).files = 1 /\ Chosen(super).free = free
  <2>1. PICK s : s = super
    OBVIOUS
  <2>2. /\ free \in SUBSET Blocks /\ n \in 0..3
        /\ s = Versions(n, free)
    BY <1>1, <1>2, <1>4, <2>1
  <2>3. s \in [0..1 -> Supers] /\ Chosen(s).files = 1 /\ Chosen(s).free = free
    BY <2>2, InitSuper
  <2>4. QED BY <2>1, <2>3
<1>11. FilesAt(1, disk) = f
  BY <1>5, <1>8, NodeFacts DEF FilesAt
<1>12. \A p \in Paths : f[p] # 0 => IsFile(disk[f[p]], p)
  BY <1>5, <1>6 DEF IsFile
<1>13. Below(1, disk) = used
  <2>1. \A b \in FileBlocks(f) : b \in used
    BY <1>4, <1>5 DEF FileBlocks
  <2>2. \A b \in used : b = 1 \/ b \in FileBlocks(f)
    BY <1>4, <1>7 DEF FileBlocks
  <2>3. 0 \notin used
    BY <1>4, ZeroNoBlock
  <2>4. QED BY <1>4, <1>11, <2>1, <2>2, <2>3 DEF Below
<1>14. WellFormed(1, free, disk)
  BY <1>1, <1>4, <1>5, <1>8, <1>11, <1>12, <1>13 DEF WellFormed
<1>15. QED BY <1>9, <1>10, <1>14 DEF OnDevice

(* What the service starts with.                                            *)
LEMMA InitStore == Init => StoreInv
<1>1. SUFFICES ASSUME Init PROVE StoreInv
  OBVIOUS
<1>2. /\ ctr = 0 /\ dev \in InitCounters /\ calm = TRUE /\ fs = Down /\ com = NULL
      /\ tr = [t \in Sessions |-> Inactive] /\ file = [t \in Sessions |-> NULL]
      /\ cache = [b \in Blocks |-> Junk]
  BY <1>1 DEF Init
<1>3. disk \in [Blocks -> Nodes] /\ super \in [0..1 -> Supers] /\ OnDevice
  <2>1. CASE disk = [b \in Blocks |-> Junk] /\ super = [i \in 0..1 |-> Blank]
    <3>1. disk \in [Blocks -> Nodes]
      BY <2>1 DEF Nodes
    <3>2. Blank \in Supers /\ Blank.files = 0 /\ Blank.free = Blocks /\ ~Blank.valid
      BY DEF Blank, Supers, BlockNumbers
    <3>3. super \in [0..1 -> Supers] /\ super[0] = Blank /\ super[1] = Blank
      BY <2>1, <3>2
    <3>4. Chosen(super) = Blank
      BY <3>2, <3>3 DEF Chosen, SuperValid
    <3>5. FilesAt(0, disk) = NoFiles
      BY DEF FilesAt
    <3>6. Below(0, disk) = {}
      BY <3>5 DEF Below, FileBlocks, NoFiles
    <3>7. WellFormed(0, Blocks, disk)
      BY <3>5, <3>6 DEF WellFormed, NoFiles
    <3>8. QED BY <3>1, <3>2, <3>3, <3>4, <3>7 DEF OnDevice
  <2>2. CASE \E v \in Values \ {Empty}, n \in InitVersions : Formatted(v, n)
    BY <2>2, FormattedFacts
  <2>3. QED BY <1>1, <2>1, <2>2 DEF Init
<1>4. fs.state = "down" /\ fs.files = 0 /\ fs.free = {} /\ fs.version = 0
  BY <1>2 DEF Down
<1>5. \A t \in Sessions : tr[t] = Inactive /\ file[t] = NULL
  BY <1>2
<1>6. Inactive \in Transactions /\ Inactive.alloc = {}
  BY RestFacts
<1>7. Junk \in Nodes
  BY DEF Nodes
<1>8. fs \in [state : {"up", "down", "aborted"}, files : BlockNumbers,
              free : SUBSET Blocks, version : 0..3]
  BY <1>2 DEF Down, BlockNumbers
<1>9. StoreTypes
  <2>1. ctr \in Counters /\ dev \in Counters
    BY <1>2, StorageAssumption DEF Counters
  <2>2. QED BY <1>2, <1>3, <1>6, <1>7, <1>8, <2>1 DEF StoreTypes
<1>10. Committed \in FileMaps
  BY <1>4 DEF Committed, FilesAt, NoFiles, FileMaps, BlockNumbers
<1>11. \A t \in Sessions : NewRoot(t) = {} /\ OldRoot(t) = {} /\ ~Committing(t)
  BY <1>2 DEF NewRoot, OldRoot, Committing
<1>12. \A t \in Sessions : TransactionOK(tr[t], Committed, fs.free, Contents, NewRoot(t), OldRoot(t))
  <2> TAKE t \in Sessions
  <2>1. PICK C, free, K, r : C = Committed /\ free = fs.free /\ K = Contents /\ r = tr[t]
    OBVIOUS
  <2>2. C \in FileMaps /\ r \in {Inactive, FailedTr}
    BY <1>5, <1>10, <2>1
  <2>3. TransactionOK(r, C, free, K, {}, {})
    BY <2>2, RestOK
  <2>4. QED BY <1>11, <2>1, <2>3
<1>13. SessionsOK
  BY <1>2, <1>5, <1>6, <1>12 DEF SessionsOK, Dirty
<1>14. MemoryIsOnDisk /\ CounterOK
  BY <1>2, <1>4 DEF MemoryIsOnDisk, CounterOK
<1>15. Offline
  BY <1>2, <1>4, <1>5 DEF Offline, Down
<1>16. QED BY <1>3, <1>9, <1>11, <1>13, <1>14, <1>15 DEF StoreInv

----------------------------------------------------------------------------
(* The invariant.                                                           *)

(* What every request of a session does.                                    *)
LEMMA RequestInv ==
  ASSUME StoreInv, NEW t \in Sessions, Request(t)
  PROVE  StoreInv' /\ Others(t)
<1>1. Uses(t) \subseteq Paths /\ Values \ {Empty} \subseteq Values
  BY StorageAssumption
<1>2. CASE Begin(t)
  BY <1>2, BeginStep
<1>3. CASE \E p \in Uses(t) : Open(t, p) \/ OpenCreate(t, p) \/ Delete(t, p)
  <2>1. PICK p \in Paths : Open(t, p) \/ OpenCreate(t, p) \/ Delete(t, p)
    BY <1>1, <1>3
  <2>2. QED BY <2>1, OpenStep, OpenCreateStep, DeleteStep
<1>4. CASE \E v \in Values \ {Empty} : Write(t, v)
  BY <1>1, <1>4, WriteStep
<1>5. CASE \E v \in Values : SetSize(t, v)
  BY <1>5, SetSizeStep
<1>6. CASE Read(t) \/ GetSize(t)
  BY <1>6, ReadStep
<1>7. CASE ReadError(t) \/ CommitRefused(t)
  BY <1>7, FailingStep
<1>8. CASE Close(t)
  BY <1>8, CloseStep
<1>9. CASE ClearFailed(t)
  BY <1>9, ClearFailedStep
<1>10. CASE \E close \in BOOLEAN : Discard(t, close)
  BY <1>10, DiscardStep
<1>11. CASE CommitPrepare(t)
  BY <1>11, CommitPrepareStep
<1>12. QED BY <1>2, <1>3, <1>4, <1>5, <1>6, <1>7, <1>8, <1>9, <1>10, <1>11 DEF Request

(* A step that changes nothing.                                             *)
LEMMA StutterInv ==
  ASSUME StoreInv, UNCHANGED vars
  PROVE  StoreInv'
<1>1. UNCHANGED <<disk, super, ctr, dev, calm, fs, tr, file, cache, com>>
  BY DEF vars
<1>2. Committed' = Committed /\ Contents' = Contents
  BY <1>1 DEF Committed, Contents, Content, Dirty
<1>3. \A t \in Sessions : /\ NewRoot(t)' = NewRoot(t) /\ OldRoot(t)' = OldRoot(t)
                          /\ Committing(t)' = Committing(t)
  BY <1>1 DEF NewRoot, OldRoot, Committing
<1>4. StoreTypes' /\ OnDevice' /\ MemoryIsOnDisk' /\ CounterOK' /\ Offline'
  BY <1>1 DEF StoreInv, StoreTypes, OnDevice, MemoryIsOnDisk, CounterOK, Offline
<1>5. SessionsOK'
  BY <1>1, <1>2, <1>3 DEF StoreInv, SessionsOK, Dirty
<1>6. ASSUME NEW t \in Sessions, Committing(t)' PROVE CommitOK(t)'
  <2>1. CommitOK(t)
    BY <1>3, <1>6 DEF StoreInv
  <2>2. PICK r : r = tr[t]
    OBVIOUS
  <2>3. Kept(r)' = Kept(r)
    BY <1>1, <1>2 DEF Kept
  <2>4. AddConflicts(r)' = AddConflicts(r) /\ NewFiles(r)' = NewFiles(r)
    BY <2>3 DEF AddConflicts, NewFiles
  <2>5. Content(com.files)' = Content(com.files)
    BY <1>1 DEF Content, Dirty
  <2>6. QED BY <1>1, <2>1, <2>2, <2>4, <2>5 DEF CommitOK
<1>7. QED BY <1>4, <1>5, <1>6 DEF StoreInv

(* Every step keeps the invariant.                                          *)
LEMMA StepInv == StoreInv /\ [Next]_vars => StoreInv'
<1>1. SUFFICES ASSUME StoreInv, [Next]_vars PROVE StoreInv'
  OBVIOUS
<1>2. CASE \E t \in Sessions : Request(t)
  BY <1>1, <1>2, RequestInv
<1>3. CASE \E b \in Blocks : WriteBlock(b)
  BY <1>1, <1>3, WriteBlockStep
<1>4. CASE CommitAborts \/ Crash \/ CrashInSuper \/ \E b \in Blocks : CrashInBlock(b)
  BY <1>1, <1>4, HaltingStep
<1>5. CASE CommitSuper
  BY <1>1, <1>5, CommitSuperStep
<1>6. CASE Mount
  BY <1>1, <1>6, MountStep
<1>7. CASE UNCHANGED vars
  BY <1>1, <1>7, StutterInv
<1>8. QED BY <1>1, <1>2, <1>3, <1>4, <1>5, <1>6, <1>7 DEF Next

(* In every state the device holds a well-formed file system, the service's *)
(* memory is that of a mount, and what every session has open, changed,     *)
(* allocated and freed fits it.                                             *)
THEOREM StoreInvHolds == Spec => []StoreInv
<1>1. Init => StoreInv
  BY InitStore
<1>2. StoreInv /\ [Next]_vars => StoreInv'
  BY StepInv
<1>3. QED BY <1>1, <1>2, PTL DEF Spec

(* After one answer that is not garbled the driver has the device's write   *)
(* counter or reads it before the next write, which therefore succeeds      *)
(* unless it meets a fault: rpmb_write_data never gets stuck on a counter   *)
(* that the device refuses.                                                 *)
THEOREM CounterGivenUp == Spec => []CounterRecovers
<1>1. StoreInv => CounterRecovers
  <2>1. SUFFICES ASSUME StoreInv, calm, NEW o \in RpmbWrite, ~o.fault
                 PROVE  o.landed /\ o.ok
    BY DEF CounterRecovers
  <2>2. ctr \in Counters /\ dev \in Counters /\ ctr \in {0, dev}
    BY <2>1 DEF StoreInv, StoreTypes, CounterOK
  <2>3. QED BY <2>1, <2>2, OutcomeFacts
<1>2. QED BY <1>1, StoreInvHolds, PTL

(* Whenever the service runs, load_super_block would choose the super block *)
(* it has in memory: a crash loses no committed transaction.                *)
THEOREM MountGivesMemory == Spec => []MemoryIsOnDisk
<1>1. StoreInv => MemoryIsOnDisk
  BY DEF StoreInv
<1>2. QED BY <1>1, StoreInvHolds, PTL

(* Every block is in use or free and never both, allocated by at most one   *)
(* transaction, and freed only while in use, whatever failed before.        *)
THEOREM BlocksAreAccounted == Spec => []BlocksAccounted
<1>1. StoreInv => BlocksAccounted
  <2>1. SUFFICES ASSUME StoreInv PROVE BlocksAccounted
    OBVIOUS
  <2>2. TypeOK
    <3>1. /\ ctr \in Counters /\ dev \in Counters /\ calm \in BOOLEAN
          /\ fs.state \in {"up", "down", "aborted"}
          /\ fs.free \subseteq Blocks /\ fs.version \in 0..3
          /\ fs.files \in Blocks \cup {0}
      BY <2>1 DEF StoreInv, StoreTypes, BlockNumbers
    <3>2. ASSUME NEW t \in Sessions
          PROVE  /\ tr[t].alloc \cup tr[t].freed \cup tr[t].removed \subseteq Blocks
                 /\ tr[t].updated \in [Blocks -> Blocks \cup {0}]
                 /\ tr[t].added \in [Paths -> Blocks \cup {0}]
                 /\ ~(tr[t].active /\ tr[t].failed)
                 /\ file[t] # NULL => {file[t].block, file[t].committed} \subseteq Blocks \cup {0}
      <4>1. tr[t] \in Transactions /\ file[t] \in Handles \cup {NULL}
        BY <2>1 DEF StoreInv, StoreTypes
      <4>2. ~(tr[t].active /\ tr[t].failed)
        BY <2>1 DEF StoreInv, SessionsOK, TransactionOK
      <4>3. QED BY <4>1, <4>2 DEF Transactions, Handles, FileMaps, BlockNumbers
    <3>3. QED BY <3>1, <3>2 DEF TypeOK
  <2>3. ASSUME fs.state = "up"
        PROVE  /\ InUse \cup fs.free = Blocks /\ InUse \cap fs.free = {}
               /\ \A t \in Sessions :
                    /\ tr[t].alloc \subseteq fs.free /\ tr[t].freed \subseteq InUse
                    /\ \A u \in Sessions \ {t} : tr[t].alloc \cap tr[u].alloc = {}
               /\ \A b \in Blocks : Dirty(b) => \E t \in Sessions : b \in tr[t].alloc
    <3>1. WellFormed(fs.files, fs.free, disk)
      BY <2>1, <2>3, UpFacts
    <3>2. InUse \cup fs.free = Blocks /\ InUse \cap fs.free = {}
      BY <3>1 DEF WellFormed, InUse
    <3>3. \A t \in Sessions : tr[t].alloc \subseteq fs.free /\ tr[t].freed \subseteq InUse
      BY <2>1, <2>3, AllocApart, FreedInUse DEF InUse
    <3>4. /\ \A t, u \in Sessions : t # u => tr[t].alloc \cap tr[u].alloc = {}
          /\ \A b \in Blocks : Dirty(b) => \E t \in Sessions : b \in tr[t].alloc
      BY <2>1 DEF StoreInv, SessionsOK
    <3>5. QED BY <3>2, <3>3, <3>4
  <2>4. QED BY <2>2, <2>3 DEF BlocksAccounted
<1>2. QED BY <1>1, StoreInvHolds, PTL

(* No handle, files_updated or files_removed entry outlives the committed   *)
(* file it names, although the blocks of files are reused.                  *)
THEOREM HandlesStayCurrent == Spec => []HandlesCurrent
<1>1. StoreInv => HandlesCurrent
  <2>1. SUFFICES ASSUME StoreInv, fs.state = "up", NEW t \in Sessions
                 PROVE  /\ file[t] # NULL /\ file[t].committed # 0
                             => file[t].committed \in FileBlocks(Committed)
                        /\ file[t] # NULL /\ file[t].block \notin {0, file[t].committed}
                             => file[t].block \in tr[t].alloc
                        /\ {b \in Blocks : tr[t].updated[b] # 0} \cup tr[t].removed
                             \subseteq FileBlocks(Committed)
    BY DEF HandlesCurrent
  <2>2. PICK C, r, h, free, K, new, old :
          /\ C = Committed /\ r = tr[t] /\ h = file[t] /\ free = fs.free /\ K = Contents
          /\ new = NewRoot(t) /\ old = OldRoot(t)
    OBVIOUS
  <2>3. TransactionOK(r, C, free, K, new, old) /\ (h # NULL => HandleOK(h, r, C))
    BY <2>1, <2>2 DEF StoreInv, SessionsOK
  <2>4. h # NULL /\ h.committed # 0 => h.committed \in FileBlocks(C)
    BY <2>3 DEF HandleOK
  <2>5. h # NULL /\ h.block \notin {0, h.committed} => h.block \in r.alloc
    <3>1. SUFFICES ASSUME h # NULL, h.block \notin {0, h.committed} PROVE h.block \in r.alloc
      OBVIOUS
    <3>2. CASE h.committed = 0
      <4>1. PICK p \in Paths : r.added[p] = h.block
        BY <2>3, <3>1, <3>2 DEF HandleOK
      <4>2. QED BY <2>3, <3>1, <4>1 DEF TransactionOK
    <3>3. CASE h.committed # 0
      <4>1. h.block = r.updated[h.committed] /\ r.updated[h.committed] # 0
        BY <2>3, <3>1, <3>3 DEF HandleOK
      <4>2. PICK p \in Paths : C[p] = h.committed
        BY <2>4, <3>1, <3>3 DEF FileBlocks
      <4>3. QED BY <2>3, <3>3, <4>1, <4>2 DEF TransactionOK
    <3>4. QED BY <3>2, <3>3
  <2>6. {b \in Blocks : r.updated[b] # 0} \cup r.removed \subseteq FileBlocks(C)
    BY <2>3 DEF TransactionOK
  <2>7. QED BY <2>2, <2>4, <2>5, <2>6
<1>2. QED BY <1>1, StoreInvHolds, PTL

----------------------------------------------------------------------------
(* Reads.                                                                   *)

(* What the client of transaction r was told of its open file h still is    *)
(* so, where K has the contents of the blocks.                              *)
Remembers(h, r, K) ==
  h # NULL /\ h.saw # NULL =>
    h.block \in Blocks /\ K[h.block][3] = h.saw /\ h.used /\ r.active

(* This is ReadsInv.                                                        *)
LEMMA ReadsNow ==
  ASSUME StoreInv, ReadsInv, NEW t \in Sessions
  PROVE  Remembers(file[t], tr[t], Contents)
<1>1. file[t] # NULL => file[t].block \in BlockNumbers
  BY DEF StoreInv, StoreTypes, Handles
<1>2. QED BY <1>1 DEF ReadsInv, ReadsStable, SeenIsUsed, Remembers, Contents, BlockNumbers

LEMMA ReadsNext ==
  ASSUME \A t \in Sessions : Remembers(file'[t], tr'[t], Contents')
  PROVE  ReadsInv'
<1>1. \A t \in Sessions : file'[t] # NULL /\ file'[t].saw # NULL =>
        /\ file'[t].block \in Blocks /\ Contents'[file'[t].block][3] = file'[t].saw
        /\ file'[t].used /\ tr'[t].active
  BY DEF Remembers
<1>2. \A b \in Blocks : Contents'[b] = Content(b)'
  BY DEF Contents
<1>3. SeenIsUsed'
  BY <1>1 DEF SeenIsUsed
<1>4. ReadsStable'
  <2>1. SUFFICES ASSUME NEW t \in Sessions, file'[t] # NULL, file'[t].saw # NULL
                 PROVE  (file[t].block # 0 /\ Content(file[t].block)[3] = file[t].saw)'
    BY DEF ReadsStable
  <2>2. PICK b : b = file'[t].block
    OBVIOUS
  <2>3. b \in Blocks /\ b # 0 /\ Contents'[b][3] = file'[t].saw
    BY <1>1, <2>1, <2>2, ZeroNoBlock
  <2>4. Content(file[t].block)' = Content(b)'
    BY <2>2 DEF Content, Dirty
  <2>5. QED BY <1>2, <2>2, <2>3, <2>4
<1>5. QED BY <1>3, <1>4 DEF ReadsInv

(* A file of which nothing is known.                                        *)
LEMMA NothingSeen ==
  ASSUME NEW h, NEW r, NEW K, h # NULL => h.saw = NULL
  PROVE  Remembers(h, r, K)
BY DEF Remembers

(* The block of an open file keeps its content.                             *)
LEMMA SameSeen ==
  ASSUME NEW h, NEW r, NEW K, NEW L, NEW s, Remembers(h, r, K), r.active => s.active,
         h # NULL /\ h.block \in Blocks => L[h.block] = K[h.block]
  PROVE  Remembers(h, s, L)
BY DEF Remembers

(* file_block_map_update: the file has the content that was written.        *)
LEMMA UpdateReads ==
  ASSUME StoreInv, Idle, NEW t \in Sessions, file[t] # NULL, tr[t].active, NEW h \in Handles,
         h.block = file[t].block, h.committed = file[t].committed, h.block # 0,
         NEW v \in Values, Update(t, tr[t], h, v), UNCHANGED <<super, ctr, dev, calm, fs, com>>,
         h.saw \in {NULL, v}, h.saw # NULL => h.used
  PROVE  Remembers(file'[t], tr'[t], Contents')
<1>1. PICK r, C, b, k : r = tr[t] /\ C = Committed /\ b = Lowest(Available)
                        /\ k = [h EXCEPT !.block = b]
  OBVIOUS
<1>2. /\ file \in [Sessions -> Handles \cup {NULL}] /\ tr \in [Sessions -> Transactions]
      /\ cache \in [Blocks -> Nodes] /\ r \in Transactions
  BY <1>1 DEF StoreInv, StoreTypes
<1>3. ASSUME NEW x \in Blocks, NEW p \in Paths, SetBlock(x, Entry(p, v)), UNCHANGED disk
      PROVE  Contents'[x][3] = v
  <2>1. Entry(p, v) # Junk /\ Entry(p, v)[3] = v
    BY FileFacts DEF IsFile, Entry
  <2>2. cache'[x] = Entry(p, v)
    BY <1>2, <1>3 DEF SetBlock
  <2>3. QED BY <2>1, <2>2 DEF Contents, Content, Dirty
<1>4. CASE \E p \in Paths :
             /\ Designates(h, r, C, Contents, p) /\ h.block \in r.alloc
             /\ tr' = [tr EXCEPT ![t] = r] /\ file' = [file EXCEPT ![t] = h]
             /\ SetBlock(h.block, Entry(p, v)) /\ UNCHANGED disk
  <2>1. PICK p \in Paths :
             /\ Designates(h, r, C, Contents, p)
             /\ tr' = [tr EXCEPT ![t] = r] /\ file' = [file EXCEPT ![t] = h]
             /\ SetBlock(h.block, Entry(p, v)) /\ UNCHANGED disk
    BY <1>4
  <2>2. h.block \in Blocks
    BY <2>1 DEF Designates
  <2>3. Contents'[h.block][3] = v
    BY <1>3, <2>1, <2>2
  <2>4. file'[t] = h /\ tr'[t].active
    BY <1>1, <1>2, <2>1
  <2>5. QED BY <2>2, <2>3, <2>4 DEF Remembers
<1>5. CASE \E p \in Paths :
             /\ Designates(h, r, C, Contents, p) /\ h.block \notin r.alloc
             /\ Available # {}
             /\ tr' = [tr EXCEPT ![t] = Copied(r, h.block, Lowest(Available))]
             /\ file' = [file EXCEPT ![t] = [h EXCEPT !.block = Lowest(Available)]]
             /\ SetBlock(Lowest(Available), Entry(p, v)) /\ UNCHANGED disk
  <2>1. PICK n : n = Copied(r, h.block, b)
    OBVIOUS
  <2>2. PICK p \in Paths :
             /\ Available # {}
             /\ tr' = [tr EXCEPT ![t] = n] /\ file' = [file EXCEPT ![t] = k]
             /\ SetBlock(b, Entry(p, v)) /\ UNCHANGED disk
    BY <1>1, <1>5, <2>1
  <2>3. b \in Blocks
    BY <1>1, <2>2, AvailableFacts
  <2>4. Contents'[b][3] = v
    BY <1>3, <2>2, <2>3
  <2>5. k.block = b /\ k.saw = h.saw /\ k.used = h.used
    BY <1>1 DEF Handles
  <2>6. n.active = r.active
    BY <1>2, <2>1 DEF Copied, Transactions
  <2>7. file'[t] = k /\ tr'[t] = n
    BY <1>2, <2>2
  <2>8. QED BY <1>1, <2>3, <2>4, <2>5, <2>6, <2>7 DEF Remembers
<1>6. CASE Fail(t)
  BY <1>6, FailRequest, NothingSeen
<1>7. QED
  <2>1. Update(t, r, h, v)
    BY <1>1
  <2>2. QED BY <1>1, <1>4, <1>5, <1>6, <2>1, UpdateCases

(* A file that is opened, created or deleted.                               *)
LEMMA OpenReads ==
  ASSUME StoreInv, ReadsInv, NEW t \in Sessions, NEW p \in Paths,
         Open(t, p) \/ OpenCreate(t, p)
  PROVE  Remembers(file'[t], tr'[t], Contents')
<1>1. Idle /\ file \in [Sessions -> Handles \cup {NULL}] /\ UNCHANGED <<super, ctr, dev, calm, fs, com>>
  BY IdleFacts DEF Open, OpenCreate, Ready
<1>2. CASE Open(t, p)
  <2>1. PICK l : l = Lookup(tr[t], p)
    OBVIOUS
  <2>2. file'[t] = Handle(l.block, l.committed)
    BY <1>1, <1>2, <2>1 DEF Open, SetFile
  <2>3. file'[t].saw = NULL
    BY <2>2 DEF Handle
  <2>4. QED BY <2>3, NothingSeen
<1>3. CASE OpenCreate(t, p)
  <2>1. PICK b : b = Lowest(Available)
    OBVIOUS
  <2>2. CASE SetFile(t, [Handle(b, 0) EXCEPT !.size = 0])
    <3>1. file'[t] = [Handle(b, 0) EXCEPT !.size = 0]
      BY <1>1, <2>2 DEF SetFile
    <3>2. file'[t].saw = NULL
      BY <3>1 DEF Handle
    <3>3. QED BY <3>2, NothingSeen
  <2>3. CASE Fail(t)
    BY <1>1, <2>3, FailRequest, NothingSeen
  <2>4. QED BY <1>3, <2>1, <2>2, <2>3 DEF OpenCreate
<1>4. QED BY <1>2, <1>3

LEMMA DeleteReads ==
  ASSUME StoreInv, ReadsInv, NEW t \in Sessions, NEW p \in Paths, Delete(t, p)
  PROVE  Remembers(file'[t], tr'[t], Contents')
<1>1. PICK r, n, b, g : r = tr[t] /\ n = Deleted(r, p) /\ b = Lookup(r, p).block /\ g = file[t]
  OBVIOUS
<1>2. /\ Idle /\ r.active /\ UNCHANGED disk
      /\ tr' = [tr EXCEPT ![t] = n]
      /\ file' = [file EXCEPT ![t] = IF g # NULL /\ g.block = b
                                     THEN [g EXCEPT !.block = 0, !.saw = NULL] ELSE g]
      /\ cache' = IF b \in r.alloc THEN Forget(cache, {b}) ELSE cache
  BY <1>1 DEF Delete, Ready, SetTr, SetFile
<1>3. /\ tr \in [Sessions -> Transactions] /\ file \in [Sessions -> Handles \cup {NULL}]
      /\ r \in Transactions /\ g \in Handles \cup {NULL}
  BY <1>1, <1>2, IdleFacts
<1>4. tr'[t] = n /\ n.active
  BY <1>1, <1>2, <1>3 DEF Deleted, Transactions
<1>5. CASE g # NULL /\ g.block = b
  <2>1. file'[t] = [g EXCEPT !.block = 0, !.saw = NULL]
    BY <1>2, <1>3, <1>5
  <2>2. file'[t].saw = NULL
    BY <1>3, <1>5, <2>1 DEF Handles
  <2>3. QED BY <2>2, NothingSeen
<1>6. CASE ~(g # NULL /\ g.block = b)
  <2>1. file'[t] = g
    BY <1>2, <1>3, <1>6
  <2>2. \A x \in Blocks : x # b => cache'[x] = cache[x]
    BY <1>2 DEF Forget
  <2>3. g # NULL /\ g.block \in Blocks => Contents'[g.block] = Contents[g.block]
    BY <1>2, <1>6, <2>2 DEF Contents, Content, Dirty
  <2>4. Remembers(g, r, Contents)
    BY <1>1, ReadsNow
  <2>5. PICK K, L : K = Contents /\ L = Contents'
    OBVIOUS
  <2>6. Remembers(g, n, L)
    BY <1>4, <2>3, <2>4, <2>5, SameSeen
  <2>7. QED BY <1>4, <2>1, <2>5, <2>6
<1>7. QED BY <1>5, <1>6

(* Writes.                                                                  *)
LEMMA WriteReads ==
  ASSUME StoreInv, ReadsInv, NEW t \in Sessions, NEW v \in Values, Write(t, v) \/ SetSize(t, v)
  PROVE  Remembers(file'[t], tr'[t], Contents')
<1>1. CASE Write(t, v)
  <2>1. Idle /\ tr[t].active /\ file[t] # NULL /\ UNCHANGED <<super, ctr, dev, calm, fs, com>>
    BY <1>1 DEF Write, Ready
  <2>2. PICK h : h = [file[t] EXCEPT !.used = TRUE, !.size = Size(v), !.saw = v]
    OBVIOUS
  <2>3. /\ h \in Handles /\ h.block = file[t].block /\ h.committed = file[t].committed
        /\ h.saw \in {NULL, v} /\ (h.saw # NULL => h.used)
    <3>1. file[t] \in Handles /\ Size(v) \in 0..1
      BY <2>1, IdleFacts, SizeFacts
    <3>2. QED BY <2>2, <3>1 DEF Handles
  <2>4. CASE h.block # 0 /\ Update(t, tr[t], h, v)
    BY <2>1, <2>3, <2>4, UpdateReads
  <2>5. CASE Fail(t)
    BY <2>1, <2>5, FailRequest, NothingSeen
  <2>6. QED BY <1>1, <2>2, <2>3, <2>4, <2>5 DEF Write
<1>2. CASE SetSize(t, v)
  <2>1. PICK h : /\ h \in Handles /\ h.block = file[t].block /\ h.committed = file[t].committed
                 /\ h.used = file[t].used /\ h.saw = (IF file[t].saw = NULL THEN NULL ELSE v)
                 /\ file[t].block # 0 /\ Update(t, tr[t], h, v)
                 /\ Idle /\ tr[t].active /\ file[t] # NULL
                 /\ UNCHANGED <<super, ctr, dev, calm, fs, com>>
    BY <1>2, SetSizeFacts
  <2>2. file[t].saw # NULL => file[t].used
    BY <2>1 DEF ReadsInv, SeenIsUsed
  <2>3. h.saw \in {NULL, v} /\ (h.saw # NULL => h.used)
    BY <2>1, <2>2
  <2>4. QED BY <2>1, <2>3, UpdateReads
<1>3. QED BY <1>1, <1>2

(* A commit begins: the new root is in no open file.                        *)
LEMMA PrepareReads ==
  ASSUME StoreInv, ReadsInv, NEW t \in Sessions, CommitPrepare(t)
  PROVE  Remembers(file'[t], tr'[t], Contents')
<1>1. Ready(t) /\ CanCommit(t) /\ fs.state = "up" /\ disk' = disk /\ file' = file
  BY DEF CommitPrepare, Ready, Idle
<1>2. PICK r, n, g, new, old :
        /\ r = tr[t] /\ n = tr'[t] /\ g = file[t] /\ new = Prepared(t).new
        /\ old = IF Changed(tr[t]) THEN {fs.files} \ {0} ELSE {}
  OBVIOUS
<1>3. /\ Prepared(t).tr = [r EXCEPT !.alloc = r.alloc \cup new, !.freed = r.freed \cup old]
      /\ \A x \in new : x \notin r.alloc /\ x \in fs.free
  BY <1>1, <1>2, PreparedFacts
<1>4. tr \in [Sessions -> Transactions] /\ r \in Transactions
  BY <1>2 DEF StoreInv, StoreTypes
<1>5. n = Prepared(t).tr
  BY <1>2, <1>4 DEF CommitPrepare, SetTr
<1>6. n.active = r.active
  BY <1>3, <1>4, <1>5 DEF Transactions
<1>7. \A b \in Blocks \ new : cache'[b] = cache[b]
  BY <1>2 DEF CommitPrepare
<1>8. g # NULL /\ g.block \in Blocks => g.block \notin new
  <2>1. SUFFICES ASSUME g # NULL, g.block \in Blocks PROVE g.block \notin new
    OBVIOUS
  <2>2. g.block \in r.alloc \/ g.block \in FileBlocks(Committed)
    BY <1>1, <1>2, <2>1, OpenBlock, ZeroNoBlock
  <2>3. FileBlocks(Committed) \cap fs.free = {}
    BY <1>1, AllocApart
  <2>4. QED BY <1>3, <2>2, <2>3
<1>9. g # NULL /\ g.block \in Blocks => Contents'[g.block] = Contents[g.block]
  BY <1>1, <1>7, <1>8 DEF Contents, Content, Dirty
<1>10. PICK K, L : K = Contents /\ L = Contents'
  OBVIOUS
<1>11. Remembers(g, r, K)
  BY <1>2, <1>10, ReadsNow
<1>12. Remembers(g, n, L)
  BY <1>6, <1>9, <1>10, <1>11, SameSeen
<1>13. QED BY <1>1, <1>2, <1>10, <1>12

(* The requests that tell the client something, and the ones that end a     *)
(* transaction or find none.                                                *)
LEMMA OtherReads ==
  ASSUME StoreInv, ReadsInv, NEW t \in Sessions,
         \/ Begin(t) \/ Read(t) \/ GetSize(t) \/ Close(t) \/ ClearFailed(t)
         \/ \E close \in BOOLEAN : Discard(t, close)
  PROVE  Remembers(file'[t], tr'[t], Contents')
<1>1. file \in [Sessions -> Handles \cup {NULL}] /\ tr \in [Sessions -> Transactions]
  BY DEF StoreInv, StoreTypes
<1>2. CASE Begin(t) \/ ClearFailed(t)
  <2>1. ~tr[t].active /\ file' = file
    BY <1>2, <1>1 DEF Begin, ClearFailed, StoreInv, SessionsOK, TransactionOK
  <2>2. file'[t] # NULL => file'[t].saw = NULL
    BY <2>1 DEF ReadsInv, SeenIsUsed
  <2>3. QED BY <2>2, NothingSeen
<1>3. CASE Read(t) \/ GetSize(t)
  <2>1. /\ UNCHANGED <<disk, cache, fs, tr>> /\ tr[t].active /\ fs.state = "up"
        /\ file'[t].block = file[t].block /\ file'[t].used
        /\ file'[t].saw = Content(file[t].block)[3]
    BY <1>3, ReadStep
  <2>2. file[t] # NULL /\ file[t].block # 0
    BY <1>3 DEF Read, GetSize
  <2>3. file[t].block \in Blocks
    BY <2>1, <2>2, OpenBlock
  <2>4. Contents' = Contents
    BY <2>1 DEF Contents, Content, Dirty
  <2>5. Contents'[file[t].block] = Content(file[t].block)
    BY <2>3, <2>4 DEF Contents
  <2>6. QED BY <2>1, <2>3, <2>5 DEF Remembers
<1>4. CASE Close(t)
  BY <1>1, <1>4 DEF Close, SetFile, Remembers
<1>5. CASE \E close \in BOOLEAN : Discard(t, close)
  <2>1. CASE SetFile(t, NULL)
    BY <1>1, <2>1 DEF SetFile, Remembers
  <2>2. CASE \E lost : SetFile(t, Restored(file[t], t \in lost))
    <3>1. PICK lost : SetFile(t, Restored(file[t], t \in lost))
      BY <2>2
    <3>2. PICK g, h : g = file[t] /\ h = Restored(g, t \in lost)
      OBVIOUS
    <3>3. g \in Handles \cup {NULL} /\ file'[t] = h
      BY <1>1, <3>1, <3>2 DEF SetFile
    <3>4. h # NULL => h.saw = NULL
      BY <3>2, <3>3 DEF Restored, Handle, Handles
    <3>5. QED BY <3>3, <3>4, NothingSeen
  <2>3. QED BY <1>5, <2>1, <2>2 DEF Discard
<1>6. QED BY <1>2, <1>3, <1>4, <1>5

(* The sessions that did not make the request.                              *)
LEMMA OthersReads ==
  ASSUME StoreInv, ReadsInv, NEW t \in Sessions, Others(t), NEW u \in Sessions \ {t}
  PROVE  Remembers(file'[u], tr'[u], Contents')
<1>1. PICK h, r, K, L : h = file[u] /\ r = tr[u] /\ K = Contents /\ L = Contents'
  OBVIOUS
<1>2. Remembers(h, r, K)
  BY <1>1, ReadsNow
<1>3. file'[u] = h /\ tr'[u] = r
  BY <1>1 DEF Others
<1>4. h # NULL /\ h.block \in Blocks => L[h.block] = K[h.block]
  BY <1>1, ZeroNoBlock DEF Others
<1>5. Remembers(h, r, L)
  BY <1>2, <1>4, SameSeen
<1>6. QED BY <1>1, <1>3, <1>5

LEMMA RequestReads ==
  ASSUME StoreInv, ReadsInv, NEW t \in Sessions, Request(t)
  PROVE  \A u \in Sessions : Remembers(file'[u], tr'[u], Contents')
<1>1. Others(t) /\ Uses(t) \subseteq Paths /\ Values \ {Empty} \subseteq Values
  BY RequestInv, StorageAssumption
<1>2. \A u \in Sessions \ {t} : Remembers(file'[u], tr'[u], Contents')
  BY <1>1, OthersReads
<1>3. Remembers(file'[t], tr'[t], Contents')
  <2>1. CASE \E p \in Uses(t) : Open(t, p) \/ OpenCreate(t, p) \/ Delete(t, p)
    <3>1. PICK p \in Paths : Open(t, p) \/ OpenCreate(t, p) \/ Delete(t, p)
      BY <1>1, <2>1
    <3>2. QED BY <3>1, OpenReads, DeleteReads
  <2>2. CASE (\E v \in Values \ {Empty} : Write(t, v)) \/ \E v \in Values : SetSize(t, v)
    <3>1. PICK v \in Values : Write(t, v) \/ SetSize(t, v)
      BY <1>1, <2>2
    <3>2. QED BY <3>1, WriteReads
  <2>3. CASE \/ Begin(t) \/ Read(t) \/ GetSize(t) \/ Close(t) \/ ClearFailed(t)
             \/ \E close \in BOOLEAN : Discard(t, close)
    BY <2>3, OtherReads
  <2>4. CASE ReadError(t) \/ CommitRefused(t)
    BY <2>4, FailingStep, NothingSeen
  <2>5. CASE CommitPrepare(t)
    BY <2>5, PrepareReads
  <2>6. QED BY <2>1, <2>2, <2>3, <2>4, <2>5 DEF Request
<1>4. QED BY <1>2, <1>3

(* The super block is written.  A session that saw its file and goes on has *)
(* an active transaction and a file that is marked, so that the file does   *)
(* not move; its block is not one that the commit frees.                    *)
LEMMA CommitReads ==
  ASSUME StoreInv, ReadsInv, CommitSuper
  PROVE  \A u \in Sessions : Remembers(file'[u], tr'[u], Contents')
<1>1. PICK t : t = com.tr
  OBVIOUS
<1>2. com # NULL /\ t \in Sessions
  BY <1>1, CommitSuperStep DEF CommitSuper, SuperWritable
<1>3. PICK F \in SUBSET (Sessions \ {t}) :
        /\ \A u \in Sessions \ (F \cup {t}) :
             /\ tr'[u] = tr[u] /\ file'[u] = Applied(t)[u]
             /\ \A b \in tr[u].alloc : Content(b)' = Content(b)
             /\ tr[u].active /\ file[u] # NULL /\ file[u].used => ~Moves(t, u)
        /\ \A b \in FileBlocks(Committed) \ tr[t].freed : Content(b)' = Content(b)
        /\ \A u \in F \cup {t} : file'[u] # NULL => file'[u].saw = NULL
  BY <1>1, CommitSuperStep
<1>4. ASSUME NEW u \in Sessions, u \in F \cup {t}
      PROVE  Remembers(file'[u], tr'[u], Contents')
  <2>1. file'[u] # NULL => file'[u].saw = NULL
    BY <1>3, <1>4
  <2>2. QED BY <2>1, NothingSeen
<1>5. PICK C, r, old : C = Committed /\ r = tr[t] /\ old = OldRoot(t)
  OBVIOUS
<1>6. /\ fs.state = "up" /\ r \in Transactions
      /\ TransactionOK(r, C, fs.free, Contents, NewRoot(t), old) /\ old \subseteq {fs.files}
  BY <1>1, <1>2, <1>5, CommitFacts DEF OldRoot
<1>7. /\ FileBlocks(C) \cap fs.free = {} /\ FileBlocks(C) \subseteq Blocks
      /\ \A b \in FileBlocks(C) : b # fs.files /\ b # 0 /\ \E p \in Paths : C[p] = b
  BY <1>5, <1>6, CommittedFacts, ZeroNoBlock
<1>8. ASSUME NEW u \in Sessions, u \notin F \cup {t}
      PROVE  Remembers(file'[u], tr'[u], Contents')
  <2>1. PICK g : g = file[u]
    OBVIOUS
  <2>2. /\ tr'[u] = tr[u] /\ file'[u] = Applied(t)[u]
        /\ \A b \in tr[u].alloc : Content(b)' = Content(b)
        /\ tr[u].active /\ g # NULL /\ g.used => ~Moves(t, u)
    BY <1>3, <1>8, <2>1
  <2>3. Applied(t)[u] = IF Moves(t, u)
          THEN [g EXCEPT !.block = ToCommit(t, u), !.committed = ToCommit(t, u),
                         !.size = FileSize(ToCommit(t, u))]
          ELSE g
    BY <1>8, <2>1 DEF Applied
  <2>4. CASE g = NULL
    <3>1. file'[u] = NULL
      BY <2>1, <2>2, <2>3, <2>4 DEF Moves
    <3>2. QED BY <3>1 DEF Remembers
  <2>5. CASE g # NULL /\ g.saw = NULL
    <3>1. g \in Handles
      BY <2>1, <2>5 DEF StoreInv, StoreTypes
    <3>2. file'[u].saw = NULL
      BY <2>2, <2>3, <2>5, <3>1 DEF Handles
    <3>3. QED BY <3>2, NothingSeen
  <2>6. CASE g # NULL /\ g.saw # NULL
    <3>1. g.block \in Blocks /\ g.block # 0 /\ g.used /\ tr[u].active
      BY <2>1, <2>6, ReadsNow, ZeroNoBlock DEF Remembers
    <3>2. ~Moves(t, u) /\ file'[u] = g
      BY <2>2, <2>3, <2>6, <3>1
    <3>3. PICK b, s, K, L : b = g.block /\ s = tr[u] /\ K = Contents /\ L = Contents'
      OBVIOUS
    <3>4. ASSUME b \in FileBlocks(C), b = g.committed PROVE Content(b)' = Content(b)
      <4>1. ToCommit(t, u) = b /\ b # 0
        BY <2>1, <2>6, <3>1, <3>2, <3>3, <3>4 DEF Moves
      <4>2. b \notin r.removed
        BY <1>5, <2>1, <3>4, <4>1 DEF ToCommit
      <4>3. r.updated[b] # 0 => r.updated[b] = b
        BY <1>5, <2>1, <3>4, <4>1, <4>2 DEF ToCommit
      <4>4. PICK p \in Paths : C[p] = b
        BY <1>7, <3>4
      <4>5. r.updated[b] # 0 => r.updated[b] \in fs.free
        BY <1>6, <4>1, <4>4 DEF TransactionOK
      <4>6. r.updated[b] = 0
        BY <1>7, <3>4, <4>3, <4>5
      <4>7. b \notin r.freed
        BY <1>6, <1>7, <3>4, <4>2, <4>6 DEF TransactionOK
      <4>8. QED BY <1>3, <1>5, <3>4, <4>7
    <3>5. ASSUME b \in tr[u].alloc PROVE Content(b)' = Content(b)
      BY <2>2, <3>5
    <3>6. Content(b)' = Content(b)
      BY <1>5, <1>6, <2>1, <2>6, <3>1, <3>3, <3>4, <3>5, OpenBlock
    <3>7. L[b] = K[b]
      BY <3>1, <3>3, <3>6 DEF Contents
    <3>8. Remembers(g, s, K)
      BY <2>1, <3>3, ReadsNow
    <3>9. Remembers(g, s, L)
      BY <3>3, <3>7, <3>8, SameSeen
    <3>10. QED BY <2>2, <3>2, <3>3, <3>9
  <2>7. QED BY <2>4, <2>5, <2>6
<1>9. QED BY <1>4, <1>8

(* Every step keeps what the clients were told.                             *)
LEMMA ReadsStep == StoreInv /\ ReadsInv /\ [Next]_vars => ReadsInv'
<1>1. SUFFICES ASSUME StoreInv, ReadsInv, [Next]_vars
               PROVE  \A u \in Sessions : Remembers(file'[u], tr'[u], Contents')
  BY ReadsNext
<1>2. CASE \E t \in Sessions : Request(t)
  BY <1>1, <1>2, RequestReads
<1>3. CASE \E b \in Blocks : WriteBlock(b)
  <2>1. PICK t \in Sessions :
          /\ Others(t)
          /\ \/ UNCHANGED <<tr, file>> /\ Contents' = Contents
             \/ tr'[t] = FailedTr /\ (file'[t] # NULL => file'[t].saw = NULL)
    BY <1>1, <1>3, WriteBlockStep
  <2>2. \A u \in Sessions \ {t} : Remembers(file'[u], tr'[u], Contents')
    BY <1>1, <2>1, OthersReads
  <2>3. CASE UNCHANGED <<tr, file>> /\ Contents' = Contents
    <3>1. Remembers(file[t], tr[t], Contents)
      BY <1>1, ReadsNow
    <3>2. QED BY <2>2, <2>3, <3>1
  <2>4. CASE file'[t] # NULL => file'[t].saw = NULL
    BY <2>2, <2>4, NothingSeen
  <2>5. QED BY <2>1, <2>3, <2>4
<1>4. CASE CommitAborts \/ Crash \/ CrashInSuper \/ \E b \in Blocks : CrashInBlock(b)
  <2>1. \A u \in Sessions : file'[u] = NULL
    BY <1>1, <1>4, HaltingStep
  <2>2. QED BY <2>1 DEF Remembers
<1>5. CASE CommitSuper
  BY <1>1, <1>5, CommitReads
<1>6. CASE Mount
  <2>1. UNCHANGED <<tr, file>> /\ \A u \in Sessions : ~tr[u].active
    BY <1>1, <1>6, MountStep DEF Inactive
  <2>2. \A u \in Sessions : file'[u] # NULL => file'[u].saw = NULL
    BY <1>1, <2>1 DEF ReadsInv, SeenIsUsed
  <2>3. QED BY <2>2, NothingSeen
<1>7. CASE UNCHANGED vars
  <2>1. file' = file /\ tr' = tr /\ Contents' = Contents
    BY <1>7 DEF vars, Contents, Content, Dirty
  <2>2. \A u \in Sessions : Remembers(file[u], tr[u], Contents)
    BY <1>1, ReadsNow
  <2>3. QED BY <2>1, <2>2
<1>8. QED BY <1>1, <1>2, <1>3, <1>4, <1>5, <1>6, <1>7 DEF Next

(* Reads can be repeated: what a client was told of its open file, by a     *)
(* read that returned something or by the size, or has written into it, is  *)
(* what the service would tell it again in the same transaction, whatever   *)
(* the other sessions commit.  file_apply_to_commit fails a transaction     *)
(* with a marked file that moves; ReadsInv adds that such a file is marked  *)
(* and its transaction active.                                              *)
THEOREM ReadsAreStable == Spec => []ReadsStable
<1>1. Init => ReadsInv
  BY DEF Init, ReadsInv, ReadsStable, SeenIsUsed
<1>2. StoreInv /\ ReadsInv /\ [Next]_vars => ReadsInv'
  BY ReadsStep
<1>3. ReadsInv => ReadsStable
  BY DEF ReadsInv
<1>4. QED BY <1>1, <1>2, <1>3, StoreInvHolds, PTL DEF Spec

----------------------------------------------------------------------------
(* The refinement.                                                          *)

(* What transaction r makes of file p, over committed files C and contents  *)
(* K of the blocks, and the files it creates.                               *)
ChangeOf(r, C, K, p) ==
  IF r.added[p] # 0 THEN K[r.added[p]][3]
  ELSE IF C[p] = 0 THEN Same
  ELSE IF C[p] \in r.removed THEN NoFile
  ELSE IF r.updated[C[p]] # 0 THEN K[r.updated[C[p]]][3]
  ELSE Same

CreatesOf(r, C) == {p \in Paths : r.added[p] # 0 /\ C[p] \notin r.removed}

(* These are the changes of a session, before a step,                       *)
LEMMA ChangesNow ==
  ASSUME NEW t \in Sessions, tr[t] \in Transactions, Committed \in FileMaps
  PROVE  /\ Changes[t] = [p \in Paths |-> ChangeOf(tr[t], Committed, Contents, p)]
         /\ Created[t] = CreatesOf(tr[t], Committed)
<1>1. PICK r, C : r = tr[t] /\ C = Committed
  OBVIOUS
<1>2. /\ \A p \in Paths : r.added[p] \in Blocks \/ r.added[p] = 0
      /\ \A p \in Paths : C[p] # 0 => C[p] \in Blocks
      /\ \A b \in Blocks : r.updated[b] \in Blocks \/ r.updated[b] = 0
  BY <1>1 DEF Transactions, FileMaps, BlockNumbers
<1>3. \A p \in Paths : Change(r, p) = ChangeOf(r, C, Contents, p)
  BY <1>1, <1>2 DEF Change, ChangeOf, Contents
<1>4. Changes[t] = [p \in Paths |-> Change(r, p)] /\ Created[t] = Creates(r)
  BY <1>1 DEF Changes, Created, Change, Creates
<1>5. QED BY <1>1, <1>3, <1>4 DEF Creates, CreatesOf

(* and after it.                                                            *)
LEMMA ChangesNext ==
  ASSUME NEW t \in Sessions, tr'[t] \in Transactions, Committed' \in FileMaps
  PROVE  /\ Changes'[t] = [p \in Paths |-> ChangeOf(tr'[t], Committed', Contents', p)]
         /\ Created'[t] = CreatesOf(tr'[t], Committed')
<1>1. PICK r, C : r = tr'[t] /\ C = Committed'
  OBVIOUS
<1>2. /\ \A p \in Paths : r.added[p] \in Blocks \/ r.added[p] = 0
      /\ \A p \in Paths : C[p] # 0 => C[p] \in Blocks
      /\ \A b \in Blocks : r.updated[b] \in Blocks \/ r.updated[b] = 0
  BY <1>1 DEF Transactions, FileMaps, BlockNumbers
<1>3. \A p \in Paths : Change(r, p)' = ChangeOf(r, C, Contents', p)
  BY <1>1, <1>2 DEF Change, ChangeOf, Contents
<1>4. Changes'[t] = [p \in Paths |-> Change(r, p)'] /\ Created'[t] = Creates(r)'
  BY <1>1 DEF Changes, Created, Change, Creates
<1>5. QED BY <1>1, <1>3, <1>4 DEF Creates, CreatesOf

(* What is pending, and what is stored, by the state of the transaction.    *)
LEMMA PendingFacts ==
  ASSUME StoreInv, fs.state = "up", NEW t \in Sessions, NEW p \in Paths,
         NEW r, r = tr[t], NEW C, C = Committed, NEW K, K = Contents
  PROVE  /\ r.added[p] # 0 => r.added[p] \in r.alloc /\ Changes[t][p] = K[r.added[p]][3]
                              /\ Changes[t][p] \in Values
         /\ r.added[p] = 0 /\ C[p] = 0 => Changes[t][p] = Same
         /\ r.added[p] = 0 /\ C[p] # 0 /\ C[p] \in r.removed => Changes[t][p] = NoFile
         /\ r.added[p] = 0 /\ C[p] # 0 /\ C[p] \notin r.removed /\ r.updated[C[p]] # 0
              => r.updated[C[p]] \in r.alloc /\ Changes[t][p] = K[r.updated[C[p]]][3]
                 /\ Changes[t][p] \in Values
         /\ r.added[p] = 0 /\ C[p] # 0 /\ C[p] \notin r.removed /\ r.updated[C[p]] = 0
              => Changes[t][p] = Same
         /\ p \in Created[t] <=> r.added[p] # 0 /\ C[p] \notin r.removed
         /\ C[p] = 0 => StoreOnDisk[p] = NoFile
         /\ C[p] # 0 => StoreOnDisk[p] = disk[C[p]][3] /\ StoreOnDisk[p] \in Values
         /\ 0 \notin r.removed
<1>1. r \in Transactions /\ C \in FileMaps
  BY UpFacts DEF StoreInv, StoreTypes
<1>2. Changes[t][p] = ChangeOf(r, C, K, p) /\ (p \in Created[t] <=> p \in CreatesOf(r, C))
  BY <1>1, ChangesNow
<1>3. TransactionOK(r, C, fs.free, K, NewRoot(t), OldRoot(t))
  BY DEF StoreInv, SessionsOK
<1>4. r.added[p] # 0 => r.added[p] \in r.alloc /\ IsFile(K[r.added[p]], p)
  BY <1>3 DEF TransactionOK
<1>5. C[p] # 0 /\ r.updated[C[p]] # 0 => r.updated[C[p]] \in r.alloc /\ IsFile(K[r.updated[C[p]]], p)
  BY <1>3 DEF TransactionOK
<1>6. /\ IsFile(K[r.added[p]], p) => K[r.added[p]][3] \in Values
      /\ IsFile(K[r.updated[C[p]]], p) => K[r.updated[C[p]]][3] \in Values
  BY FileFacts
<1>7. C[p] # 0 => disk[C[p]][3] \in Values
  BY CommittedFacts, FileFacts
<1>8. StoreOnDisk[p] = IF C[p] = 0 THEN NoFile ELSE disk[C[p]][3]
  BY CommittedFacts, UpFacts DEF StoreOnDisk
<1>9. 0 \notin r.removed
  BY <1>1, ZeroNoBlock DEF Transactions
<1>10. QED BY <1>2, <1>4, <1>5, <1>6, <1>7, <1>8, <1>9 DEF ChangeOf, CreatesOf

(* Contents, no file and no change are told apart.                          *)
LEMMA ValuesApart ==
  /\ \A v \in Values : v # NoFile /\ v # Same
  /\ NoFile # Same /\ Empty \in Values
BY StorageAssumption

(* A step of one session that leaves its changes alone.                     *)
LEMMA SameChanges ==
  ASSUME NEW t \in Sessions, Others(t), Changes'[t] = Changes[t], Created'[t] = Created[t]
  PROVE  UNCHANGED Abstract!vars
<1>1. \A u \in Sessions : Changes'[u] = Changes[u] /\ Created'[u] = Created[u]
  BY DEF Others
<1>2. Changes' = Changes /\ Created' = Created
  BY <1>1 DEF Changes, Created
<1>3. QED BY <1>2 DEF Others, Abstract!vars

(* A step that ends the transaction of one session drops its changes.       *)
LEMMA DroppedChanges ==
  ASSUME StoreInv, NEW t \in Sessions, Others(t), Committed \in FileMaps,
         tr'[t] = Inactive \/ tr'[t] = FailedTr
  PROVE  Abstract!Next
<1>1. PICK r : r = tr'[t]
  OBVIOUS
<1>2. r \in {Inactive, FailedTr} /\ Committed' = Committed /\ tr'[t] \in Transactions
  BY <1>1, RestFacts DEF Others
<1>3. /\ r.removed = {} /\ (\A b \in Blocks : r.updated[b] = 0)
      /\ \A p \in Paths : r.added[p] = 0
  BY <1>2, RestFacts
<1>4. PICK C : C = Committed
  OBVIOUS
<1>5. \A p \in Paths : C[p] # 0 => C[p] \in Blocks
  BY <1>4 DEF FileMaps, BlockNumbers
<1>6. \A p \in Paths : ChangeOf(r, C, Contents', p) = Same
  BY <1>3, <1>5 DEF ChangeOf
<1>7. CreatesOf(r, C) = {}
  BY <1>3 DEF CreatesOf
<1>8. Changes'[t] = Abstract!Unchanged /\ Created'[t] = {}
  BY <1>1, <1>2, <1>4, <1>6, <1>7, ChangesNext DEF Abstract!Unchanged
<1>9. \A u \in Sessions :
        /\ Changes'[u] = IF u \in {t} THEN Abstract!Unchanged ELSE Changes[u]
        /\ Created'[u] = IF u \in {t} THEN {} ELSE Created[u]
  BY <1>8 DEF Others
<1>10. /\ Changes' = [u \in Sessions |-> IF u \in {t} THEN Abstract!Unchanged ELSE Changes[u]]
       /\ Created' = [u \in Sessions |-> IF u \in {t} THEN {} ELSE Created[u]]
  BY <1>9 DEF Changes, Created
<1>11. StoreOnDisk' = StoreOnDisk
  BY DEF Others
<1>12. Abstract!Drop({})
  BY <1>10 DEF Abstract!Drop
<1>13. QED BY <1>11, <1>12 DEF Abstract!Abort, Abstract!Next

(* A step of one session that changes one file.                             *)
LEMMA OneChange ==
  ASSUME NEW t \in Sessions, Others(t), NEW p \in Paths, NEW v, Changes'[t][p] = v,
         \A q \in Paths \ {p} : Changes'[t][q] = Changes[t][q]
  PROVE  /\ Changes' = [Changes EXCEPT ![t][p] = v]
         /\ \A S : Created'[t] = S => Created' = [Created EXCEPT ![t] = S]
         /\ StoreOnDisk' = StoreOnDisk
<1>1. /\ Changes = [u \in Sessions |-> Changes[u]] /\ Changes' = [u \in Sessions |-> Changes'[u]]
      /\ Created = [u \in Sessions |-> Created[u]] /\ Created' = [u \in Sessions |-> Created'[u]]
  BY DEF Changes, Created
<1>2. /\ Changes[t] = [q \in Paths |-> Changes[t][q]]
      /\ Changes'[t] = [q \in Paths |-> Changes'[t][q]]
  BY DEF Changes
<1>3. \A u \in Sessions \ {t} : Changes'[u] = Changes[u] /\ Created'[u] = Created[u]
  BY DEF Others
<1>4. Changes'[t] = [Changes[t] EXCEPT ![p] = v]
  BY <1>2
<1>5. Changes' = [Changes EXCEPT ![t] = [Changes[t] EXCEPT ![p] = v]]
  BY <1>1, <1>3, <1>4
<1>6. \A S : Created'[t] = S => Created' = [Created EXCEPT ![t] = S]
  BY <1>1, <1>3
<1>7. QED BY <1>5, <1>6 DEF Others

(* file_open that creates a file is Create.                                 *)
LEMMA CreateRefines ==
  ASSUME StoreInv, NEW t \in Sessions, NEW p \in Paths, OpenCreate(t, p)
  PROVE  Abstract!Next
<1>1. StoreInv' /\ Others(t) /\ Idle /\ fs.state = "up" /\ Lookup(tr[t], p).block = 0
  BY OpenCreateStep DEF OpenCreate, Ready, Idle
<1>2. PICK r, C, K, b, n, L, l : /\ r = tr[t] /\ C = Committed /\ K = Contents
                                 /\ b = Lowest(Available) /\ n = tr'[t] /\ L = Contents'
                                 /\ l = Lookup(r, p)
  OBVIOUS
<1>3. r \in Transactions /\ C \in FileMaps /\ n \in Transactions /\ Committed' = C
  BY <1>1, <1>2, UpFacts DEF Others, StoreInv, StoreTypes
<1>4. CASE Fail(t)
  <2>1. tr'[t] = FailedTr
    BY <1>4 DEF Fail, FailFrom
  <2>2. QED BY <1>1, <1>2, <1>3, <2>1, DroppedChanges
<1>5. CASE /\ Available # {} /\ UNCHANGED disk
           /\ SetTr(t, [r EXCEPT !.alloc = @ \cup {b}, !.added[p] = b])
           /\ SetBlock(b, Entry(p, Empty))
  <2>1. b \in Blocks /\ b \notin r.alloc
    BY <1>1, <1>2, <1>5, AvailableFacts
  <2>2. n = [r EXCEPT !.alloc = @ \cup {b}, !.added[p] = b]
    BY <1>2, <1>5 DEF SetTr, StoreInv, StoreTypes
  <2>3. /\ n.added[p] = b /\ n.removed = r.removed /\ n.updated = r.updated
        /\ \A q \in Paths \ {p} : n.added[q] = r.added[q]
    BY <1>3, <2>2 DEF Transactions, FileMaps
  <2>4. Entry(p, Empty) # Junk /\ Entry(p, Empty)[3] = Empty
    BY FileFacts, ValuesApart DEF IsFile, Entry
  <2>5. cache' = [cache EXCEPT ![b] = Entry(p, Empty)] /\ disk' = disk
        /\ cache \in [Blocks -> Nodes]
    BY <1>5 DEF SetBlock, StoreInv, StoreTypes
  <2>6. L[b][3] = Empty /\ \A x \in Blocks : x # b => L[x] = K[x]
    BY <1>2, <2>1, <2>4, <2>5 DEF Contents, Content, Dirty
  <2>7. r.added[p] = 0 /\ (C[p] = 0 \/ C[p] \in r.removed)
    BY <1>1, <1>2, <1>3, ZeroNoBlock, LookupCases
  <2>8. b # 0 /\ r.alloc \subseteq Blocks
    BY <1>3, <2>1, ZeroNoBlock DEF Transactions
  <2>9. /\ Changes'[t] = [q \in Paths |-> ChangeOf(n, C, L, q)] /\ Created'[t] = CreatesOf(n, C)
        /\ Changes[t] = [q \in Paths |-> ChangeOf(r, C, K, q)] /\ Created[t] = CreatesOf(r, C)
    BY <1>2, <1>3, ChangesNow, ChangesNext
  <2>10. Changes'[t][p] = Empty
    BY <2>3, <2>6, <2>8, <2>9 DEF ChangeOf
  <2>11. ASSUME NEW q \in Paths \ {p} PROVE Changes'[t][q] = Changes[t][q]
    <3>1. r.added[q] # 0 => r.added[q] \in r.alloc
      BY <1>1, <1>2, PendingFacts
    <3>2. r.added[q] = 0 /\ C[q] # 0 /\ C[q] \notin r.removed /\ r.updated[C[q]] # 0
            => r.updated[C[q]] \in r.alloc
      BY <1>1, <1>2, PendingFacts
    <3>3. QED BY <2>1, <2>3, <2>6, <2>8, <2>9, <3>1, <3>2 DEF ChangeOf
  <2>12. 0 \notin r.removed /\ (Changes[t][p] = Same <=> C[p] \notin r.removed)
         /\ Abstract!View(t, p) = NoFile
    <3>1. /\ C[p] = 0 => Changes[t][p] = Same /\ StoreOnDisk[p] = NoFile
          /\ C[p] # 0 => Changes[t][p] = NoFile
          /\ 0 \notin r.removed
      BY <1>1, <1>2, <2>7, PendingFacts
    <3>2. QED BY <2>7, <3>1, ValuesApart DEF Abstract!View
  <2>13. Created'[t] = IF Changes[t][p] = Same THEN Created[t] \cup {p} ELSE Created[t]
    BY <2>3, <2>7, <2>8, <2>9, <2>12 DEF CreatesOf
  <2>14. /\ Changes' = [Changes EXCEPT ![t][p] = Empty] /\ StoreOnDisk' = StoreOnDisk
         /\ Created' = [Created EXCEPT ![t] = IF Changes[t][p] = Same
                                              THEN Created[t] \cup {p} ELSE Created[t]]
    BY <1>1, <2>10, <2>11, <2>13, OneChange
  <2>15. Abstract!Create(t, p)
    BY <2>12, <2>14 DEF Abstract!Create, Created
  <2>16. QED BY <2>15 DEF Abstract!Next
<1>6. QED BY <1>2, <1>4, <1>5 DEF OpenCreate

(* A step that gives file p the content v is Write.                         *)
LEMMA WriteRefines ==
  ASSUME NEW t \in Sessions, Others(t), NEW p \in Paths, NEW v \in Values,
         Abstract!View(t, p) # NoFile, Created'[t] = Created[t],
         Changes'[t][p] = v, \A q \in Paths \ {p} : Changes'[t][q] = Changes[t][q]
  PROVE  Abstract!Next
<1>1. /\ Changes' = [Changes EXCEPT ![t][p] = v] /\ StoreOnDisk' = StoreOnDisk
      /\ Created' = [Created EXCEPT ![t] = Created[t]]
  BY OneChange
<1>2. Created' = Created
  BY <1>1 DEF Created
<1>3. Abstract!Write(t, p, v)
  BY <1>1, <1>2 DEF Abstract!Write
<1>4. QED BY <1>3 DEF Abstract!Next

(* file_block_map_update in place.                                          *)
LEMMA InPlaceRefines ==
  ASSUME StoreInv, Idle, NEW t \in Sessions, Others(t), StoreInv', tr' = [tr EXCEPT ![t] = tr[t]],
         NEW r, r = tr[t], NEW C, C = Committed, NEW K, K = Contents,
         NEW h, NEW p \in Paths, Designates(h, r, C, K, p), h.block \in r.alloc,
         NEW v \in Values, NEW b, b = h.block, Contents' = Put(K, b, Entry(p, v))
  PROVE  Abstract!Next
<1>1. /\ fs.state = "up" /\ r \in Transactions /\ C \in FileMaps /\ Committed' = C
      /\ tr'[t] = r /\ b \in Blocks
  BY UpFacts DEF Idle, Others, StoreInv, StoreTypes, Designates
<1>2. PICK L : L = Contents'
  OBVIOUS
<1>3. L[b][3] = v /\ \A x \in Blocks : x # b => L[x] = K[x]
  BY <1>1, <1>2 DEF Contents, Entry, Put
<1>4. /\ Changes'[t] = [q \in Paths |-> ChangeOf(r, C, L, q)] /\ Created'[t] = CreatesOf(r, C)
      /\ Changes[t] = [q \in Paths |-> ChangeOf(r, C, K, q)] /\ Created[t] = CreatesOf(r, C)
  <2>1. tr[t] \in Transactions /\ tr'[t] \in Transactions /\ Committed \in FileMaps
        /\ Committed' \in FileMaps
    BY <1>1
  <2>2. Changes[t] = [q \in Paths |-> ChangeOf(r, C, K, q)] /\ Created[t] = CreatesOf(r, C)
    BY <2>1, ChangesNow
  <2>3. Changes'[t] = [q \in Paths |-> ChangeOf(tr'[t], Committed', Contents', q)]
        /\ Created'[t] = CreatesOf(tr'[t], Committed')
    BY <2>1, ChangesNext
  <2>4. QED BY <1>1, <1>2, <2>2, <2>3
<1>5. TransactionOK(r, C, fs.free, K, NewRoot(t), OldRoot(t))
  BY DEF StoreInv, SessionsOK
<1>6. b # 0 /\ r.alloc \subseteq Blocks
  BY <1>1, ZeroNoBlock DEF Transactions
<1>7. \/ b = r.added[p]
      \/ C[p] # 0 /\ C[p] \notin r.removed /\ r.added[p] = 0 /\ b = r.updated[C[p]]
  BY DEF Designates
<1>8. Changes'[t][p] = v
  BY <1>3, <1>4, <1>6, <1>7 DEF ChangeOf
<1>9. ASSUME NEW q \in Paths \ {p} PROVE Changes'[t][q] = Changes[t][q]
  <2>1. r.added[q] # 0 => r.added[q] \in r.alloc
    BY <1>1, PendingFacts
  <2>2. r.added[q] = 0 /\ C[q] # 0 /\ C[q] \notin r.removed /\ r.updated[C[q]] # 0
          => r.updated[C[q]] \in r.alloc
    BY <1>1, PendingFacts
  <2>3. PICK free, new, old : free = fs.free /\ new = NewRoot(t) /\ old = OldRoot(t)
    OBVIOUS
  <2>4. TransactionOK(r, C, free, K, new, old)
    BY <1>5, <2>3
  <2>5. /\ r.added[p] # 0 /\ r.added[p] = r.added[q] => p = q
        /\ C[p] # 0 /\ C[q] # 0 /\ r.updated[C[p]] # 0 /\ r.updated[C[p]] = r.updated[C[q]] => p = q
        /\ C[q] # 0 /\ r.added[p] # 0 => r.added[p] # r.updated[C[q]]
    BY <1>1, <2>4, OwnBlocks
  <2>6. C[p] # 0 /\ r.added[q] # 0 => r.added[q] # r.updated[C[p]]
    BY <1>1, <2>4, OwnBlocks
  <2>7. r.added[q] # 0 => r.added[q] # b
    BY <1>6, <1>7, <2>5, <2>6
  <2>8. C[q] # 0 /\ r.updated[C[q]] # 0 => r.updated[C[q]] # b
    BY <1>6, <1>7, <2>5
  <2>9. QED BY <1>3, <1>4, <1>6, <2>1, <2>2, <2>7, <2>8 DEF ChangeOf
<1>10. Abstract!View(t, p) # NoFile
  <2>1. Changes[t][p] \in Values
    BY <1>1, <1>6, <1>7, PendingFacts
  <2>2. QED BY <2>1, ValuesApart DEF Abstract!View
<1>11. QED BY <1>4, <1>8, <1>9, <1>10, WriteRefines

(* file_block_map_update in a copy.                                         *)
LEMMA CopyRefines ==
  ASSUME StoreInv, Idle, NEW t \in Sessions, Others(t), StoreInv', NEW p \in Paths,
         NEW r, r = tr[t], NEW o, o = Committed[p], o # 0, o \notin r.removed,
         r.added[p] = 0, r.updated[o] = 0,
         NEW b \in Blocks, b \notin r.alloc, tr'[t] = Copied(r, o, b),
         NEW v \in Values, Contents'[b][3] = v,
         \A x \in Blocks \ {b} : Contents'[x] = Contents[x]
  PROVE  Abstract!Next
<1>1. PICK C, K, L, n : C = Committed /\ K = Contents /\ L = Contents' /\ n = tr'[t]
  OBVIOUS
<1>2. /\ fs.state = "up" /\ r \in Transactions /\ C \in FileMaps /\ Committed' = C
  BY <1>1, UpFacts DEF Idle, Others, StoreInv, StoreTypes
<1>3. L[b][3] = v /\ \A x \in Blocks : x # b => L[x] = K[x]
  BY <1>1
<1>4. C[p] \in Blocks /\ C[p] # 0 /\ C[p] \notin r.removed /\ r.added[p] = 0 /\ r.updated[C[p]] = 0
  BY <1>1, <1>2 DEF FileMaps, BlockNumbers
<1>5. n = Copied(r, C[p], b) /\ n \in Transactions
  BY <1>1 DEF StoreInv, StoreTypes
<1>6. /\ n.added = r.added /\ n.removed = r.removed /\ n.updated[C[p]] = b
      /\ \A x \in Blocks : x # C[p] => n.updated[x] = r.updated[x]
  BY <1>2, <1>4, <1>5 DEF Copied, Transactions
<1>7. /\ Changes'[t] = [q \in Paths |-> ChangeOf(n, C, L, q)] /\ Created'[t] = CreatesOf(n, C)
      /\ Changes[t] = [q \in Paths |-> ChangeOf(r, C, K, q)] /\ Created[t] = CreatesOf(r, C)
  <2>1. tr[t] \in Transactions /\ tr'[t] \in Transactions /\ Committed \in FileMaps
        /\ Committed' \in FileMaps
    BY <1>1, <1>2, <1>5
  <2>2. Changes[t] = [q \in Paths |-> ChangeOf(r, C, K, q)] /\ Created[t] = CreatesOf(r, C)
    BY <1>1, <2>1, ChangesNow
  <2>3. Changes'[t] = [q \in Paths |-> ChangeOf(tr'[t], Committed', Contents', q)]
        /\ Created'[t] = CreatesOf(tr'[t], Committed')
    BY <2>1, ChangesNext
  <2>4. QED BY <1>1, <1>2, <2>2, <2>3
<1>8. b # 0 /\ r.alloc \subseteq Blocks
  BY <1>2, ZeroNoBlock DEF Transactions
<1>9. Changes'[t][p] = v
  BY <1>3, <1>4, <1>6, <1>7, <1>8 DEF ChangeOf
<1>10. ASSUME NEW q \in Paths \ {p} PROVE Changes'[t][q] = Changes[t][q]
  <2>1. r.added[q] # 0 => r.added[q] \in r.alloc
    BY <1>1, <1>2, PendingFacts
  <2>2. r.added[q] = 0 /\ C[q] # 0 /\ C[q] \notin r.removed /\ r.updated[C[q]] # 0
          => r.updated[C[q]] \in r.alloc
    BY <1>1, <1>2, PendingFacts
  <2>3. C[q] # 0 => C[q] # C[p] /\ C[q] \in Blocks
    BY <1>1, <1>2, CommittedFacts
  <2>4. C[q] # 0 => n.updated[C[q]] = r.updated[C[q]]
    BY <1>6, <2>3
  <2>5. ChangeOf(n, C, L, q) = ChangeOf(r, C, K, q)
    BY <1>3, <1>6, <1>8, <2>1, <2>2, <2>4 DEF ChangeOf
  <2>6. QED BY <1>7, <2>5
<1>11. Created'[t] = Created[t]
  BY <1>6, <1>7 DEF CreatesOf
<1>12. Abstract!View(t, p) # NoFile
  <2>1. Changes[t][p] = Same /\ StoreOnDisk[p] \in Values
    BY <1>1, <1>2, <1>4, PendingFacts
  <2>2. QED BY <2>1, ValuesApart DEF Abstract!View
<1>13. QED BY <1>9, <1>10, <1>11, <1>12, WriteRefines

(* file_block_map_update is Write, or it fails.                             *)
LEMMA UpdateRefines ==
  ASSUME StoreInv, Idle, NEW t \in Sessions, file[t] # NULL, tr[t].active, NEW h \in Handles,
         h.block = file[t].block, h.committed = file[t].committed, h.block # 0,
         NEW v \in Values, Update(t, tr[t], h, v), UNCHANGED <<super, ctr, dev, calm, fs, com>>
  PROVE  Abstract!Next
<1>1. PICK r, C, b, o, k : r = tr[t] /\ C = Committed /\ b = Lowest(Available) /\ o = h.block
                           /\ k = [h EXCEPT !.block = b]
  OBVIOUS
<1>2. StoreInv' /\ Others(t) /\ Committed \in FileMaps
  BY UpdateStep, UpFacts DEF Idle
<1>3. CASE \E p \in Paths :
             /\ Designates(h, r, C, Contents, p) /\ h.block \in r.alloc
             /\ tr' = [tr EXCEPT ![t] = r] /\ file' = [file EXCEPT ![t] = h]
             /\ SetBlock(h.block, Entry(p, v)) /\ UNCHANGED disk
  <2>1. PICK p \in Paths :
             /\ Designates(h, r, C, Contents, p) /\ h.block \in r.alloc
             /\ tr' = [tr EXCEPT ![t] = r] /\ file' = [file EXCEPT ![t] = h]
             /\ SetBlock(o, Entry(p, v)) /\ UNCHANGED disk
    BY <1>1, <1>3
  <2>2. UNCHANGED <<disk, super, ctr, dev, calm, fs, com>>
    BY <2>1
  <2>3. StoreInv' /\ Others(t) /\ Contents' = Put(Contents, o, Entry(p, v))
    BY <1>1, <2>1, <2>2, InPlaceStep
  <2>4. PICK K : K = Contents
    OBVIOUS
  <2>5. /\ tr' = [tr EXCEPT ![t] = tr[t]] /\ Designates(h, r, C, K, p)
        /\ Contents' = Put(K, o, Entry(p, v))
    BY <1>1, <2>1, <2>3, <2>4
  <2>6. QED BY <1>1, <1>2, <2>1, <2>4, <2>5, InPlaceRefines
<1>4. CASE \E p \in Paths :
             /\ Designates(h, r, C, Contents, p) /\ h.block \notin r.alloc
             /\ Available # {}
             /\ tr' = [tr EXCEPT ![t] = Copied(r, h.block, Lowest(Available))]
             /\ file' = [file EXCEPT ![t] = [h EXCEPT !.block = Lowest(Available)]]
             /\ SetBlock(Lowest(Available), Entry(p, v)) /\ UNCHANGED disk
  <2>1. PICK n : n = Copied(r, o, b)
    OBVIOUS
  <2>2. PICK p \in Paths :
             /\ Designates(h, r, C, Contents, p) /\ h.block \notin r.alloc
             /\ Available # {}
             /\ tr' = [tr EXCEPT ![t] = n] /\ file' = [file EXCEPT ![t] = k]
             /\ SetBlock(b, Entry(p, v)) /\ UNCHANGED disk
    BY <1>1, <1>4, <2>1
  <2>3. UNCHANGED <<disk, super, ctr, dev, calm, fs, com>>
    BY <2>2
  <2>4. b \in Blocks /\ b \notin r.alloc
    BY <1>1, <2>2, AvailableFacts
  <2>5. Entry(p, v) # Junk /\ Entry(p, v)[3] = v
    BY FileFacts DEF IsFile, Entry
  <2>6. cache' = [cache EXCEPT ![b] = Entry(p, v)] /\ disk' = disk /\ cache \in [Blocks -> Nodes]
    BY <2>2 DEF SetBlock, StoreInv, StoreTypes
  <2>7. Contents'[b][3] = v /\ \A x \in Blocks \ {b} : Contents'[x] = Contents[x]
    BY <2>4, <2>5, <2>6 DEF Contents, Content, Dirty
  <2>8. PICK c : c = Committed[p]
    OBVIOUS
  <2>9. c # 0 /\ c \notin r.removed /\ r.added[p] = 0 /\ r.updated[c] = 0 /\ o = c
    BY <1>1, <2>2, <2>8 DEF Designates
  <2>10. tr'[t] = Copied(r, c, b)
    BY <2>1, <2>2, <2>9 DEF StoreInv, StoreTypes
  <2>11. QED BY <1>1, <1>2, <2>4, <2>7, <2>8, <2>9, <2>10, CopyRefines
<1>5. CASE Fail(t)
  <2>1. tr'[t] = FailedTr
    BY <1>5 DEF Fail, FailFrom
  <2>2. QED BY <1>2, <2>1, DroppedChanges
<1>6. QED
  <2>1. Update(t, r, h, v)
    BY <1>1
  <2>2. QED BY <1>1, <1>3, <1>4, <1>5, <2>1, UpdateCases

(* storage_file_write and storage_file_set_size.                            *)
LEMMA WritesRefine ==
  ASSUME StoreInv, NEW t \in Sessions,
         (\E v \in Values \ {Empty} : Write(t, v)) \/ \E v \in Values : SetSize(t, v)
  PROVE  Abstract!Next
<1>1. /\ Idle /\ tr[t].active /\ file[t] # NULL /\ UNCHANGED <<super, ctr, dev, calm, fs, com>>
  BY DEF Write, SetSize, Ready
<1>2. file[t] \in Handles /\ Empty \in Values /\ Committed \in FileMaps
  BY <1>1, IdleFacts, UpFacts, ValuesApart DEF Idle
<1>3. CASE \E v \in Values \ {Empty} : Write(t, v)
  <2>1. PICK v \in Values : Write(t, v)
    BY <1>3
  <2>2. PICK h : h = [file[t] EXCEPT !.used = TRUE, !.size = Size(v), !.saw = v]
    OBVIOUS
  <2>3. h \in Handles /\ h.block = file[t].block /\ h.committed = file[t].committed
    <3>1. Size(v) \in 0..1
      BY SizeFacts
    <3>2. QED BY <1>2, <2>2, <3>1 DEF Handles
  <2>4. CASE h.block # 0 /\ Update(t, tr[t], h, v)
    BY <1>1, <2>3, <2>4, UpdateRefines
  <2>5. CASE Fail(t)
    <3>1. tr'[t] = FailedTr
      BY <2>5 DEF Fail, FailFrom
    <3>2. Others(t)
      BY <2>1, WriteStep
    <3>3. QED BY <1>2, <3>1, <3>2, DroppedChanges
  <2>6. QED BY <2>1, <2>2, <2>3, <2>4, <2>5 DEF Write
<1>4. CASE \E v \in Values : SetSize(t, v)
  <2>1. PICK v \in Values : SetSize(t, v)
    BY <1>4
  <2>2. PICK h \in Handles : /\ h.block = file[t].block /\ h.committed = file[t].committed
                             /\ file[t].block # 0 /\ Update(t, tr[t], h, v)
    BY <2>1, SetSizeFacts
  <2>3. QED BY <1>1, <2>2, UpdateRefines
<1>5. QED BY <1>3, <1>4

(* file_delete is Remove.                                                   *)
LEMMA DeleteRefines ==
  ASSUME StoreInv, NEW t \in Sessions, NEW p \in Paths, Delete(t, p)
  PROVE  Abstract!Next
<1>1. PICK r, C, K, L, l, n, free :
        /\ r = tr[t] /\ C = Committed /\ K = Contents /\ L = Contents' /\ l = Lookup(r, p)
        /\ n = Deleted(r, p) /\ free = fs.free
  OBVIOUS
<1>2. /\ Idle /\ fs.state = "up" /\ l.block # 0 /\ disk' = disk
      /\ tr' = [tr EXCEPT ![t] = n]
      /\ cache' = IF l.block \in r.alloc THEN Forget(cache, {l.block}) ELSE cache
  BY <1>1 DEF Delete, Ready, SetTr, Idle
<1>3. StoreInv' /\ Others(t)
  BY DeleteStep
<1>4. /\ r \in Transactions /\ TransactionOK(r, C, free, K, {}, {})
      /\ C \in FileMaps /\ FileBlocks(C) \cap free = {}
      /\ \A x, y \in Paths : C[x] = C[y] /\ C[x] # 0 => x = y
      /\ \A x \in Paths : C[x] # 0 => C[x] \in Blocks
  BY <1>1, <1>2, IdleFacts, CommittedFacts
<1>5. /\ n \in Transactions
      /\ n.added[p] = 0 /\ \A q \in Paths : q # p => n.added[q] = r.added[q]
      /\ n.alloc = r.alloc \ {l.block}
      /\ \/ /\ l.committed = 0 /\ l.block = r.added[p] /\ r.added[p] # 0
            /\ n.removed = r.removed
            /\ \A b \in Blocks : n.updated[b] = r.updated[b]
         \/ /\ l.committed = C[p] /\ C[p] # 0 /\ C[p] \in Blocks /\ r.added[p] = 0
            /\ C[p] \notin r.removed
            /\ n.removed = r.removed \cup {C[p]}
            /\ n.updated[C[p]] = 0
            /\ \A b \in Blocks : b # C[p] => n.updated[b] = r.updated[b]
  BY <1>1, <1>2, <1>4, DeletedCases
<1>6. tr'[t] = n /\ Committed' = C /\ cache \in [Blocks -> Nodes]
  BY <1>1, <1>2, <1>3 DEF Others, StoreInv, StoreTypes
<1>7. \A x \in n.alloc : x \in Blocks /\ L[x] = K[x]
  <2>1. \A x \in Blocks : l.block \notin r.alloc \/ x # l.block => cache'[x] = cache[x]
    BY <1>2, <1>6, ForgetFacts
  <2>2. n.alloc \subseteq Blocks
    BY <1>5 DEF Transactions
  <2>3. QED BY <1>1, <1>2, <1>5, <2>1, <2>2 DEF Contents, Content, Dirty
<1>8. \A q \in Paths : /\ n.added[q] # 0 => n.added[q] \in n.alloc
                       /\ C[q] # 0 /\ n.updated[C[q]] # 0 => n.updated[C[q]] \in n.alloc
  BY <1>3, <1>6 DEF StoreInv, SessionsOK, TransactionOK
<1>9. Changes'[t] = [q \in Paths |-> ChangeOf(n, C, L, q)] /\ Created'[t] = CreatesOf(n, C)
  BY <1>1, <1>4, <1>5, <1>6, ChangesNext
<1>10. Changes[t] = [q \in Paths |-> ChangeOf(r, C, K, q)] /\ Created[t] = CreatesOf(r, C)
  BY <1>1, <1>4, ChangesNow
<1>11. ASSUME NEW q \in Paths \ {p} PROVE Changes'[t][q] = Changes[t][q]
  <2>1. C[q] # 0 => n.updated[C[q]] = r.updated[C[q]] /\ (C[q] \in n.removed <=> C[q] \in r.removed)
    BY <1>4, <1>5
  <2>2. n.added[q] = r.added[q]
    BY <1>5
  <2>3. ChangeOf(n, C, L, q) = ChangeOf(r, C, K, q)
    BY <1>7, <1>8, <2>1, <2>2 DEF ChangeOf
  <2>4. QED BY <1>9, <1>10, <2>3
<1>12. 0 \notin r.removed /\ (r.added[p] # 0 => Changes[t][p] \in Values)
       /\ (p \in Created[t] <=> r.added[p] # 0 /\ C[p] \notin r.removed)
       /\ (r.added[p] # 0 /\ C[p] # 0 => r.updated[C[p]] = 0)
  <2>1. r.added[p] # 0 /\ C[p] # 0 => r.updated[C[p]] = 0
    BY <1>4 DEF TransactionOK
  <2>2. QED BY <1>1, <1>2, <2>1, PendingFacts
<1>13. Changes'[t][p] = IF p \in Created[t] THEN Same ELSE NoFile
  <2>1. ChangeOf(n, C, L, p) = IF p \in Created[t] THEN Same ELSE NoFile
    BY <1>4, <1>5, <1>12 DEF ChangeOf
  <2>2. QED BY <1>9, <2>1
<1>14. Created'[t] = Created[t] \ {p}
  <2>1. \A q \in Paths \ {p} : C[q] \in n.removed <=> C[q] \in r.removed
    BY <1>4, <1>5
  <2>2. QED BY <1>5, <1>9, <1>10, <2>1 DEF CreatesOf
<1>15. Abstract!View(t, p) # NoFile
  <2>1. CASE r.added[p] # 0
    BY <1>12, <2>1, ValuesApart DEF Abstract!View
  <2>2. CASE r.added[p] = 0
    <3>1. C[p] # 0 /\ C[p] \notin r.removed
      BY <1>5, <2>2
    <3>2. \/ Changes[t][p] \in Values
          \/ Changes[t][p] = Same /\ StoreOnDisk[p] \in Values
      BY <1>1, <1>2, <2>2, <3>1, PendingFacts
    <3>3. QED BY <3>2, ValuesApart DEF Abstract!View
  <2>3. QED BY <2>1, <2>2
<1>16. /\ Changes' = [Changes EXCEPT ![t][p] = IF p \in Created[t] THEN Same ELSE NoFile]
       /\ Created' = [Created EXCEPT ![t] = Created[t] \ {p}] /\ StoreOnDisk' = StoreOnDisk
  BY <1>3, <1>11, <1>13, <1>14, OneChange
<1>17. Abstract!Remove(t, p)
  BY <1>15, <1>16 DEF Abstract!Remove, Created
<1>18. QED BY <1>17 DEF Abstract!Next

(* A step of one session that leaves what its transaction says of the files *)
(* and the contents of its blocks.                                          *)
LEMMA QuietRefines ==
  ASSUME StoreInv, fs.state = "up", NEW t \in Sessions, Others(t), StoreInv',
         tr'[t].added = tr[t].added, tr'[t].updated = tr[t].updated,
         tr'[t].removed = tr[t].removed,
         \A x \in tr[t].alloc : Contents'[x] = Contents[x]
  PROVE  UNCHANGED Abstract!vars
<1>1. PICK r, n, C, K, L : /\ r = tr[t] /\ n = tr'[t] /\ C = Committed /\ K = Contents
                           /\ L = Contents'
  OBVIOUS
<1>2. /\ r \in Transactions /\ n \in Transactions /\ C \in FileMaps /\ Committed' = C
  BY <1>1, UpFacts DEF Others, StoreInv, StoreTypes
<1>3. Changes[t] = [q \in Paths |-> ChangeOf(r, C, K, q)] /\ Created[t] = CreatesOf(r, C)
  BY <1>1, <1>2, ChangesNow
<1>4. Changes'[t] = [q \in Paths |-> ChangeOf(n, C, L, q)] /\ Created'[t] = CreatesOf(n, C)
  BY <1>1, <1>2, ChangesNext
<1>5. /\ n.added = r.added /\ n.updated = r.updated /\ n.removed = r.removed
      /\ \A x \in r.alloc : L[x] = K[x]
  BY <1>1
<1>6. ASSUME NEW q \in Paths PROVE ChangeOf(n, C, L, q) = ChangeOf(r, C, K, q)
  <2>1. r.added[q] # 0 => r.added[q] \in r.alloc
    BY <1>1, PendingFacts
  <2>2. r.added[q] = 0 /\ C[q] # 0 /\ C[q] \notin r.removed /\ r.updated[C[q]] # 0
          => r.updated[C[q]] \in r.alloc
    BY <1>1, PendingFacts
  <2>3. QED BY <1>5, <2>1, <2>2 DEF ChangeOf
<1>7. CreatesOf(n, C) = CreatesOf(r, C)
  BY <1>5 DEF CreatesOf
<1>8. Changes'[t] = Changes[t] /\ Created'[t] = Created[t]
  BY <1>3, <1>4, <1>6, <1>7
<1>9. QED BY <1>8, SameChanges

(* Requests that change no file.                                            *)
LEMMA ReadingRefines ==
  ASSUME StoreInv, NEW t \in Sessions, Request(t),
         UNCHANGED <<disk, cache, fs>>,
         tr'[t] = tr[t] \/ (tr[t] = Inactive /\ tr'[t] = [Inactive EXCEPT !.active = TRUE])
  PROVE  UNCHANGED Abstract!vars \/ fs.state # "up"
<1>1. StoreInv' /\ Others(t)
  BY RequestInv
<1>2. /\ tr'[t].added = tr[t].added /\ tr'[t].updated = tr[t].updated
      /\ tr'[t].removed = tr[t].removed
  BY DEF Inactive
<1>3. Contents' = Contents
  BY DEF Contents, Content, Dirty
<1>4. QED BY <1>1, <1>2, <1>3, QuietRefines

(* transaction_complete, up to the first write.                             *)
LEMMA PrepareRefines ==
  ASSUME StoreInv, NEW t \in Sessions, CommitPrepare(t)
  PROVE  UNCHANGED Abstract!vars
<1>1. StoreInv' /\ Others(t)
  BY CommitPrepareStep
<1>2. Ready(t) /\ CanCommit(t) /\ fs.state = "up" /\ disk' = disk
  BY DEF CommitPrepare, Ready, Idle
<1>3. PICK r, n, new, old :
        /\ r = tr[t] /\ n = tr'[t] /\ new = Prepared(t).new
        /\ old = IF Changed(tr[t]) THEN {fs.files} \ {0} ELSE {}
  OBVIOUS
<1>4. /\ Prepared(t).tr = [r EXCEPT !.alloc = r.alloc \cup new, !.freed = r.freed \cup old]
      /\ \A x \in new : x \notin r.alloc
  BY <1>2, <1>3, PreparedFacts
<1>5. /\ tr \in [Sessions -> Transactions] /\ r \in Transactions /\ cache \in [Blocks -> Nodes]
      /\ r.alloc \subseteq Blocks
  BY <1>3 DEF StoreInv, StoreTypes, Transactions
<1>6. n = Prepared(t).tr
  BY <1>3, <1>5 DEF CommitPrepare, SetTr
<1>7. n.added = r.added /\ n.updated = r.updated /\ n.removed = r.removed
  BY <1>4, <1>5, <1>6 DEF Transactions
<1>8. cache' = [b \in Blocks |-> IF b \in new THEN FilesNode(NewFiles(tr[t])) ELSE cache[b]]
  BY <1>3 DEF CommitPrepare
<1>9. \A x \in r.alloc : cache'[x] = cache[x]
  BY <1>4, <1>5, <1>8
<1>10. \A x \in r.alloc : Contents'[x] = Contents[x]
  BY <1>2, <1>5, <1>9 DEF Contents, Content, Dirty
<1>11. QED BY <1>1, <1>2, <1>3, <1>7, <1>10, QuietRefines

(* The requests of a session.                                               *)
LEMMA RequestRefines ==
  ASSUME StoreInv, NEW t \in Sessions, Request(t)
  PROVE  Abstract!Next \/ UNCHANGED Abstract!vars
<1>1. Others(t) /\ Uses(t) \subseteq Paths
  BY RequestInv, StorageAssumption
<1>2. tr \in [Sessions -> Transactions]
  BY DEF StoreInv, StoreTypes
<1>3. CASE Begin(t)
  <2>1. tr[t] \in {Inactive, FailedTr} /\ ~tr[t].failed
    BY <1>3 DEF StoreInv, SessionsOK, TransactionOK, Begin
  <2>2. tr[t] = Inactive
    BY <2>1 DEF FailedTr, Inactive
  <2>3. /\ UNCHANGED <<disk, cache, fs>> /\ fs.state = "up"
        /\ tr'[t] = [Inactive EXCEPT !.active = TRUE]
    BY <1>2, <1>3 DEF Begin, Idle
  <2>4. QED BY <2>2, <2>3, ReadingRefines
<1>4. CASE (\E p \in Uses(t) : Open(t, p)) \/ Read(t) \/ GetSize(t) \/ Close(t)
  <2>1. UNCHANGED <<disk, cache, fs, tr>> /\ fs.state = "up"
    BY <1>4, ReadStep DEF Open, Close, Ready, Idle
  <2>2. QED BY <2>1, ReadingRefines
<1>5. CASE \E p \in Uses(t) : OpenCreate(t, p)
  BY <1>1, <1>5, CreateRefines
<1>6. CASE \E p \in Uses(t) : Delete(t, p)
  BY <1>1, <1>6, DeleteRefines
<1>7. CASE (\E v \in Values \ {Empty} : Write(t, v)) \/ \E v \in Values : SetSize(t, v)
  BY <1>7, WritesRefine
<1>8. CASE \/ ReadError(t) \/ CommitRefused(t) \/ ClearFailed(t)
           \/ \E close \in BOOLEAN : Discard(t, close)
  <2>1. fs.state = "up"
    BY <1>8 DEF ReadError, CommitRefused, ClearFailed, Discard, Ready, Idle
  <2>2. Committed \in FileMaps
    BY <2>1, UpFacts
  <2>3. CASE ReadError(t) \/ CommitRefused(t)
    <3>1. tr'[t] = FailedTr
      BY <2>3, FailingStep
    <3>2. QED BY <1>1, <2>2, <3>1, DroppedChanges
  <2>4. CASE ClearFailed(t) \/ \E close \in BOOLEAN : Discard(t, close)
    <3>1. tr'[t] = Inactive
      BY <1>2, <2>4 DEF ClearFailed, Discard, SetTr
    <3>2. QED BY <1>1, <2>2, <3>1, DroppedChanges
  <2>5. QED BY <1>8, <2>3, <2>4
<1>9. CASE CommitPrepare(t)
  BY <1>9, PrepareRefines
<1>10. QED BY <1>3, <1>4, <1>5, <1>6, <1>7, <1>8, <1>9 DEF Request

(* The super block about to be written holds what transaction t sees, and   *)
(* what t creates is not there yet.                                         *)
LEMMA CommitView ==
  ASSUME StoreInv, SuperWritable, NEW t, t = com.tr
  PROVE  /\ t \in Sessions /\ \A p \in Created[t] : StoreOnDisk[p] = NoFile
         /\ FilesOn(NewSupers(SuperImage(NextVersion(fs.version))), disk)
              = [p \in Paths |-> Abstract!View(t, p)]
<1>1. PICK img, s, r, C, K, N, used :
        /\ img = SuperImage(NextVersion(fs.version)) /\ s = NewSupers(img) /\ r = tr[t]
        /\ C = Committed /\ K = Contents /\ N = NewFiles(r) /\ used = Below(fs.files, disk)
  OBVIOUS
<1>2. com # NULL
  BY DEF SuperWritable
<1>3. t \in Sessions /\ fs.state = "up" /\ r \in Transactions /\ CommitOK(t)
  BY <1>1, <1>2, CommitFacts
<1>4. /\ Chosen(s) = img /\ img.files = com.files /\ FilesAt(com.files, disk) = N
      /\ \A b \in r.alloc : K[b] = disk[b]
      /\ Renewed(N, r, C, K, used)
  BY <1>1, NewSuperFacts
<1>5. C \in FileMaps /\ (\A p \in Paths : C[p] # 0 => C[p] \in Blocks)
  BY <1>1, <1>3, CommittedFacts
<1>6. \A p \in Paths : r.added[p] # 0 => (C[p] = 0 \/ C[p] \in r.removed)
  <2> TAKE p \in Paths
  <2>1. HAVE r.added[p] # 0
  <2>2. ~AddConflicts(r)
    BY <1>1, <1>3 DEF CommitOK
  <2>3. Kept(r)[p] = 0
    BY <2>1, <2>2 DEF AddConflicts
  <2>4. QED BY <1>1, <2>3 DEF Kept
<1>7. ASSUME NEW p \in Created[t] PROVE StoreOnDisk[p] = NoFile
  <2>1. p \in Paths
    BY <1>3 DEF Created, Creates
  <2>2. r.added[p] # 0 /\ C[p] \notin r.removed
    BY <1>1, <1>3, <2>1, PendingFacts
  <2>3. C[p] = 0
    BY <1>6, <2>1, <2>2
  <2>4. QED BY <1>1, <1>3, <2>1, <2>3, PendingFacts
<1>8. ASSUME NEW p \in Paths
      PROVE  (IF N[p] = 0 THEN NoFile ELSE disk[N[p]][3]) = Abstract!View(t, p)
  <2>1. CASE r.added[p] # 0
    <3>1. /\ r.added[p] \in r.alloc /\ Changes[t][p] = K[r.added[p]][3]
          /\ Changes[t][p] \in Values
      BY <1>1, <1>3, <2>1, PendingFacts
    <3>2. N[p] = r.added[p]
      BY <1>4, <2>1 DEF Renewed
    <3>3. QED BY <1>4, <2>1, <3>1, <3>2, ValuesApart DEF Abstract!View
  <2>2. CASE r.added[p] = 0 /\ C[p] = 0
    <3>1. Changes[t][p] = Same /\ StoreOnDisk[p] = NoFile
      BY <1>1, <1>3, <2>2, PendingFacts
    <3>2. N[p] = 0
      BY <1>4, <2>2 DEF Renewed
    <3>3. QED BY <3>1, <3>2 DEF Abstract!View
  <2>3. CASE r.added[p] = 0 /\ C[p] # 0 /\ C[p] \in r.removed
    <3>1. Changes[t][p] = NoFile
      BY <1>1, <1>3, <2>3, PendingFacts
    <3>2. N[p] = 0
      BY <1>4, <2>3 DEF Renewed
    <3>3. QED BY <3>1, <3>2, ValuesApart DEF Abstract!View
  <2>4. CASE r.added[p] = 0 /\ C[p] # 0 /\ C[p] \notin r.removed /\ r.updated[C[p]] # 0
    <3>1. /\ r.updated[C[p]] \in r.alloc /\ Changes[t][p] = K[r.updated[C[p]]][3]
          /\ Changes[t][p] \in Values
      BY <1>1, <1>3, <2>4, PendingFacts
    <3>2. N[p] = r.updated[C[p]]
      BY <1>4, <2>4 DEF Renewed
    <3>3. QED BY <1>4, <2>4, <3>1, <3>2, ValuesApart DEF Abstract!View
  <2>5. CASE r.added[p] = 0 /\ C[p] # 0 /\ C[p] \notin r.removed /\ r.updated[C[p]] = 0
    <3>1. Changes[t][p] = Same /\ StoreOnDisk[p] = disk[C[p]][3]
      BY <1>1, <1>3, <2>5, PendingFacts
    <3>2. N[p] = C[p]
      <4>1. N[p] = IF r.added[p] # 0 THEN r.added[p] ELSE Kept(r)[p]
        BY <1>1 DEF NewFiles
      <4>2. Kept(r)[p] = C[p]
        BY <1>1, <2>5 DEF Kept
      <4>3. QED BY <2>5, <4>1, <4>2
    <3>3. QED BY <2>5, <3>1, <3>2 DEF Abstract!View
  <2>6. QED BY <2>1, <2>2, <2>3, <2>4, <2>5
<1>9. FilesOn(s, disk) = [p \in Paths |-> IF N[p] = 0 THEN NoFile ELSE disk[N[p]][3]]
  BY <1>4 DEF FilesOn
<1>10. FilesOn(s, disk) = [p \in Paths |-> Abstract!View(t, p)]
  BY <1>8, <1>9
<1>11. QED BY <1>1, <1>3, <1>7, <1>10

(* A crash, a failed write or an assertion drops every transaction; the     *)
(* store is as before or as the one that was committing has made it.        *)
LEMMA HaltRefines ==
  ASSUME StoreInv,
         CommitAborts \/ Crash \/ CrashInSuper \/ \E b \in Blocks : CrashInBlock(b)
  PROVE  Abstract!Next
<1>1. /\ NonePending'
      /\ \/ StoreOnDisk' = StoreOnDisk
         \/ /\ SuperWritable
            /\ StoreOnDisk' = FilesOn(NewSupers(SuperImage(NextVersion(fs.version))), disk)
  BY HaltingStep
<1>2. \A u \in Sessions : Changes'[u] = Abstract!Unchanged /\ Created'[u] = {}
  BY <1>1 DEF NonePending, Abstract!Unchanged
<1>3. /\ Changes' = [u \in Sessions |-> IF u \in Sessions THEN Abstract!Unchanged ELSE Changes[u]]
      /\ Created' = [u \in Sessions |-> IF u \in Sessions THEN {} ELSE Created[u]]
  BY <1>2 DEF Changes, Created
<1>4. \A D \in SUBSET Sessions : Abstract!Drop(D)
  BY <1>3 DEF Abstract!Drop
<1>5. CASE StoreOnDisk' = StoreOnDisk
  <2>1. Abstract!Abort
    BY <1>4, <1>5 DEF Abstract!Abort
  <2>2. QED BY <2>1 DEF Abstract!Next
<1>6. CASE /\ SuperWritable
           /\ StoreOnDisk' = FilesOn(NewSupers(SuperImage(NextVersion(fs.version))), disk)
  <2>1. PICK t : t = com.tr
    OBVIOUS
  <2>2. /\ t \in Sessions /\ \A p \in Created[t] : StoreOnDisk[p] = NoFile
        /\ StoreOnDisk' = [p \in Paths |-> Abstract!View(t, p)]
    BY <1>6, <2>1, CommitView
  <2>3. Abstract!Losers(t) \cup {t} \in SUBSET Sessions
    BY <2>2 DEF Abstract!Losers
  <2>4. Abstract!Drop(Abstract!Losers(t) \cup {t})
    BY <1>4, <2>3
  <2>5. Abstract!Commit(t)
    BY <2>2, <2>4 DEF Abstract!Commit
  <2>6. QED BY <2>2, <2>5 DEF Abstract!Next
<1>7. QED BY <1>1, <1>5, <1>6

(* A transaction s that has freed nothing that r frees means the same over  *)
(* the files N that r has made as over C.                                   *)
LEMMA SurvivorChange ==
  ASSUME NEW C \in FileMaps, NEW N, NEW r \in Transactions, NEW K, NEW L, NEW used,
         Renewed(N, r, C, K, used), FileBlocks(C) \subseteq used,
         NEW free, NEW s \in Transactions, TransactionOK(s, C, free, K, {}, {}),
         s.freed \cap r.freed = {}, \A b \in s.alloc : L[b] = K[b]
  PROVE  /\ \A p \in Paths : ChangeOf(s, N, L, p) = ChangeOf(s, C, K, p)
         /\ CreatesOf(s, N) = CreatesOf(s, C)
<1>1. \A b \in Blocks : b \in s.removed \/ s.updated[b] # 0
                        => b \in FileBlocks(C) /\ b \in s.freed /\ b \in used /\ b \notin r.alloc
                           /\ b \notin r.freed
  BY DEF TransactionOK, Renewed
<1>2. \A p \in Paths : /\ C[p] # 0 => C[p] \in Blocks
                       /\ N[p] # 0 => N[p] \in Blocks
                       /\ N[p] # 0 => N[p] \in r.alloc \/ N[p] = C[p]
                       /\ C[p] # 0 /\ C[p] \notin r.freed => N[p] = C[p]
  BY DEF Renewed, FileMaps, BlockNumbers
<1>3. \A p \in Paths : /\ N[p] # 0 /\ (N[p] \in s.removed \/ s.updated[N[p]] # 0) => N[p] = C[p]
                       /\ C[p] # 0 /\ (C[p] \in s.removed \/ s.updated[C[p]] # 0) => N[p] = C[p]
  BY <1>1, <1>2
<1>4. 0 \notin s.removed
  BY ZeroNoBlock DEF Transactions
<1>5. \A p \in Paths : /\ s.added[p] # 0 => s.added[p] \in s.alloc
                       /\ C[p] # 0 /\ s.updated[C[p]] # 0 => s.updated[C[p]] \in s.alloc
  BY DEF TransactionOK
<1>6. ASSUME NEW p \in Paths PROVE ChangeOf(s, N, L, p) = ChangeOf(s, C, K, p)
  <2>1. CASE s.added[p] # 0
    BY <1>5, <2>1 DEF ChangeOf
  <2>2. CASE s.added[p] = 0 /\ N[p] = C[p]
    BY <1>5, <2>2 DEF ChangeOf
  <2>3. CASE s.added[p] = 0 /\ N[p] # C[p]
    BY <1>3, <2>3 DEF ChangeOf
  <2>4. QED BY <2>1, <2>2, <2>3
<1>7. \A p \in Paths : N[p] \in s.removed <=> C[p] \in s.removed
  BY <1>3, <1>4
<1>8. QED BY <1>6, <1>7 DEF CreatesOf

(* The step that commits t: those whose changes stay are no losers.         *)
LEMMA CommitRefines ==
  ASSUME StoreInv, CommitSuper
  PROVE  Abstract!Next
<1>1. PICK t : t = com.tr
  OBVIOUS
<1>2. /\ StoreInv' /\ SuperWritable /\ t \in Sessions /\ Committed' = NewFiles(tr[t])
      /\ StoreOnDisk' = FilesOn(NewSupers(SuperImage(NextVersion(fs.version))), disk)
      /\ tr'[t] = Inactive
  BY <1>1, CommitSuperStep
<1>3. PICK F \in SUBSET (Sessions \ {t}) :
        /\ \A u \in F : tr'[u] = FailedTr
        /\ \A u \in Sessions \ (F \cup {t}) :
             /\ tr'[u] = tr[u] /\ \A b \in tr[u].alloc : Content(b)' = Content(b)
             /\ tr[u].freed \cap tr[t].freed = {}
  BY <1>1, CommitSuperStep
<1>4. com # NULL
  BY <1>2 DEF SuperWritable
<1>5. PICK img, r, C, K, N, used, free, new, old :
        /\ img = SuperImage(NextVersion(fs.version)) /\ r = tr[t] /\ free = fs.free
        /\ C = Committed /\ K = Contents /\ N = NewFiles(r) /\ used = Below(fs.files, disk)
        /\ new = NewRoot(t) /\ old = OldRoot(t)
  OBVIOUS
<1>6. /\ fs.state = "up" /\ r \in Transactions /\ CommitOK(t) /\ TransactionOK(r, C, free, K, new, old)
      /\ \A u \in Sessions \ {t} : NewRoot(u) = {} /\ OldRoot(u) = {}
  BY <1>1, <1>4, <1>5, CommitFacts
<1>7. Renewed(N, r, C, K, used)
  BY <1>1, <1>2, <1>5, NewSuperFacts
<1>8. /\ C \in FileMaps /\ FileBlocks(C) \subseteq used
      /\ \A p \in Paths : C[p] # 0 => C[p] \in Blocks
  BY <1>5, <1>6, CommittedFacts
<1>9. Committed' = N /\ N \in FileMaps
  BY <1>2, <1>5, <1>7 DEF Renewed
<1>10. \A u \in F \cup {t} : tr'[u] \in {Inactive, FailedTr} /\ u \in Sessions
  BY <1>2, <1>3
<1>11. ASSUME NEW u \in F \cup {t}
       PROVE  Changes'[u] = Abstract!Unchanged /\ Created'[u] = {}
  <2>1. PICK q : q = tr'[u]
    OBVIOUS
  <2>2. /\ q \in Transactions /\ q.removed = {} /\ (\A b \in Blocks : q.updated[b] = 0)
        /\ \A p \in Paths : q.added[p] = 0
    BY <1>10, <2>1, RestFacts
  <2>3. /\ Changes'[u] = [p \in Paths |-> ChangeOf(q, N, Contents', p)]
        /\ Created'[u] = CreatesOf(q, N)
    BY <1>9, <1>10, <2>1, <2>2, ChangesNext
  <2>4. \A p \in Paths : N[p] # 0 => N[p] \in Blocks
    BY <1>9 DEF FileMaps, BlockNumbers
  <2>5. \A p \in Paths : ChangeOf(q, N, Contents', p) = Same
    BY <2>2, <2>4 DEF ChangeOf
  <2>6. CreatesOf(q, N) = {}
    BY <2>2 DEF CreatesOf
  <2>7. QED BY <2>3, <2>5, <2>6 DEF Abstract!Unchanged
<1>12. ASSUME NEW u \in Sessions \ (F \cup {t})
       PROVE  Changes'[u] = Changes[u] /\ Created'[u] = Created[u]
  <2>1. PICK s, L : s = tr[u] /\ L = Contents'
    OBVIOUS
  <2>2. /\ s \in Transactions /\ tr'[u] = s /\ s.freed \cap r.freed = {} /\ u \in Sessions
        /\ s.alloc \subseteq Blocks
    BY <1>3, <1>5, <2>1 DEF StoreInv, StoreTypes, Transactions
  <2>3. TransactionOK(s, C, free, K, {}, {})
    <3>1. TransactionOK(tr[u], Committed, fs.free, Contents, NewRoot(u), OldRoot(u))
      BY <2>2 DEF StoreInv, SessionsOK
    <3>2. NewRoot(u) = {} /\ OldRoot(u) = {}
      BY <1>6
    <3>3. QED BY <1>5, <2>1, <3>1, <3>2
  <2>4. \A b \in s.alloc : L[b] = K[b]
    BY <1>3, <1>5, <2>1, <2>2 DEF Contents
  <2>5. /\ \A p \in Paths : ChangeOf(s, N, L, p) = ChangeOf(s, C, K, p)
        /\ CreatesOf(s, N) = CreatesOf(s, C)
    BY <1>6, <1>7, <1>8, <2>2, <2>3, <2>4, SurvivorChange
  <2>6. Changes'[u] = [p \in Paths |-> ChangeOf(s, N, L, p)] /\ Created'[u] = CreatesOf(s, N)
    BY <1>9, <2>1, <2>2, ChangesNext
  <2>7. Changes[u] = [p \in Paths |-> ChangeOf(s, C, K, p)] /\ Created[u] = CreatesOf(s, C)
    BY <1>5, <1>8, <2>1, <2>2, ChangesNow
  <2>8. QED BY <2>5, <2>6, <2>7
<1>13. Abstract!Losers(t) \subseteq F
  <2>1. SUFFICES ASSUME NEW u \in Sessions \ (F \cup {t}), NEW p \in Paths \ Created[u],
                        Changes[u][p] # Same, Changes[t][p] # Same
                 PROVE  FALSE
    BY DEF Abstract!Losers
  <2>2. PICK s : s = tr[u]
    OBVIOUS
  <2>3. s.freed \cap r.freed = {} /\ u \in Sessions /\ p \in Paths
    BY <1>3, <1>5, <2>2
  <2>4. TransactionOK(s, C, free, K, NewRoot(u), OldRoot(u))
    BY <1>5, <2>2, <2>3 DEF StoreInv, SessionsOK
  <2>5. C[p] # 0 /\ (C[p] \in s.removed \/ s.updated[C[p]] # 0)
    <3>1. /\ s.added[p] = 0 /\ C[p] = 0 => Changes[u][p] = Same
          /\ s.added[p] = 0 /\ C[p] # 0 /\ C[p] \notin s.removed /\ s.updated[C[p]] = 0
               => Changes[u][p] = Same
          /\ p \in Created[u] <=> s.added[p] # 0 /\ C[p] \notin s.removed
          /\ 0 \notin s.removed
      BY <1>5, <1>6, <2>2, <2>3, PendingFacts
    <3>2. QED BY <2>1, <3>1
  <2>6. C[p] \in r.removed \/ r.updated[C[p]] # 0
    <3>1. /\ r.added[p] = 0 /\ C[p] # 0 /\ C[p] \notin r.removed /\ r.updated[C[p]] = 0
               => Changes[t][p] = Same
      BY <1>2, <1>5, <1>6, <2>3, PendingFacts
    <3>2. r.added[p] # 0 => Kept(r)[p] = 0
      BY <1>5, <1>6, <2>3 DEF CommitOK, AddConflicts
    <3>3. Kept(r)[p] = 0 => C[p] = 0 \/ C[p] \in r.removed
      BY <1>5, <2>3 DEF Kept
    <3>4. QED BY <2>1, <2>5, <3>1, <3>2, <3>3
  <2>7. C[p] \in Blocks
    BY <1>8, <2>3, <2>5
  <2>8. C[p] \in s.freed
    BY <2>4, <2>5, <2>7 DEF TransactionOK
  <2>9. C[p] \in r.freed
    BY <1>6, <2>6, <2>7 DEF TransactionOK
  <2>10. QED BY <2>3, <2>8, <2>9
<1>14. /\ Changes' = [u \in Sessions |-> IF u \in F \cup {t} THEN Abstract!Unchanged ELSE Changes[u]]
       /\ Created' = [u \in Sessions |-> IF u \in F \cup {t} THEN {} ELSE Created[u]]
  <2>1. /\ Changes' = [u \in Sessions |-> Changes'[u]]
        /\ Created' = [u \in Sessions |-> Created'[u]]
    BY DEF Changes, Created
  <2>2. QED BY <1>11, <1>12, <2>1
<1>15. Abstract!Drop(Abstract!Losers(t) \cup {t})
  <2>1. F \cup {t} \in SUBSET Sessions /\ Abstract!Losers(t) \cup {t} \subseteq F \cup {t}
    BY <1>2, <1>13
  <2>2. QED BY <1>14, <2>1 DEF Abstract!Drop
<1>16. /\ \A p \in Created[t] : StoreOnDisk[p] = NoFile
       /\ StoreOnDisk' = [p \in Paths |-> Abstract!View(t, p)]
  BY <1>1, <1>2, CommitView
<1>17. Abstract!Commit(t)
  BY <1>15, <1>16 DEF Abstract!Commit
<1>18. QED BY <1>2, <1>17 DEF Abstract!Next

(* The device at start is a store, and nothing is pending.                  *)
LEMMA AbstractInit == Init => Abstract!Init
<1>1. SUFFICES ASSUME Init PROVE Abstract!Init
  OBVIOUS
<1>2. StoreInv
  BY <1>1, InitStore
<1>3. fs.files = 0 /\ tr = [t \in Sessions |-> Inactive]
  BY <1>1 DEF Init, Down
<1>4. Committed = NoFiles
  BY <1>3 DEF Committed, FilesAt
<1>5. Committed \in FileMaps
  BY <1>4 DEF NoFiles, FileMaps, BlockNumbers
<1>6. ASSUME NEW t \in Sessions PROVE Changes[t] = Abstract!Unchanged /\ Created[t] = {}
  <2>1. PICK r : r = tr[t]
    OBVIOUS
  <2>2. r \in {Inactive, FailedTr}
    BY <1>3, <2>1
  <2>3. (\A p \in Paths : Change(r, p) = Same) /\ Creates(r) = {}
    BY <1>5, <2>2, RestChanges
  <2>4. Changes[t] = [p \in Paths |-> Change(r, p)] /\ Created[t] = Creates(r)
    BY <2>1 DEF Changes, Created, Change, Creates
  <2>5. QED BY <2>3, <2>4 DEF Abstract!Unchanged
<1>7. Changes = [t \in Sessions |-> Abstract!Unchanged] /\ Created = [t \in Sessions |-> {}]
  BY <1>6 DEF Changes, Created
<1>8. StoreOnDisk \in [Paths -> Values \cup {NoFile}]
  <2>1. PICK root, free, d, C : /\ root = Chosen(super).files /\ free = Chosen(super).free
                                /\ d = disk /\ C = FilesAt(root, d)
    OBVIOUS
  <2>2. WellFormed(root, free, d)
    BY <1>2, <2>1 DEF StoreInv, OnDevice
  <2>3. \A p \in Paths : C[p] # 0 => IsFile(d[C[p]], p)
    BY <2>1, <2>2 DEF WellFormed
  <2>4. \A p \in Paths : C[p] # 0 => d[C[p]][3] \in Values
    BY <2>3, FileFacts
  <2>5. StoreOnDisk = [p \in Paths |-> IF C[p] = 0 THEN NoFile ELSE d[C[p]][3]]
    BY <2>1 DEF StoreOnDisk
  <2>6. QED BY <2>4, <2>5
<1>9. QED BY <1>7, <1>8 DEF Abstract!Init

(* Every step of the service is one of the atomic store, or not visible.    *)
LEMMA AbstractStep == StoreInv /\ [Next]_vars => [Abstract!Next]_(Abstract!vars)
<1>1. SUFFICES ASSUME StoreInv, [Next]_vars
               PROVE  Abstract!Next \/ UNCHANGED Abstract!vars
  OBVIOUS
<1>2. CASE \E t \in Sessions : Request(t)
  BY <1>1, <1>2, RequestRefines
<1>3. CASE \E b \in Blocks : WriteBlock(b)
  <2>1. PICK t \in Sessions :
          /\ StoreInv' /\ Others(t)
          /\ \/ t = com.tr /\ UNCHANGED <<tr, file>> /\ Contents' = Contents
             \/ tr'[t] = FailedTr
    BY <1>1, <1>3, WriteBlockStep
  <2>2. com # NULL
    BY <1>3 DEF WriteBlock
  <2>3. fs.state = "up"
    BY <1>1, <2>2 DEF StoreInv, Offline
  <2>4. CASE UNCHANGED <<tr, file>> /\ Contents' = Contents
    BY <1>1, <2>1, <2>3, <2>4, QuietRefines
  <2>5. CASE tr'[t] = FailedTr
    BY <1>1, <2>1, <2>3, <2>5, UpFacts, DroppedChanges
  <2>6. QED BY <2>1, <2>4, <2>5
<1>4. CASE CommitAborts \/ Crash \/ CrashInSuper \/ \E b \in Blocks : CrashInBlock(b)
  BY <1>1, <1>4, HaltRefines
<1>5. CASE CommitSuper
  BY <1>1, <1>5, CommitRefines
<1>6. CASE Mount
  <2>1. NonePending' /\ NonePending /\ StoreOnDisk' = StoreOnDisk
    BY <1>1, <1>6, MountStep
  <2>2. \A u \in Sessions : Changes'[u] = Changes[u] /\ Created'[u] = Created[u]
    BY <2>1 DEF NonePending
  <2>3. Changes' = Changes /\ Created' = Created
    BY <2>2 DEF Changes, Created
  <2>4. QED BY <2>1, <2>3 DEF Abstract!vars
<1>7. CASE UNCHANGED vars
  <2>1. UNCHANGED <<disk, super, cache, fs, tr>>
    BY <1>7 DEF vars
  <2>2. StoreOnDisk' = StoreOnDisk /\ Committed' = Committed
    BY <2>1 DEF StoreOnDisk, Committed
  <2>3. Changes' = Changes /\ Created' = Created
    BY <2>1, <2>2 DEF Changes, Created, Change, Creates, Content, Dirty
  <2>4. QED BY <2>2, <2>3 DEF Abstract!vars
<1>8. QED BY <1>1, <1>2, <1>3, <1>4, <1>5, <1>6, <1>7 DEF Next

(* The service is an atomic store, for every number of blocks, sessions and *)
(* files: a transaction takes effect whole, when its super block is on the  *)
(* device, and neither a crash nor a failed write nor another client's      *)
(* commit shows half of one or overwrites a change that it did not see.     *)
THEOREM StoreIsAtomic == Spec => ImplementsAtomicStore
BY AbstractInit, AbstractStep, StoreInvHolds, PTL DEF Spec, ImplementsAtomicStore, Abstract!Spec
=============================================================================
