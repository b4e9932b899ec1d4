---------------------------- MODULE ShellProofs -----------------------------
(***************************************************************************)
(* Proofs about modules FileTable and Shell.  What FilesInv says of the    *)
(* tables holds for any number of tasks, descriptions and descriptors, as  *)
(* long as no descriptor is closed while another leads to the same         *)
(* description, and until an open begins in the middle of another's        *)
(* append; and on such tables the shell's script goes as it should.        *)
(***************************************************************************)
EXTENDS Shell, FiniteSetTheorems, TLAPS

Files == [m_ref_count : 0 .. RefModulus - 1, alive : BOOLEAN]

\* Descriptor i of task t leads to description d.
Leads(t, i, d) == i \in DOMAIN m_descriptors[t] /\ m_descriptors[t][i] = d

\* The open of task t has made description d.
HasMade(t, d) == opening[t].at \in Made /\ opening[t].d = d

TablesFit == \A t \in Tasks : Len(m_descriptors[t]) <= MaxFds

Typed == TypeOK /\ TablesFit

(***************************************************************************)
(* The inductive invariant, in terms of single descriptors.  A description *)
(* that a descriptor leads to has been counted once and never been         *)
(* released: dup does not count, so that a count above 1 never occurs.     *)
(***************************************************************************)
LedToIsNew ==
  \A t \in Tasks : \A i \in DOMAIN m_descriptors[t] :
    m_descriptors[t][i] # nullptr => m_files[m_descriptors[t][i]] = FileDescription

NoSharing ==
  \A t, u \in Tasks : \A i, j, d \in Nat :
    Leads(t, i, d) /\ Leads(u, j, d) /\ d # nullptr => t = u

AliveIsLedTo ==
  running = Tasks =>
    \A d \in DOMAIN m_files :
      m_files[d].alive =>
        \E t \in Tasks : HasMade(t, d) \/ \E i \in 1 .. MaxFds : Leads(t, i, d)

\* A description that an open has made is new, and is that open's alone.
MadeIsNew ==
  \A t \in Tasks : \A d \in Nat :
    HasMade(t, d) =>
      /\ m_files[d] = FileDescription
      /\ \A u \in Tasks : \A i \in Nat : ~Leads(u, i, d)
      /\ \A u \in Tasks : HasMade(u, d) => u = t

\* One task at a time is in an append, and it is at the end of the vector.
Counting == \E t \in Tasks : opening[t].at \in {"load", "count"}
OneAppends ==
  /\ \A t, u \in Tasks : opening[t].at \in InAppend /\ opening[u].at \in InAppend => t = u
  /\ \A t \in Tasks :
       /\ opening[t].at = "emplace" => opening[t].d = Len(m_files) + 1
       /\ opening[t].at \in {"load", "count", "take"} => opening[t].d = Len(m_files)
  /\ Counting => Len(m_files) = m_count + 1
  /\ ~Counting => Len(m_files) = m_count

Sound == LedToIsNew /\ NoSharing /\ AliveIsLedTo /\ MadeIsNew /\ OneAppends

FInv == Typed /\ (~mixed => Sound)
-----------------------------------------------------------------------------
(***************************************************************************)
(* Types.                                                                  *)
(***************************************************************************)
LEMMA NewIsFile == FileDescription \in Files /\ Unmade \in Files
BY FileTableAssumption DEF FileTableAssumption, FileDescription, Unmade, Files

LEMMA TypesOfTables ==
  ASSUME Typed
  PROVE  /\ m_files \in Seq(Files) /\ Len(m_files) \in Nat
         /\ DOMAIN m_files = 1 .. Len(m_files)
         /\ running \subseteq Tasks
         /\ \A t \in Tasks :
              /\ m_descriptors[t] \in Seq(0 .. Len(m_files))
              /\ DOMAIN m_descriptors[t] = 1 .. Len(m_descriptors[t])
              /\ DOMAIN m_descriptors[t] \subseteq 1 .. MaxFds
              /\ \A i \in DOMAIN m_descriptors[t] : m_descriptors[t][i] \in 0 .. Len(m_files)
<1>1. /\ m_files \in Seq(Files) /\ running \subseteq Tasks
      /\ m_descriptors \in [Tasks -> Seq(0 .. Len(m_files))]
      /\ \A t \in Tasks : Len(m_descriptors[t]) <= MaxFds
  BY DEF Typed, TypeOK, TablesFit, Files
<1>2. \A t \in Tasks : Len(m_descriptors[t]) \in Nat
  BY <1>1
<1>3. QED
  BY <1>1, <1>2, FileTableAssumption DEF FileTableAssumption

\* What the type says of opens, for a vector of n places of which c count.
Stages == {"none", "insert"} \cup InAppend
Stage(o, c, n) ==
  /\ o.at \in Stages /\ o.d \in 0 .. n + 1
  /\ o.at # "none" => o.d > 0
  /\ o.at \in {"load", "take", "insert"} => o.d <= n
  /\ o.at = "take" => c > 0
OpensTyped(o, c, n) ==
  /\ o \in [Tasks -> [at : Stages, d : 0 .. n + 1]]
  /\ \A t \in Tasks : Stage(o[t], c, n)

LEMMA TypesOfOpens ==
  ASSUME Typed
  PROVE  /\ OpensTyped(opening, m_count, Len(m_files))
         /\ m_count \in 0 .. Len(m_files) /\ mixed \in BOOLEAN
         /\ \A t \in Tasks : opening[t].d \in Nat
<1>1. OpensTyped(opening, m_count, Len(m_files))
  <2>1. opening \in [Tasks -> [at : Stages, d : 0 .. Len(m_files) + 1]]
    BY DEF Typed, TypeOK, Stages
  <2>2. ASSUME NEW t \in Tasks
        PROVE  Stage(opening[t], m_count, Len(m_files))
    <3>1. opening[t] \in [at : Stages, d : 0 .. Len(m_files) + 1]
      BY <2>1
    <3>2. QED
      BY <3>1 DEF Typed, TypeOK, Stage
  <2>3. QED
    BY <2>1, <2>2 DEF OpensTyped
<1>2. \A t \in Tasks : opening[t].d \in Nat
  BY <1>1, TypesOfTables DEF OpensTyped, Stage
<1>3. QED
  BY <1>1, <1>2 DEF Typed, TypeOK

\* A step of an open changes the open of its task only.
LEMMA ReachesOnly ==
  ASSUME Typed, NEW t \in Tasks, NEW at, NEW d, Reaches(t, at, d)
  PROVE  /\ opening'[t] = [at |-> at, d |-> d]
         /\ \A u \in Tasks : u # t => opening'[u] = opening[u]
<1>1. opening \in [Tasks -> [at : Stages, d : 0 .. Len(m_files) + 1]]
  BY TypesOfOpens DEF OpensTyped
<1>2. QED
  BY <1>1 DEF Reaches

LEMMA ReachesTypes ==
  ASSUME Typed, NEW t \in Tasks, NEW at, NEW d, Reaches(t, at, d),
         NEW n \in Nat, Len(m_files) <= n, NEW c \in 0 .. n, m_count > 0 => c > 0,
         Stage([at |-> at, d |-> d], c, n)
  PROVE  OpensTyped(opening', c, n)
<1>1. /\ OpensTyped(opening, m_count, Len(m_files)) /\ Len(m_files) \in Nat
      /\ m_count \in Nat
  BY TypesOfTables, TypesOfOpens
<1>2. \A u \in Tasks : u # t => opening'[u] = opening[u]
  BY ReachesOnly
<1>3. opening'[t] = [at |-> at, d |-> d]
  BY ReachesOnly
<1>4. ASSUME NEW u \in Tasks
      PROVE  Stage(opening'[u], c, n)
  <2>1. CASE u = t
    BY <1>3, <2>1
  <2>2. CASE u # t
    <3>1. Stage(opening[u], m_count, Len(m_files))
      BY <1>1 DEF OpensTyped
    <3>2. Stage(opening[u], c, n)
      BY <1>1, <3>1 DEF Stage
    <3>3. QED
      BY <1>2, <2>2, <3>2
  <2>3. QED
    BY <2>1, <2>2
<1>5. opening' \in [Tasks -> [at : Stages, d : 0 .. n + 1]]
  <2>1. \A u \in Tasks : opening[u] \in [at : Stages, d : 0 .. n + 1]
    BY <1>1 DEF OpensTyped
  <2>2. [at |-> at, d |-> d] \in [at : Stages, d : 0 .. n + 1]
    BY DEF Stage
  <2>3. opening' = [opening EXCEPT ![t] = [at |-> at, d |-> d]]
    BY DEF Reaches
  <2>4. opening = [u \in Tasks |-> opening[u]]
    BY <1>1 DEF OpensTyped
  <2>5. QED
    BY <2>1, <2>2, <2>3, <2>4
<1>6. QED
  BY <1>4, <1>5 DEF OpensTyped

\* The type again, put together from its parts.
LEMMA TypesFrom ==
  ASSUME NEW n \in Nat, m_files' \in Seq(Files), Len(m_files') = n,
         OpensTyped(opening', m_count', n), m_count' \in 0 .. n, mixed' \in BOOLEAN,
         m_descriptors' \in [Tasks -> Seq(0 .. n)], running' \subseteq Tasks,
         \A u \in Tasks : Len(m_descriptors'[u]) <= MaxFds
  PROVE  Typed'
<1>1. opening' \in [Tasks -> [at : Stages, d : 0 .. n + 1]]
  BY DEF OpensTyped
<1>2. \A u \in Tasks :
        /\ opening'[u].at # "none" => opening'[u].d > 0
        /\ opening'[u].at \in {"load", "take", "insert"} => opening'[u].d <= n
        /\ opening'[u].at = "take" => m_count' > 0
  BY DEF OpensTyped, Stage
<1>3. QED
  BY <1>1, <1>2 DEF Typed, TypeOK, TablesFit, Files, Stages

\* Sequence r is s with x at place i.
IsPut(S, s, i, x, r) ==
  /\ r \in Seq(S)
  /\ DOMAIN r = DOMAIN s \cup {i}
  /\ Len(r) = IF i > Len(s) THEN i ELSE Len(s)
  /\ r[i] = x
  /\ \A k \in DOMAIN s : k # i => r[k] = s[k]

LEMMA PutIsSeq ==
  ASSUME NEW S, NEW s \in Seq(S), NEW i \in Nat \ {0}, i <= Len(s) + 1, NEW x \in S
  PROVE  IsPut(S, s, i, x, Put(s, i, x))
<1> DEFINE len == IF i > Len(s) THEN i ELSE Len(s)
<1>1. Len(s) \in Nat /\ DOMAIN s = 1 .. Len(s) /\ \A k \in DOMAIN s : s[k] \in S
  OBVIOUS
<1>2. len \in Nat /\ DOMAIN s \cup {i} = 1 .. len
  BY <1>1
<1>3. \A k \in 1 .. len : (IF k = i THEN x ELSE s[k]) \in S
  BY <1>1
<1> HIDE DEF len
<1>4. Put(s, i, x) = [k \in 1 .. len |-> IF k = i THEN x ELSE s[k]]
  BY <1>2 DEF Put
<1>5. Put(s, i, x) \in Seq(S) /\ Len(Put(s, i, x)) = len
  BY <1>2, <1>3, <1>4
<1>6. Put(s, i, x)[i] = x /\ \A k \in DOMAIN s : k # i => Put(s, i, x)[k] = s[k]
  BY DEF Put
<1>7. QED
  BY <1>2, <1>4, <1>5, <1>6 DEF len, IsPut
-----------------------------------------------------------------------------
(***************************************************************************)
(* Holders.                                                                *)
(***************************************************************************)
LEMMA HoldersLead ==
  ASSUME Typed, NEW t \in Tasks, NEW i \in DOMAIN m_descriptors[t]
  PROVE  <<t, i>> \in Holders(m_descriptors[t][i])
<1>1. i \in 1 .. MaxFds /\ i <= Len(m_descriptors[t])
  BY TypesOfTables
<1>2. QED
  BY <1>1 DEF Holders

LEMMA HoldersAreFinite ==
  ASSUME NEW d
  PROVE  IsFiniteSet(Holders(d))
<1>1. IsFiniteSet(1 .. MaxFds)
  BY FileTableAssumption, FS_Interval DEF FileTableAssumption
<1>2. IsFiniteSet(Tasks \X (1 .. MaxFds))
  BY <1>1, FileTableAssumption, FS_Product DEF FileTableAssumption
<1>3. QED
  BY <1>2, FS_Subset DEF Holders

\* Who closes a descriptor that no other shares is its description's only holder.
LEMMA OnlyHolder ==
  ASSUME Typed, NEW t \in Tasks, NEW fd \in DOMAIN m_descriptors[t],
         Cardinality(Holders(m_descriptors[t][fd])) = 1,
         NEW u \in Tasks, NEW i \in DOMAIN m_descriptors[u],
         m_descriptors[u][i] = m_descriptors[t][fd]
  PROVE  u = t /\ i = fd
<1> DEFINE H == Holders(m_descriptors[t][fd])
<1>1. <<t, fd>> \in H /\ <<u, i>> \in H
  BY HoldersLead
<1>2. PICK h : H = {h}
  BY HoldersAreFinite, FS_Singleton
<1>3. QED
  BY <1>1, <1>2
-----------------------------------------------------------------------------
(***************************************************************************)
(* What the operations do to the tables.                                   *)
(***************************************************************************)
\* Place i of the table of task t leads to d, and nothing else has changed.
Replaces(t, i, d) ==
  /\ i \in 1 .. MaxFds
  /\ DOMAIN m_descriptors'[t] = DOMAIN m_descriptors[t] \cup {i}
  /\ m_descriptors'[t][i] = d
  /\ \A k \in DOMAIN m_descriptors[t] :
       k # i => m_descriptors'[t][k] = m_descriptors[t][k]
  /\ \A u \in Tasks : u # t => m_descriptors'[u] = m_descriptors[u]

LEMMA InsertReplaces ==
  ASSUME Typed, NEW t \in Tasks, NEW d \in 1 .. Len(m_files), try_insert(t, d)
  PROVE  /\ m_descriptors' \in [Tasks -> Seq(0 .. Len(m_files))]
         /\ \A u \in Tasks : Len(m_descriptors'[u]) <= MaxFds
         /\ \E i \in Nat :
              /\ i \in FreePlaces(m_descriptors[t])
              /\ Replaces(t, i, d)
              /\ i \in DOMAIN m_descriptors[t] => m_descriptors[t][i] = nullptr
<1> DEFINE table == m_descriptors[t]
           S == 0 .. Len(m_files)
<1>1. /\ m_descriptors \in [Tasks -> Seq(S)]
      /\ \A u \in Tasks : Len(m_descriptors[u]) <= MaxFds
  BY DEF Typed, TypeOK, TablesFit
<1>2. /\ table \in Seq(S) /\ Len(table) \in Nat /\ DOMAIN table = 1 .. Len(table)
      /\ d \in S
  BY <1>1, TypesOfTables
<1>3. PICK i \in FreePlaces(table) :
        /\ i <= MaxFds
        /\ m_descriptors' = [m_descriptors EXCEPT ![t] = Put(table, i, d)]
  BY DEF try_insert
<1>4. /\ i \in 1 .. Len(table) + 1
      /\ i \in DOMAIN table => table[i] = nullptr
  BY <1>3 DEF FreePlaces
<1>5. i \in 1 .. MaxFds /\ i \in Nat \ {0} /\ i <= Len(table) + 1
  BY <1>2, <1>3, <1>4, FileTableAssumption DEF FileTableAssumption
<1>6. /\ Put(table, i, d) \in Seq(S)
      /\ DOMAIN Put(table, i, d) = DOMAIN table \cup {i}
      /\ Len(Put(table, i, d)) = IF i > Len(table) THEN i ELSE Len(table)
      /\ Put(table, i, d)[i] = d
      /\ \A k \in DOMAIN table : k # i => Put(table, i, d)[k] = table[k]
  <2> HIDE DEF table, S
  <2>1. IsPut(S, table, i, d, Put(table, i, d))
    BY <1>2, <1>5, PutIsSeq
  <2>2. QED
    BY <2>1 DEF IsPut
<1>7. /\ m_descriptors'[t] = Put(table, i, d)
      /\ \A u \in Tasks : u # t => m_descriptors'[u] = m_descriptors[u]
  BY <1>1, <1>3
<1>8. m_descriptors' \in [Tasks -> Seq(S)]
  BY <1>1, <1>3, <1>6
<1>9. \A u \in Tasks : Len(m_descriptors'[u]) <= MaxFds
  BY <1>1, <1>3, <1>6, <1>7
<1>10. Replaces(t, i, d)
  <2> HIDE DEF S
  <2>1. QED
    BY <1>5, <1>6, <1>7 DEF Replaces
<1>11. QED
  BY <1>3, <1>4, <1>5, <1>8, <1>9, <1>10

\* Releasing changes one description, whatever its count.
LEMMA ReleaseTypes ==
  ASSUME NEW files \in Seq(Files), NEW d \in DOMAIN files
  PROVE  /\ Release(files, d) \in Seq(Files)
         /\ Len(Release(files, d)) = Len(files)
<1> DEFINE c == (files[d].m_ref_count - 1) % RefModulus
           new == [m_ref_count |-> c, alive |-> files[d].alive /\ c # 0]
<1>1. files[d].m_ref_count \in Int
  <2>1. files[d] \in Files
    <3> HIDE DEF Files
    <3>1. QED
      OBVIOUS
  <2>2. QED
    BY <2>1, FileTableAssumption DEF Files, FileTableAssumption
<1>2. c \in 0 .. RefModulus - 1
  BY <1>1, FileTableAssumption DEF FileTableAssumption
<1> HIDE DEF c
<1>3. new \in Files
  BY <1>2 DEF Files
<1>4. Release(files, d) = [files EXCEPT ![d] = new]
  BY DEF Release, c
<1> HIDE DEF Files, new
<1>5. QED
  BY <1>3, <1>4

\* What a description becomes when its only descriptor is closed.
LEMMA ReleasedDies ==
  ASSUME NEW files \in Seq(Files), NEW d \in DOMAIN files, files[d] = FileDescription
  PROVE  /\ ~Release(files, d)[d].alive
         /\ \A e \in DOMAIN files : e # d => Release(files, d)[e] = files[e]
<1>1. (1 - 1) % RefModulus = 0
  BY FileTableAssumption DEF FileTableAssumption
<1>2. Release(files, d) = [files EXCEPT ![d] = [m_ref_count |-> 0, alive |-> FALSE]]
  <2>1. files[d].m_ref_count = 1
    BY DEF FileDescription
  <2>2. (files[d].m_ref_count - 1) % RefModulus = 0
    BY <1>1, <2>1
  <2>3. (files[d].alive /\ 0 # 0) = FALSE
    OBVIOUS
  <2>4. QED
    BY <2>2, <2>3 DEF Release
<1> HIDE DEF Files
<1>3. QED
  BY <1>2
-----------------------------------------------------------------------------
(***************************************************************************)
(* Every step keeps the types, also when opens have been mixed.            *)
(***************************************************************************)
\* Steps that leave the descriptor tables and who runs alone.
LEMMA OpenStepTypes ==
  ASSUME Typed, NEW t \in Tasks, NEW at, NEW d, Reaches(t, at, d),
         NEW n \in Nat, Len(m_files) <= n, m_files' \in Seq(Files), Len(m_files') = n,
         m_count' \in 0 .. n, m_count > 0 => m_count' > 0, mixed' \in BOOLEAN,
         Stage([at |-> at, d |-> d], m_count', n),
         UNCHANGED <<m_descriptors, running>>
  PROVE  Typed'
<1>1. OpensTyped(opening', m_count', n)
  <2>1. PICK c \in 0 .. n : c = m_count'
    OBVIOUS
  <2>2. QED
    BY <2>1, ReachesTypes
<1>2. m_descriptors' \in [Tasks -> Seq(0 .. n)]
  <2>1. m_descriptors \in [Tasks -> Seq(0 .. Len(m_files))]
    BY DEF Typed, TypeOK
  <2>2. \A u \in Tasks : m_descriptors[u] \in Seq(0 .. n)
    BY TypesOfTables
  <2>3. QED
    BY <2>1, <2>2
<1>3. \A u \in Tasks : Len(m_descriptors'[u]) <= MaxFds
  BY DEF Typed, TablesFit
<1>4. running' \subseteq Tasks
  BY TypesOfTables
<1>5. QED
  BY <1>1, <1>2, <1>3, <1>4, TypesFrom

LEMMA QuietStepTypes ==
  ASSUME Typed, NEW t \in Tasks, NEW at, NEW d, Reaches(t, at, d), mixed' \in BOOLEAN,
         Stage([at |-> at, d |-> d], m_count, Len(m_files)),
         UNCHANGED <<m_files, m_count, m_descriptors, running>>
  PROVE  Typed'
<1>1. PICK n \in Nat : n = Len(m_files)
  BY TypesOfTables
<1>2. /\ m_files' \in Seq(Files) /\ Len(m_files') = n
      /\ m_count' \in 0 .. n /\ (m_count > 0 => m_count' > 0)
  BY <1>1, TypesOfTables, TypesOfOpens
<1>3. Stage([at |-> at, d |-> d], m_count', n)
  BY <1>1
<1>4. Len(m_files) <= n /\ UNCHANGED <<m_descriptors, running>>
  BY <1>1
<1>5. QED
  BY <1>2, <1>3, <1>4, OpenStepTypes

LEMMA MakesTypes ==
  ASSUME Typed, NEW t \in Tasks, Makes(t)
  PROVE  Typed'
<1> DEFINE n == Len(m_files)
           d0 == opening[t].d
<1>1. /\ m_files \in Seq(Files) /\ n \in Nat /\ DOMAIN m_files = 1 .. n
      /\ m_count \in 0 .. n /\ mixed \in BOOLEAN
      /\ Stage(opening[t], m_count, n)
  BY TypesOfTables, TypesOfOpens DEF OpensTyped
<1>2. CASE append(t)
  <2>1. /\ Reaches(t, "emplace", m_count + 1) /\ mixed' \in BOOLEAN
        /\ UNCHANGED <<m_files, m_count, m_descriptors, running>>
    BY <1>1, <1>2 DEF append
  <2>2. Stage([at |-> "emplace", d |-> m_count + 1], m_count, n)
    BY <1>1 DEF Stage, Stages, InAppend
  <2>3. QED
    BY <2>1, <2>2, QuietStepTypes
<1>3. CASE emplace(t)
  <2>1. /\ m_files' = Put(m_files, d0, FileDescription)
        /\ Reaches(t, "load", d0) /\ opening[t].at = "emplace"
        /\ UNCHANGED <<m_count, mixed, m_descriptors, running>>
    BY <1>3 DEF emplace
  <2>2. d0 \in Nat \ {0} /\ d0 <= n + 1
    BY <1>1, <2>1 DEF Stage
  <2>3. IsPut(Files, m_files, d0, FileDescription, m_files')
    <3> HIDE DEF d0
    <3>1. QED
      BY <1>1, <2>1, <2>2, NewIsFile, PutIsSeq
  <2>4. PICK m \in Nat : m = Len(m_files') /\ n <= m /\ d0 <= m
    <3> HIDE DEF d0
    <3>1. Len(m_files') \in Nat /\ n <= Len(m_files') /\ d0 <= Len(m_files')
      BY <1>1, <2>2, <2>3 DEF IsPut
    <3>2. QED
      BY <3>1
  <2>5. Stage([at |-> "load", d |-> d0], m_count, m)
    BY <1>1, <2>2, <2>4 DEF Stage, Stages, InAppend
  <2>6. m_files' \in Seq(Files)
    BY <2>3 DEF IsPut
  <2>7. m_count' \in 0 .. m
    BY <1>1, <2>1, <2>4
  <2> HIDE DEF d0
  <2>8. QED
    BY <1>1, <2>1, <2>4, <2>5, <2>6, <2>7, OpenStepTypes
<1>4. CASE load(t)
  <2>1. PICK d \in {d0, m_count + 1} : Reaches(t, "count", d)
    BY <1>4 DEF load
  <2>2. /\ UNCHANGED <<m_files, m_count, mixed, m_descriptors, running>>
        /\ opening[t].at = "load"
    BY <1>4 DEF load
  <2>3. Stage([at |-> "count", d |-> d], m_count, n)
    BY <1>1, <2>1, <2>2 DEF Stage, Stages, InAppend
  <2>4. QED
    BY <1>1, <2>1, <2>2, <2>3, QuietStepTypes
<1>5. CASE count(t)
  <2>1. /\ m_count' = d0 /\ Reaches(t, "take", d0) /\ opening[t].at = "count"
        /\ m_files' = IF d0 \in DOMAIN m_files THEN m_files ELSE Put(m_files, d0, Unmade)
        /\ UNCHANGED <<mixed, m_descriptors, running>>
    BY <1>5 DEF count
  <2>2. d0 \in Nat \ {0} /\ d0 <= n + 1
    BY <1>1, <2>1 DEF Stage
  <2>3. m_files' \in Seq(Files) /\ Len(m_files') \in Nat /\ n <= Len(m_files') /\ d0 <= Len(m_files')
    <3> HIDE DEF d0
    <3>1. CASE d0 \in DOMAIN m_files
      BY <1>1, <2>1, <2>2, <3>1
    <3>2. CASE d0 \notin DOMAIN m_files
      <4>1. IsPut(Files, m_files, d0, Unmade, m_files')
        BY <1>1, <2>1, <2>2, <3>2, NewIsFile, PutIsSeq
      <4>2. QED
        BY <1>1, <2>2, <4>1 DEF IsPut
    <3>3. QED
      BY <3>1, <3>2
  <2>4. PICK m \in Nat : m = Len(m_files') /\ n <= m /\ d0 <= m
    BY <2>3
  <2>5. /\ Stage([at |-> "take", d |-> d0], m_count', m)
        /\ m_count' \in 0 .. m /\ m_count' > 0
    <3> HIDE DEF d0
    <3>1. m_count' \in 0 .. m /\ m_count' > 0 /\ d0 \in 0 .. m + 1 /\ d0 > 0
      BY <2>1, <2>2, <2>4
    <3>2. QED
      BY <2>4, <3>1 DEF Stage, Stages, InAppend
  <2> HIDE DEF d0
  <2>6. QED
    BY <1>1, <2>1, <2>3, <2>4, <2>5, OpenStepTypes
<1>6. CASE take(t)
  <2>1. PICK d \in {d0, m_count} : Reaches(t, "insert", d)
    BY <1>6 DEF take
  <2>2. /\ UNCHANGED <<m_files, m_count, mixed, m_descriptors, running>>
        /\ opening[t].at = "take"
    BY <1>6 DEF take
  <2>3. Stage([at |-> "insert", d |-> d], m_count, n)
    BY <1>1, <2>1, <2>2 DEF Stage, Stages, InAppend
  <2>4. QED
    BY <1>1, <2>1, <2>2, <2>3, QuietStepTypes
<1>7. QED
  BY <1>2, <1>3, <1>4, <1>5, <1>6 DEF Makes

\* Where an open leaves its task.
LEMMA NoneIsStage ==
  ASSUME Typed
  PROVE  Stage([at |-> "none", d |-> nullptr], m_count, Len(m_files))
BY TypesOfTables DEF Stage, Stages, nullptr

LEMMA InsertedIsThere ==
  ASSUME Typed, NEW t \in Tasks, opening[t].at = "insert"
  PROVE  opening[t].d \in 1 .. Len(m_files)
BY TypesOfTables, TypesOfOpens DEF OpensTyped, Stage

LEMMA OpenTypes ==
  ASSUME Typed, NEW t \in Tasks, open(t)
  PROVE  Typed'
<1>1. /\ try_insert(t, opening[t].d) /\ Reaches(t, "none", nullptr)
      /\ UNCHANGED <<m_files, m_count, mixed, running>>
      /\ opening[t].d \in 1 .. Len(m_files)
  BY InsertedIsThere DEF open
<1>2. /\ m_files \in Seq(Files) /\ Len(m_files) \in Nat /\ running \subseteq Tasks
      /\ m_count \in 0 .. Len(m_files) /\ mixed \in BOOLEAN
  BY TypesOfTables, TypesOfOpens
<1>3. /\ m_descriptors' \in [Tasks -> Seq(0 .. Len(m_files))]
      /\ \A u \in Tasks : Len(m_descriptors'[u]) <= MaxFds
  BY <1>1, InsertReplaces
<1>4. OpensTyped(opening', m_count, Len(m_files))
  BY <1>1, <1>2, NoneIsStage, ReachesTypes
<1>5. m_files' \in Seq(Files)
  BY <1>1, <1>2 DEF Files
<1>6. QED
  BY <1>1, <1>2, <1>3, <1>4, <1>5, TypesFrom

LEMMA OpenFailsTypes ==
  ASSUME Typed, NEW t \in Tasks, OpenFails(t)
  PROVE  Typed'
<1>1. /\ m_files' = Release(m_files, opening[t].d) /\ Reaches(t, "none", nullptr)
      /\ UNCHANGED <<m_count, mixed, m_descriptors, running>>
      /\ opening[t].d \in DOMAIN m_files
  BY InsertedIsThere, TypesOfTables DEF OpenFails
<1>2. m_files' \in Seq(Files) /\ Len(m_files') = Len(m_files)
  BY <1>1, TypesOfTables, ReleaseTypes
<1>3. m_files' \in Seq(Files)
  BY <1>2 DEF Files
<1>4. Len(m_files) \in Nat /\ m_count \in 0 .. Len(m_files) /\ mixed \in BOOLEAN
  BY TypesOfTables, TypesOfOpens
<1>5. QED
  BY <1>1, <1>2, <1>3, <1>4, NoneIsStage, OpenStepTypes

LEMMA CloseTypes ==
  ASSUME Typed, NEW t \in Tasks, NEW fd \in OpenFds(t), close(t, fd)
  PROVE  /\ Typed'
         /\ \A u \in Tasks :
              /\ DOMAIN m_descriptors'[u] = DOMAIN m_descriptors[u]
              /\ \A i \in DOMAIN m_descriptors[u] :
                   m_descriptors'[u][i] =
                     IF u = t /\ i = fd THEN nullptr ELSE m_descriptors[u][i]
<1> DEFINE d0 == m_descriptors[t][fd]
           n == Len(m_files)
<1>1. fd \in DOMAIN m_descriptors[t] /\ d0 \in DOMAIN m_files /\ n \in Nat
  BY TypesOfTables DEF OpenFds, nullptr
<1>2. /\ m_files' = Release(m_files, d0)
      /\ m_descriptors' = [m_descriptors EXCEPT ![t][fd] = nullptr]
      /\ UNCHANGED <<m_count, opening, mixed, running>>
  BY DEF close
<1>3. m_files' \in Seq(Files) /\ Len(m_files') = n
  <2> HIDE DEF d0
  <2>1. QED
    BY <1>1, <1>2, TypesOfTables, ReleaseTypes
<1>4. /\ m_descriptors' \in [Tasks -> Seq(0 .. n)]
      /\ \A u \in Tasks :
           /\ Len(m_descriptors'[u]) = Len(m_descriptors[u])
           /\ DOMAIN m_descriptors'[u] = DOMAIN m_descriptors[u]
           /\ \A i \in DOMAIN m_descriptors[u] :
                m_descriptors'[u][i] =
                  IF u = t /\ i = fd THEN nullptr ELSE m_descriptors[u][i]
  <2> DEFINE new == [m_descriptors[t] EXCEPT ![fd] = nullptr]
  <2>1. m_descriptors \in [Tasks -> Seq(0 .. n)]
    BY DEF Typed, TypeOK
  <2>2. new \in Seq(0 .. n) /\ Len(new) = Len(m_descriptors[t])
    BY <1>1, TypesOfTables DEF nullptr
  <2>3. /\ DOMAIN new = DOMAIN m_descriptors[t]
        /\ \A i \in DOMAIN m_descriptors[t] :
             new[i] = IF i = fd THEN nullptr ELSE m_descriptors[t][i]
    BY <1>1, TypesOfTables
  <2>4. m_descriptors' = [m_descriptors EXCEPT ![t] = new]
    BY <1>2
  <2> HIDE DEF new, n
  <2>5. QED
    BY <1>1, <2>1, <2>2, <2>3, <2>4
<1>5. \A u \in Tasks : Len(m_descriptors'[u]) <= MaxFds
  BY <1>4 DEF Typed, TablesFit
<1>6. m_files' \in Seq(Files)
  BY <1>3 DEF Files
<1>7. /\ OpensTyped(opening', m_count', n) /\ m_count' \in 0 .. n /\ mixed' \in BOOLEAN
      /\ running' \subseteq Tasks
  BY <1>2, TypesOfTables, TypesOfOpens
<1>8. Typed'
  BY <1>1, <1>3, <1>4, <1>5, <1>6, <1>7, TypesFrom
<1>9. QED
  BY <1>4, <1>8

LEMMA DupTypes ==
  ASSUME Typed, NEW t \in Tasks, NEW fd \in OpenFds(t), dup(t, fd)
  PROVE  Typed'
<1>1. m_descriptors[t][fd] \in 1 .. Len(m_files) /\ Len(m_files) \in Nat
  BY TypesOfTables DEF OpenFds, nullptr
<1>2. /\ try_insert(t, m_descriptors[t][fd])
      /\ UNCHANGED <<m_files, m_count, opening, mixed, running>>
  BY DEF dup
<1>3. /\ m_descriptors' \in [Tasks -> Seq(0 .. Len(m_files))]
      /\ \A u \in Tasks : Len(m_descriptors'[u]) <= MaxFds
  BY <1>1, <1>2, InsertReplaces
<1>4. m_files' \in Seq(Files)
  BY <1>2, TypesOfTables DEF Files
<1>5. /\ OpensTyped(opening', m_count', Len(m_files)) /\ m_count' \in 0 .. Len(m_files)
      /\ mixed' \in BOOLEAN /\ running' \subseteq Tasks
  BY <1>2, TypesOfTables, TypesOfOpens
<1>6. QED
  BY <1>1, <1>2, <1>3, <1>4, <1>5, TypesFrom

LEMMA ExitTypes ==
  ASSUME Typed, NEW t \in Tasks, Exit(t)
  PROVE  Typed'
<1>1. /\ running' = running \ {t} /\ m_descriptors' = [m_descriptors EXCEPT ![t] = <<>>]
      /\ UNCHANGED <<m_files, m_count, opening, mixed>>
  BY DEF Exit
<1>2. /\ m_descriptors' \in [Tasks -> Seq(0 .. Len(m_files))]
      /\ \A u \in Tasks : Len(m_descriptors'[u]) <= MaxFds
  <2>1. m_descriptors \in [Tasks -> Seq(0 .. Len(m_files))]
    BY DEF Typed, TypeOK
  <2>2. <<>> \in Seq(0 .. Len(m_files)) /\ Len(<<>>) <= MaxFds
    BY FileTableAssumption DEF FileTableAssumption
  <2>3. QED
    BY <1>1, <2>1, <2>2 DEF Typed, TablesFit
<1>3. m_files' \in Seq(Files) /\ Len(m_files) \in Nat
  BY <1>1, TypesOfTables DEF Files
<1>4. /\ OpensTyped(opening', m_count', Len(m_files)) /\ m_count' \in 0 .. Len(m_files)
      /\ mixed' \in BOOLEAN /\ running' \subseteq Tasks
  BY <1>1, TypesOfTables, TypesOfOpens
<1>5. QED
  BY <1>1, <1>2, <1>3, <1>4, TypesFrom

LEMMA NextKeepsTypes ==
  ASSUME Typed, [Next]_vars
  PROVE  Typed'
<1>1. CASE UNCHANGED vars
  BY <1>1 DEF vars, Typed, TypeOK, TablesFit
<1>2. CASE Next
  <2>1. running \subseteq Tasks
    BY TypesOfTables
  <2>2. QED
    BY <1>2, <2>1, MakesTypes, OpenTypes, OpenFailsTypes, CloseTypes, DupTypes, ExitTypes
    DEF Next
<1>3. QED
  BY <1>1, <1>2
-----------------------------------------------------------------------------
(***************************************************************************)
(* Every step keeps the tables sound as long as no opens have been mixed.  *)
(* First the steps up to the one that gives an open its description.       *)
(***************************************************************************)
LEMMA LeadsInside ==
  ASSUME Typed, NEW t \in Tasks, NEW i, NEW d, Leads(t, i, d), d # nullptr
  PROVE  d \in 1 .. Len(m_files) /\ i \in 1 .. MaxFds /\ d \in Nat
BY TypesOfTables DEF Leads, nullptr

\* What an open is after its step; the other tasks' are as before.
Moved(t, at, d) ==
  /\ opening'[t].at = at /\ opening'[t].d = d
  /\ \A u \in Tasks : u # t => opening'[u] = opening[u]

LEMMA ReachesMoves ==
  ASSUME Typed, NEW t \in Tasks, NEW at, NEW d, Reaches(t, at, d)
  PROVE  Moved(t, at, d)
<1>1. opening'[t] = [at |-> at, d |-> d]
  BY ReachesOnly
<1>2. \A u \in Tasks : u # t => opening'[u] = opening[u]
  BY ReachesOnly
<1>3. QED
  BY <1>1, <1>2 DEF Moved

LEMMA MadeIsThere ==
  ASSUME Typed, Sound, NEW t \in Tasks, NEW d \in Nat, HasMade(t, d)
  PROVE  d \in DOMAIN m_files
<1>1. opening[t].at \in Made /\ opening[t].d = d
  BY DEF HasMade
<1>2. d > 0 /\ (opening[t].at # "count" => d <= Len(m_files))
  BY <1>1, TypesOfOpens DEF OpensTyped, Stage, Made
<1>3. opening[t].at = "count" => d = Len(m_files)
  BY <1>1 DEF Sound, OneAppends
<1>4. Len(m_files) \in Nat /\ DOMAIN m_files = 1 .. Len(m_files)
  BY TypesOfTables
<1>5. d <= Len(m_files)
  BY <1>2, <1>3, <1>4
<1>6. QED
  BY <1>2, <1>4, <1>5

\* The tables have not changed and neither have the descriptions that opens have made.
LEMMA QuietSound ==
  ASSUME Typed, Sound, UNCHANGED <<m_files, m_descriptors, running>>,
         \A u \in Tasks : \A d \in Nat : HasMade(u, d)' <=> HasMade(u, d)
  PROVE  LedToIsNew' /\ NoSharing' /\ AliveIsLedTo' /\ MadeIsNew'
<1>1. LedToIsNew' /\ NoSharing'
  BY DEF Sound, LedToIsNew, NoSharing, Leads
<1>2. \A u \in Tasks : \A i, d : Leads(u, i, d)' <=> Leads(u, i, d)
  BY DEF Leads
<1>3. AliveIsLedTo'
  <2>1. SUFFICES ASSUME running = Tasks, NEW d \in DOMAIN m_files, m_files[d].alive
                 PROVE  \E u \in Tasks : HasMade(u, d)' \/ \E i \in 1 .. MaxFds : Leads(u, i, d)'
    BY DEF AliveIsLedTo
  <2>2. d \in Nat
    BY TypesOfTables
  <2>3. QED
    BY <1>2, <2>1, <2>2 DEF Sound, AliveIsLedTo
<1>4. MadeIsNew'
  BY <1>2 DEF Sound, MadeIsNew
<1>5. QED
  BY <1>1, <1>3, <1>4

LEMMA AppendSound ==
  ASSUME Typed, Sound, NEW t \in Tasks, append(t), ~mixed'
  PROVE  Sound'
<1>1. /\ opening[t].at = "none" /\ \A u \in Tasks : opening[u].at \notin InAppend
      /\ UNCHANGED <<m_files, m_count, m_descriptors, running>>
      /\ Moved(t, "emplace", m_count + 1)
  BY ReachesMoves DEF append, Idle
<1>2. \A u \in Tasks : \A d \in Nat : HasMade(u, d)' <=> HasMade(u, d)
  BY <1>1 DEF HasMade, Made, Moved
<1>3. ~Counting /\ ~Counting' /\ Len(m_files) = m_count
  <2>1. ~Counting
    BY <1>1 DEF Counting, InAppend
  <2>2. ~Counting'
    BY <1>1 DEF Counting, InAppend, Moved
  <2>3. QED
    BY <2>1, <2>2 DEF Sound, OneAppends
<1>4. OneAppends'
  <2>1. \A u \in Tasks : opening'[u].at \in InAppend => u = t
    BY <1>1 DEF Moved
  <2>2. \A u \in Tasks :
          /\ opening'[u].at = "emplace" => opening'[u].d = Len(m_files) + 1
          /\ opening'[u].at \notin {"load", "count", "take"}
    BY <1>1, <1>3, <2>1 DEF Moved, InAppend
  <2>3. QED
    BY <1>1, <1>3, <2>1, <2>2 DEF OneAppends
<1>5. QED
  BY <1>1, <1>2, <1>4, QuietSound DEF Sound

\* What an open in an append knows of the vector when it is the only one.
LEMMA Appending ==
  ASSUME Typed, Sound, NEW t \in Tasks, opening[t].at \in InAppend
  PROVE  /\ \A u \in Tasks : u # t => opening[u].at \notin InAppend
         /\ opening[t].at = "emplace" =>
              opening[t].d = Len(m_files) + 1 /\ Len(m_files) = m_count
         /\ opening[t].at \in {"load", "count"} =>
              opening[t].d = Len(m_files) /\ Len(m_files) = m_count + 1
         /\ opening[t].at = "take" =>
              opening[t].d = Len(m_files) /\ Len(m_files) = m_count
<1>1. \A u \in Tasks : u # t => opening[u].at \notin InAppend
  BY DEF Sound, OneAppends
<1>2. opening[t].at \in {"load", "count"} => Counting
  BY DEF Counting
<1>3. opening[t].at \in {"emplace", "take"} => ~Counting
  BY <1>1 DEF Counting, InAppend
<1>4. QED
  BY <1>1, <1>2, <1>3 DEF Sound, OneAppends

\* One in an append again, at the end of the vector.
LEMMA StillAppending ==
  ASSUME NEW t \in Tasks, NEW at \in {"load", "count", "take"}, NEW d,
         Moved(t, at, d), \A u \in Tasks : u # t => opening[u].at \notin InAppend,
         d = Len(m_files'),
         at \in {"load", "count"} => Len(m_files') = m_count' + 1,
         at = "take" => Len(m_files') = m_count'
  PROVE  OneAppends'
<1>1. \A u \in Tasks : opening'[u].at \in InAppend => u = t
  BY DEF Moved
<1>2. /\ opening'[t].at = at /\ opening'[t].d = d /\ at # "emplace"
  BY DEF Moved
<1>3. Counting' <=> at \in {"load", "count"}
  <2>1. \A u \in Tasks : opening'[u].at \in {"load", "count"} => u = t
    BY <1>1 DEF InAppend
  <2>2. QED
    BY <1>2, <2>1 DEF Counting
<1>4. \A u \in Tasks :
        /\ opening'[u].at = "emplace" => opening'[u].d = Len(m_files') + 1
        /\ opening'[u].at \in {"load", "count", "take"} => opening'[u].d = Len(m_files')
  BY <1>1, <1>2 DEF InAppend
<1>5. QED
  BY <1>1, <1>3, <1>4 DEF OneAppends

\* The description goes behind the end of the vector, where no descriptor leads and which
\* no other open has.
LEMMA EmplaceSound ==
  ASSUME Typed, Sound, NEW t \in Tasks, emplace(t)
  PROVE  Sound'
<1> DEFINE n == Len(m_files) + 1
<1>1. /\ opening[t].at = "emplace" /\ m_files' = Put(m_files, opening[t].d, FileDescription)
      /\ UNCHANGED <<m_count, m_descriptors, running>>
      /\ Moved(t, "load", opening[t].d)
  BY ReachesMoves DEF emplace
<1>2. /\ \A u \in Tasks : u # t => opening[u].at \notin InAppend
      /\ opening[t].d = n /\ n = m_count + 1
  BY <1>1, Appending DEF InAppend
<1>3. n \in Nat \ {0} /\ n <= Len(m_files) + 1
  BY TypesOfTables
<1> HIDE DEF n
<1>4. IsPut(Files, m_files, n, FileDescription, m_files')
  BY <1>1, <1>2, <1>3, TypesOfTables, NewIsFile, PutIsSeq
<1>5. /\ Len(m_files') = n /\ m_files'[n] = FileDescription
      /\ DOMAIN m_files' = DOMAIN m_files \cup {n}
      /\ \A d \in 1 .. Len(m_files) : m_files'[d] = m_files[d]
  <2>1. Len(m_files) \in Nat /\ DOMAIN m_files = 1 .. Len(m_files)
    BY TypesOfTables
  <2>2. n = Len(m_files) + 1
    BY DEF n
  <2>3. n > Len(m_files) /\ \A d \in 1 .. Len(m_files) : d # n
    BY <2>1, <2>2
  <2>4. Len(m_files') = n
    BY <1>4, <2>3 DEF IsPut
  <2>5. m_files'[n] = FileDescription /\ DOMAIN m_files' = DOMAIN m_files \cup {n}
    BY <1>4 DEF IsPut
  <2>6. \A d \in 1 .. Len(m_files) : m_files'[d] = m_files[d]
    BY <1>4, <2>1, <2>3 DEF IsPut
  <2>7. QED
    BY <2>4, <2>5, <2>6
<1>6. \A u \in Tasks : \A i : ~Leads(u, i, n)
  BY <1>3, LeadsInside DEF n, nullptr
<1>7. \A u \in Tasks : \A d \in Nat : HasMade(u, d) => d # n /\ d \in 1 .. Len(m_files)
  <2>1. ASSUME NEW u \in Tasks, opening[u].at \in Made
        PROVE  opening[u].d \in 1 .. Len(m_files)
    <3>1. opening[u].at = "insert"
      BY <1>1, <1>2, <2>1 DEF Made, InAppend
    <3>2. QED
      BY <3>1, InsertedIsThere
  <2>2. n \notin 1 .. Len(m_files)
    BY TypesOfTables DEF n
  <2>3. QED
    BY <2>1, <2>2 DEF HasMade
<1>8. \A u \in Tasks : \A d \in Nat : HasMade(u, d)' <=> HasMade(u, d) \/ (u = t /\ d = n)
  BY <1>1, <1>2 DEF HasMade, Made, Moved
<1>9. \A u \in Tasks : \A i, d : Leads(u, i, d)' <=> Leads(u, i, d)
  BY <1>1 DEF Leads
<1>10. LedToIsNew'
  <2>1. SUFFICES ASSUME NEW u \in Tasks, NEW i \in DOMAIN m_descriptors[u],
                        m_descriptors[u][i] # nullptr
                 PROVE  m_files'[m_descriptors[u][i]] = FileDescription
    BY <1>1 DEF LedToIsNew
  <2>2. m_descriptors[u][i] \in 1 .. Len(m_files)
    BY <2>1, TypesOfTables DEF nullptr
  <2>3. QED
    BY <1>5, <2>1, <2>2 DEF Sound, LedToIsNew
<1>11. NoSharing'
  BY <1>9 DEF Sound, NoSharing
<1>12. AliveIsLedTo'
  <2>1. SUFFICES ASSUME running = Tasks, NEW d \in DOMAIN m_files', m_files'[d].alive
                 PROVE  \E u \in Tasks : HasMade(u, d)' \/ \E i \in 1 .. MaxFds : Leads(u, i, d)'
    BY <1>1 DEF AliveIsLedTo
  <2>2. CASE d = n
    BY <1>3, <1>8, <2>2
  <2>3. CASE d # n
    <3>1. d \in DOMAIN m_files /\ d \in 1 .. Len(m_files) /\ d \in Nat
      BY <1>5, <2>3, TypesOfTables
    <3>2. m_files[d].alive
      BY <1>5, <2>1, <3>1
    <3>3. QED
      BY <1>8, <1>9, <2>1, <3>1, <3>2 DEF Sound, AliveIsLedTo
  <2>4. QED
    BY <2>2, <2>3
<1>13. MadeIsNew'
  <2>1. SUFFICES ASSUME NEW u \in Tasks, NEW d \in Nat, HasMade(u, d)'
                 PROVE  /\ m_files'[d] = FileDescription
                        /\ \A v \in Tasks : \A i \in Nat : ~Leads(v, i, d)'
                        /\ \A v \in Tasks : HasMade(v, d)' => v = u
    BY DEF MadeIsNew
  <2>2. CASE d = n
    BY <1>5, <1>6, <1>7, <1>8, <1>9, <2>1, <2>2
  <2>3. CASE d # n
    <3>1. HasMade(u, d) /\ d \in 1 .. Len(m_files)
      BY <1>7, <1>8, <2>1, <2>3
    <3>2. QED
      BY <1>5, <1>8, <1>9, <2>3, <3>1 DEF Sound, MadeIsNew
  <2>4. QED
    BY <2>2, <2>3
<1>14. OneAppends'
  BY <1>1, <1>2, <1>5, StillAppending
<1>15. QED
  BY <1>10, <1>11, <1>12, <1>13, <1>14 DEF Sound

\* The steps that count find the description where it was made, when no others append.
LEMMA CountingSound ==
  ASSUME Typed, Sound, NEW t \in Tasks, load(t) \/ count(t) \/ take(t)
  PROVE  Sound'
<1>1. CASE load(t)
  <2>1. PICK d \in {opening[t].d, m_count + 1} : Reaches(t, "count", d)
    BY <1>1 DEF load
  <2>2. opening[t].at = "load" /\ UNCHANGED <<m_files, m_count, m_descriptors, running>>
    BY <1>1 DEF load
  <2>3. /\ \A u \in Tasks : u # t => opening[u].at \notin InAppend
        /\ opening[t].d = Len(m_files) /\ Len(m_files) = m_count + 1
    BY <2>2, Appending DEF InAppend
  <2>4. Moved(t, "count", d) /\ d = opening[t].d /\ d = Len(m_files')
    BY <2>1, <2>2, <2>3, ReachesMoves
  <2>5. \A u \in Tasks : \A e \in Nat : HasMade(u, e)' <=> HasMade(u, e)
    BY <2>2, <2>4 DEF HasMade, Made, Moved
  <2>6. OneAppends'
    BY <2>2, <2>3, <2>4, StillAppending
  <2>7. QED
    BY <2>2, <2>5, <2>6, QuietSound DEF Sound
<1>2. CASE count(t)
  <2>1. /\ opening[t].at = "count" /\ m_count' = opening[t].d
        /\ m_files' = IF opening[t].d \in DOMAIN m_files THEN m_files
                      ELSE Put(m_files, opening[t].d, Unmade)
        /\ UNCHANGED <<m_descriptors, running>> /\ Reaches(t, "take", opening[t].d)
    BY <1>2 DEF count
  <2>2. /\ \A u \in Tasks : u # t => opening[u].at \notin InAppend
        /\ opening[t].d = Len(m_files)
    BY <2>1, Appending DEF InAppend
  <2>3. opening[t].d \in DOMAIN m_files
    <3>1. opening[t].d > 0
      BY <2>1, TypesOfOpens DEF OpensTyped, Stage
    <3>2. QED
      BY <2>2, <3>1, TypesOfTables
  <2>4. Moved(t, "take", opening[t].d) /\ m_files' = m_files /\ opening[t].d = Len(m_files')
    BY <2>1, <2>2, <2>3, ReachesMoves
  <2>5. \A u \in Tasks : \A e \in Nat : HasMade(u, e)' <=> HasMade(u, e)
    BY <2>1, <2>4 DEF HasMade, Made, Moved
  <2>6. OneAppends'
    BY <2>1, <2>2, <2>4, StillAppending
  <2>7. QED
    BY <2>1, <2>4, <2>5, <2>6, QuietSound DEF Sound
<1>3. CASE take(t)
  <2>1. PICK d \in {opening[t].d, m_count} : Reaches(t, "insert", d)
    BY <1>3 DEF take
  <2>2. opening[t].at = "take" /\ UNCHANGED <<m_files, m_count, m_descriptors, running>>
    BY <1>3 DEF take
  <2>3. /\ \A u \in Tasks : u # t => opening[u].at \notin InAppend
        /\ opening[t].d = Len(m_files) /\ Len(m_files) = m_count
    BY <2>2, Appending DEF InAppend
  <2>4. Moved(t, "insert", d) /\ d = opening[t].d
    BY <2>1, <2>3, ReachesMoves
  <2>5. \A u \in Tasks : \A e \in Nat : HasMade(u, e)' <=> HasMade(u, e)
    BY <2>2, <2>4 DEF HasMade, Made, Moved
  <2>6. OneAppends'
    BY <2>2, <2>3, <2>4 DEF OneAppends, Counting, Moved, InAppend
  <2>7. QED
    BY <2>2, <2>5, <2>6, QuietSound DEF Sound
<1>4. QED
  BY <1>1, <1>2, <1>3
-----------------------------------------------------------------------------
(***************************************************************************)
(* Then those that are of a task's own table.                              *)
(***************************************************************************)
\* The vector has not changed, and no open has come to or left an append.
LEMMA AppendsStay ==
  ASSUME Sound, Len(m_files') = Len(m_files), m_count' = m_count,
         \A u \in Tasks : opening'[u] = opening[u] \/
                          (opening'[u].at \notin InAppend /\ opening[u].at \notin InAppend)
  PROVE  OneAppends'
<1>1. Counting' <=> Counting
  BY DEF Counting, InAppend
<1>2. \A u \in Tasks : opening'[u].at \in InAppend =>
        opening[u].at \in InAppend /\ opening'[u] = opening[u]
  OBVIOUS
<1>3. \A u \in Tasks :
        /\ opening'[u].at = "emplace" => opening'[u].d = Len(m_files) + 1
        /\ opening'[u].at \in {"load", "count", "take"} => opening'[u].d = Len(m_files)
  BY <1>2 DEF Sound, OneAppends, InAppend
<1>4. QED
  BY <1>1, <1>2, <1>3 DEF Sound, OneAppends

LEMMA OpenSound ==
  ASSUME Typed, Sound, NEW t \in Tasks, open(t)
  PROVE  Sound'
<1> DEFINE n == opening[t].d
<1>1. /\ opening[t].at = "insert" /\ try_insert(t, n)
      /\ UNCHANGED <<m_files, m_count, running>> /\ Moved(t, "none", nullptr)
      /\ n \in 1 .. Len(m_files) /\ n \in Nat /\ n # nullptr
  BY ReachesMoves, InsertedIsThere DEF open, nullptr
<1>2. HasMade(t, n)
  BY <1>1 DEF HasMade, Made
<1>3. PICK i \in Nat :
        /\ Replaces(t, i, n)
        /\ i \in DOMAIN m_descriptors[t] => m_descriptors[t][i] = nullptr
  BY <1>1, InsertReplaces
<1> HIDE DEF n
<1>4. /\ m_files[n] = FileDescription
      /\ \A u \in Tasks : \A j \in Nat : ~Leads(u, j, n)
      /\ \A u \in Tasks : HasMade(u, n) => u = t
  BY <1>1, <1>2 DEF Sound, MadeIsNew
<1>5. \A u \in Tasks : \A d \in Nat : HasMade(u, d)' <=> HasMade(u, d) /\ u # t
  BY <1>1 DEF HasMade, Made, Moved
<1>6. \A u \in Tasks : \A j, d \in Nat :
        d # nullptr => (Leads(u, j, d)' <=> Leads(u, j, d) \/ (u = t /\ j = i /\ d = n))
  <2>1. SUFFICES ASSUME NEW u \in Tasks, NEW j \in Nat, NEW d \in Nat, d # nullptr
                 PROVE  Leads(u, j, d)' <=> Leads(u, j, d) \/ (u = t /\ j = i /\ d = n)
    OBVIOUS
  <2>2. CASE u = t /\ j = i
    BY <1>3, <2>1, <2>2 DEF Replaces, Leads
  <2>3. CASE u # t \/ j # i
    BY <1>3, <2>3 DEF Replaces, Leads
  <2>4. QED
    BY <2>2, <2>3
<1>7. LedToIsNew'
  <2>1. SUFFICES ASSUME NEW u \in Tasks, NEW k \in DOMAIN m_descriptors'[u],
                        m_descriptors'[u][k] # nullptr
                 PROVE  m_files[m_descriptors'[u][k]] = FileDescription
    BY <1>1 DEF LedToIsNew
  <2>2. CASE u = t /\ k = i
    BY <1>3, <1>4, <2>2 DEF Replaces
  <2>3. CASE u # t \/ k # i
    BY <1>3, <2>1, <2>3 DEF Replaces, Sound, LedToIsNew
  <2>4. QED
    BY <2>2, <2>3
<1>8. NoSharing'
  BY <1>4, <1>6 DEF Sound, NoSharing
<1>9. AliveIsLedTo'
  <2>1. SUFFICES ASSUME running = Tasks, NEW d \in DOMAIN m_files, m_files[d].alive
                 PROVE  \E u \in Tasks : HasMade(u, d)' \/ \E j \in 1 .. MaxFds : Leads(u, j, d)'
    BY <1>1 DEF AliveIsLedTo
  <2>2. d \in Nat /\ d # nullptr
    BY TypesOfTables DEF nullptr
  <2>3. CASE d = n
    <3>1. Leads(t, i, d)' /\ i \in 1 .. MaxFds
      BY <1>3, <1>6, <2>2, <2>3 DEF Replaces
    <3>2. QED
      BY <3>1
  <2>4. CASE d # n
    <3>1. PICK u \in Tasks : HasMade(u, d) \/ \E j \in 1 .. MaxFds : Leads(u, j, d)
      BY <2>1 DEF Sound, AliveIsLedTo
    <3>2. CASE HasMade(u, d)
      <4>1. u # t
        BY <2>4, <3>2 DEF HasMade, n
      <4>2. QED
        BY <1>5, <2>2, <3>2, <4>1
    <3>3. CASE \E j \in 1 .. MaxFds : Leads(u, j, d)
      BY <1>6, <2>2, <3>3
    <3>4. QED
      BY <3>1, <3>2, <3>3
  <2>5. QED
    BY <2>3, <2>4
<1>10. MadeIsNew'
  <2>1. SUFFICES ASSUME NEW u \in Tasks, NEW d \in Nat, HasMade(u, d)'
                 PROVE  /\ m_files[d] = FileDescription
                        /\ \A v \in Tasks : \A j \in Nat : ~Leads(v, j, d)'
                        /\ \A v \in Tasks : HasMade(v, d)' => v = u
    BY <1>1 DEF MadeIsNew
  <2>2. HasMade(u, d) /\ u # t /\ d # n
    BY <1>4, <1>5, <2>1
  <2>3. d # nullptr
    BY <1>1, <2>2, TypesOfOpens DEF HasMade, Made, OpensTyped, Stage, nullptr
  <2>4. QED
    BY <1>5, <1>6, <2>2, <2>3 DEF Sound, MadeIsNew
<1>11. OneAppends'
  BY <1>1, AppendsStay DEF Moved, InAppend
<1>12. QED
  BY <1>7, <1>8, <1>9, <1>10, <1>11 DEF Sound

LEMMA OpenFailsSound ==
  ASSUME Typed, Sound, NEW t \in Tasks, OpenFails(t)
  PROVE  Sound'
<1> DEFINE n == opening[t].d
<1>1. /\ opening[t].at = "insert" /\ m_files' = Release(m_files, n)
      /\ UNCHANGED <<m_count, m_descriptors, running>> /\ Moved(t, "none", nullptr)
      /\ n \in DOMAIN m_files /\ n \in Nat
  BY ReachesMoves, InsertedIsThere, TypesOfTables DEF OpenFails
<1>2. HasMade(t, n)
  BY <1>1 DEF HasMade, Made
<1>3. /\ m_files[n] = FileDescription
      /\ \A u \in Tasks : \A j \in Nat : ~Leads(u, j, n)
      /\ \A u \in Tasks : HasMade(u, n) => u = t
  BY <1>1, <1>2 DEF Sound, MadeIsNew
<1>4. \A u \in Tasks : \A d \in Nat : HasMade(u, d)' <=> HasMade(u, d) /\ u # t
  BY <1>1 DEF HasMade, Made, Moved
<1> HIDE DEF n
<1>5. /\ Len(m_files') = Len(m_files) /\ DOMAIN m_files' = DOMAIN m_files
      /\ ~m_files'[n].alive
      /\ \A e \in DOMAIN m_files : e # n => m_files'[e] = m_files[e]
  <2>1. m_files' \in Seq(Files) /\ Len(m_files') = Len(m_files)
    BY <1>1, TypesOfTables, ReleaseTypes
  <2>2. DOMAIN m_files' = DOMAIN m_files
    BY <2>1, TypesOfTables
  <2>3. QED
    BY <1>1, <1>3, <2>1, <2>2, TypesOfTables, ReleasedDies
<1>6. \A u \in Tasks : \A j, d : Leads(u, j, d)' <=> Leads(u, j, d)
  BY <1>1 DEF Leads
<1>7. LedToIsNew'
  <2>1. SUFFICES ASSUME NEW u \in Tasks, NEW k \in DOMAIN m_descriptors[u],
                        m_descriptors[u][k] # nullptr
                 PROVE  m_files'[m_descriptors[u][k]] = FileDescription
    BY <1>1 DEF LedToIsNew
  <2>2. m_descriptors[u][k] \in DOMAIN m_files /\ k \in Nat
    BY <2>1, TypesOfTables DEF nullptr
  <2>3. m_descriptors[u][k] # n
    BY <1>3, <2>2 DEF Leads
  <2>4. QED
    BY <1>5, <2>1, <2>2, <2>3 DEF Sound, LedToIsNew
<1>8. NoSharing'
  BY <1>6 DEF Sound, NoSharing
<1>9. AliveIsLedTo'
  <2>1. SUFFICES ASSUME running = Tasks, NEW d \in DOMAIN m_files, m_files'[d].alive
                 PROVE  \E u \in Tasks : HasMade(u, d)' \/ \E j \in 1 .. MaxFds : Leads(u, j, d)'
    BY <1>1, <1>5 DEF AliveIsLedTo
  <2>2. d \in Nat /\ d # n /\ m_files[d].alive
    BY <1>5, <2>1, TypesOfTables
  <2>3. PICK u \in Tasks : HasMade(u, d) \/ \E j \in 1 .. MaxFds : Leads(u, j, d)
    BY <2>1, <2>2 DEF Sound, AliveIsLedTo
  <2>4. HasMade(u, d) => u # t
    BY <2>2 DEF HasMade, n
  <2>5. QED
    BY <1>4, <1>6, <2>2, <2>3, <2>4
<1>10. MadeIsNew'
  <2>1. SUFFICES ASSUME NEW u \in Tasks, NEW d \in Nat, HasMade(u, d)'
                 PROVE  /\ m_files'[d] = FileDescription
                        /\ \A v \in Tasks : \A j \in Nat : ~Leads(v, j, d)'
                        /\ \A v \in Tasks : HasMade(v, d)' => v = u
    BY DEF MadeIsNew
  <2>2. HasMade(u, d) /\ d # n
    BY <1>3, <1>4, <2>1
  <2>3. m_files[d] = FileDescription
    BY <2>2 DEF Sound, MadeIsNew
  <2>4. d \in DOMAIN m_files
    BY <2>2, MadeIsThere
  <2>5. QED
    BY <1>4, <1>5, <1>6, <2>2, <2>3, <2>4 DEF Sound, MadeIsNew
<1>11. OneAppends'
  BY <1>1, <1>5, AppendsStay DEF Moved, InAppend
<1>12. QED
  BY <1>7, <1>8, <1>9, <1>10, <1>11 DEF Sound

\* Neither does a duplicate make two tasks meet, since it is made in the table it is from.
LEMMA DupSound ==
  ASSUME Typed, Sound, NEW t \in Tasks, NEW fd \in OpenFds(t), dup(t, fd)
  PROVE  Sound'
<1> DEFINE n == m_descriptors[t][fd]
<1>1. /\ fd \in Nat /\ Leads(t, fd, n) /\ fd \in DOMAIN m_descriptors[t]
      /\ n \in 1 .. Len(m_files) /\ n # nullptr /\ n \in Nat
  BY TypesOfTables DEF OpenFds, nullptr, Leads
<1>2. try_insert(t, n) /\ UNCHANGED <<m_files, m_count, opening, running>>
  BY DEF dup
<1>3. PICK i \in Nat :
        /\ Replaces(t, i, n)
        /\ i \in DOMAIN m_descriptors[t] => m_descriptors[t][i] = nullptr
  BY <1>1, <1>2, InsertReplaces
<1>4. m_files[n] = FileDescription
  BY <1>1 DEF Sound, LedToIsNew
<1> HIDE DEF n
<1>5. \A u \in Tasks : \A d : HasMade(u, d)' <=> HasMade(u, d)
  BY <1>2 DEF HasMade
<1>6. \A u \in Tasks : \A j, d \in Nat :
        d # nullptr => (Leads(u, j, d)' <=> Leads(u, j, d) \/ (u = t /\ j = i /\ d = n))
  <2>1. SUFFICES ASSUME NEW u \in Tasks, NEW j \in Nat, NEW d \in Nat, d # nullptr
                 PROVE  Leads(u, j, d)' <=> Leads(u, j, d) \/ (u = t /\ j = i /\ d = n)
    OBVIOUS
  <2>2. CASE u = t /\ j = i
    BY <1>3, <2>1, <2>2 DEF Replaces, Leads
  <2>3. CASE u # t \/ j # i
    BY <1>3, <2>3 DEF Replaces, Leads
  <2>4. QED
    BY <2>2, <2>3
<1>7. LedToIsNew'
  <2>1. SUFFICES ASSUME NEW u \in Tasks, NEW k \in DOMAIN m_descriptors'[u],
                        m_descriptors'[u][k] # nullptr
                 PROVE  m_files[m_descriptors'[u][k]] = FileDescription
    BY <1>2 DEF LedToIsNew
  <2>2. CASE u = t /\ k = i
    BY <1>3, <1>4, <2>2 DEF Replaces
  <2>3. CASE u # t \/ k # i
    BY <1>3, <2>1, <2>3 DEF Replaces, Sound, LedToIsNew
  <2>4. QED
    BY <2>2, <2>3
<1>8. NoSharing'
  <2>1. SUFFICES ASSUME NEW u \in Tasks, NEW v \in Tasks,
                        NEW j \in Nat, NEW k \in Nat, NEW d \in Nat,
                        Leads(u, j, d)', Leads(v, k, d)', d # nullptr
                 PROVE  u = v
    BY DEF NoSharing
  <2>2. (\E l \in Nat : Leads(u, l, d)) /\ (\E l \in Nat : Leads(v, l, d))
    BY <1>1, <1>6, <2>1
  <2>3. QED
    BY <2>1, <2>2 DEF Sound, NoSharing
<1>9. AliveIsLedTo'
  <2>1. SUFFICES ASSUME running = Tasks, NEW d \in DOMAIN m_files, m_files[d].alive
                 PROVE  \E u \in Tasks : HasMade(u, d)' \/ \E j \in 1 .. MaxFds : Leads(u, j, d)'
    BY <1>2 DEF AliveIsLedTo
  <2>2. d \in Nat /\ d # nullptr
    BY TypesOfTables DEF nullptr
  <2>3. QED
    BY <1>5, <1>6, <2>1, <2>2 DEF Sound, AliveIsLedTo
<1>10. MadeIsNew'
  <2>1. SUFFICES ASSUME NEW u \in Tasks, NEW d \in Nat, HasMade(u, d)
                 PROVE  /\ m_files[d] = FileDescription
                        /\ \A v \in Tasks : \A j \in Nat : ~Leads(v, j, d)'
                        /\ \A v \in Tasks : HasMade(v, d) => v = u
    BY <1>2, <1>5 DEF MadeIsNew
  <2>2. d # n
    BY <1>1, <2>1 DEF Sound, MadeIsNew
  <2>3. d # nullptr
    BY <2>1, TypesOfOpens DEF HasMade, Made, OpensTyped, Stage, nullptr
  <2>4. QED
    BY <1>6, <2>1, <2>2, <2>3 DEF Sound, MadeIsNew
<1>11. OneAppends'
  BY <1>2, AppendsStay
<1>12. QED
  BY <1>7, <1>8, <1>9, <1>10, <1>11 DEF Sound

LEMMA CloseSound ==
  ASSUME ~CloseShared, Typed, Sound, NEW t \in Tasks, NEW fd \in OpenFds(t), close(t, fd)
  PROVE  Sound'
<1> DEFINE n == m_descriptors[t][fd]
<1>1. /\ fd \in DOMAIN m_descriptors[t] /\ fd \in Nat /\ Leads(t, fd, n)
      /\ n # nullptr /\ n \in DOMAIN m_files /\ n \in Nat
  BY TypesOfTables DEF OpenFds, nullptr, Leads
<1>2. /\ Cardinality(Holders(n)) = 1 /\ m_files' = Release(m_files, n)
      /\ UNCHANGED <<m_count, opening, running>>
  BY DEF close
<1>3. m_files[n] = FileDescription
  BY <1>1 DEF Sound, LedToIsNew
<1>4. \A u \in Tasks : \A i : Leads(u, i, n) => u = t /\ i = fd
  BY <1>1, <1>2, OnlyHolder DEF Leads
<1> HIDE DEF n
<1>5. /\ Len(m_files') = Len(m_files) /\ DOMAIN m_files' = DOMAIN m_files
      /\ ~m_files'[n].alive
      /\ \A e \in DOMAIN m_files : e # n => m_files'[e] = m_files[e]
  <2>1. m_files' \in Seq(Files) /\ Len(m_files') = Len(m_files)
    BY <1>1, <1>2, TypesOfTables, ReleaseTypes
  <2>2. DOMAIN m_files' = DOMAIN m_files
    BY <2>1, TypesOfTables
  <2>3. QED
    BY <1>1, <1>2, <1>3, <2>1, <2>2, TypesOfTables, ReleasedDies
<1>6. \A u \in Tasks :
        /\ DOMAIN m_descriptors'[u] = DOMAIN m_descriptors[u]
        /\ \A i \in DOMAIN m_descriptors[u] :
             m_descriptors'[u][i] =
               IF u = t /\ i = fd THEN nullptr ELSE m_descriptors[u][i]
  BY CloseTypes
<1>7. \A u \in Tasks : \A i, d :
        d # nullptr => (Leads(u, i, d)' <=> Leads(u, i, d) /\ d # n)
  <2>1. Leads(t, fd, n) /\ \A d : Leads(t, fd, d) => d = n
    BY <1>1 DEF Leads
  <2>2. QED
    BY <1>4, <1>6, <2>1 DEF Leads
<1>8. \A u \in Tasks : \A d : HasMade(u, d)' <=> HasMade(u, d)
  BY <1>2 DEF HasMade
<1>9. LedToIsNew'
  <2>1. SUFFICES ASSUME NEW u \in Tasks, NEW k \in DOMAIN m_descriptors'[u],
                        m_descriptors'[u][k] # nullptr
                 PROVE  m_files'[m_descriptors'[u][k]] = FileDescription
    BY DEF LedToIsNew
  <2>2. /\ k \in DOMAIN m_descriptors[u] /\ m_descriptors'[u][k] = m_descriptors[u][k]
        /\ m_descriptors[u][k] # n
    BY <1>4, <1>6, <2>1 DEF Leads
  <2>3. m_descriptors[u][k] \in DOMAIN m_files
    BY <2>1, <2>2, TypesOfTables DEF nullptr
  <2>4. QED
    BY <1>5, <2>1, <2>2, <2>3 DEF Sound, LedToIsNew
<1>10. NoSharing'
  BY <1>7 DEF Sound, NoSharing
<1>11. AliveIsLedTo'
  <2>1. SUFFICES ASSUME running = Tasks, NEW d \in DOMAIN m_files, m_files'[d].alive
                 PROVE  \E u \in Tasks : HasMade(u, d)' \/ \E k \in 1 .. MaxFds : Leads(u, k, d)'
    BY <1>2, <1>5 DEF AliveIsLedTo
  <2>2. d # n /\ d # nullptr /\ m_files[d].alive
    BY <1>5, <2>1, TypesOfTables DEF nullptr
  <2>3. QED
    BY <1>7, <1>8, <2>1, <2>2 DEF Sound, AliveIsLedTo
<1>12. MadeIsNew'
  <2>1. SUFFICES ASSUME NEW u \in Tasks, NEW d \in Nat, HasMade(u, d)
                 PROVE  /\ m_files'[d] = FileDescription
                        /\ \A v \in Tasks : \A j \in Nat : ~Leads(v, j, d)'
                        /\ \A v \in Tasks : HasMade(v, d) => v = u
    BY <1>8 DEF MadeIsNew
  <2>2. d # n
    BY <1>1, <2>1 DEF Sound, MadeIsNew
  <2>3. d # nullptr
    BY <2>1, TypesOfOpens DEF HasMade, Made, OpensTyped, Stage, nullptr
  <2>4. d \in DOMAIN m_files
    BY <2>1, MadeIsThere
  <2>5. QED
    BY <1>5, <1>7, <2>1, <2>2, <2>3, <2>4 DEF Sound, MadeIsNew
<1>13. OneAppends'
  BY <1>2, <1>5, AppendsStay
<1>14. QED
  BY <1>9, <1>10, <1>11, <1>12, <1>13 DEF Sound

LEMMA ExitSound ==
  ASSUME Typed, Sound, NEW t \in running, Exit(t)
  PROVE  Sound'
<1>1. /\ t \in Tasks /\ running' = running \ {t}
      /\ UNCHANGED <<m_files, m_count, opening>>
      /\ m_descriptors' = [m_descriptors EXCEPT ![t] = <<>>]
  BY TypesOfTables DEF Exit
<1>2. /\ m_descriptors'[t] = <<>>
      /\ \A u \in Tasks : u # t => m_descriptors'[u] = m_descriptors[u]
  <2>1. m_descriptors \in [Tasks -> Seq(0 .. Len(m_files))]
    BY DEF Typed, TypeOK
  <2>2. QED
    BY <1>1, <2>1
<1>3. DOMAIN m_descriptors'[t] = {}
  BY <1>2
<1>4. \A u \in Tasks : \A i, d : Leads(u, i, d)' => Leads(u, i, d)
  BY <1>2, <1>3 DEF Leads
<1>5. LedToIsNew'
  BY <1>1, <1>2, <1>3 DEF Sound, LedToIsNew
<1>6. NoSharing'
  BY <1>4 DEF Sound, NoSharing
<1>7. AliveIsLedTo'
  BY <1>1, TypesOfTables DEF AliveIsLedTo
<1>8. MadeIsNew'
  BY <1>1, <1>4 DEF Sound, MadeIsNew, HasMade
<1>9. OneAppends'
  BY <1>1, AppendsStay
<1>10. QED
  BY <1>5, <1>6, <1>7, <1>8, <1>9 DEF Sound
-----------------------------------------------------------------------------
LEMMA InitEstablishes ==
  ASSUME Init
  PROVE  FInv
<1>1. /\ m_files = <<>> /\ Len(m_files) = 0 /\ DOMAIN m_files = {} /\ running = Tasks
      /\ m_count = 0 /\ mixed = FALSE
  BY DEF Init
<1>2. \A t \in Tasks :
        /\ m_descriptors[t] = <<>> /\ Len(m_descriptors[t]) = 0
        /\ DOMAIN m_descriptors[t] = {}
        /\ opening[t].at = "none"
  BY DEF Init
<1>3. m_descriptors \in [Tasks -> Seq(0 .. Len(m_files))]
  <2>1. <<>> \in Seq(0 .. Len(m_files))
    OBVIOUS
  <2>2. QED
    BY <2>1 DEF Init
<1>4. opening \in [Tasks -> [at : {"none", "insert"} \cup InAppend, d : 0 .. Len(m_files) + 1]]
  BY <1>1 DEF Init, nullptr
<1>5. Typed
  <2>1. m_files \in Seq([m_ref_count : 0 .. RefModulus - 1, alive : BOOLEAN])
    BY <1>1
  <2>2. m_count \in 0 .. Len(m_files) /\ mixed \in BOOLEAN /\ running \subseteq Tasks
    <3>1. mixed \in BOOLEAN
      BY Zenon DEF Init
    <3>2. m_count \in 0 .. Len(m_files) /\ running \subseteq Tasks
      BY <1>1
    <3>3. QED
      BY <3>1, <3>2
  <2>3. TypeOK
    BY <1>2, <1>3, <1>4, <2>1, <2>2 DEF TypeOK
  <2>4. TablesFit
    BY <1>2, FileTableAssumption DEF TablesFit, FileTableAssumption
  <2>5. QED
    BY <2>3, <2>4 DEF Typed
<1>6. LedToIsNew /\ NoSharing /\ AliveIsLedTo
  BY <1>1, <1>2 DEF LedToIsNew, NoSharing, AliveIsLedTo, Leads
<1>7. MadeIsNew /\ OneAppends
  BY <1>1, <1>2 DEF MadeIsNew, OneAppends, HasMade, Counting, Made, InAppend
<1>8. QED
  BY <1>5, <1>6, <1>7 DEF FInv, Sound

\* An append that begins in the middle of another is remembered.
LEMMA MixedStays ==
  ASSUME FInv, [Next]_vars, ~mixed'
  PROVE  ~mixed /\ Sound
<1>1. ~mixed
  BY DEF vars, Next, Makes, append, emplace, load, count, take, open, OpenFails, close, dup,
         Exit
<1>2. QED
  BY <1>1 DEF FInv

LEMMA NextPreserves ==
  ASSUME ~CloseShared, FInv, [Next]_vars
  PROVE  FInv'
<1>1. Typed /\ Typed'
  BY NextKeepsTypes DEF FInv
<1>2. SUFFICES ASSUME ~mixed'
               PROVE  Sound'
  BY <1>1 DEF FInv
<1>3. Sound /\ running \subseteq Tasks
  BY <1>1, <1>2, MixedStays, TypesOfTables
<1>4. CASE UNCHANGED vars
  <2>1. UNCHANGED <<m_files, m_count, opening, m_descriptors, running>>
    BY <1>4 DEF vars
  <2>2. OneAppends'
    BY <1>3, <2>1, AppendsStay
  <2>3. QED
    BY <1>1, <1>3, <2>1, <2>2, QuietSound DEF Sound, HasMade
<1>5. ASSUME NEW t \in running, Makes(t)
      PROVE  Sound'
  BY <1>1, <1>2, <1>3, <1>5, AppendSound, EmplaceSound, CountingSound DEF Makes
<1>6. ASSUME NEW t \in running, open(t) \/ OpenFails(t)
      PROVE  Sound'
  BY <1>1, <1>3, <1>6, OpenSound, OpenFailsSound
<1>7. ASSUME NEW t \in running, NEW fd \in OpenFds(t), close(t, fd) \/ dup(t, fd)
      PROVE  Sound'
  BY <1>1, <1>3, <1>7, CloseSound, DupSound
<1>8. ASSUME NEW t \in running, Exit(t)
      PROVE  Sound'
  BY <1>1, <1>3, <1>8, ExitSound
<1>9. QED
  BY <1>4, <1>5, <1>6, <1>7, <1>8 DEF Next

\* What FilesInv says of descriptions and their holders.
LEMMA InvariantImplies == FInv => FilesInv
<1>1. SUFFICES ASSUME FInv, ~mixed
               PROVE  OpenIsAlive /\ TasksAreApart /\ ClosedIsReleased
  BY DEF FilesInv, FInv, Typed
<1>2. Typed /\ Sound
  BY <1>1 DEF FInv
<1>3. OpenIsAlive
  <2>1. SUFFICES ASSUME NEW t \in Tasks, NEW fd \in DOMAIN m_descriptors[t],
                        m_descriptors[t][fd] # nullptr
                 PROVE  m_files[m_descriptors[t][fd]].alive
    BY <1>2, TypesOfTables DEF OpenIsAlive, OpenFds
  <2>2. m_files[m_descriptors[t][fd]] = FileDescription
    BY <1>2, <2>1 DEF Sound, LedToIsNew
  <2>3. FileDescription.alive = TRUE
    BY DEF FileDescription
  <2>4. QED
    BY <2>2, <2>3
<1>4. TasksAreApart
  <2>1. SUFFICES ASSUME NEW d \in DOMAIN m_files,
                        NEW h1 \in Holders(d), NEW h2 \in Holders(d)
                 PROVE  h1[1] = h2[1]
    BY DEF TasksAreApart
  <2>2. d \in Nat /\ d # nullptr
    BY <1>2, TypesOfTables DEF nullptr
  <2>3. \A h \in Holders(d) : h[1] \in Tasks /\ h[2] \in Nat /\ Leads(h[1], h[2], d)
    BY <1>2, TypesOfTables DEF Holders, Leads
  <2>4. QED
    BY <1>2, <2>2, <2>3 DEF Sound, NoSharing
<1>5. ClosedIsReleased
  <2>1. SUFFICES ASSUME running = Tasks, NEW d \in DOMAIN m_files, m_files[d].alive,
                        \A t \in Tasks : opening[t].at \in Made => opening[t].d # d
                 PROVE  Holders(d) # {}
    BY DEF ClosedIsReleased
  <2>2. PICK t \in Tasks : \E i \in 1 .. MaxFds : Leads(t, i, d)
    BY <1>2, <2>1 DEF Sound, AliveIsLedTo, HasMade
  <2>3. PICK i \in 1 .. MaxFds : Leads(t, i, d)
    BY <2>2
  <2>4. <<t, i>> \in Holders(d)
    BY <1>2, <2>3, HoldersLead DEF Leads
  <2>5. QED
    BY <2>4
<1>6. QED
  BY <1>3, <1>4, <1>5
-----------------------------------------------------------------------------
LEMMA SpecKeepsInvariant ==
  ASSUME ~CloseShared
  PROVE  Spec => []FInv
<1>1. Init => FInv
  BY InitEstablishes
<1>2. FInv /\ [Next]_vars => FInv'
  BY NextPreserves
<1>3. QED
  BY <1>1, <1>2, PTL DEF Spec

\* Descriptors lead to files that are there, tasks do not meet in a description, and a
\* file that nobody can reach has been given back: for any number of tasks, at every step
\* of their opens, as long as no task closes a descriptor that it has duplicated, and
\* until an open begins between another's append and its look at the length.
THEOREM FilesInvariant ==
  ASSUME ~CloseShared
  PROVE  Spec => []FilesInv
BY SpecKeepsInvariant, InvariantImplies, PTL

\* Open descriptors stay as they are until they are closed.
Stay == \A t \in running' : \A fd \in OpenFds(t) :
          m_descriptors'[t][fd] \in {m_descriptors[t][fd], nullptr}

LEMMA NextStays ==
  ASSUME Typed, Next
  PROVE  Stay
<1>1. SUFFICES ASSUME NEW t \in running', NEW fd \in OpenFds(t)
               PROVE  m_descriptors'[t][fd] \in {m_descriptors[t][fd], nullptr}
  BY DEF Stay
<1>2. PICK u \in running :
        \/ Makes(u) \/ open(u) \/ OpenFails(u)
        \/ \E f \in OpenFds(u) : close(u, f) \/ dup(u, f)
        \/ Exit(u)
  BY DEF Next
<1>3. /\ t \in Tasks /\ u \in Tasks
      /\ fd \in DOMAIN m_descriptors[t] /\ m_descriptors[t][fd] # nullptr
  <2>1. running' \subseteq running
    BY <1>2
    DEF Makes, append, emplace, load, count, take, open, OpenFails, close, dup, Exit
  <2>2. QED
    BY <1>2, <2>1, TypesOfTables DEF OpenFds
<1>4. ASSUME NEW i \in Nat, NEW d \in Nat, Replaces(u, i, d),
             i \in DOMAIN m_descriptors[u] => m_descriptors[u][i] = nullptr
      PROVE  m_descriptors'[t][fd] = m_descriptors[t][fd]
  BY <1>3, <1>4 DEF Replaces
<1>5. CASE open(u)
  <2>1. opening[u].d \in 1 .. Len(m_files) /\ opening[u].d \in Nat
    BY <1>3, <1>5, InsertedIsThere DEF open
  <2>2. try_insert(u, opening[u].d)
    BY <1>5 DEF open
  <2>3. QED
    BY <1>3, <1>4, <2>1, <2>2, InsertReplaces
<1>6. CASE Makes(u) \/ OpenFails(u)
  BY <1>6 DEF Makes, append, emplace, load, count, take, OpenFails
<1>7. ASSUME NEW f \in OpenFds(u), close(u, f)
      PROVE  m_descriptors'[t][fd] \in {m_descriptors[t][fd], nullptr}
  BY <1>3, <1>7, CloseTypes
<1>8. ASSUME NEW f \in OpenFds(u), dup(u, f)
      PROVE  m_descriptors'[t][fd] = m_descriptors[t][fd]
  <2>1. m_descriptors[u][f] \in 1 .. Len(m_files) /\ m_descriptors[u][f] \in Nat
    BY <1>3, TypesOfTables DEF OpenFds, nullptr
  <2>2. try_insert(u, m_descriptors[u][f])
    BY <1>8 DEF dup
  <2>3. QED
    BY <1>3, <1>4, <2>1, <2>2, InsertReplaces
<1>9. CASE Exit(u)
  <2>1. t # u
    BY <1>1, <1>9 DEF Exit
  <2>2. QED
    BY <1>3, <1>9, <2>1 DEF Exit, Typed, TypeOK
<1>10. QED
  BY <1>2, <1>5, <1>6, <1>7, <1>8, <1>9

\* open and dup put nothing in the place of an open descriptor, and close empties its
\* own place only, whatever other descriptors come and go and however opens are mixed.
THEOREM DescriptorsStay == Spec => DescriptorsAreStable
<1>1. Init => Typed
  BY InitEstablishes DEF FInv
<1>2. Typed /\ [Next]_vars => Typed'
  BY NextKeepsTypes
<1>3. Typed /\ [Next]_vars => [Stay]_vars
  BY NextStays
<1>4. QED
  BY <1>1, <1>2, <1>3, PTL DEF Spec, DescriptorsAreStable, Stay
-----------------------------------------------------------------------------
(***************************************************************************)
(* The shell.  Its steps and those of the others are steps of the tables,  *)
(* so that FInv holds; what the shell may rely on depends on the place it  *)
(* has come to, until opens are mixed.                                     *)
(***************************************************************************)
Modes == [device : {"zero", "null", "uart0", "display"}, mode : {"Read", "Write", "ReadWrite"}]

\* There is a mode for every description.
FilesTyped == file \in Seq(Modes) /\ Len(file) = Len(m_files)

\* Descriptor fd of the shell leads to a file of this device, opened in this mode.
Opens(fd, device, mode) ==
  /\ fd \in OpenFds(shell)
  /\ file[m_descriptors[shell][fd]] = [device |-> device, mode |-> mode]

AfterIn == {"close_out", "dup_out", "open_display", "write_display", "close_display",
            "buffer", "prompt", "read", "run", "exit"}
AfterOut == AfterIn \ {"close_out", "dup_out"}

\* Descriptors 0 and 1 are occupied except between close and dup, when they are free, so
\* that what is opened goes behind them and what is duplicated goes in their place.
Occupied ==
  /\ place \notin {"dup_in", "failed"} => STDIN \in OpenFds(shell)
  /\ place \notin {"dup_out", "failed"} => STDOUT \in OpenFds(shell)
Vacant ==
  /\ place = "dup_in" => m_descriptors[shell][STDIN] = nullptr
  /\ place = "dup_out" => m_descriptors[shell][STDOUT] = nullptr

\* The descriptors that the shell has at hand and what they lead to.
AtHand ==
  /\ place \in {"open_write", "close_in", "dup_in"} =>
       fds.uart_read > STDOUT /\ Opens(fds.uart_read, "uart0", "Read")
  /\ place \in {"close_in", "dup_in", "close_out", "dup_out"} =>
       fds.uart_write > STDOUT /\ Opens(fds.uart_write, "uart0", "Write")
  /\ place \in {"write_display", "close_display"} =>
       fds.display > STDOUT /\ Opens(fds.display, "display", "ReadWrite")
Standard ==
  /\ place \in AfterIn => Opens(STDIN, "uart0", "Read")
  /\ place \in AfterOut => Opens(STDOUT, "uart0", "Write")

\* The shell is in an open only where it opens, and what it has made is what it asks for.
Underway ==
  /\ place \notin DOMAIN Asks => Idle(shell)
  /\ \A d \in Nat : HasMade(shell, d) => file[d] = Asks[place]

Places == AfterIn \cup {"open_read", "open_write", "close_in", "dup_in", "failed"}
Fields == {"uart_read", "uart_write", "display"}
ScriptType ==
  /\ place \in Places
  /\ FilesTyped
  /\ fds \in [Fields -> Int]

WhileRunning == shell \in running => Occupied /\ Vacant /\ AtHand /\ Standard /\ Underway

Script == ScriptType /\ WhileRunning /\ (place = "failed" => starved)

ScriptInv == ~mixed => Script
-----------------------------------------------------------------------------
(***************************************************************************)
(* What the calls do to the shell's table.                                 *)
(***************************************************************************)
\* These descriptors stay open and lead where they led.
Keeps(S) ==
  \A fd \in S :
    /\ fd \in OpenFds(shell)'
    /\ file'[m_descriptors'[shell][fd]] = file[m_descriptors[shell][fd]]

LEMMA FreePlaceIsUnique ==
  ASSUME Typed, NEW t \in Tasks
  PROVE  \A i, j \in FreePlaces(m_descriptors[t]) : i = j
BY TypesOfTables DEF FreePlaces

LEMMA LengthOfFiles ==
  ASSUME Typed, NEW t \in Tasks
  PROVE  /\ open(t) \/ OpenFails(t) => Len(m_files') = Len(m_files)
         /\ \A fd \in OpenFds(t) : close(t, fd) => Len(m_files') = Len(m_files)
<1>1. open(t) => Len(m_files') = Len(m_files)
  BY DEF open
<1>2. ASSUME OpenFails(t)
      PROVE  Len(m_files') = Len(m_files)
  <2>1. opening[t].d \in DOMAIN m_files /\ m_files' = Release(m_files, opening[t].d)
    BY <1>2, InsertedIsThere, TypesOfTables DEF OpenFails
  <2>2. QED
    BY <2>1, TypesOfTables, ReleaseTypes
<1>3. ASSUME NEW fd \in OpenFds(t), close(t, fd)
      PROVE  Len(m_files') = Len(m_files)
  <2>1. m_descriptors[t][fd] \in DOMAIN m_files
    BY TypesOfTables DEF OpenFds, nullptr
  <2>2. m_files' = Release(m_files, m_descriptors[t][fd])
    BY <1>3 DEF close
  <2>3. QED
    BY <2>1, <2>2, TypesOfTables, ReleaseTypes
<1>4. QED
  BY <1>1, <1>2, <1>3

\* What a step of an open does to the files: those that were there stay, and what it has
\* made is what it was asked for.
LEMMA MakesFileEffect ==
  ASSUME Typed, Sound, FilesTyped, NEW t \in Tasks, NEW f \in Modes, MakesFile(t, f)
  PROVE  /\ FilesTyped' /\ UNCHANGED <<m_descriptors, running>>
         /\ \A d \in DOMAIN m_files : file'[d] = file[d]
         /\ \A u \in Tasks : u # t => opening'[u] = opening[u]
         /\ (\A d \in Nat : HasMade(t, d) => file[d] = f)
              => \A d \in Nat : HasMade(t, d)' => file'[d] = f
<1>1. CASE append(t) /\ UNCHANGED file
  <2>1. Moved(t, "emplace", m_count + 1) /\ UNCHANGED <<m_files, m_descriptors, running>>
    BY <1>1, ReachesMoves DEF append
  <2>2. \A d \in Nat : ~HasMade(t, d)'
    BY <2>1 DEF HasMade, Made, Moved
  <2>3. QED
    BY <1>1, <2>1, <2>2 DEF FilesTyped, Moved
<1>2. CASE emplace(t) /\ file' = Put(file, opening[t].d, f)
  <2> DEFINE n == Len(m_files) + 1
  <2>1. /\ opening[t].at = "emplace" /\ m_files' = Put(m_files, opening[t].d, FileDescription)
        /\ UNCHANGED <<m_descriptors, running>>
        /\ Moved(t, "load", opening[t].d)
    BY <1>2, ReachesMoves DEF emplace
  <2>2. opening[t].d = n /\ n \in Nat \ {0} /\ n <= Len(m_files) + 1 /\ n > Len(m_files)
    BY <2>1, Appending, TypesOfTables DEF InAppend
  <2>3. file \in Seq(Modes) /\ Len(file) = Len(m_files) /\ DOMAIN file = DOMAIN m_files
    BY TypesOfTables DEF FilesTyped
  <2> HIDE DEF n
  <2>4. IsPut(Files, m_files, n, FileDescription, m_files')
    BY <2>1, <2>2, TypesOfTables, NewIsFile, PutIsSeq
  <2>5. IsPut(Modes, file, n, f, file')
    BY <1>2, <2>2, <2>3, PutIsSeq
  <2>6. FilesTyped'
    <3>1. Len(m_files') = n /\ Len(file') = n
      BY <2>2, <2>3, <2>4, <2>5 DEF IsPut
    <3>2. file' \in Seq(Modes)
      BY <2>5 DEF IsPut
    <3>3. QED
      BY <3>1, <3>2 DEF FilesTyped, Modes
  <2>7. \A d \in DOMAIN m_files : file'[d] = file[d]
    <3>1. n \notin DOMAIN m_files
      BY <2>2, TypesOfTables
    <3>2. QED
      BY <2>3, <2>5, <3>1 DEF IsPut
  <2>8. \A d \in Nat : HasMade(t, d)' => file'[d] = f
    <3>1. \A d \in Nat : HasMade(t, d)' => d = n
      BY <2>1, <2>2 DEF HasMade, Moved
    <3>2. QED
      BY <2>5, <3>1 DEF IsPut
  <2>9. QED
    BY <2>1, <2>6, <2>7, <2>8 DEF Moved
<1>3. CASE load(t) /\ UNCHANGED file
  <2>1. PICK d \in {opening[t].d, m_count + 1} : Reaches(t, "count", d)
    BY <1>3 DEF load
  <2>2. opening[t].at = "load" /\ UNCHANGED <<m_files, m_descriptors, running>>
    BY <1>3 DEF load
  <2>3. Moved(t, "count", d) /\ d = opening[t].d
    BY <2>1, <2>2, Appending, ReachesMoves DEF InAppend
  <2>4. \A e \in Nat : HasMade(t, e)' => HasMade(t, e)
    BY <2>2, <2>3 DEF HasMade, Made, Moved
  <2>5. QED
    BY <1>3, <2>2, <2>3, <2>4 DEF FilesTyped, Moved
<1>4. CASE count(t) /\ file' = IF m_count' \in DOMAIN file THEN file ELSE Put(file, m_count', Null)
  <2>1. /\ opening[t].at = "count" /\ m_count' = opening[t].d
        /\ m_files' = IF opening[t].d \in DOMAIN m_files THEN m_files
                      ELSE Put(m_files, opening[t].d, Unmade)
        /\ UNCHANGED <<m_descriptors, running>> /\ Moved(t, "take", opening[t].d)
    BY <1>4, ReachesMoves DEF count
  <2>2. HasMade(t, opening[t].d) /\ opening[t].d \in DOMAIN m_files
    BY <2>1, TypesOfOpens, MadeIsThere DEF HasMade, Made
  <2>3. DOMAIN file = DOMAIN m_files
    BY TypesOfTables DEF FilesTyped
  <2>4. UNCHANGED <<m_files, file>>
    BY <1>4, <2>1, <2>2, <2>3
  <2>5. \A e \in Nat : HasMade(t, e)' => HasMade(t, e)
    BY <2>1 DEF HasMade, Made, Moved
  <2>6. QED
    BY <2>1, <2>4, <2>5 DEF FilesTyped, Moved
<1>5. CASE take(t) /\ UNCHANGED file
  <2>1. PICK d \in {opening[t].d, m_count} : Reaches(t, "insert", d)
    BY <1>5 DEF take
  <2>2. opening[t].at = "take" /\ UNCHANGED <<m_files, m_descriptors, running>>
    BY <1>5 DEF take
  <2>3. Moved(t, "insert", d) /\ d = opening[t].d
    BY <2>1, <2>2, Appending, ReachesMoves DEF InAppend
  <2>4. \A e \in Nat : HasMade(t, e)' => HasMade(t, e)
    BY <2>2, <2>3 DEF HasMade, Made, Moved
  <2>5. QED
    BY <1>5, <2>2, <2>3, <2>4 DEF FilesTyped, Moved
<1>6. QED
  BY <1>1, <1>2, <1>3, <1>4, <1>5 DEF MakesFile

\* What the shell has open keeps its file when descriptors and files stay.
LEMMA KeepsAll ==
  ASSUME Typed, m_descriptors'[shell] = m_descriptors[shell],
         \A d \in DOMAIN m_files : file'[d] = file[d]
  PROVE  Keeps(OpenFds(shell))
<1>1. shell \in Tasks
  BY ShellAssumption DEF ShellAssumption
<1>2. \A fd \in OpenFds(shell) : m_descriptors[shell][fd] \in DOMAIN m_files
  BY <1>1, TypesOfTables DEF OpenFds, nullptr
<1>3. QED
  BY <1>2 DEF Keeps, OpenFds

LEMMA OpenedEffect ==
  ASSUME Typed, Sound, FilesTyped, shell \in running, Opened,
         NEW f, \A d \in Nat : HasMade(shell, d) => file[d] = f
  PROVE  /\ FilesTyped' /\ running' = running /\ Keeps(OpenFds(shell)) /\ Idle(shell)'
         /\ \/ /\ result' \in Nat \ {0} /\ result' \notin OpenFds(shell)
               /\ result' \in OpenFds(shell)'
               /\ file'[m_descriptors'[shell][result']] = f
               /\ starved' = starved
            \/ result' = Failure /\ starved'
<1> DEFINE n == opening[shell].d
<1>1. shell \in Tasks
  BY ShellAssumption DEF ShellAssumption
<1>2. CASE /\ open(shell)
           /\ result' \in FreePlaces(m_descriptors[shell])
           /\ UNCHANGED <<file, starved>>
  <2>1. /\ try_insert(shell, n) /\ running' = running /\ m_files' = m_files
        /\ opening[shell].at = "insert" /\ Moved(shell, "none", nullptr)
    BY <1>1, <1>2, ReachesMoves DEF open
  <2>2. n \in 1 .. Len(m_files) /\ n \in Nat /\ n # nullptr /\ HasMade(shell, n)
    BY <1>1, <2>1, InsertedIsThere DEF HasMade, Made, nullptr
  <2>3. FilesTyped' /\ file'[n] = f /\ Idle(shell)'
    BY <1>2, <2>1, <2>2 DEF FilesTyped, Moved, Idle
  <2>4. PICK i \in Nat :
          /\ i \in FreePlaces(m_descriptors[shell])
          /\ Replaces(shell, i, n)
          /\ i \in DOMAIN m_descriptors[shell] => m_descriptors[shell][i] = nullptr
    BY <1>1, <2>1, <2>2, InsertReplaces
  <2> HIDE DEF n
  <2>5. i = result'
    BY <1>1, <1>2, <2>4, FreePlaceIsUnique
  <2>6. /\ i \in DOMAIN m_descriptors'[shell] /\ m_descriptors'[shell][i] = n
        /\ i \in Nat \ {0}
    BY <2>4 DEF Replaces
  <2>7. i \notin OpenFds(shell)
    BY <2>4 DEF OpenFds
  <2>8. \A fd \in OpenFds(shell) :
          fd \in OpenFds(shell)' /\ m_descriptors'[shell][fd] = m_descriptors[shell][fd]
    BY <2>4, <2>7 DEF Replaces, OpenFds
  <2>9. i \in OpenFds(shell)'
    BY <2>2, <2>6 DEF OpenFds
  <2>10. Keeps(OpenFds(shell))
    BY <1>2, <2>8 DEF Keeps
  <2>11. QED
    BY <1>2, <2>1, <2>3, <2>5, <2>6, <2>7, <2>9, <2>10
<1>3. CASE OpenFails(shell) /\ result' = Failure /\ starved' = TRUE /\ UNCHANGED file
  <2>1. /\ Len(m_files') = Len(m_files) /\ UNCHANGED <<m_descriptors, running>>
        /\ Moved(shell, "none", nullptr)
    BY <1>1, <1>3, LengthOfFiles, ReachesMoves DEF OpenFails
  <2>2. FilesTyped' /\ Keeps(OpenFds(shell)) /\ Idle(shell)'
    BY <1>3, <2>1, KeepsAll DEF FilesTyped, Idle, Moved
  <2>3. QED
    BY <1>3, <2>1, <2>2
<1>4. CASE Idle(shell) /\ UNCHANGED <<vars, file>> /\ result' = Failure /\ starved' = TRUE
  BY <1>4 DEF vars, FilesTyped, Keeps, OpenFds, Idle
<1>5. QED
  BY <1>2, <1>3, <1>4 DEF Opened

LEMMA ClosedEffect ==
  ASSUME Typed, FilesTyped, shell \in running, NEW fd \in OpenFds(shell), Closed(fd)
  PROVE  /\ FilesTyped' /\ running' = running /\ Keeps(OpenFds(shell) \ {fd})
         /\ m_descriptors'[shell][fd] = nullptr
         /\ result' = 0 /\ starved' = starved /\ Idle(shell)'
<1>1. close(shell, fd) /\ result' = 0 /\ UNCHANGED <<file, starved>>
  BY DEF Closed
<1>2. shell \in Tasks
  BY ShellAssumption DEF ShellAssumption
<1>3. Len(m_files') = Len(m_files) /\ running' = running /\ Idle(shell)'
  BY <1>1, <1>2, LengthOfFiles DEF close, Idle
<1>4. /\ DOMAIN m_descriptors'[shell] = DOMAIN m_descriptors[shell]
      /\ \A k \in DOMAIN m_descriptors[shell] :
           m_descriptors'[shell][k] = IF k = fd THEN nullptr ELSE m_descriptors[shell][k]
  BY <1>1, <1>2, CloseTypes
<1>5. m_descriptors'[shell][fd] = nullptr
  BY <1>4 DEF OpenFds
<1>6. Keeps(OpenFds(shell) \ {fd})
  BY <1>1, <1>4 DEF Keeps, OpenFds
<1>7. QED
  BY <1>1, <1>3, <1>5, <1>6 DEF FilesTyped

\* dup takes the place that was emptied last, when those before it are occupied.
LEMMA DuplicatedEffect ==
  ASSUME Typed, FilesTyped, shell \in running, NEW fd \in OpenFds(shell), Duplicated(fd),
         NEW i \in DOMAIN m_descriptors[shell], m_descriptors[shell][i] = nullptr,
         \A h \in 1 .. i - 1 : h \in OpenFds(shell)
  PROVE  /\ FilesTyped' /\ running' = running /\ Keeps(OpenFds(shell))
         /\ i \in OpenFds(shell)'
         /\ file'[m_descriptors'[shell][i]] = file[m_descriptors[shell][fd]]
         /\ result' = i /\ starved' = starved /\ Idle(shell)'
<1>1. ~InsertFails(shell)
  BY DEF InsertFails
<1>2. /\ dup(shell, fd)
      /\ result' \in FreePlaces(m_descriptors[shell])
      /\ UNCHANGED <<file, starved>>
  BY <1>1 DEF Duplicated
<1>3. /\ shell \in Tasks /\ m_descriptors[shell][fd] \in 1 .. Len(m_files)
      /\ m_descriptors[shell][fd] # nullptr
  BY TypesOfTables DEF OpenFds, nullptr
<1>4. PICK j \in Nat :
        /\ j \in FreePlaces(m_descriptors[shell])
        /\ Replaces(shell, j, m_descriptors[shell][fd])
  BY <1>2, <1>3, InsertReplaces DEF dup
<1>5. i \in FreePlaces(m_descriptors[shell])
  BY <1>3, TypesOfTables DEF FreePlaces, OpenFds
<1>6. i = j /\ i = result'
  BY <1>2, <1>3, <1>4, <1>5, FreePlaceIsUnique
<1>7. \A k \in OpenFds(shell) :
        k \in OpenFds(shell)' /\ m_descriptors'[shell][k] = m_descriptors[shell][k]
  BY <1>4, <1>6 DEF Replaces, OpenFds
<1>8. i \in OpenFds(shell)' /\ m_descriptors'[shell][i] = m_descriptors[shell][fd]
  BY <1>3, <1>4, <1>6 DEF Replaces, OpenFds
<1>9. /\ m_files' = m_files /\ running' = running /\ file' = file /\ starved' = starved
      /\ Idle(shell)'
  BY <1>2 DEF dup, Idle
<1>10. QED
  BY <1>6, <1>7, <1>8, <1>9 DEF Keeps, FilesTyped

\* Nothing of the shell's changes when others make calls.
LEMMA OthersEffect ==
  ASSUME Typed, Sound, FilesTyped, NEW t \in running \ {shell}, OtherOpens(t) \/ OtherCalls(t)
  PROVE  /\ FilesTyped' /\ (shell \in running' <=> shell \in running)
         /\ m_descriptors'[shell] = m_descriptors[shell]
         /\ opening'[shell] = opening[shell]
         /\ \A d \in DOMAIN m_files : file'[d] = file[d]
         /\ UNCHANGED script
<1>1. /\ shell \in Tasks /\ t \in Tasks /\ t # shell
      /\ m_descriptors \in [Tasks -> Seq(0 .. Len(m_files))]
  BY TypesOfTables, ShellAssumption DEF ShellAssumption, Typed, TypeOK
<1>2. UNCHANGED script
  BY DEF OtherOpens, OtherCalls
<1>3. CASE MakesFile(t, Null)
  <2>1. Null \in Modes
    BY DEF Null, Modes
  <2>2. QED
    BY <1>1, <1>2, <1>3, <2>1, MakesFileEffect
<1>4. CASE open(t) /\ UNCHANGED file
  <2>1. /\ try_insert(t, opening[t].d) /\ UNCHANGED <<m_files, running>>
        /\ Moved(t, "none", nullptr) /\ opening[t].d \in 1 .. Len(m_files)
    BY <1>1, <1>4, ReachesMoves, InsertedIsThere DEF open
  <2>2. PICK i \in Nat : Replaces(t, i, opening[t].d)
    BY <1>1, <2>1, InsertReplaces
  <2>3. QED
    BY <1>1, <1>2, <1>4, <2>1, <2>2 DEF Replaces, FilesTyped, Moved
<1>5. CASE OpenFails(t) /\ UNCHANGED file
  <2>1. /\ Len(m_files') = Len(m_files) /\ UNCHANGED <<m_descriptors, running>>
        /\ Moved(t, "none", nullptr)
    BY <1>1, <1>5, LengthOfFiles, ReachesMoves DEF OpenFails
  <2>2. QED
    BY <1>1, <1>2, <1>5, <2>1 DEF FilesTyped, Moved
<1>6. ASSUME NEW fd \in OpenFds(t), close(t, fd), UNCHANGED file
      PROVE  /\ FilesTyped' /\ (shell \in running' <=> shell \in running)
             /\ m_descriptors'[shell] = m_descriptors[shell]
             /\ opening'[shell] = opening[shell]
  <2>1. /\ m_descriptors' = [m_descriptors EXCEPT ![t][fd] = nullptr]
        /\ UNCHANGED <<opening, running>> /\ Len(m_files') = Len(m_files)
    BY <1>1, <1>6, LengthOfFiles DEF close
  <2>2. QED
    BY <1>1, <1>6, <2>1 DEF FilesTyped
<1>7. ASSUME NEW fd \in OpenFds(t), dup(t, fd), UNCHANGED file
      PROVE  /\ FilesTyped' /\ (shell \in running' <=> shell \in running)
             /\ m_descriptors'[shell] = m_descriptors[shell]
             /\ opening'[shell] = opening[shell]
  <2>1. /\ try_insert(t, m_descriptors[t][fd]) /\ UNCHANGED <<m_files, opening, running>>
        /\ m_descriptors[t][fd] \in 1 .. Len(m_files)
    BY <1>1, <1>7, TypesOfTables DEF dup, OpenFds, nullptr
  <2>2. PICK i \in Nat : Replaces(t, i, m_descriptors[t][fd])
    BY <1>1, <2>1, InsertReplaces
  <2>3. QED
    BY <1>1, <1>7, <2>1, <2>2 DEF Replaces, FilesTyped
<1>8. CASE Exit(t) /\ UNCHANGED file
  BY <1>1, <1>2, <1>8 DEF Exit, FilesTyped
<1>9. QED
  BY <1>2, <1>3, <1>4, <1>5, <1>6, <1>7, <1>8 DEF OtherOpens, OtherCalls
-----------------------------------------------------------------------------
(***************************************************************************)
(* The steps of the shell preserve the invariant.                          *)
(***************************************************************************)
\* What is open is alive.
LEMMA OpenAreAlive ==
  ASSUME Typed, Sound
  PROVE  \A fd \in OpenFds(shell) : m_files[m_descriptors[shell][fd]].alive
<1>1. shell \in Tasks
  BY ShellAssumption DEF ShellAssumption
<1>2. \A fd \in OpenFds(shell) : m_files[m_descriptors[shell][fd]] = FileDescription
  BY <1>1 DEF Sound, LedToIsNew, OpenFds
<1>3. FileDescription.alive = TRUE
  BY DEF FileDescription
<1>4. QED
  BY <1>2, <1>3

\* What every step keeps, apart from what the shell may rely on at the place it comes to.
Along(p) ==
  /\ FilesTyped' /\ place' = p /\ fds' \in [Fields -> Int]
  /\ p \in Places /\ Idle(shell)'

LEMMA IdleIsUnderway ==
  ASSUME Idle(shell)'
  PROVE  Underway'
<1>1. opening'[shell].at = "none"
  BY DEF Idle
<1>2. \A d \in Nat : ~HasMade(shell, d)'
  BY <1>1 DEF HasMade, Made
<1>3. QED
  BY <1>2 DEF Underway

LEMMA Fails ==
  ASSUME Along("failed"), starved'
  PROVE  Script'
<1>1. Underway'
  BY IdleIsUnderway DEF Along
<1>2. Occupied' /\ Vacant' /\ AtHand' /\ Standard'
  BY DEF Along, Occupied, Vacant, AtHand, Standard, AfterIn, AfterOut
<1>3. QED
  BY <1>1, <1>2 DEF Along, Script, ScriptType, WhileRunning

LEMMA Goes ==
  ASSUME NEW p \in Places \ {"failed"}, Along(p),
         Occupied', Vacant', AtHand', Standard'
  PROVE  Script'
BY IdleIsUnderway DEF Along, Script, ScriptType, WhileRunning

LEMMA OpenReadPreserves ==
  ASSUME Typed, Sound, Script, OpenUartRead
  PROVE  Script'
<1>1. /\ shell \in running /\ place = "open_read" /\ Opened
      /\ Goto("open_write", IsFd) /\ fds' = [fds EXCEPT !.uart_read = result']
      /\ FilesTyped /\ fds \in [Fields -> Int]
      /\ STDIN \in OpenFds(shell) /\ STDOUT \in OpenFds(shell)
  BY DEF OpenUartRead, At, Script, ScriptType, WhileRunning, Occupied, Fields
<1>2. \A d \in Nat :
        HasMade(shell, d) => file[d] = [device |-> "uart0", mode |-> "Read"]
  BY <1>1 DEF Script, WhileRunning, Underway, Asks
<1>3. /\ FilesTyped' /\ Keeps(OpenFds(shell)) /\ Idle(shell)'
      /\ \/ /\ result' \in Nat \ {0} /\ result' \notin OpenFds(shell)
            /\ result' \in OpenFds(shell)'
            /\ file'[m_descriptors'[shell][result']] = [device |-> "uart0", mode |-> "Read"]
         \/ result' = Failure /\ starved'
  BY <1>1, <1>2, OpenedEffect
<1>4. CASE result' = Failure
  <2>1. Along("failed") /\ starved'
    BY <1>1, <1>3, <1>4 DEF Along, Goto, IsFd, Failure, STDIN, Places, Fields
  <2>2. QED
    BY <2>1, Fails
<1>5. CASE result' # Failure
  <2>1. result' > STDOUT
    BY <1>1, <1>3, <1>5 DEF STDIN, STDOUT
  <2>2. Along("open_write") /\ fds'.uart_read = result'
    BY <1>1, <1>3, <1>5, <2>1 DEF Along, Goto, IsFd, STDIN, STDOUT, Places, Fields
  <2>3. Occupied' /\ Vacant'
    BY <1>1, <1>3, <2>2 DEF Along, Occupied, Vacant, Keeps
  <2>4. AtHand' /\ Standard'
    BY <1>3, <1>5, <2>1, <2>2 DEF Along, AtHand, Standard, Opens, AfterIn, AfterOut
  <2>5. QED
    BY <2>2, <2>3, <2>4, Goes DEF Places
<1>6. QED
  BY <1>4, <1>5

LEMMA OpenWritePreserves ==
  ASSUME Typed, Sound, Script, OpenUartWrite
  PROVE  Script'
<1>1. /\ shell \in running /\ place = "open_write" /\ Opened
      /\ Goto("close_in", IsFd) /\ fds' = [fds EXCEPT !.uart_write = result']
      /\ FilesTyped /\ fds \in [Fields -> Int]
      /\ STDIN \in OpenFds(shell) /\ STDOUT \in OpenFds(shell)
      /\ fds.uart_read > STDOUT /\ Opens(fds.uart_read, "uart0", "Read")
  BY DEF OpenUartWrite, At, Script, ScriptType, WhileRunning, Occupied, AtHand, Fields
<1>2. \A d \in Nat :
        HasMade(shell, d) => file[d] = [device |-> "uart0", mode |-> "Write"]
  BY <1>1 DEF Script, WhileRunning, Underway, Asks
<1>3. /\ FilesTyped' /\ Keeps(OpenFds(shell)) /\ Idle(shell)'
      /\ \/ /\ result' \in Nat \ {0} /\ result' \notin OpenFds(shell)
            /\ result' \in OpenFds(shell)'
            /\ file'[m_descriptors'[shell][result']] = [device |-> "uart0", mode |-> "Write"]
         \/ result' = Failure /\ starved'
  BY <1>1, <1>2, OpenedEffect
<1>4. CASE result' = Failure
  <2>1. Along("failed") /\ starved'
    BY <1>1, <1>3, <1>4 DEF Along, Goto, IsFd, Failure, STDIN, Places, Fields
  <2>2. QED
    BY <2>1, Fails
<1>5. CASE result' # Failure
  <2>1. result' > STDOUT
    BY <1>1, <1>3, <1>5 DEF STDIN, STDOUT
  <2>2. /\ Along("close_in")
        /\ fds'.uart_write = result' /\ fds'.uart_read = fds.uart_read
    BY <1>1, <1>3, <1>5, <2>1 DEF Along, Goto, IsFd, STDIN, STDOUT, Places, AfterIn, Fields
  <2>3. Occupied' /\ Vacant'
    BY <1>1, <1>3, <2>2 DEF Along, Occupied, Vacant, Keeps
  <2>4. AtHand' /\ Standard'
    BY <1>1, <1>3, <1>5, <2>1, <2>2
    DEF Along, AtHand, Standard, Opens, Keeps, AfterIn, AfterOut
  <2>5. QED
    BY <2>2, <2>3, <2>4, Goes DEF Places
<1>6. QED
  BY <1>4, <1>5

LEMMA CloseInPreserves ==
  ASSUME Typed, Sound, Script, CloseIn
  PROVE  Script'
<1>1. /\ shell \in running /\ place = "close_in" /\ Closed(STDIN)
      /\ Goto("dup_in", IsDone) /\ fds' = fds
      /\ FilesTyped /\ fds \in [Fields -> Int]
      /\ STDIN \in OpenFds(shell) /\ STDOUT \in OpenFds(shell)
      /\ fds.uart_read > STDOUT /\ Opens(fds.uart_read, "uart0", "Read")
      /\ fds.uart_write > STDOUT /\ Opens(fds.uart_write, "uart0", "Write")
  BY DEF CloseIn, At, Script, ScriptType, WhileRunning, Occupied, AtHand, Fields
<1>2. /\ FilesTyped' /\ Keeps(OpenFds(shell) \ {STDIN}) /\ Idle(shell)'
      /\ m_descriptors'[shell][STDIN] = nullptr /\ result' = 0
  BY <1>1, ClosedEffect
<1>3. Along("dup_in")
  BY <1>1, <1>2 DEF Along, Goto, IsDone, Places
<1>4. Occupied' /\ Vacant'
  BY <1>1, <1>2, <1>3 DEF Along, Occupied, Vacant, Keeps, STDIN, STDOUT
<1>5. AtHand' /\ Standard'
  BY <1>1, <1>2, <1>3
  DEF Along, AtHand, Standard, Opens, Keeps, AfterIn, AfterOut, STDIN, STDOUT
<1>6. QED
  BY <1>3, <1>4, <1>5, Goes DEF Places

LEMMA DupInPreserves ==
  ASSUME Typed, Sound, Script, DupIn
  PROVE  Script'
<1>1. /\ shell \in running /\ place = "dup_in" /\ Duplicated(fds.uart_read)
      /\ Goto("close_out", IsDone) /\ fds' = fds
      /\ FilesTyped /\ fds \in [Fields -> Int]
      /\ STDOUT \in OpenFds(shell) /\ m_descriptors[shell][STDIN] = nullptr
      /\ fds.uart_read > STDOUT /\ Opens(fds.uart_read, "uart0", "Read")
      /\ fds.uart_write > STDOUT /\ Opens(fds.uart_write, "uart0", "Write")
  BY DEF DupIn, At, Script, ScriptType, WhileRunning, Occupied, Vacant, AtHand
<1>2. /\ STDIN \in DOMAIN m_descriptors[shell] /\ fds.uart_read \in OpenFds(shell)
      /\ \A h \in 1 .. STDIN - 1 : h \in OpenFds(shell)
  BY <1>1, TypesOfTables DEF Opens, OpenFds, STDIN, STDOUT
<1>3. /\ FilesTyped' /\ Keeps(OpenFds(shell)) /\ STDIN \in OpenFds(shell)'
      /\ file'[m_descriptors'[shell][STDIN]] = file[m_descriptors[shell][fds.uart_read]]
      /\ result' = STDIN /\ Idle(shell)'
  BY <1>1, <1>2, DuplicatedEffect
<1>4. Along("close_out")
  BY <1>1, <1>3 DEF Along, Goto, IsDone, Places, AfterIn, STDIN
<1>5. Occupied' /\ Vacant'
  BY <1>1, <1>3, <1>4 DEF Along, Occupied, Vacant, Keeps
<1>6. AtHand' /\ Standard'
  BY <1>1, <1>3, <1>4 DEF Along, AtHand, Standard, Opens, Keeps, AfterIn, AfterOut
<1>7. QED
  BY <1>4, <1>5, <1>6, Goes DEF Places, AfterIn

LEMMA CloseOutPreserves ==
  ASSUME Typed, Sound, Script, CloseOut
  PROVE  Script'
<1>1. /\ shell \in running /\ place = "close_out" /\ Closed(STDOUT)
      /\ Goto("dup_out", IsDone) /\ fds' = fds
      /\ FilesTyped /\ fds \in [Fields -> Int]
      /\ STDIN \in OpenFds(shell) /\ STDOUT \in OpenFds(shell)
      /\ fds.uart_write > STDOUT /\ Opens(fds.uart_write, "uart0", "Write")
      /\ Opens(STDIN, "uart0", "Read")
  BY DEF CloseOut, At, Script, ScriptType, WhileRunning, Occupied, AtHand, Standard,
         AfterIn
<1>2. /\ FilesTyped' /\ Keeps(OpenFds(shell) \ {STDOUT}) /\ Idle(shell)'
      /\ m_descriptors'[shell][STDOUT] = nullptr /\ result' = 0
  BY <1>1, ClosedEffect
<1>3. Along("dup_out")
  BY <1>1, <1>2 DEF Along, Goto, IsDone, Places, AfterIn
<1>4. Occupied' /\ Vacant'
  BY <1>1, <1>2, <1>3 DEF Along, Occupied, Vacant, Keeps, STDIN, STDOUT
<1>5. AtHand' /\ Standard'
  BY <1>1, <1>2, <1>3
  DEF Along, AtHand, Standard, Opens, Keeps, AfterIn, AfterOut, STDIN, STDOUT
<1>6. QED
  BY <1>3, <1>4, <1>5, Goes DEF Places, AfterIn

LEMMA DupOutPreserves ==
  ASSUME Typed, Sound, Script, DupOut
  PROVE  Script'
<1>1. /\ shell \in running /\ place = "dup_out" /\ Duplicated(fds.uart_write)
      /\ Goto("open_display", IsDone) /\ fds' = fds
      /\ FilesTyped /\ fds \in [Fields -> Int]
      /\ STDIN \in OpenFds(shell) /\ m_descriptors[shell][STDOUT] = nullptr
      /\ fds.uart_write > STDOUT /\ Opens(fds.uart_write, "uart0", "Write")
      /\ Opens(STDIN, "uart0", "Read")
  BY DEF DupOut, At, Script, ScriptType, WhileRunning, Occupied, Vacant, AtHand,
         Standard, AfterIn
<1>2. /\ STDOUT \in DOMAIN m_descriptors[shell] /\ fds.uart_write \in OpenFds(shell)
      /\ \A h \in 1 .. STDOUT - 1 : h \in OpenFds(shell)
  BY <1>1, TypesOfTables DEF Opens, OpenFds, STDIN, STDOUT
<1>3. /\ FilesTyped' /\ Keeps(OpenFds(shell)) /\ STDOUT \in OpenFds(shell)'
      /\ file'[m_descriptors'[shell][STDOUT]] = file[m_descriptors[shell][fds.uart_write]]
      /\ result' = STDOUT /\ Idle(shell)'
  BY <1>1, <1>2, DuplicatedEffect
<1>4. Along("open_display")
  BY <1>1, <1>3 DEF Along, Goto, IsDone, Places, AfterIn, STDOUT
<1>5. Occupied' /\ Vacant'
  BY <1>1, <1>3, <1>4 DEF Along, Occupied, Vacant, Keeps
<1>6. AtHand' /\ Standard'
  BY <1>1, <1>3, <1>4 DEF Along, AtHand, Standard, Opens, Keeps, AfterIn, AfterOut
<1>7. QED
  BY <1>4, <1>5, <1>6, Goes DEF Places, AfterIn

LEMMA OpenDisplayPreserves ==
  ASSUME Typed, Sound, Script, OpenDisplay
  PROVE  Script'
<1>1. /\ shell \in running /\ place = "open_display" /\ Opened
      /\ Goto("write_display", IsFd) /\ fds' = [fds EXCEPT !.display = result']
      /\ FilesTyped /\ fds \in [Fields -> Int]
      /\ STDIN \in OpenFds(shell) /\ STDOUT \in OpenFds(shell)
      /\ Opens(STDIN, "uart0", "Read") /\ Opens(STDOUT, "uart0", "Write")
  BY DEF OpenDisplay, At, Script, ScriptType, WhileRunning, Occupied, Standard,
         AfterIn, AfterOut
<1>2. \A d \in Nat :
        HasMade(shell, d) => file[d] = [device |-> "display", mode |-> "ReadWrite"]
  BY <1>1 DEF Script, WhileRunning, Underway, Asks
<1>3. /\ FilesTyped' /\ Keeps(OpenFds(shell)) /\ Idle(shell)'
      /\ \/ /\ result' \in Nat \ {0} /\ result' \notin OpenFds(shell)
            /\ result' \in OpenFds(shell)'
            /\ file'[m_descriptors'[shell][result']] =
                 [device |-> "display", mode |-> "ReadWrite"]
         \/ result' = Failure /\ starved'
  BY <1>1, <1>2, OpenedEffect
<1>4. CASE result' = Failure
  <2>1. Along("failed") /\ starved'
    BY <1>1, <1>3, <1>4 DEF Along, Goto, IsFd, Failure, STDIN, Places, Fields
  <2>2. QED
    BY <2>1, Fails
<1>5. CASE result' # Failure
  <2>1. result' > STDOUT
    BY <1>1, <1>3, <1>5 DEF STDIN, STDOUT
  <2>2. Along("write_display") /\ fds'.display = result'
    BY <1>1, <1>3, <1>5, <2>1
    DEF Along, Goto, IsFd, STDIN, STDOUT, Places, AfterIn, Fields
  <2>3. Occupied' /\ Vacant'
    BY <1>1, <1>3, <2>2 DEF Along, Occupied, Vacant, Keeps
  <2>4. AtHand' /\ Standard'
    BY <1>1, <1>3, <1>5, <2>1, <2>2
    DEF Along, AtHand, Standard, Opens, Keeps, AfterIn, AfterOut
  <2>5. QED
    BY <2>2, <2>3, <2>4, Goes DEF Places, AfterIn
<1>6. QED
  BY <1>4, <1>5

LEMMA CloseDisplayPreserves ==
  ASSUME Typed, Sound, Script, CloseDisplay
  PROVE  Script'
<1>1. /\ shell \in running /\ place = "close_display" /\ Closed(fds.display)
      /\ Goto("buffer", IsDone) /\ fds' = fds
      /\ FilesTyped /\ fds \in [Fields -> Int]
      /\ STDIN \in OpenFds(shell) /\ STDOUT \in OpenFds(shell)
      /\ fds.display > STDOUT /\ fds.display \in OpenFds(shell)
      /\ Opens(STDIN, "uart0", "Read") /\ Opens(STDOUT, "uart0", "Write")
  BY DEF CloseDisplay, At, Script, ScriptType, WhileRunning, Occupied, AtHand, Standard,
         AfterIn, AfterOut, Opens
<1>2. /\ FilesTyped' /\ Keeps(OpenFds(shell) \ {fds.display}) /\ result' = 0 /\ Idle(shell)'
  BY <1>1, ClosedEffect
<1>3. Along("buffer")
  BY <1>1, <1>2 DEF Along, Goto, IsDone, Places, AfterIn
<1>4. Occupied' /\ Vacant'
  BY <1>1, <1>2, <1>3 DEF Along, Occupied, Vacant, Keeps, STDIN, STDOUT
<1>5. AtHand' /\ Standard'
  BY <1>1, <1>2, <1>3
  DEF Along, AtHand, Standard, Opens, Keeps, AfterIn, AfterOut, STDIN, STDOUT
<1>6. QED
  BY <1>3, <1>4, <1>5, Goes DEF Places, AfterIn

LEMMA IdleAway ==
  ASSUME Script, shell \in running, place \notin DOMAIN Asks, UNCHANGED vars
  PROVE  Idle(shell)'
BY DEF Script, WhileRunning, Underway, Idle, vars

\* Steps that leave the tables alone.
LEMMA TablesStay ==
  ASSUME Typed, Sound, Script, shell \in running, NEW p \in AfterOut,
         place \in AfterOut \ {"open_display"}, UNCHANGED <<vars, file, fds>>, place' = p,
         p \in {"write_display", "close_display"} => place = "write_display"
  PROVE  Script'
<1>1. Along(p)
  <2>1. place \notin DOMAIN Asks
    BY DEF AfterOut, AfterIn, Asks
  <2>2. Idle(shell)'
    BY <2>1, IdleAway
  <2>3. QED
    BY <2>2 DEF Along, Script, ScriptType, FilesTyped, vars, Places, AfterOut
<1>2. Occupied' /\ Vacant'
  BY DEF Occupied, Vacant, Script, WhileRunning, AfterOut, AfterIn, vars, OpenFds
<1>3. AtHand' /\ Standard'
  BY DEF AtHand, Standard, Script, WhileRunning, AfterOut, AfterIn, vars, Opens, OpenFds
<1>4. QED
  BY <1>1, <1>2, <1>3, Goes DEF AfterOut, AfterIn, Places

LEMMA WriteDisplayPreserves ==
  ASSUME Typed, Sound, Script, WriteDisplay
  PROVE  Script'
<1>1. /\ shell \in running /\ place = "write_display" /\ fds' = fds
      /\ Written(fds.display, Message) /\ UNCHANGED <<vars, file>>
      /\ FilesTyped /\ fds \in [Fields -> Int]
      /\ Opens(fds.display, "display", "ReadWrite")
  BY DEF WriteDisplay, At, Written, Script, ScriptType, WhileRunning, AtHand
<1>2. place' = IF result' > 0 THEN "close_display" ELSE "failed"
  BY DEF WriteDisplay, Goto
<1>3. /\ fds.display \in OpenFds(shell)
      /\ Device(m_descriptors[shell][fds.display]) = "display"
      /\ CanWrite(m_descriptors[shell][fds.display])
      /\ m_files[m_descriptors[shell][fds.display]].alive
  BY <1>1, OpenAreAlive DEF Opens, Device, CanWrite, Mode
<1>4. result' \in {Message, Failure}
  BY <1>1, <1>3 DEF Written, WriteResults, DeviceWrites
<1>5. CASE result' = Message
  <2>1. place' = "close_display"
    BY <1>2, <1>5, ShellAssumption DEF ShellAssumption
  <2>2. QED
    BY <1>1, <2>1, TablesStay DEF AfterOut, AfterIn
<1>6. CASE result' = Failure
  <2>1. starved'
    BY <1>1, <1>3, <1>6 DEF Written
  <2>2. place' = "failed"
    BY <1>2, <1>6 DEF Failure
  <2>3. Idle(shell)'
    BY <1>1, IdleAway DEF Asks
  <2>4. Along("failed")
    BY <1>1, <2>2, <2>3 DEF Along, FilesTyped, vars, Places
  <2>5. QED
    BY <2>1, <2>4, Fails
<1>7. QED
  BY <1>4, <1>5, <1>6

LEMMA BufferPreserves ==
  ASSUME Typed, Sound, Script, Buffer
  PROVE  Script'
<1>1. /\ shell \in running /\ place = "buffer" /\ UNCHANGED <<vars, file, fds>>
      /\ FilesTyped /\ fds \in [Fields -> Int]
  BY DEF Buffer, At, Script, ScriptType
<1>2. CASE place' = "prompt"
  BY <1>1, <1>2, TablesStay DEF AfterOut, AfterIn
<1>3. CASE place' = "failed" /\ starved'
  <2>1. Idle(shell)'
    BY <1>1, IdleAway DEF Asks
  <2>2. Along("failed")
    BY <1>1, <1>3, <2>1 DEF Along, FilesTyped, vars, Places
  <2>3. QED
    BY <1>3, <2>2, Fails
<1>4. QED
  BY <1>2, <1>3 DEF Buffer

LEMMA PromptPreserves ==
  ASSUME Typed, Sound, Script, Prompt
  PROVE  Script'
<1>1. /\ shell \in running /\ place = "prompt" /\ place' = "read"
      /\ UNCHANGED <<vars, file, fds>>
  BY DEF Prompt, At, Written
<1>2. QED
  BY <1>1, TablesStay DEF AfterOut, AfterIn

\* The read of a command: descriptor 0 can be read and gives as many bytes as were asked
\* for at most.
LEMMA ReadGives ==
  ASSUME Typed, Sound, Script, ReadCommand
  PROVE  result' \in 0 .. BufSize - 1
<1>1. Read(STDIN, BufSize) /\ Opens(STDIN, "uart0", "Read")
  BY DEF ReadCommand, At, Script, WhileRunning, Standard, AfterIn
<1>2. /\ STDIN \in OpenFds(shell)
      /\ Device(m_descriptors[shell][STDIN]) = "uart0"
      /\ CanRead(m_descriptors[shell][STDIN])
      /\ m_files[m_descriptors[shell][STDIN]].alive
  BY <1>1, OpenAreAlive DEF Opens, Device, CanRead, Mode
<1>3. QED
  BY <1>1, <1>2 DEF Read, ReadResults, DeviceReads, Asked

LEMMA ReadCommandPreserves ==
  ASSUME Typed, Sound, Script, ReadCommand
  PROVE  Script'
<1>1. /\ shell \in running /\ place = "read" /\ UNCHANGED <<vars, file, fds>>
      /\ Goto("run", IsDone)
  BY DEF ReadCommand, At, Read
<1>2. place' = "run"
  BY <1>1, ReadGives, ShellAssumption DEF Goto, IsDone, ShellAssumption
<1>3. QED
  BY <1>1, <1>2, TablesStay DEF AfterOut, AfterIn

LEMMA RunCommandPreserves ==
  ASSUME Typed, Sound, Script, RunCommand
  PROVE  Script'
<1>1. /\ shell \in running /\ place = "run" /\ place' \in {"prompt", "exit"}
      /\ UNCHANGED <<vars, file, fds>>
  BY DEF RunCommand, At
<1>2. QED
  BY <1>1, TablesStay DEF AfterOut, AfterIn

LEMMA ExitShellPreserves ==
  ASSUME Typed, Sound, Script, ExitShell
  PROVE  Script'
<1>1. /\ shell \notin running' /\ m_files' = m_files /\ UNCHANGED <<file, script>>
  BY DEF ExitShell, Exit
<1>2. QED
  BY <1>1 DEF Script, ScriptType, FilesTyped, WhileRunning, script

\* The steps of an open that come before its result.
LEMMA OpeningPreserves ==
  ASSUME Typed, Sound, Script, Opening
  PROVE  Script'
<1>1. /\ shell \in running /\ shell \in Tasks /\ place \in DOMAIN Asks
      /\ MakesFile(shell, Asks[place]) /\ UNCHANGED script
      /\ FilesTyped /\ place \in Places /\ fds \in [Fields -> Int]
      /\ Occupied /\ Vacant /\ AtHand /\ Standard /\ Underway
      /\ place = "failed" => starved
  BY ShellAssumption
  DEF Opening, At, Script, ScriptType, WhileRunning, ShellAssumption
<1>2. Asks[place] \in Modes
  BY <1>1 DEF Asks, Modes
<1>3. /\ FilesTyped' /\ UNCHANGED <<m_descriptors, running>>
      /\ \A d \in DOMAIN m_files : file'[d] = file[d]
      /\ \A d \in Nat : HasMade(shell, d)' => file'[d] = Asks[place]
  <2>1. \A d \in Nat : HasMade(shell, d) => file[d] = Asks[place]
    BY <1>1 DEF Underway
  <2>2. PICK f \in Modes : f = Asks[place]
    BY <1>2
  <2>3. MakesFile(shell, f) /\ \A d \in Nat : HasMade(shell, d) => file[d] = f
    BY <1>1, <2>1, <2>2
  <2>4. /\ FilesTyped' /\ UNCHANGED <<m_descriptors, running>>
        /\ \A d \in DOMAIN m_files : file'[d] = file[d]
        /\ \A d \in Nat : HasMade(shell, d)' => file'[d] = f
    BY <1>1, <2>3, MakesFileEffect
  <2>5. QED
    BY <2>2, <2>4
<1>4. Keeps(OpenFds(shell)) /\ UNCHANGED <<place, fds, result, starved>>
  BY <1>1, <1>3, KeepsAll DEF script
<1>5. Occupied' /\ Vacant'
  BY <1>1, <1>3, <1>4 DEF Occupied, Vacant, Keeps
<1>6. AtHand'
  BY <1>1, <1>4 DEF AtHand, Opens, Keeps
<1>7. Standard'
  BY <1>1, <1>4 DEF Standard, Opens, Keeps
<1>8. Underway'
  BY <1>1, <1>3, <1>4 DEF Underway
<1>9. QED
  BY <1>1, <1>3, <1>4, <1>5, <1>6, <1>7, <1>8 DEF Script, ScriptType, WhileRunning

LEMMA OthersPreserve ==
  ASSUME Typed, Sound, Script, NEW t \in running \ {shell}, OtherOpens(t) \/ OtherCalls(t)
  PROVE  Script'
<1>1. FilesTyped /\ shell \in Tasks
  BY ShellAssumption DEF Script, ScriptType, ShellAssumption
<1>2. /\ FilesTyped' /\ (shell \in running' <=> shell \in running)
      /\ m_descriptors'[shell] = m_descriptors[shell]
      /\ opening'[shell] = opening[shell]
      /\ \A d \in DOMAIN m_files : file'[d] = file[d]
      /\ UNCHANGED <<place, fds, result, starved>>
  BY <1>1, OthersEffect DEF script
<1>3. Keeps(OpenFds(shell))
  BY <1>2, KeepsAll
<1>4. ScriptType' /\ (place' = "failed" => starved')
  BY <1>2 DEF Script, ScriptType
<1>5. ASSUME shell \in running
      PROVE  Occupied' /\ Vacant' /\ AtHand' /\ Standard' /\ Underway'
  <2>1. Occupied /\ Vacant /\ AtHand /\ Standard /\ Underway
    BY <1>5 DEF Script, WhileRunning
  <2>2. Occupied' /\ Vacant'
    BY <1>2, <1>3, <2>1 DEF Occupied, Vacant, Keeps
  <2>3. AtHand'
    BY <1>2, <1>3, <2>1 DEF AtHand, Opens, Keeps
  <2>4. Standard'
    BY <1>2, <1>3, <2>1 DEF Standard, Opens, Keeps
  <2>5. Underway'
    <3>1. \A d \in Nat : HasMade(shell, d)' => HasMade(shell, d)
      BY <1>2 DEF HasMade
    <3>2. \A d \in Nat : HasMade(shell, d) => file'[d] = file[d]
      BY <1>1, <1>2, MadeIsThere
    <3>3. QED
      BY <1>2, <2>1, <3>1, <3>2 DEF Underway, Idle
  <2>6. QED
    BY <2>2, <2>3, <2>4, <2>5
<1>6. QED
  BY <1>2, <1>4, <1>5 DEF Script, WhileRunning
-----------------------------------------------------------------------------
(***************************************************************************)
(* The tables that the shell starts with: every task has two descriptions. *)
(***************************************************************************)
n0 == Cardinality(Tasks)
Place(t) == CHOOSE i \in DOMAIN Order : Order[i] = t

LEMMA OrderIsBijection ==
  /\ n0 \in Nat /\ DOMAIN Order = 1 .. n0
  /\ \A t \in Tasks : Place(t) \in 1 .. n0 /\ Order[Place(t)] = t
  /\ \A i \in 1 .. n0 : Order[i] \in Tasks /\ Place(Order[i]) = i
<1>1. IsFiniteSet(Tasks)
  BY FileTableAssumption DEF FileTableAssumption
<1>2. n0 \in Nat /\ \E f : f \in Bijection(1 .. n0, Tasks)
  BY <1>1, FS_CardinalityType DEF n0, ExistsBijection
<1>3. \E s \in [1 .. n0 -> Tasks] : \A t \in Tasks : \E i \in DOMAIN s : s[i] = t
  BY <1>2 DEF Bijection, Surjection, Injection
<1>4. /\ Order \in [1 .. n0 -> Tasks]
      /\ \A t \in Tasks : \E i \in DOMAIN Order : Order[i] = t
  BY <1>3 DEF Order, n0
<1>5. \A t \in Tasks : Place(t) \in 1 .. n0 /\ Order[Place(t)] = t
  <2>1. SUFFICES ASSUME NEW t \in Tasks
                 PROVE  Place(t) \in DOMAIN Order /\ Order[Place(t)] = t
    BY <1>4
  <2>2. \E i \in DOMAIN Order : Order[i] = t
    BY <1>4
  <2>3. QED
    BY <2>2 DEF Place
<1>6. Order \in Injection(1 .. n0, Tasks)
  <2>1. IsFiniteSet(1 .. n0) /\ Cardinality(1 .. n0) = Cardinality(Tasks)
    BY <1>2, FS_Interval DEF n0
  <2>2. Order \in Surjection(1 .. n0, Tasks)
    BY <1>4 DEF Surjection
  <2>3. QED
    BY <1>1, <2>1, <2>2, FS_SurjSameCardinalityImpliesInj
<1>7. ASSUME NEW i \in 1 .. n0
      PROVE  Order[i] \in Tasks /\ Place(Order[i]) = i
  BY <1>4, <1>5, <1>6 DEF Injection, IsInjective
<1>8. QED
  BY <1>2, <1>4, <1>5, <1>7

LEMMA ShellInitEstablishes ==
  ASSUME ShellInit
  PROVE  Typed /\ Sound /\ Script
<1>1. /\ n0 \in Nat
      /\ \A t \in Tasks : Place(t) \in 1 .. n0 /\ Order[Place(t)] = t
      /\ \A i \in 1 .. n0 : Order[i] \in Tasks /\ Place(Order[i]) = i
  BY OrderIsBijection
<1>2. /\ m_files = [d \in 1 .. 2 * n0 |-> FileDescription]
      /\ file = [d \in 1 .. 2 * n0 |->
                   IF d % 2 = 1 THEN [device |-> "zero", mode |-> "Read"]
                   ELSE [device |-> "null", mode |-> "Write"]]
      /\ m_descriptors = [t \in Tasks |-> <<2 * Place(t) - 1, 2 * Place(t)>>]
      /\ running = Tasks
  BY DEF ShellInit, Null, n0, Place
<1>3. m_files \in Seq(Files) /\ Len(m_files) = 2 * n0 /\ DOMAIN m_files = 1 .. 2 * n0
  <2> HIDE DEF Files
  <2>1. QED
    BY <1>1, <1>2, NewIsFile
<1>4. \A t \in Tasks :
        /\ Len(m_descriptors[t]) = 2 /\ DOMAIN m_descriptors[t] = 1 .. 2
        /\ m_descriptors[t][1] = 2 * Place(t) - 1 /\ m_descriptors[t][2] = 2 * Place(t)
        /\ m_descriptors[t] \in Seq(0 .. 2 * n0)
  BY <1>1, <1>2
<1>5. m_count = 2 * n0 /\ \A t \in Tasks : opening[t] = [at |-> "none", d |-> nullptr]
  BY DEF ShellInit, n0
<1> DEFINE m == Len(m_files)
<1>6. Typed
  <2>1. opening \in [Tasks -> [at : {"none", "insert"} \cup InAppend, d : 0 .. m + 1]]
    BY <1>1, <1>3 DEF ShellInit, nullptr
  <2>2. mixed \in BOOLEAN
    BY Zenon DEF ShellInit
  <2>3. m_count \in 0 .. m /\ running \subseteq Tasks
    BY <1>1, <1>2, <1>3, <1>5
  <2>4. m_descriptors \in [Tasks -> Seq(0 .. m)]
    BY <1>2, <1>3, <1>4
  <2>5. \A t \in Tasks : opening[t].at = "none"
    BY <1>5
  <2>6. m_files \in Seq([m_ref_count : 0 .. RefModulus - 1, alive : BOOLEAN])
    BY <1>3 DEF Files
  <2>7. TypeOK
    BY <2>1, <2>2, <2>3, <2>4, <2>5, <2>6 DEF TypeOK
  <2>8. TablesFit
    BY <1>4, ShellAssumption DEF TablesFit, ShellAssumption
  <2>9. QED
    BY <2>7, <2>8 DEF Typed
<1>7. LedToIsNew
  BY <1>1, <1>2, <1>4 DEF LedToIsNew
<1>8. NoSharing
  <2>1. \A t \in Tasks : \A i, d \in Nat : Leads(t, i, d) => d \in {2 * Place(t) - 1, 2 * Place(t)}
    BY <1>4 DEF Leads
  <2>2. SUFFICES ASSUME NEW t \in Tasks, NEW u \in Tasks,
                        NEW i \in Nat, NEW j \in Nat, NEW d \in Nat,
                        Leads(t, i, d), Leads(u, j, d)
                 PROVE  t = u
    BY DEF NoSharing
  <2>3. Place(t) = Place(u)
    BY <1>1, <2>1, <2>2
  <2>4. QED
    BY <1>1, <2>3
<1>9. AliveIsLedTo
  <2>1. SUFFICES ASSUME NEW d \in 1 .. 2 * n0
                 PROVE  \E t \in Tasks, i \in 1 .. MaxFds : Leads(t, i, d)
    BY <1>3 DEF AliveIsLedTo
  <2>2. PICK k \in 1 .. n0 : d = 2 * k - 1 \/ d = 2 * k
    <3>1. (d + 1) \div 2 \in 1 .. n0
      BY <1>1
    <3>2. d = 2 * ((d + 1) \div 2) - 1 \/ d = 2 * ((d + 1) \div 2)
      OBVIOUS
    <3>3. QED
      BY <3>1, <3>2
  <2>3. Order[k] \in Tasks /\ Place(Order[k]) = k
    BY <1>1
  <2>4. Leads(Order[k], 1, d) \/ Leads(Order[k], 2, d)
    BY <1>4, <2>2, <2>3 DEF Leads
  <2>5. 1 \in 1 .. MaxFds /\ 2 \in 1 .. MaxFds
    BY ShellAssumption, FileTableAssumption DEF ShellAssumption, FileTableAssumption
  <2>6. QED
    BY <2>3, <2>4, <2>5
<1>10. FilesTyped
  <2>1. \A d \in 1 .. 2 * n0 : file[d] \in Modes
    BY <1>2 DEF Modes
  <2> HIDE DEF Modes
  <2>2. QED
    BY <1>1, <1>2, <1>3, <2>1 DEF FilesTyped
<1>11. Script
  <2>1. shell \in Tasks /\ Place(shell) \in 1 .. n0
    BY <1>1, ShellAssumption DEF ShellAssumption
  <2>2. STDIN \in OpenFds(shell) /\ STDOUT \in OpenFds(shell)
    BY <1>4, <2>1 DEF OpenFds, STDIN, STDOUT, nullptr
  <2>3. place = "open_read" /\ fds \in [Fields -> Int]
    BY DEF ShellInit, Fields, None
  <2>4. ScriptType
    BY <1>10, <2>3 DEF ScriptType, Places
  <2>5. WhileRunning
    <3>1. opening[shell].at = "none"
      BY <1>5, <2>1
    <3>2. Underway
      BY <3>1 DEF Underway, Idle, HasMade, Made
    <3>3. QED
      BY <2>2, <2>3, <3>2
      DEF WhileRunning, Occupied, Vacant, AtHand, Standard, AfterIn, AfterOut
  <2>6. QED
    BY <2>3, <2>4, <2>5 DEF Script
<1>12. MadeIsNew /\ OneAppends
  BY <1>3, <1>5 DEF MadeIsNew, OneAppends, HasMade, Counting, Made, InAppend
<1>13. QED
  BY <1>6, <1>7, <1>8, <1>9, <1>11, <1>12 DEF Sound
-----------------------------------------------------------------------------
LEMMA StepsAreOfTables ==
  ASSUME [ShellNext]_shellVars
  PROVE  [Next]_vars
<1>1. CASE UNCHANGED shellVars
  BY <1>1 DEF shellVars
<1>2. ASSUME NEW t \in running, NEW f, MakesFile(t, f)
      PROVE  [Next]_vars
  BY <1>2 DEF MakesFile, Makes, Next
<1>3. ASSUME shell \in running, Opened
      PROVE  [Next]_vars
  BY <1>3 DEF Opened, Next
<1>4. ASSUME NEW fd, shell \in running, Closed(fd) \/ Duplicated(fd)
      PROVE  [Next]_vars
  BY <1>4 DEF Closed, Duplicated, Next, close, dup
<1>5. CASE Opening
  BY <1>2, <1>5 DEF Opening, At
<1>6. CASE OpenUartRead \/ OpenUartWrite \/ OpenDisplay
  BY <1>3, <1>6 DEF OpenUartRead, OpenUartWrite, OpenDisplay, At
<1>7. CASE CloseIn \/ DupIn \/ CloseOut \/ DupOut \/ CloseDisplay
  BY <1>4, <1>7 DEF CloseIn, DupIn, CloseOut, DupOut, CloseDisplay, At
<1>8. CASE WriteDisplay \/ Buffer \/ Prompt \/ ReadCommand \/ RunCommand
  BY <1>8 DEF WriteDisplay, Buffer, Prompt, ReadCommand, RunCommand, Written, Read
<1>9. CASE ExitShell
  BY <1>9 DEF ExitShell, At, Next
<1>10. ASSUME NEW t \in running \ {shell}, OtherOpens(t) \/ OtherCalls(t)
       PROVE  [Next]_vars
  <2>1. CASE OtherOpens(t)
    BY <1>2, <2>1 DEF OtherOpens, Next
  <2>2. CASE OtherCalls(t)
    BY <2>2 DEF OtherCalls, Next
  <2>3. QED
    BY <1>10, <2>1, <2>2
<1>11. QED
  BY <1>1, <1>5, <1>6, <1>7, <1>8, <1>9, <1>10 DEF ShellNext

LEMMA ShellNextPreserves ==
  ASSUME FInv, ScriptInv, [ShellNext]_shellVars
  PROVE  ScriptInv'
<1>1. SUFFICES ASSUME ~mixed'
               PROVE  Script'
  BY DEF ScriptInv
<1>2. Typed /\ Sound /\ Script
  BY <1>1, StepsAreOfTables, MixedStays DEF FInv, ScriptInv
<1>3. CASE UNCHANGED shellVars
  BY <1>2, <1>3
  DEF shellVars, script, vars, Script, ScriptType, FilesTyped, WhileRunning, Occupied,
      Vacant, AtHand, Standard, Underway, Idle, HasMade, Opens, OpenFds
<1>4. ASSUME NEW t \in running \ {shell}, OtherOpens(t) \/ OtherCalls(t)
      PROVE  Script'
  BY <1>2, <1>4, OthersPreserve
<1>5. CASE Opening \/ OpenUartRead \/ OpenUartWrite \/ CloseIn \/ DupIn \/ CloseOut \/ DupOut
  BY <1>2, <1>5, OpeningPreserves, OpenReadPreserves, OpenWritePreserves, CloseInPreserves,
     DupInPreserves, CloseOutPreserves, DupOutPreserves
<1>6. CASE OpenDisplay \/ WriteDisplay \/ CloseDisplay \/ Buffer \/ Prompt \/ ReadCommand
           \/ RunCommand \/ ExitShell
  BY <1>2, <1>6, OpenDisplayPreserves, WriteDisplayPreserves, CloseDisplayPreserves,
     BufferPreserves, PromptPreserves, ReadCommandPreserves, RunCommandPreserves,
     ExitShellPreserves
<1>7. QED
  BY <1>3, <1>4, <1>5, <1>6 DEF ShellNext

LEMMA ShellInitHolds ==
  ASSUME ShellInit
  PROVE  FInv /\ ScriptInv
BY ShellInitEstablishes DEF FInv, ScriptInv

LEMMA ShellKeepsInvariant ==
  ASSUME ~CloseShared
  PROVE  ShellSpec => [](FInv /\ ScriptInv)
<1>1. ShellInit => FInv /\ ScriptInv
  BY ShellInitHolds
<1>2. FInv /\ ScriptInv /\ [ShellNext]_shellVars => (FInv /\ ScriptInv)'
  BY StepsAreOfTables, NextPreserves, ShellNextPreserves
<1>3. QED
  BY <1>1, <1>2, PTL DEF ShellSpec

LEMMA ScriptImplies == FInv /\ ScriptInv => StdioIsUart /\ FailsOnlyWithoutMemory
<1>1. FInv /\ ScriptInv => FailsOnlyWithoutMemory
  BY DEF ScriptInv, Script, FailsOnlyWithoutMemory
<1>2. SUFFICES ASSUME FInv, ScriptInv, ~mixed, shell \in running,
                      place \in {"buffer", "prompt", "read", "run"}
               PROVE  LET in == m_descriptors[shell][STDIN]
                          out == m_descriptors[shell][STDOUT]
                      IN  /\ {STDIN, STDOUT} \subseteq OpenFds(shell)
                          /\ Device(in) = "uart0" /\ CanRead(in) /\ m_files[in].alive
                          /\ Device(out) = "uart0" /\ CanWrite(out) /\ m_files[out].alive
  BY <1>1 DEF StdioIsUart
<1>3. Typed /\ Sound /\ Script
  BY <1>2 DEF FInv, ScriptInv
<1>4. Opens(STDIN, "uart0", "Read") /\ Opens(STDOUT, "uart0", "Write")
  BY <1>2, <1>3 DEF Script, WhileRunning, Standard, AfterIn, AfterOut
<1>5. QED
  BY <1>3, <1>4, OpenAreAlive DEF Opens, Device, Mode, CanRead, CanWrite

\* The tables stay sound while the shell sets itself up and runs, from the state in which
\* every task has opened /dev/zero and /dev/null, whatever steps of the opens of other
\* tasks come between, until an open begins in the middle of another's append.
THEOREM ShellFilesInvariant ==
  ASSUME ~CloseShared
  PROVE  ShellSpec => []FilesInv
BY ShellKeepsInvariant, InvariantImplies, PTL

\* Descriptors 0 and 1 of the shell are the UART's for reading and for writing, and are
\* alive, from the end of setup_uart_as_stdio to exit, until opens are mixed.
THEOREM StdioStaysUart ==
  ASSUME ~CloseShared
  PROVE  ShellSpec => []StdioIsUart
<1>1. FInv /\ ScriptInv => StdioIsUart
  BY ScriptImplies
<1>2. QED
  BY <1>1, ShellKeepsInvariant, PTL

\* Every assertion of the shell holds unless an allocation has failed or opens were mixed.
THEOREM AssertionsNeedMemory ==
  ASSUME ~CloseShared
  PROVE  ShellSpec => []FailsOnlyWithoutMemory
<1>1. FInv /\ ScriptInv => FailsOnlyWithoutMemory
  BY ScriptImplies
<1>2. QED
  BY <1>1, ShellKeepsInvariant, PTL

\* read() in lib.cpp puts its zero behind what was read and inside the buffer: no read of
\* the shell fails, and none fills the buffer, until opens are mixed.
ZeroInside == place = "read" /\ place' # place /\ ~mixed => result' \in 0 .. BufSize - 1

LEMMA NextReads ==
  ASSUME FInv, ScriptInv, ShellNext
  PROVE  ZeroInside
<1>1. SUFFICES ASSUME place = "read", place' # place, ~mixed
               PROVE  result' \in 0 .. BufSize - 1
  BY DEF ZeroInside
<1>2. Typed /\ Sound /\ Script
  BY <1>1 DEF FInv, ScriptInv
<1>3. ReadCommand
  BY <1>1
  DEF ShellNext, Opening, OpenUartRead, OpenUartWrite, CloseIn, DupIn, CloseOut, DupOut,
      OpenDisplay, WriteDisplay, CloseDisplay, Buffer, Prompt, RunCommand, ExitShell, At,
      OtherOpens, OtherCalls, script
<1>4. QED
  BY <1>2, <1>3, ReadGives

\* The zero that read() writes without looking at the result is always in the shell's
\* buffer, until opens are mixed: no read fails, and none is asked for the last byte.
THEOREM ZeroStaysInBuffer ==
  ASSUME ~CloseShared
  PROVE  ShellSpec => ZeroIsInBuffer
<1>1. FInv /\ ScriptInv /\ [ShellNext]_shellVars => [ZeroInside]_shellVars
  BY NextReads
<1>2. QED
  BY <1>1, ShellKeepsInvariant, PTL DEF ShellSpec, ZeroIsInBuffer, ZeroInside

\* Nothing that the shell or another task calls moves an open descriptor, however the
\* steps of their opens are mixed.
THEOREM ShellDescriptorsStay == ShellSpec => DescriptorsAreStable
<1>1. ShellInit => Typed
  BY ShellInitEstablishes
<1>2. Typed /\ [ShellNext]_shellVars => Typed'
  BY StepsAreOfTables, NextKeepsTypes
<1>3. Typed /\ [ShellNext]_shellVars => [Stay]_vars
  BY StepsAreOfTables, NextStays
<1>4. QED
  BY <1>1, <1>2, <1>3, PTL DEF ShellSpec, DescriptorsAreStable, Stay
=============================================================================
